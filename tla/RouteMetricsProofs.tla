------------------------- MODULE RouteMetricsProofs -------------------------
(***************************************************************************)
(* Proofs about RouteMetrics, for any relays, any counters and any amount  *)
(* of traffic, with resets, reloads and crashes at any step.               *)
(***************************************************************************)
EXTENDS RouteMetrics, TLAPS

-----------------------------------------------------------------------------
(* The inductive invariant.                                                  *)

\* No total anywhere exceeds what was relayed.
Bounded ==
    /\ \A i \in Counters : bytes[i] <= relayed
    /\ \A f \in Flushers : job[f].value <= relayed
    /\ file # None => file.value <= relayed
    /\ tmp # None => tmp.value <= relayed

\* A flusher at work has a counter, in a process that runs.  Unless flushes have
\* overlapped it is the only one, and the counter is the route's.
Flushing ==
    /\ \A f \in Flushers : job[f].pc # "idle" => job[f].counter \in Counters /\ up
    /\ cur # None => up
    /\ ~overlapped =>
         \A f \in Flushers : job[f].pc # "idle" =>
           /\ job[f].counter = cur /\ cur # None
           /\ \A g \in Flushers : job[g].pc # "idle" => g = f

\* The file is never open, and the temporary only to the flush that writes it.
Whole ==
    ~overlapped =>
      /\ file # None => Readable(file)
      /\ tmp # None => \A f \in Flushers : f \in tmp.writers => job[f].pc = "write"
      /\ \A f \in Flushers :
           /\ job[f].pc = "write" => tmp # None /\ f \in tmp.writers
           /\ job[f].pc = "rename" => tmp # None /\ tmp.value = job[f].value

\* The counter is marked dirty, or is about to be.
Unsettled(i) == dirty[i] \/ \E r \in counted : handle[r] = i

\* The route's total is on disk, on its way there, or due to be flushed again.
Kept ==
    ~overlapped /\ cur # None =>
      /\ (\A f \in Flushers : job[f].pc \in {"idle", "schedule", "swap"})
           => Unsettled(cur) \/ Loaded = bytes[cur]
      /\ \A f \in Flushers : job[f].pc \in {"open", "write", "rename"}
           => Unsettled(cur) \/ job[f].value = bytes[cur]

IInv == TypeOK /\ Bounded /\ Flushing /\ Whole /\ Kept

-----------------------------------------------------------------------------
(* What the flush steps do to a flusher's job and to an inode.               *)

Jobs == [pc : {"idle", "schedule", "zero", "mark", "swap", "load", "open", "write", "rename"},
         counter : Counters \cup {None}, value : Nat, then : {"nothing", "drop"}]

JobBecomes(f, label, i, n, then) ==
    /\ job' \in [Flushers -> Jobs]
    /\ job'[f].pc = label /\ job'[f].counter = i /\ job'[f].value = n /\ job'[f].then = then
    /\ \A g \in Flushers : g # f => job'[g] = job[g]

\* A flush goes on, loads, ends or begins.
LEMMA JobEffects ==
    ASSUME TypeOK, NEW f \in Flushers
    PROVE  /\ \A label \in {"zero", "mark", "swap", "load", "write", "rename"} :
                Become(f, label) =>
                  JobBecomes(f, label, job[f].counter, job[f].value, job[f].then)
           /\ Finish(f) => JobBecomes(f, "idle", None, 0, "nothing")
           /\ Load(f) /\ job[f].counter \in Counters =>
                JobBecomes(f, "open", job[f].counter, bytes[job[f].counter], job[f].then)
           /\ \A label \in {"schedule", "zero", "swap"}, then \in {"nothing", "drop"} :
                Begin(f, label, then) => JobBecomes(f, label, cur, 0, then)
<1>1. job \in [Flushers -> Jobs] /\ cur \in Counters \cup {None} /\ bytes \in [Counters -> Nat]
  BY DEF TypeOK, Jobs
<1>2. ASSUME NEW label \in {"zero", "mark", "swap", "load", "write", "rename"}, Become(f, label)
      PROVE  JobBecomes(f, label, job[f].counter, job[f].value, job[f].then)
  BY <1>1, <1>2 DEF Become, JobBecomes, Jobs
<1>3. ASSUME Finish(f)
      PROVE  JobBecomes(f, "idle", None, 0, "nothing")
  BY <1>1, <1>3 DEF Finish, NoJob, JobBecomes, Jobs
<1>4. ASSUME Load(f), job[f].counter \in Counters
      PROVE  JobBecomes(f, "open", job[f].counter, bytes[job[f].counter], job[f].then)
  <2>1. /\ job'[f] = [pc |-> "open", counter |-> job[f].counter,
                      value |-> bytes[job[f].counter], then |-> job[f].then]
        /\ \A g \in Flushers : g # f => job'[g] = job[g]
    BY <1>1, <1>4, Zenon DEF Load, Jobs
  <2>2. job' = [g \in Flushers |-> job'[g]]
    BY <1>1, <1>4, Zenon DEF Load
  <2>3. \A g \in Flushers : job'[g] \in Jobs
    BY <1>1, <1>4, <2>1 DEF Jobs
  <2> QED BY <2>1, <2>2, <2>3 DEF JobBecomes
<1>5. ASSUME NEW label \in {"schedule", "zero", "swap"}, NEW then \in {"nothing", "drop"},
             Begin(f, label, then)
      PROVE  JobBecomes(f, label, cur, 0, then)
  BY <1>1, <1>5 DEF Begin, JobBecomes, Jobs
<1> QED BY <1>2, <1>3, <1>4, <1>5

\* An inode, if there is one, has the writers gone no more and holds n.
InodeBecomes(inode, after, gone, n) ==
    /\ after \in Inodes \cup {None}
    /\ after = None <=> inode = None
    /\ inode # None => after.writers = inode.writers \ gone /\ after.value = n

\* A flush writes to an inode it has open, or gives it up; a crash closes it as it is.
LEMMA InodeEffects ==
    ASSUME None \notin Inodes, NEW f \in Flushers, job[f].value \in Nat,
           NEW inode \in Inodes \cup {None}, NEW after
    PROVE  /\ after = Filled(inode, f) =>
                InodeBecomes(inode, after, {f},
                             IF f \in inode.writers THEN job[f].value ELSE inode.value)
           /\ after = (IF inode # None /\ f \in inode.writers
                         THEN [inode EXCEPT !.writers = @ \ {f}] ELSE inode) =>
                InodeBecomes(inode, after, {f}, inode.value)
           /\ after = (IF inode = None THEN None ELSE [inode EXCEPT !.writers = {}]) =>
                InodeBecomes(inode, after, Flushers, inode.value)
<1>1. CASE inode = None
  BY <1>1 DEF Filled, InodeBecomes
<1>2. CASE inode # None
  <2>1. /\ inode.writers \in SUBSET Flushers /\ inode.value \in Nat \cup {Torn}
        /\ inode = [writers |-> inode.writers, value |-> inode.value]
    BY <1>2 DEF Inodes
  <2>2. /\ [inode EXCEPT !.writers = @ \ {f}]
             = [writers |-> inode.writers \ {f}, value |-> inode.value]
        /\ [inode EXCEPT !.writers = {}] = [writers |-> {}, value |-> inode.value]
    BY <1>2, <2>1, SMTT(30) DEF Inodes
  <2>3. \A w \in SUBSET Flushers, n \in Nat \cup {Torn} :
          LET made == [writers |-> w, value |-> n]
          IN  made \in Inodes /\ made # None /\ made.writers = w /\ made.value = n
    BY DEF Inodes
  <2>4. /\ inode.writers \ {f} \in SUBSET Flushers /\ {} \in SUBSET Flushers
        /\ inode.writers \ Flushers = {}
    BY <2>1
  <2> QED BY <1>2, <2>1, <2>2, <2>3, <2>4 DEF Filled, InodeBecomes
<1> QED BY <1>1, <1>2

\* What is what, from the types.
Facts ==
    /\ relayed \in Nat /\ bytes \in [Counters -> Nat] /\ dirty \in [Counters -> BOOLEAN]
    /\ job \in [Flushers -> Jobs] /\ cur \in Counters \cup {None}
    /\ \A f \in Flushers : job[f].value \in Nat
    /\ tmp \in Inodes \cup {None} /\ file \in Inodes \cup {None}
    /\ \A inode \in {file, tmp} : inode # None =>
         inode \in Inodes /\ inode.value \in Int /\ inode.writers \subseteq Flushers
    /\ Loaded \in Nat /\ Loaded <= relayed

\* The facts about types that the steps below use.
LEMMA Known == IInv => Facts
<1> SUFFICES ASSUME IInv PROVE Facts
  OBVIOUS
<1>1. \A inode \in {file, tmp} : inode # None =>
         /\ inode \in Inodes /\ inode.value \in Nat \cup {-1} /\ inode.writers \subseteq Flushers
  BY DEF IInv, TypeOK, Inodes, Torn
<1>2. Loaded \in Nat /\ Loaded <= relayed
  BY <1>1 DEF IInv, TypeOK, Bounded, Loaded, Readable, Torn
<1>3. job \in [Flushers -> Jobs] /\ \A f \in Flushers : job[f].value \in Nat
  BY DEF IInv, TypeOK, Jobs
<1> QED BY <1>1, <1>2, <1>3 DEF IInv, TypeOK, Facts

-----------------------------------------------------------------------------
(* Every step keeps the invariant.                                           *)

\* A relay takes the route's counter, if there is one.
LEMMA AttachStep ==
    ASSUME None \notin Inodes, IInv, NEW r \in Relays, Attach(r)
    PROVE  IInv'
<1>1. Facts /\ TypeOK /\ Bounded /\ Flushing /\ Whole /\ Kept
  BY Known DEF IInv
<1>2. TypeOK'
  BY <1>1 DEF Attach, mem, disk, history, At, TypeOK, Jobs
<1>3. Bounded'
  BY <1>1, Zenon DEF Attach, mem, disk, history, Bounded
<1>4. Flushing'
  BY <1>1, Zenon DEF Attach, mem, disk, history, Flushing
<1>5. Whole'
  BY <1>1, Zenon DEF Attach, mem, disk, history, Whole
<1>6. Kept'
  BY <1>1 DEF Attach, mem, disk, history, At, Kept, Unsettled, Loaded, Facts
<1> QED BY <1>2, <1>3, <1>4, <1>5, <1>6 DEF IInv

\* A byte is counted once, in the counter and in what was relayed.
LEMMA CountStep ==
    ASSUME None \notin Inodes, IInv, NEW r \in Relays, Count(r)
    PROVE  IInv'
<1>1. Facts /\ TypeOK /\ Bounded /\ Flushing /\ Whole /\ Kept
  BY Known DEF IInv
<1>2. TypeOK'
  BY <1>1 DEF Count, mem, disk, history, At, TypeOK, Jobs
<1>3. Bounded'
  BY <1>1 DEF Count, mem, disk, history, At, Bounded, Facts
<1>4. Flushing'
  BY <1>1, Zenon DEF Count, mem, disk, history, Flushing
<1>5. Whole'
  BY <1>1, Zenon DEF Count, mem, disk, history, Whole
<1>6. Kept'
  BY <1>1 DEF Count, mem, disk, history, At, Kept, Unsettled, Loaded, Facts
<1> QED BY <1>2, <1>3, <1>4, <1>5, <1>6 DEF IInv

\* What was about to be marked dirty is.
LEMMA MarkStep ==
    ASSUME None \notin Inodes, IInv, NEW r \in Relays, Mark(r)
    PROVE  IInv'
<1>1. Facts /\ TypeOK /\ Bounded /\ Flushing /\ Whole /\ Kept
  BY Known DEF IInv
<1>2. TypeOK'
  BY <1>1, Zenon DEF Mark, mem, disk, history, At, TypeOK, Jobs
<1>3. Bounded'
  BY <1>1, Zenon DEF Mark, mem, disk, history, Bounded
<1>4. Flushing'
  BY <1>1, Zenon DEF Mark, mem, disk, history, Flushing
<1>5. Whole'
  BY <1>1, Zenon DEF Mark, mem, disk, history, Whole
<1>6. Kept'
  BY <1>1 DEF Mark, mem, disk, history, At, Kept, Unsettled, Loaded, Facts
<1> QED BY <1>2, <1>3, <1>4, <1>5, <1>6 DEF IInv

\* A relay that has marked what it counted lets its counter go.
LEMMA DetachStep ==
    ASSUME None \notin Inodes, IInv, NEW r \in Relays, Detach(r)
    PROVE  IInv'
<1>1. Facts /\ TypeOK /\ Bounded /\ Flushing /\ Whole /\ Kept
  BY Known DEF IInv
<1>2. TypeOK'
  BY <1>1 DEF Detach, mem, disk, history, At, TypeOK, Jobs
<1>3. Bounded'
  BY <1>1, Zenon DEF Detach, mem, disk, history, Bounded
<1>4. Flushing'
  BY <1>1, Zenon DEF Detach, mem, disk, history, Flushing
<1>5. Whole'
  BY <1>1, Zenon DEF Detach, mem, disk, history, Whole
<1>6. Kept'
  BY <1>1 DEF Detach, mem, disk, history, At, Kept, Unsettled, Loaded, Facts
<1> QED BY <1>2, <1>3, <1>4, <1>5, <1>6 DEF IInv

\* A flush that found the counter clean leaves a file that is up to date.
LEMMA SwapDirtyStep ==
    ASSUME None \notin Inodes, IInv, NEW f \in Flushers, SwapDirty(f)
    PROVE  IInv'
<1>1. Facts /\ TypeOK /\ Bounded /\ Flushing /\ Whole /\ Kept
  BY Known DEF IInv
<1>2. \/ /\ f = "ticker" /\ ~dirty[job[f].counter] /\ JobBecomes(f, "idle", None, 0, "nothing")
         /\ cur' = IF job[f].then = "drop" THEN None ELSE cur
      \/ JobBecomes(f, "load", job[f].counter, job[f].value, job[f].then) /\ cur' = cur
  BY <1>1, JobEffects, Zenon DEF SwapDirty, Finish
<1>3. /\ job[f].pc # "idle" /\ job[f].counter \in Counters
      /\ ~overlapped => /\ job[f].counter = cur /\ cur # None
                         /\ \A g \in Flushers : g # f => job[g].pc = "idle"
  BY <1>1 DEF Flushing, At, SwapDirty
<1>4. TypeOK'
  BY <1>1, <1>2, <1>3 DEF SwapDirty, mem, disk, history, At, JobBecomes, TypeOK, Jobs
<1>5. Bounded'
  BY <1>1, <1>2, <1>3 DEF SwapDirty, mem, disk, history, At, JobBecomes, Bounded, Facts
<1>6. Flushing'
  BY <1>1, <1>2, <1>3 DEF SwapDirty, mem, disk, history, At, JobBecomes, Flushing, Facts
<1>7. Whole'
  BY <1>1, <1>2, <1>3 DEF SwapDirty, mem, disk, history, At, JobBecomes, Whole, Facts
<1>8. Kept'
  BY <1>1, <1>2, <1>3 DEF SwapDirty, mem, disk, history, At, JobBecomes, Kept,
     Unsettled, Loaded, Facts
<1> QED BY <1>4, <1>5, <1>6, <1>7, <1>8 DEF IInv

\* The flush takes the total as it is now.
LEMMA LoadStep ==
    ASSUME None \notin Inodes, IInv, NEW f \in Flushers, Load(f)
    PROVE  IInv'
<1>1. Facts /\ TypeOK /\ Bounded /\ Flushing /\ Whole /\ Kept
  BY Known DEF IInv
<1>2. JobBecomes(f, "open", job[f].counter, bytes[job[f].counter], job[f].then)
  BY <1>1, JobEffects, Zenon DEF Load, At, Flushing
<1>3. /\ job[f].pc # "idle" /\ job[f].counter \in Counters
      /\ ~overlapped => /\ job[f].counter = cur /\ cur # None
                         /\ \A g \in Flushers : g # f => job[g].pc = "idle"
  BY <1>1 DEF Flushing, At, Load
<1>4. TypeOK'
  BY <1>1, <1>2, <1>3 DEF Load, mem, disk, history, At, JobBecomes, TypeOK, Jobs
<1>5. Bounded'
  BY <1>1, <1>2, <1>3 DEF Load, mem, disk, history, At, JobBecomes, Bounded, Facts
<1>6. Flushing'
  BY <1>1, <1>2, <1>3 DEF Load, mem, disk, history, At, JobBecomes, Flushing, Facts
<1>7. Whole'
  BY <1>1, <1>2, <1>3 DEF Load, mem, disk, history, At, JobBecomes, Whole, Facts
<1>8. Kept'
  BY <1>1, <1>2, <1>3 DEF Load, mem, disk, history, At, JobBecomes, Kept, Unsettled,
     Loaded, Facts
<1> QED BY <1>4, <1>5, <1>6, <1>7, <1>8 DEF IInv

\* Only this flush has the temporary open.
LEMMA OpenStep ==
    ASSUME None \notin Inodes, IInv, NEW f \in Flushers, Open(f)
    PROVE  IInv'
<1>1. Facts /\ TypeOK /\ Bounded /\ Flushing /\ Whole /\ Kept
  BY Known DEF IInv
<1>2. JobBecomes(f, "write", job[f].counter, job[f].value, job[f].then)
  BY <1>1, JobEffects, Zenon DEF Open
<1>3. /\ job[f].pc # "idle" /\ job[f].counter \in Counters
      /\ ~overlapped => /\ job[f].counter = cur /\ cur # None
                         /\ \A g \in Flushers : g # f => job[g].pc = "idle"
  BY <1>1 DEF Flushing, At, Open
<1>4. /\ tmp' \in Inodes /\ tmp'.value = -1 /\ f \in tmp'.writers
      /\ \A g \in Flushers : g # f /\ g \in tmp'.writers => tmp # None /\ g \in tmp.writers
      /\ file' = file /\ bytes' = bytes /\ relayed' = relayed /\ overlapped' = overlapped
  BY <1>1, <1>2 DEF Open, mem, history, Facts, Inodes, Torn
<1>5. TypeOK'
  BY <1>1, <1>2, <1>3, <1>4 DEF Open, mem, history, JobBecomes, TypeOK, Jobs
<1>6. Bounded'
  BY <1>1, <1>2, <1>3, <1>4 DEF JobBecomes, Bounded, Facts
<1>7. Flushing'
  BY <1>1, <1>2, <1>3, <1>4 DEF Open, mem, disk, history, At, JobBecomes, Flushing,
     Facts
<1>8. Whole'
  BY <1>1, <1>2, <1>3, <1>4, Zenon DEF Open, At, JobBecomes, Whole, Facts
<1>9. Kept'
  BY <1>1, <1>2, <1>3, <1>4 DEF Open, mem, disk, history, At, JobBecomes, Kept,
     Unsettled, Loaded, Facts
<1> QED BY <1>5, <1>6, <1>7, <1>8, <1>9 DEF IInv

\* The flush writes to the temporary, which nobody has renamed.
LEMMA WriteStep ==
    ASSUME None \notin Inodes, IInv, NEW f \in Flushers, Write(f)
    PROVE  IInv'
<1>1. Facts /\ TypeOK /\ Bounded /\ Flushing /\ Whole /\ Kept
  BY Known DEF IInv
<1>2. JobBecomes(f, "rename", job[f].counter, job[f].value, job[f].then)
  BY <1>1, JobEffects, Zenon DEF Write
<1>3. /\ job[f].pc # "idle" /\ job[f].counter \in Counters
      /\ ~overlapped => /\ job[f].counter = cur /\ cur # None
                         /\ \A g \in Flushers : g # f => job[g].pc = "idle"
  BY <1>1 DEF Flushing, At, Write
<1>4. InodeBecomes(tmp, tmp', {f},
                   IF f \in tmp.writers THEN job[f].value ELSE tmp.value)
  BY <1>1, InodeEffects, Zenon DEF Write, Facts
<1>5. InodeBecomes(file, file', {f},
                   IF f \in file.writers THEN job[f].value ELSE file.value)
  BY <1>1, InodeEffects, Zenon DEF Write, Facts
<1>6. /\ bytes' = bytes /\ relayed' = relayed /\ overlapped' = overlapped
      /\ (~overlapped => file' = file)
  BY <1>1 DEF Write, mem, history, Filled, Whole, Readable
<1>7. TypeOK'
  BY <1>1, <1>2, <1>3, <1>4, <1>5, <1>6 DEF InodeBecomes, Write, mem, history,
     JobBecomes, TypeOK, Jobs
<1>8. Bounded'
  BY <1>1, <1>2, <1>3, <1>4, <1>5, <1>6 DEF InodeBecomes, JobBecomes, Bounded, Facts
<1>9. Flushing'
  BY <1>1, <1>2, <1>3, <1>4, <1>5, <1>6 DEF Write, mem, disk, history, At, JobBecomes,
     Flushing, Facts
<1>10. Whole'
  BY <1>1, <1>2, <1>3, <1>4, <1>5, <1>6 DEF InodeBecomes, Write, At, JobBecomes, Whole,
     Facts
<1>11. Kept'
  BY <1>1, <1>2, <1>3, <1>4, <1>5, <1>6 DEF Write, mem, disk, history, At, JobBecomes,
     Kept, Unsettled, Loaded, Facts
<1> QED BY <1>7, <1>8, <1>9, <1>10, <1>11 DEF IInv

\* The file becomes what this flush has written.
LEMMA RenameStep ==
    ASSUME None \notin Inodes, IInv, NEW f \in Flushers, Rename(f)
    PROVE  IInv'
<1>1. Facts /\ TypeOK /\ Bounded /\ Flushing /\ Whole /\ Kept
  BY Known DEF IInv
<1>2. /\ JobBecomes(f, "idle", None, 0, "nothing")
      /\ cur' = IF job[f].then = "drop" THEN None ELSE cur
  BY <1>1, JobEffects, Zenon DEF Rename, Finish
<1>3. /\ job[f].pc # "idle" /\ job[f].counter \in Counters
      /\ ~overlapped => /\ job[f].counter = cur /\ cur # None
                         /\ \A g \in Flushers : g # f => job[g].pc = "idle"
  BY <1>1 DEF Flushing, At, Rename
<1>4. ~overlapped => Readable(tmp) /\ Loaded' = job[f].value
  BY <1>1, <1>3 DEF Rename, At, Whole, Facts, Readable, Torn, Loaded
<1>5. TypeOK'
  BY <1>1, <1>2, <1>3, <1>4 DEF Rename, mem, disk, history, At, JobBecomes, TypeOK, Jobs
<1>6. Bounded'
  BY <1>1, <1>2, <1>3, <1>4 DEF Rename, mem, disk, history, At, JobBecomes, Bounded,
     Facts
<1>7. Flushing'
  BY <1>1, <1>2, <1>3, <1>4 DEF Rename, mem, disk, history, At, JobBecomes, Flushing,
     Facts
<1>8. Whole'
  BY <1>1, <1>2, <1>3, <1>4 DEF Rename, history, JobBecomes, Whole, Facts
<1>9. Kept'
  BY <1>1, <1>2, <1>3, <1>4 DEF Rename, At, mem, history, JobBecomes, Kept, Unsettled,
     Facts
<1> QED BY <1>5, <1>6, <1>7, <1>8, <1>9 DEF IInv

\* After a failed write the counter is dirty and the file is as it was.
LEMMA DiskFailsStep ==
    ASSUME None \notin Inodes, IInv, NEW f \in Flushers, DiskFails(f)
    PROVE  IInv'
<1>1. Facts /\ TypeOK /\ Bounded /\ Flushing /\ Whole /\ Kept
  BY Known DEF IInv
<1>2. /\ JobBecomes(f, "idle", None, 0, "nothing")
      /\ cur' = IF job[f].then = "drop" THEN None ELSE cur
  BY <1>1, JobEffects, Zenon DEF DiskFails, Finish
<1>3. /\ job[f].pc # "idle" /\ job[f].counter \in Counters
      /\ ~overlapped => /\ job[f].counter = cur /\ cur # None
                         /\ \A g \in Flushers : g # f => job[g].pc = "idle"
  BY <1>1 DEF Flushing, At, DiskFails
<1>4. InodeBecomes(tmp, tmp', {f}, tmp.value)
  BY <1>1, InodeEffects, Zenon DEF DiskFails, Facts
<1>5. InodeBecomes(file, file', {f}, file.value)
  BY <1>1, InodeEffects, Zenon DEF DiskFails, Facts
<1>6. overlapped' = overlapped /\ (~overlapped => file' = file)
  BY <1>1 DEF DiskFails, history, Whole, Readable
<1>7. TypeOK'
  BY <1>1, <1>2, <1>3, <1>4, <1>5, <1>6 DEF InodeBecomes, DiskFails, history,
     JobBecomes, TypeOK, Jobs
<1>8. Bounded'
  BY <1>1, <1>2, <1>3, <1>4, <1>5, <1>6 DEF DiskFails, history, InodeBecomes,
     JobBecomes, Bounded, Facts
<1>9. Flushing'
  BY <1>1, <1>2, <1>3, <1>4, <1>5, <1>6 DEF DiskFails, mem, disk, history, At,
     JobBecomes, Flushing, Facts
<1>10. Whole'
  BY <1>1, <1>2, <1>3, <1>4, <1>5, <1>6 DEF InodeBecomes, JobBecomes, Whole, Facts
<1>11. Kept'
  BY <1>1, <1>2, <1>3, <1>4, <1>5, <1>6 DEF DiskFails, mem, disk, history, At,
     JobBecomes, Kept, Unsettled, Loaded, Facts
<1> QED BY <1>7, <1>8, <1>9, <1>10, <1>11 DEF IInv

\* A flush begins with the route's counter; another one that is under way overlaps.
LEMMA BeginStep ==
    ASSUME None \notin Inodes, IInv, NEW f \in Flushers, NEW label \in {"schedule", "zero", "swap"},
           NEW then \in {"nothing", "drop"}, job[f].pc = "idle",
           cur # None, up, Begin(f, label, then)
    PROVE  IInv'
<1>1. Facts /\ TypeOK /\ Bounded /\ Flushing /\ Whole /\ Kept
  BY Known DEF IInv
<1>2. JobBecomes(f, label, cur, 0, then)
  BY <1>1, JobEffects, Zenon DEF Begin
<1>3. TypeOK'
  BY <1>1, <1>2 DEF Begin, mem, disk, history, At, JobBecomes, TypeOK, Jobs
<1>4. Bounded'
  BY <1>1, <1>2 DEF Begin, mem, disk, history, At, JobBecomes, Bounded, Facts
<1>5. Flushing'
  BY <1>1, <1>2, Zenon DEF Begin, mem, disk, history, At, JobBecomes, Flushing, Facts
<1>6. Whole'
  BY <1>1, <1>2, Zenon DEF Begin, mem, disk, history, At, JobBecomes, Whole, Facts
<1>7. Kept'
  BY <1>1, <1>2, Zenon DEF Begin, mem, disk, history, At, JobBecomes, Kept, Unsettled, Loaded,
     Facts
<1> QED BY <1>3, <1>4, <1>5, <1>6, <1>7 DEF IInv

\* The ticker finds the deadline passed, or not.
LEMMA ScheduledResetStep ==
    ASSUME None \notin Inodes, IInv, ScheduledReset
    PROVE  IInv'
<1>1. Facts /\ TypeOK /\ Bounded /\ Flushing /\ Whole /\ Kept
  BY Known DEF IInv
<1> DEFINE f == "ticker"
<1>2. /\ f \in Flushers /\ job[f].pc = "schedule"
      /\ \E label \in {"zero", "swap"} :
           JobBecomes(f, label, job[f].counter, job[f].value, job[f].then)
      /\ ~overlapped => \A g \in Flushers : g # f => job[g].pc = "idle"
  BY <1>1, JobEffects DEF ScheduledReset, At, Flushers, Flushing
<1> HIDE DEF f
<1>3. TypeOK'
  BY <1>1, <1>2 DEF ScheduledReset, JobBecomes, mem, disk, history, At, TypeOK, Jobs
<1>4. Bounded'
  BY <1>1, <1>2 DEF ScheduledReset, JobBecomes, mem, disk, history, At, Bounded, Facts
<1>5. Flushing'
  BY <1>1, <1>2 DEF ScheduledReset, JobBecomes, mem, disk, history, At, Flushing, Facts
<1>6. Whole'
  BY <1>1, <1>2 DEF ScheduledReset, JobBecomes, mem, disk, history, At, Whole, Facts
<1>7. Kept'
  BY <1>1, <1>2 DEF ScheduledReset, JobBecomes, mem, disk, history, At, Kept, Unsettled,
     Loaded, Facts
<1> QED BY <1>3, <1>4, <1>5, <1>6, <1>7 DEF IInv

\* A total that is reset is still to be flushed.
LEMMA ZeroStep ==
    ASSUME None \notin Inodes, IInv, NEW f \in Flushers, Zero(f)
    PROVE  IInv'
<1>1. Facts /\ TypeOK /\ Bounded /\ Flushing /\ Whole /\ Kept
  BY Known DEF IInv
<1>2. JobBecomes(f, "mark", job[f].counter, job[f].value, job[f].then)
  BY <1>1, JobEffects, Zenon DEF Zero
<1>3. /\ job[f].pc # "idle" /\ job[f].counter \in Counters
      /\ ~overlapped => /\ job[f].counter = cur /\ cur # None
                         /\ \A g \in Flushers : g # f => job[g].pc = "idle"
  BY <1>1 DEF Flushing, At, Zero
<1>4. TypeOK'
  BY <1>1, <1>2, <1>3 DEF Zero, mem, disk, history, At, JobBecomes, TypeOK, Jobs
<1>5. Bounded'
  BY <1>1, <1>2, <1>3 DEF Zero, mem, disk, history, At, JobBecomes, Bounded, Facts
<1>6. Flushing'
  BY <1>1, <1>2, <1>3 DEF Zero, mem, disk, history, At, JobBecomes, Flushing, Facts
<1>7. Whole'
  BY <1>1, <1>2, <1>3 DEF Zero, mem, disk, history, At, JobBecomes, Whole, Facts
<1>8. Kept'
  BY <1>1, <1>2, <1>3 DEF Zero, mem, disk, history, At, JobBecomes, Kept, Unsettled,
     Loaded, Facts
<1> QED BY <1>4, <1>5, <1>6, <1>7, <1>8 DEF IInv

\* It is dirty until then.
LEMMA MarkZeroStep ==
    ASSUME None \notin Inodes, IInv, NEW f \in Flushers, MarkZero(f)
    PROVE  IInv'
<1>1. Facts /\ TypeOK /\ Bounded /\ Flushing /\ Whole /\ Kept
  BY Known DEF IInv
<1>2. JobBecomes(f, "swap", job[f].counter, job[f].value, job[f].then)
  BY <1>1, JobEffects, Zenon DEF MarkZero
<1>3. /\ job[f].pc # "idle" /\ job[f].counter \in Counters
      /\ ~overlapped => /\ job[f].counter = cur /\ cur # None
                         /\ \A g \in Flushers : g # f => job[g].pc = "idle"
  BY <1>1 DEF Flushing, At, MarkZero
<1>4. TypeOK'
  BY <1>1, <1>2, <1>3 DEF MarkZero, mem, disk, history, At, JobBecomes, TypeOK, Jobs
<1>5. Bounded'
  BY <1>1, <1>2, <1>3 DEF MarkZero, mem, disk, history, At, JobBecomes, Bounded, Facts
<1>6. Flushing'
  BY <1>1, <1>2, <1>3 DEF MarkZero, mem, disk, history, At, JobBecomes, Flushing, Facts
<1>7. Whole'
  BY <1>1, <1>2, <1>3 DEF MarkZero, mem, disk, history, At, JobBecomes, Whole, Facts
<1>8. Kept'
  BY <1>1, <1>2, <1>3 DEF MarkZero, mem, disk, history, At, JobBecomes, Kept, Unsettled,
     Loaded, Facts
<1> QED BY <1>4, <1>5, <1>6, <1>7, <1>8 DEF IInv

\* A new counter starts from the file.
LEMMA AddStep ==
    ASSUME None \notin Inodes, IInv, Add
    PROVE  IInv'
<1>1. Facts /\ TypeOK /\ Bounded /\ Flushing /\ Whole /\ Kept
  BY Known DEF IInv
<1>2. PICK i \in Counters : Create(i)
  BY DEF Add
<1>3. /\ Loaded' = Loaded /\ cur' = i /\ bytes'[i] = Loaded
      /\ ~overlapped => \A f \in Flushers : job[f].pc = "idle"
  BY <1>1, <1>2 DEF Add, Create, disk, Loaded, Flushing, Facts
<1>4. TypeOK'
  BY <1>1, <1>2, <1>3 DEF Add, Create, disk, history, TypeOK, Facts
<1>5. Bounded'
  BY <1>1, <1>2, <1>3 DEF Add, Create, mem, disk, history, At, Bounded, Facts
<1>6. Flushing'
  BY <1>1, <1>2, <1>3 DEF Add, Create, mem, disk, history, At, Flushing, Facts
<1>7. Whole'
  BY <1>1, Zenon DEF Add, Create, mem, disk, history, Whole
<1>8. Kept'
  BY <1>1, <1>2, <1>3 DEF Add, Create, history, Kept
<1> QED BY <1>4, <1>5, <1>6, <1>7, <1>8 DEF IInv

\* What was being written stays torn, but it was not the file.
LEMMA CrashStep ==
    ASSUME None \notin Inodes, IInv, Crash
    PROVE  IInv'
<1>1. Facts /\ TypeOK /\ Bounded /\ Flushing /\ Whole /\ Kept
  BY Known DEF IInv
<1>2. "ticker" \in Flushers /\ job["ticker"].value \in Nat
  BY <1>1 DEF Flushers, Facts
<1>3. InodeBecomes(tmp, tmp', Flushers, tmp.value)
  BY <1>1, <1>2, InodeEffects, Zenon DEF Crash, Facts
<1>4. InodeBecomes(file, file', Flushers, file.value)
  BY <1>1, <1>2, InodeEffects, Zenon DEF Crash, Facts
<1>5. /\ job' = [f \in Flushers |-> NoJob] /\ NoJob \in Jobs
      /\ \A f \in Flushers : job'[f].pc = "idle" /\ job'[f].value = 0
      /\ up' = FALSE /\ cur' = None /\ bytes' = bytes /\ relayed' = relayed
      /\ overlapped' = overlapped
  BY DEF Crash, NoJob, Jobs, mem, history
<1>6. TypeOK'
  <2>1. job' \in [Flushers -> Jobs]
    BY <1>5
  <2>2. /\ handle' \in [Relays -> Counters \cup {None}] /\ counted' \subseteq Relays
        /\ up' \in BOOLEAN /\ overlapped' \in BOOLEAN /\ relayed' \in Nat
    BY <1>1, <1>5, Zenon DEF Crash, TypeOK
  <2>3. bytes' = bytes /\ dirty' = dirty
    BY DEF Crash, mem
  <2> QED BY <1>1, <1>2, <1>3, <1>4, <1>5, <2>1, <2>2, <2>3, Zenon DEF InodeBecomes, TypeOK, Jobs
<1>7. Bounded'
  BY <1>1, <1>2, <1>3, <1>4, <1>5 DEF InodeBecomes, Bounded, Facts
<1>8. Flushing'
  BY <1>1, <1>2, <1>3, <1>4, <1>5 DEF InodeBecomes, Flushing
<1>9. Whole'
  BY <1>1, <1>2, <1>3, <1>4, <1>5 DEF InodeBecomes, Whole, Readable
<1>10. Kept'
  BY <1>1, <1>2, <1>3, <1>4, <1>5 DEF Crash, mem, disk, history, At, Kept, Unsettled,
     Loaded, Facts
<1> QED BY <1>6, <1>7, <1>8, <1>9, <1>10 DEF IInv

\* So the counter made after a restart starts from the file too.
LEMMA RestartStep ==
    ASSUME None \notin Inodes, IInv, Restart
    PROVE  IInv'
<1>1. Facts /\ TypeOK /\ Bounded /\ Flushing /\ Whole /\ Kept
  BY Known DEF IInv
<1>2. PICK i \in Counters : Create(i)
  BY DEF Restart
<1>3. /\ Loaded' = Loaded /\ cur' = i /\ bytes'[i] = Loaded
      /\ ~overlapped => \A f \in Flushers : job[f].pc = "idle"
  BY <1>1, <1>2 DEF Restart, Create, disk, Loaded, Flushing, Facts
<1>4. TypeOK'
  BY <1>1, <1>2, <1>3 DEF Restart, Create, disk, history, TypeOK, Facts
<1>5. Bounded'
  BY <1>1, <1>2, <1>3 DEF Restart, Create, mem, disk, history, At, Bounded, Facts
<1>6. Flushing'
  BY <1>1, <1>2, <1>3 DEF Restart, Create, mem, disk, history, At, Flushing, Facts
<1>7. Whole'
  BY <1>1, Zenon DEF Restart, Create, mem, disk, history, Whole
<1>8. Kept'
  BY <1>1, <1>2, <1>3 DEF Restart, Create, history, Kept
<1> QED BY <1>4, <1>5, <1>6, <1>7, <1>8 DEF IInv

-----------------------------------------------------------------------------
(* The invariant holds, and what follows from it.                            *)

\* The inductive invariant holds in every state.
LEMMA Inductive ==
    ASSUME None \notin Inodes
    PROVE  Spec => []IInv
<1>1. Init => IInv
  <2> SUFFICES ASSUME Init PROVE IInv
    OBVIOUS
  <2>1. job = [f \in Flushers |-> NoJob] /\ NoJob \in Jobs
        /\ \A f \in Flushers : job[f].pc = "idle" /\ job[f].value = 0
    BY DEF Init, NoJob, Jobs
  <2>2. job \in [Flushers -> Jobs]
    BY <2>1
  <2>3. TypeOK
    BY <2>2, Zenon DEF Init, TypeOK, Jobs
  <2>4. Bounded /\ Flushing /\ Whole /\ Kept
    BY <2>1 DEF Init, Bounded, Flushing, Whole, Kept, Loaded
  <2> QED BY <2>3, <2>4 DEF IInv
<1>2. IInv /\ [Next]_vars => IInv'
  <2> SUFFICES ASSUME IInv, [Next]_vars PROVE IInv'
    OBVIOUS
  <2>1. CASE UNCHANGED vars
    BY <2>1, Zenon DEF vars, mem, disk, IInv, TypeOK, Bounded, Flushing, Whole, Kept, Unsettled,
       Readable, Loaded
  <2>2. ASSUME NEW r \in Relays, Attach(r) \/ Count(r) \/ Mark(r) \/ Detach(r)
        PROVE  IInv'
    BY <2>2, AttachStep, CountStep, MarkStep, DetachStep, Zenon
  <2>3. ASSUME NEW f \in Flushers, Zero(f) \/ MarkZero(f) \/ SwapDirty(f) \/ Load(f)
        PROVE  IInv'
    BY <2>3, ZeroStep, MarkZeroStep, SwapDirtyStep, LoadStep, Zenon
  <2>4. ASSUME NEW f \in Flushers, Open(f) \/ Write(f) \/ Rename(f) \/ DiskFails(f)
        PROVE  IInv'
    BY <2>4, OpenStep, WriteStep, RenameStep, DiskFailsStep, Zenon
  <2>5. CASE Tick \/ Reset \/ Drop
    BY <2>5, BeginStep DEF Tick, Reset, Drop, At, Flushers
  <2>6. CASE ScheduledReset \/ Add \/ Crash \/ Restart
    BY <2>6, ScheduledResetStep, AddStep, CrashStep, RestartStep, Zenon
  <2> QED BY <2>1, <2>2, <2>3, <2>4, <2>5, <2>6 DEF Next
<1> QED BY <1>1, <1>2, PTL DEF Spec

\* Counters, handles, flush jobs and files keep their types, whatever fails or crashes.
THEOREM MetricsTyped ==
    ASSUME None \notin Inodes
    PROVE  Spec => []TypeOK
<1>1. IInv => TypeOK
  BY DEF IInv
<1> QED BY <1>1, Inductive, PTL

\* However often the counter is reset, dropped, remade or reloaded from a file that a
\* crash or two flushes at a time have left, no traffic is counted twice.
THEOREM TrafficNeverOvercounted ==
    ASSUME None \notin Inodes
    PROVE  Spec => []NeverOvercounts
<1>1. IInv => NeverOvercounts
  BY Known DEF IInv, Facts, Bounded, NeverOvercounts
<1> QED BY <1>1, Inductive, PTL

\* Unless two flushes have overlapped, the file is whole after every crash, and the
\* total of a counter that nobody marks or flushes is the one in the file.
THEOREM TotalsOnDisk ==
    ASSUME None \notin Inodes
    PROVE  Spec => [](CleanIsPersisted /\ FileIsWhole)
<1>1. IInv => CleanIsPersisted
  BY DEF IInv, Flushing, Kept, Unsettled, CleanIsPersisted
<1>2. IInv => FileIsWhole
  BY DEF IInv, Whole, FileIsWhole
<1> QED BY <1>1, <1>2, Inductive, PTL
=============================================================================
