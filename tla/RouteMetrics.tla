---------------------------- MODULE RouteMetrics ----------------------------
(***************************************************************************)
(* The traffic counter of one metered route (route_metrics_store.rs): the  *)
(* relays that count into it, the ticker that resets it on schedule and    *)
(* flushes it, an operator thread (console, API, config watcher) that      *)
(* resets it or reloads the configuration, the file that outlives the      *)
(* process, and crashes.  Atomics, system calls and locks are each a step. *)
(* One direction of traffic stands for both.                               *)
(*                                                                         *)
(* A file is an inode: a writer that opened it keeps writing to it when it *)
(* is renamed, and its content is torn while someone has it open to write. *)
(***************************************************************************)
EXTENDS Integers, FiniteSets

CONSTANTS Relays,      \* relay tasks
          Counters,    \* RouteTrafficCounter instances
          Requests,    \* what the operator thread may do: "reset", "drop", "add"
          AutoReset,   \* whether the route has a reset interval
          MaxBytes,    \* bound of the bytes relayed
          None

Flushers == {"ticker", "operator"}

VARIABLES
    cur,      \* the counter of the route in the store, None while it is unmetered
    up,       \* the process runs
    bytes, dirty,     \* per counter
    handle,   \* the counter a relay took when it began
    counted,  \* relays between their fetch_add and their store to dirty
    job,      \* what each flusher does: [pc, counter, value, then]
    file, tmp,        \* the persisted total and its temporary: None or an inode
    relayed,  \* history: bytes relayed while metered, over all runs
    overlapped  \* history: two flushes have run at the same time
mem == <<bytes, dirty>>
disk == <<file, tmp>>
vars == <<cur, up, mem, handle, counted, job, disk, relayed, overlapped>>
history == <<relayed, overlapped>>

Torn == -1
Inodes == [writers : SUBSET Flushers, value : Nat \cup {Torn}]

NoJob == [pc |-> "idle", counter |-> None, value |-> 0, then |-> "nothing"]

Readable(inode) == inode.writers = {} /\ inode.value # Torn

\* What load_persisted finds: zero for a file that is missing or not JSON.
Loaded == IF file # None /\ Readable(file) THEN file.value ELSE 0

\* A counter nobody refers to.
Unused(i) == /\ i # cur
             /\ \A r \in Relays : handle[r] # i
             /\ \A f \in Flushers : job[f].counter # i

Init ==
    /\ up = TRUE
    /\ cur \in Counters
    /\ bytes = [i \in Counters |-> 0]
    /\ dirty = [i \in Counters |-> FALSE]
    /\ handle = [r \in Relays |-> None]
    /\ counted = {}
    /\ job = [f \in Flushers |-> NoJob]
    /\ file = None
    /\ tmp = None
    /\ relayed = 0
    /\ overlapped = FALSE

-----------------------------------------------------------------------------
(* Relays.                                                                   *)

Attach(r) ==
    /\ up
    /\ handle[r] = None
    /\ handle' = [handle EXCEPT ![r] = cur]
    /\ UNCHANGED <<cur, up, mem, counted, job, disk, history>>

\* M: bytes are counted in both directions' counter.
M_Count(r) ==
    /\ handle[r] # None
    /\ r \notin counted
    /\ relayed < MaxBytes
    /\ bytes' = [bytes EXCEPT ![handle[r]] = @ + 2]
    /\ counted' = counted \cup {r}
    /\ relayed' = relayed + 1
    /\ UNCHANGED <<cur, up, dirty, handle, job, disk, overlapped>>

\* add_upload and add_download: the count, then the dirty mark.
Count(r) ==
    /\ handle[r] # None
    /\ r \notin counted
    /\ relayed < MaxBytes
    /\ bytes' = [bytes EXCEPT ![handle[r]] = @ + 1]
    /\ counted' = counted \cup {r}
    /\ relayed' = relayed + 1
    /\ UNCHANGED <<cur, up, dirty, handle, job, disk, overlapped>>

Mark(r) ==
    /\ r \in counted
    /\ dirty' = [dirty EXCEPT ![handle[r]] = TRUE]
    /\ counted' = counted \ {r}
    /\ UNCHANGED <<cur, up, bytes, handle, job, disk, history>>

Detach(r) ==
    /\ handle[r] # None
    /\ r \notin counted
    /\ handle' = [handle EXCEPT ![r] = None]
    /\ UNCHANGED <<cur, up, mem, counted, job, disk, history>>

-----------------------------------------------------------------------------
(* flush_counter, step by step.                                              *)

At(f, label) == job[f].pc = label

Become(f, label) == job' = [job EXCEPT ![f].pc = label]

\* What is left to do once the flush is over: apply_config drops the counter.
Finish(f) ==
    /\ job' = [job EXCEPT ![f] = NoJob]
    /\ cur' = IF job[f].then = "drop" THEN None ELSE cur

\* dirty.swap(false): the ticker goes on only if it was set.
SwapDirty(f) ==
    LET i == job[f].counter
    IN  /\ At(f, "swap")
        /\ dirty' = [dirty EXCEPT ![i] = FALSE]
        /\ IF f = "ticker" /\ ~dirty[i] THEN Finish(f)
           ELSE Become(f, "load") /\ UNCHANGED cur
        /\ UNCHANGED <<up, bytes, handle, counted, disk, history>>

Load(f) ==
    /\ At(f, "load")
    /\ job' = [job EXCEPT ![f].pc = "open", ![f].value = bytes[job[f].counter]]
    /\ UNCHANGED <<cur, up, mem, handle, counted, disk, history>>

\* fs::write creates or truncates the temporary ...
Open(f) ==
    /\ At(f, "open")
    /\ tmp' = [writers |-> {f} \cup (IF tmp = None THEN {} ELSE tmp.writers), value |-> Torn]
    /\ Become(f, "write")
    /\ UNCHANGED <<cur, up, mem, handle, counted, file, history>>

\* ... and writes to the inode it opened, wherever that is by now.
Filled(inode, f) ==
    IF inode # None /\ f \in inode.writers
      THEN [writers |-> inode.writers \ {f}, value |-> job[f].value] ELSE inode

Write(f) ==
    /\ At(f, "write")
    /\ tmp' = Filled(tmp, f)
    /\ file' = Filled(file, f)
    /\ Become(f, "rename")
    /\ UNCHANGED <<cur, up, mem, handle, counted, history>>

\* M: the dirty mark is cleared once the file is in place.
M_Rename(f) ==
    /\ At(f, "rename")
    /\ tmp # None
    /\ file' = tmp
    /\ tmp' = None
    /\ dirty' = [dirty EXCEPT ![job[f].counter] = FALSE]
    /\ Finish(f)
    /\ UNCHANGED <<up, bytes, handle, counted, history>>

\* The rename puts the temporary, whoever wrote it, in the file's place.
Rename(f) ==
    /\ At(f, "rename")
    /\ tmp # None
    /\ file' = tmp
    /\ tmp' = None
    /\ Finish(f)
    /\ UNCHANGED <<up, mem, handle, counted, history>>

\* Opening, writing or renaming fails: the counter is dirty again.
DiskFails(f) ==
    /\ job[f].pc \in {"open", "write", "rename"}
    /\ dirty' = [dirty EXCEPT ![job[f].counter] = TRUE]
    /\ tmp' = IF tmp # None /\ f \in tmp.writers THEN [tmp EXCEPT !.writers = @ \ {f}] ELSE tmp
    /\ file' = IF file # None /\ f \in file.writers THEN [file EXCEPT !.writers = @ \ {f}]
               ELSE file
    /\ Finish(f)
    /\ UNCHANGED <<up, bytes, handle, counted, history>>

-----------------------------------------------------------------------------
(* The ticker and the operator thread.                                       *)

Begin(f, label, then) ==
    /\ job' = [job EXCEPT ![f] = [pc |-> label, counter |-> cur, value |-> 0, then |-> then]]
    /\ overlapped' = (overlapped \/ \E g \in Flushers \ {f} : ~At(g, "idle"))
    /\ UNCHANGED <<cur, up, mem, handle, counted, disk, relayed>>

Tick ==
    /\ up /\ cur # None
    /\ At("ticker", "idle")
    /\ Begin("ticker", IF AutoReset THEN "schedule" ELSE "swap", "nothing")

\* apply_scheduled_resets: the deadline has passed, or has not.
ScheduledReset ==
    /\ At("ticker", "schedule")
    /\ \E label \in {"zero", "swap"} : Become("ticker", label)
    /\ UNCHANGED <<cur, up, mem, handle, counted, disk, history>>

\* zero, and the same stores of apply_scheduled_resets: the total, then the dirty mark.
Zero(f) ==
    /\ At(f, "zero")
    /\ bytes' = [bytes EXCEPT ![job[f].counter] = 0]
    /\ Become(f, "mark")
    /\ UNCHANGED <<cur, up, dirty, handle, counted, disk, history>>

MarkZero(f) ==
    /\ At(f, "mark")
    /\ dirty' = [dirty EXCEPT ![job[f].counter] = TRUE]
    /\ Become(f, "swap")
    /\ UNCHANGED <<cur, up, bytes, handle, counted, disk, history>>

\* reset: zero, then a forced flush.
Reset ==
    /\ up /\ cur # None
    /\ "reset" \in Requests
    /\ At("operator", "idle")
    /\ Begin("operator", "zero", "nothing")

\* A reload that takes the metrics off the route flushes its counter first ...
Drop ==
    /\ up /\ cur # None
    /\ "drop" \in Requests
    /\ At("operator", "idle")
    /\ Begin("operator", "swap", "drop")

\* A counter made by apply_config starts from the file.
Create(i) ==
    /\ Unused(i)
    /\ cur' = i
    /\ bytes' = [bytes EXCEPT ![i] = Loaded]
    /\ dirty' = [dirty EXCEPT ![i] = FALSE]

\* ... and one that puts them back makes a new one.
Add ==
    /\ up /\ cur = None
    /\ "add" \in Requests
    /\ At("operator", "idle")
    /\ \E i \in Counters : Create(i)
    /\ UNCHANGED <<up, handle, counted, job, disk, history>>

\* The process dies; what was being written stays torn.
Crash ==
    LET Left(inode) == IF inode = None THEN None ELSE [inode EXCEPT !.writers = {}]
    IN  /\ up
        /\ up' = FALSE
        /\ cur' = None
        /\ handle' = [r \in Relays |-> None]
        /\ counted' = {}
        /\ job' = [f \in Flushers |-> NoJob]
        /\ file' = Left(file)
        /\ tmp' = Left(tmp)
        /\ UNCHANGED <<mem, history>>

Restart ==
    /\ ~up
    /\ up' = TRUE
    /\ \E i \in Counters : Create(i)
    /\ UNCHANGED <<handle, counted, job, disk, history>>

Next ==
    \/ \E r \in Relays : Attach(r) \/ Count(r) \/ Mark(r) \/ Detach(r)
    \/ \E f \in Flushers :
         \/ Zero(f) \/ MarkZero(f) \/ SwapDirty(f) \/ Load(f)
         \/ Open(f) \/ Write(f) \/ Rename(f) \/ DiskFails(f)
    \/ Tick \/ ScheduledReset
    \/ Reset \/ Drop \/ Add
    \/ Crash \/ Restart

Spec == Init /\ [][Next]_vars

-----------------------------------------------------------------------------
TypeOK ==
    /\ cur \in Counters \cup {None}
    /\ up \in BOOLEAN
    /\ bytes \in [Counters -> Nat]
    /\ dirty \in [Counters -> BOOLEAN]
    /\ handle \in [Relays -> Counters \cup {None}]
    /\ counted \subseteq Relays
    /\ job \in [Flushers -> [pc : {"idle", "schedule", "zero", "mark", "swap", "load", 
                                   "open", "write", "rename"},
                             counter : Counters \cup {None}, value : Nat,
                             then : {"nothing", "drop"}]]
    /\ file \in Inodes \cup {None}
    /\ tmp \in Inodes \cup {None}
    /\ relayed \in Nat
    /\ overlapped \in BOOLEAN

\* A counter that is clean, with no relay about to mark it and no flush under way,
\* has its total on disk: neither a count between two steps of a flush nor a
\* failed write is ever forgotten, over resets, reloads, crashes and restarts, as
\* long as no two flushes overlap.
CleanIsPersisted ==
    \/ overlapped
    \/ cur = None
    \/ dirty[cur]
    \/ \E r \in counted : handle[r] = cur
    \/ \E f \in Flushers : job[f].counter = cur
    \/ Loaded = bytes[cur]

\* "periodic JSON flush (atomic write-then-rename)": no crash leaves a file that
\* cannot be read, as long as no two flushes have shared the temporary.
FileIsWhole == overlapped \/ (file # None => Readable(file))

\* However counters are reset, dropped, remade and reloaded, neither one of them
\* nor the file ever accounts for more than was relayed.
NeverOvercounts ==
    /\ Loaded <= relayed
    /\ \A i \in Counters : bytes[i] <= relayed
=============================================================================
