-------------------------- MODULE ConnectionTracker --------------------------
(***************************************************************************)
(* Persistence of completed player sessions (connection_tracker.rs):       *)
(* login tasks that hand over records, the writer thread that commits them *)
(* in batches, and the threads that apply a (re)loaded configuration by    *)
(* stopping that writer and starting another: file watchers, console and   *)
(* API, any two of them at once.  A writer is an instance of the thread    *)
(* with the channel it reads.  Left out are the counters that only the     *)
(* metrics read (queued_hint, dropped_since_start), and the rows once they *)
(* are written, which prune thins out.                                     *)
(***************************************************************************)
EXTENDS Integers, FiniteSets, Sequences, Functions

CONSTANTS Records,     \* records of completed sessions
          Appliers,    \* threads that apply configurations
          Writers,     \* writer threads that can be started
          Configs,     \* enabled configurations
          Off,         \* the configuration that disables tracking
          QueueCapacity, BatchSize,
          None

ASSUME TrackerAssumption ==
    /\ QueueCapacity \in Nat \ {0}
    /\ BatchSize \in Nat \ {0}
    /\ None \notin Records \cup Writers \cup Configs \cup {Off}

VARIABLES
    inner,     \* the writer in `inner`, or None
    conf,      \* current_config
    writer,    \* per writer: [pc, queue, batch, told, open]
    job,       \* per applier: [pc, conf, old, new]
    offered, accepted, settled   \* history: records handed over, taken by a channel,
                                 \* written or reported lost
log == <<offered, accepted, settled>>
vars == <<inner, conf, writer, job, log>>

NoJob == [pc |-> "idle", conf |-> None, old |-> None, new |-> None]
NoWriter == [pc |-> "off", queue |-> <<>>, batch |-> <<>>, told |-> FALSE, open |-> FALSE]

Alive(w) == writer[w].pc # "off"

Init ==
    /\ inner = None
    /\ conf = Off
    /\ writer = [w \in Writers |-> NoWriter]
    /\ job = [a \in Appliers |-> NoJob]
    /\ offered = {} /\ accepted = {} /\ settled = {}

-----------------------------------------------------------------------------
(* record                                                                    *)

\* M: one record too many.
M_HasRoom(w) == Len(writer[w].queue) <= QueueCapacity

HasRoom(w) == Len(writer[w].queue) < QueueCapacity

\* try_send under the lock of `inner`: a full channel drops the newcomer, and with
\* tracking off nothing happens.
Record(rec) ==
    /\ rec \notin offered
    /\ offered' = offered \cup {rec}
    /\ IF inner # None /\ HasRoom(inner)
         THEN /\ writer' = [writer EXCEPT ![inner].queue = Append(@, rec)]
              /\ accepted' = accepted \cup {rec}
         ELSE UNCHANGED <<accepted, writer>>
    /\ UNCHANGED <<inner, conf, job, settled>>

-----------------------------------------------------------------------------
(* writer_loop                                                               *)

\* A record, and what else is queued up to the batch size.
Receive(w) ==
    LET n == IF Len(writer[w].queue) < BatchSize THEN Len(writer[w].queue) ELSE BatchSize
    IN  /\ writer[w].pc = "loop"
        /\ writer[w].queue # <<>>
        /\ writer' = [writer EXCEPT ![w].pc = "write",
                                    ![w].batch = SubSeq(writer[w].queue, 1, n),
                                    ![w].queue = SubSeq(@, n + 1, Len(@))]
        /\ UNCHANGED <<inner, conf, job, log>>

\* write_batch commits the whole batch, or it is reported lost.
Commit(batch) == settled' = settled \cup Range(batch)

WriteBatch(w) ==
    /\ writer[w].pc = "write"
    /\ Commit(writer[w].batch)
    /\ writer' = [writer EXCEPT ![w].pc = "loop", ![w].batch = <<>>]
    /\ UNCHANGED <<inner, conf, job, offered, accepted>>

\* Told to stop, or the sender is gone and the channel empty.
LeaveLoop(w) ==
    /\ writer[w].pc = "loop"
    /\ \/ writer[w].told
       \/ ~writer[w].open /\ writer[w].queue = <<>>
    /\ writer' = [writer EXCEPT ![w].pc = "drain"]
    /\ UNCHANGED <<inner, conf, job, log>>

\* M: the thread ends without looking at the channel again.
M_Drain(w) ==
    /\ writer[w].pc = "drain"
    /\ writer' = [writer EXCEPT ![w] = NoWriter]
    /\ UNCHANGED <<inner, conf, job, log>>

\* The final flush of whatever is still queued.
Drain(w) ==
    /\ writer[w].pc = "drain"
    /\ Commit(writer[w].queue)
    /\ writer' = [writer EXCEPT ![w] = NoWriter]
    /\ UNCHANGED <<inner, conf, job, offered, accepted>>

-----------------------------------------------------------------------------
(* apply_config, stop_internal and start_internal.                           *)

\* A configuration that is the current one changes nothing.
Apply(a, c) ==
    /\ job[a].pc = "idle"
    /\ c # conf
    /\ job' = [job EXCEPT ![a] = [NoJob EXCEPT !.pc = "take", !.conf = c]]
    /\ UNCHANGED <<inner, conf, writer, log>>

\* shutdown: stop_internal alone.
Shutdown(a) ==
    /\ job[a].pc = "idle"
    /\ inner # None
    /\ job' = [job EXCEPT ![a] = [NoJob EXCEPT !.pc = "take"]]
    /\ UNCHANGED <<inner, conf, writer, log>>

\* M: the writer is told before it is taken out of `inner`.
M_Take(a) ==
    /\ job[a].pc = "take"
    /\ writer' = IF inner = None THEN writer ELSE [writer EXCEPT ![inner].told = TRUE]
    /\ job' = [job EXCEPT ![a].pc = "tell", ![a].old = inner]
    /\ UNCHANGED <<inner, conf, log>>

Take(a) ==
    /\ job[a].pc = "take"
    /\ job' = [job EXCEPT ![a].pc = "tell", ![a].old = inner]
    /\ inner' = None
    /\ UNCHANGED <<conf, writer, log>>

\* The stop signal is sent and the sender dropped.
Tell(a) ==
    LET w == job[a].old
    IN  /\ job[a].pc = "tell"
        /\ job' = [job EXCEPT ![a].pc = "join"]
        /\ writer' = IF w = None THEN writer
                     ELSE [writer EXCEPT ![w].told = TRUE, ![w].open = FALSE]
        /\ UNCHANGED <<inner, conf, log>>

Join(a) ==
    /\ job[a].pc = "join"
    /\ job[a].old # None => ~Alive(job[a].old)
    /\ job' = [job EXCEPT ![a] = IF @.conf = None THEN NoJob
                                 ELSE [@ EXCEPT !.pc = "adopt", !.old = None]]
    /\ UNCHANGED <<inner, conf, writer, log>>

Adopt(a) ==
    /\ job[a].pc = "adopt"
    /\ conf' = job[a].conf
    /\ job' = [job EXCEPT ![a] = IF @.conf = Off THEN NoJob ELSE [@ EXCEPT !.pc = "open"]]
    /\ UNCHANGED <<inner, writer, log>>

InUse(w) == \/ Alive(w) \/ inner = w
            \/ \E a \in Appliers : w \in {job[a].old, job[a].new}

\* start_internal: the database opens, and a writer is spawned ...
Spawn(a, w) ==
    /\ job[a].pc = "open"
    /\ ~InUse(w)
    /\ writer' = [writer EXCEPT ![w] = [NoWriter EXCEPT !.pc = "loop", !.open = TRUE]]
    /\ job' = [job EXCEPT ![a].pc = "install", ![a].new = w]
    /\ UNCHANGED <<inner, conf, log>>

\* ... or it does not, and tracking stays off.
OpenFails(a) ==
    /\ job[a].pc = "open"
    /\ job' = [job EXCEPT ![a] = NoJob]
    /\ UNCHANGED <<inner, conf, writer, log>>

\* The new writer is put in `inner`; one that is replaced there loses both its senders,
\* of which it takes that of the stop signal for the signal.
Install(a) ==
    /\ job[a].pc = "install"
    /\ inner' = job[a].new
    /\ writer' = IF inner = None THEN writer
                 ELSE [writer EXCEPT ![inner].told = TRUE, ![inner].open = FALSE]
    /\ job' = [job EXCEPT ![a] = NoJob]
    /\ UNCHANGED <<conf, log>>

WriterStep(w) ==
    Receive(w) \/ WriteBatch(w) \/ LeaveLoop(w) \/ Drain(w)

ApplierStep(a) ==
    \/ Take(a) \/ Tell(a) \/ Join(a) \/ Adopt(a) \/ OpenFails(a) \/ Install(a)
    \/ \E w \in Writers : Spawn(a, w)

Next ==
    \/ \E rec \in Records : Record(rec)
    \/ \E w \in Writers : WriterStep(w)
    \/ \E a \in Appliers :
         \/ \E c \in Configs \cup {Off} : Apply(a, c)
         \/ Shutdown(a) \/ ApplierStep(a)

Spec == Init /\ [][Next]_vars

-----------------------------------------------------------------------------
TypeOK ==
    /\ inner \in Writers \cup {None}
    /\ conf \in Configs \cup {Off}
    /\ \A w \in Writers :
         /\ writer[w].pc \in {"off", "loop", "write", "drain"}
         /\ writer[w].queue \in Seq(Records) /\ Len(writer[w].queue) <= QueueCapacity
         /\ writer[w].batch \in Seq(Records) /\ Len(writer[w].batch) <= BatchSize
    /\ \A a \in Appliers :
         job[a].pc \in {"idle", "take", "tell", "join", "adopt", "open", "install"}
    /\ settled \subseteq accepted
    /\ accepted \subseteq offered

\* "flush whatever is still queued rather than silently dropping it": however the
\* stop of a writer interleaves with record, a record the channel took is queued at
\* a live writer, in its batch, or has been written or reported lost.  A record that
\* finds the channel full is not taken, and those in it stay: the newcomer is dropped
\* (connection_tracker.rs:80), although resources/default-config.yml:209 says the queue
\* "drops the oldest-pending record".
NoneForgotten ==
    \A rec \in accepted \ settled :
      \E w \in Writers : Alive(w) /\ rec \in Range(writer[w].queue \o writer[w].batch)

\* However many threads apply configurations at once, no writer is left to run for ever
\* beside the one in `inner`, and no record is sent to one that may not look again: a
\* writer that runs is that one, is in the hands of a thread that will stop it or put it
\* there, or has its stop signal; and the one in `inner` is at work and has none.
NoneAdrift ==
    /\ inner # None => writer[inner].pc \in {"loop", "write"} /\ ~writer[inner].told
    /\ \A w \in Writers : Alive(w) =>
         \/ w = inner
         \/ writer[w].told
         \/ \E a \in Appliers : \/ job[a].pc = "tell" /\ w = job[a].old
                                \/ job[a].pc = "install" /\ w = job[a].new

\* "A single dedicated writer thread ... owns the one `rusqlite::Connection` for the
\* file's lifetime": no two writers run together.  With two threads that apply it fails.
OneWriter == Cardinality({w \in Writers : Alive(w)}) <= 1

\* Every record the channel took is written or reported lost in the end.
RecordsSettle ==
    \A rec \in Records : rec \in accepted ~> rec \in settled

\* apply_config comes back: the writer it joins leaves its loop with a full channel or
\* an empty one, after a failed batch as well.
ApplyEnds == \A a \in Appliers : job[a].pc # "idle" ~> job[a].pc = "idle"
=============================================================================
