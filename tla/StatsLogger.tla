----------------------------- MODULE StatsLogger -----------------------------
(***************************************************************************)
(* The time series of live statistics (stats_logger.rs): the writer thread *)
(* that collects a snapshot every interval (collect_metrics in state.rs)   *)
(* and commits it, and the threads that apply a (re)loaded configuration   *)
(* by stopping that writer and starting another: file watchers, console    *)
(* and API, any two of them at once.  The rows themselves are not kept.    *)
(***************************************************************************)

CONSTANTS Appliers,    \* threads that apply configurations
          Writers,     \* writer threads that can be started
          Configs,     \* enabled configurations
          Off,         \* the configuration that disables the log
          None

VARIABLES
    inner,     \* the writer in `inner`, or None
    conf,      \* current_config
    writer,    \* per writer: [pc, told]
    job        \* per applier: [pc, conf, old, new]
vars == <<inner, conf, writer, job>>

NoJob == [pc |-> "idle", conf |-> None, old |-> None, new |-> None]
NoWriter == [pc |-> "off", told |-> FALSE]

Alive(w) == writer[w].pc # "off"

Init ==
    /\ inner = None
    /\ conf = Off
    /\ writer = [w \in Writers |-> NoWriter]
    /\ job = [a \in Appliers |-> NoJob]

-----------------------------------------------------------------------------
(* writer_loop                                                               *)

Goto(w, pc) == writer' = [writer EXCEPT ![w].pc = pc]

\* The stop signal, or its sender gone, ends the thread; else the interval's end.
Wake(w) ==
    /\ writer[w].pc = "wait"
    /\ IF writer[w].told THEN writer' = [writer EXCEPT ![w] = NoWriter] ELSE Goto(w, "log")
    /\ UNCHANGED <<inner, conf, job>>

\* collect_metrics, write_snapshot and prune, each failing or not, then the loop.
Log(w) ==
    /\ writer[w].pc = "log"
    /\ Goto(w, "wait")
    /\ UNCHANGED <<inner, conf, job>>

-----------------------------------------------------------------------------
(* apply_config, stop_internal and start_internal.                           *)

\* A configuration that is the current one changes nothing.
Apply(a, c) ==
    /\ job[a].pc = "idle"
    /\ c # conf
    /\ job' = [job EXCEPT ![a] = [NoJob EXCEPT !.pc = "take", !.conf = c]]
    /\ UNCHANGED <<inner, conf, writer>>

\* shutdown: stop_internal alone.
Shutdown(a) ==
    /\ job[a].pc = "idle"
    /\ inner # None
    /\ job' = [job EXCEPT ![a] = [NoJob EXCEPT !.pc = "take"]]
    /\ UNCHANGED <<inner, conf, writer>>

Take(a) ==
    /\ job[a].pc = "take"
    /\ job' = [job EXCEPT ![a].pc = "tell", ![a].old = inner]
    /\ inner' = None
    /\ UNCHANGED <<conf, writer>>

\* M: the signal is lost.
M_Tell(a) ==
    /\ job[a].pc = "tell"
    /\ job' = [job EXCEPT ![a].pc = "join"]
    /\ UNCHANGED <<inner, conf, writer>>

Tell(a) ==
    LET w == job[a].old
    IN  /\ job[a].pc = "tell"
        /\ job' = [job EXCEPT ![a].pc = "join"]
        /\ writer' = IF w = None THEN writer ELSE [writer EXCEPT ![w].told = TRUE]
        /\ UNCHANGED <<inner, conf>>

Join(a) ==
    /\ job[a].pc = "join"
    /\ job[a].old # None => ~Alive(job[a].old)
    /\ job' = [job EXCEPT ![a] = IF @.conf = None THEN NoJob
                                 ELSE [@ EXCEPT !.pc = "adopt", !.old = None]]
    /\ UNCHANGED <<inner, conf, writer>>

Adopt(a) ==
    /\ job[a].pc = "adopt"
    /\ conf' = job[a].conf
    /\ job' = [job EXCEPT ![a] = IF @.conf = Off THEN NoJob ELSE [@ EXCEPT !.pc = "open"]]
    /\ UNCHANGED <<inner, writer>>

InUse(w) == \/ Alive(w) \/ inner = w
            \/ \E a \in Appliers : w \in {job[a].old, job[a].new}

\* The database opens and a writer is spawned ...
Spawn(a, w) ==
    /\ job[a].pc = "open"
    /\ ~InUse(w)
    /\ writer' = [writer EXCEPT ![w] = [NoWriter EXCEPT !.pc = "wait"]]
    /\ job' = [job EXCEPT ![a].pc = "install", ![a].new = w]
    /\ UNCHANGED <<inner, conf>>

\* ... or it does not, and nothing is logged.
OpenFails(a) ==
    /\ job[a].pc = "open"
    /\ job' = [job EXCEPT ![a] = NoJob]
    /\ UNCHANGED <<inner, conf, writer>>

\* M: a writer that is replaced in `inner` keeps its sender.
M_Install(a) ==
    /\ job[a].pc = "install"
    /\ inner' = job[a].new
    /\ job' = [job EXCEPT ![a] = NoJob]
    /\ UNCHANGED <<conf, writer>>

\* The new writer is put in `inner`; one that is replaced there loses the sender of its
\* stop signal, which it takes for the signal.
Install(a) ==
    /\ job[a].pc = "install"
    /\ inner' = job[a].new
    /\ writer' = IF inner = None THEN writer ELSE [writer EXCEPT ![inner].told = TRUE]
    /\ job' = [job EXCEPT ![a] = NoJob]
    /\ UNCHANGED conf

WriterStep(w) == Wake(w) \/ Log(w)

ApplierStep(a) ==
    \/ Take(a) \/ Tell(a) \/ Join(a) \/ Adopt(a) \/ OpenFails(a) \/ Install(a)
    \/ \E w \in Writers : Spawn(a, w)

Next ==
    \/ \E w \in Writers : WriterStep(w)
    \/ \E a \in Appliers :
         \/ \E c \in Configs \cup {Off} : Apply(a, c)
         \/ Shutdown(a) \/ ApplierStep(a)

Spec == Init /\ [][Next]_vars

-----------------------------------------------------------------------------
TypeOK ==
    /\ inner \in Writers \cup {None}
    /\ conf \in Configs \cup {Off}
    /\ \A w \in Writers :
         writer[w].pc \in {"off", "wait", "log"}
    /\ \A a \in Appliers :
         job[a].pc \in {"idle", "take", "tell", "join", "adopt", "open", "install"}

\* However many threads apply configurations at once, no writer is left to log for ever
\* beside the one in `inner`: a writer that runs is that one, is in the hands of a thread
\* that will stop it or put it there, or has its stop signal; and the one in `inner` has
\* none.
NoneAdrift ==
    /\ inner # None => Alive(inner) /\ ~writer[inner].told
    /\ \A w \in Writers : Alive(w) =>
         \/ w = inner
         \/ writer[w].told
         \/ \E a \in Appliers : \/ job[a].pc = "tell" /\ w = job[a].old
                                \/ job[a].pc = "install" /\ w = job[a].new

\* apply_config comes back: the writer it joins hears the signal wherever it is.
ApplyEnds == \A a \in Appliers : job[a].pc # "idle" ~> job[a].pc = "idle"
=============================================================================
