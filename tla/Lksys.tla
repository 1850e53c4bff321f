------------------------------- MODULE Lksys -------------------------------
(***************************************************************************)
(* lksys, the supervisor of one service directory (src/bin/lksys.rs), with *)
(* what it touches of src/core.rs: the control FIFO, the TERMINATE flag,   *)
(* the supervise/status file, kill(2) and the process table of its         *)
(* children.                                                               *)
(*                                                                         *)
(* The supervisor is one thread that calls poll() every 50 ms.  Clients    *)
(* that write to the FIFO, the service's own processes and signals to the  *)
(* supervisor run beside it, so poll() is cut (by pc) into the steps       *)
(* between which they can be observed or can interfere; each control byte  *)
(* is one step.  Successive incarnations of the supervisor (lksysdir       *)
(* starts a new one whenever one is gone) are successive passages of pc    *)
(* through "off"; the lock on supervise/lock keeps two from overlapping.   *)
(***************************************************************************)
EXTENDS Naturals, Sequences, FiniteSets

CONSTANTS
    Pid,       \* process ids the kernel may give to the service's scripts
    NoPid,     \* the pid of a Status when there is no process (0)
    Logger,    \* process ids for log/run
    NoLogger,  \* Supervisor.logger = None
    HasLog,    \* is log/run a file?
    Faults,    \* what the environment may do wrong: see FaultKinds
    Commands,  \* the byte strings clients write to the FIFO
    MaxFifo    \* bound on the bytes waiting in the FIFO

\* "spawn": fork or exec fails; "publish": a status file cannot be written;
\* "crash": the supervisor is killed by SIGKILL, as lksysdir does.
FaultKinds == {"spawn", "publish", "crash"}

\* The control bytes; "h" stands for h, a, i, q, 1 and 2, which only pass a
\* signal on.
Byte == {"d", "u", "x", "t", "k", "p", "c", "o", "h"}

ASSUME LksysAssumption ==
    /\ NoPid \notin Pid
    /\ NoLogger \notin Logger
    /\ HasLog \in BOOLEAN
    /\ Faults \subseteq FaultKinds
    /\ \A cmd \in Commands : cmd \in Seq(Byte)
    /\ MaxFifo \in Nat

VARIABLES
    pc,         \* where the supervisor is; "off": there is none
    want,       \* Supervisor.want
    process,    \* Supervisor.process
    logger,     \* Supervisor.logger, the Child handle
    due,        \* has retry_at passed?
    batch,      \* bytes read from the FIFO and not yet applied
    terminate,  \* the TERMINATE flag
    fifo,       \* bytes in supervise/control
    status,     \* contents of supervise/status
    ps,         \* the kernel's view of each pid
    loggers     \* the log/run processes alive

supVars == <<pc, want, process, logger, due, batch, terminate>>
vars == <<pc, want, process, logger, due, batch, terminate,
          fifo, status, ps, loggers>>

-----------------------------------------------------------------------------
(* Data *)

NoProcess == [child |-> NoPid, phase |-> "down",
              gotTerm |-> FALSE, paused |-> FALSE]

Started(p, ph) == [child |-> p, phase |-> ph,
                   gotTerm |-> FALSE, paused |-> FALSE]

\* A pid not in use, and a child just spawned to execute script.
Unused == [role |-> "none", state |-> "free", sig |-> "none", parent |-> "none"]
Spawned(script) ==
    [role |-> script, state |-> "live", sig |-> "none", parent |-> "lksys"]

Free == {p \in Pid : ps[p] = Unused}

\* Mutant: Exit shows as a byte of its own.
WantByteExit(w) == IF w = "Up" THEN "u" ELSE IF w = "Down" THEN "d" ELSE "x"

WantByte(w) == IF w = "Up" THEN "u" ELSE "d"

\* The Status that describes a process and a want.
StatusOf(proc, w) ==
    [pid |-> proc.child, state |-> proc.phase, paused |-> proc.paused,
     gotTerm |-> proc.gotTerm, want |-> WantByte(w)]

NoStatus == [pid |-> NoPid, state |-> "absent", paused |-> FALSE,
             gotTerm |-> FALSE, want |-> "u"]

\* publish(): status.new is written and renamed over status, then stat and
\* pid are; an error may come before or after the first rename.
Publish(ok) ==
    \/ /\ ok
       /\ status' = StatusOf(process', want')
    \/ /\ ~ok
       /\ "publish" \in Faults
       /\ status' \in {status, StatusOf(process', want')}

\* fork fails when no pid is left.
SpawnFails == "spawn" \in Faults \/ Free = {}

-----------------------------------------------------------------------------
(* Signals and control bytes *)

\* Mutant: 'x' records the wish and forgets the signal.
SignalOfMeekExit(b) ==
    IF b \in {"d", "t"} THEN "term"
    ELSE IF b = "k" THEN "kill"
    ELSE IF b = "p" THEN "stop"
    ELSE IF b = "c" THEN "cont" ELSE "other"

\* The signal of a byte. "other" stands for those of h, a, i, q, 1 and 2 and
\* for the absence of one with 'u' and 'o': neither marks the process, and
\* that a script may end of any signal is in ScriptEnds.
SignalOf(b) ==
    IF b \in {"d", "x", "t"} THEN "term"
    ELSE IF b = "k" THEN "kill"
    ELSE IF b = "p" THEN "stop"
    ELSE IF b = "c" THEN "cont" ELSE "other"

WantAfter(b) ==
    IF b \in {"d", "o"} THEN "Down"
    ELSE IF b = "u" THEN "Up"
    ELSE IF b = "x" THEN "Exit" ELSE want

\* The entry q of the process table after a signal: a zombie ignores it,
\* SIGTERM and SIGKILL stay pending until the process dies of them.
Signalled(q, sg) ==
    [role |-> q.role,
     state |-> IF q.state = "zombie" THEN "zombie"
               ELSE IF sg = "stop" THEN "stopped"
               ELSE IF sg = "cont" THEN "live" ELSE q.state,
     sig |-> IF q.state # "zombie" /\ q.sig # "kill" /\ sg \in {"term", "kill"}
             THEN sg ELSE q.sig,
     parent |-> q.parent]

\* Mutant: 'c' leaves the pause flag set.
MarkedForever(proc, sg) ==
    [child |-> proc.child, phase |-> proc.phase,
     gotTerm |-> proc.gotTerm \/ sg = "term",
     paused |-> proc.paused \/ sg = "stop"]

\* Supervisor.process after stop(sg) and the pause flag of 'p' and 'c'.
Marked(proc, sg) ==
    [child |-> proc.child, phase |-> proc.phase,
     gotTerm |-> proc.gotTerm \/ sg = "term",
     paused |-> sg = "stop" \/ (proc.paused /\ sg # "cont")]

Stop(sg) ==
    IF process = NoProcess
    THEN UNCHANGED <<ps, process>>
    ELSE /\ ps' = [ps EXCEPT ![process.child] = Signalled(@, sg)]
         /\ process' = Marked(process, sg)

StartLogger(ok) ==
    \/ /\ ok /\ ~HasLog
       /\ UNCHANGED <<logger, loggers>>
    \/ /\ ok /\ HasLog
       /\ \E l \in Logger \ loggers :
             /\ logger' = l
             /\ loggers' = loggers \cup {l}
    \/ /\ ~ok /\ HasLog
       /\ "spawn" \in Faults \/ loggers = Logger
       /\ UNCHANGED <<logger, loggers>>

\* start_run() up to its publish(): a logger if there is log/run, then run.
Launch(ok) ==
    \/ /\ ok
       /\ StartLogger(TRUE)
       /\ \E p \in Free :
             /\ ps' = [ps EXCEPT ![p] = Spawned("run")]
             /\ process' = Started(p, "run")
    \/ /\ ~ok
       /\ StartLogger(FALSE) \/ (SpawnFails /\ StartLogger(TRUE))
       /\ UNCHANGED <<ps, process>>

\* Mutant: 'o' starts a run whatever is there.
StartsOnceMore(b) == b = "o"

\* 'o' starts the service only when nothing of it is there.
StartsOnce(b) == b = "o" /\ process = NoProcess

\* Mutant: only stop() publishes.
ApplySilent(b) ==
    /\ want' = WantAfter(b)
    /\ IF StartsOnce(b)
       THEN \E launched \in BOOLEAN : Launch(launched)
       ELSE Stop(SignalOf(b)) /\ UNCHANGED <<logger, loggers>>
    /\ IF SignalOf(b) = "term" /\ process # NoProcess
       THEN Publish(TRUE) ELSE UNCHANGED status

\* apply_control(): the errors of start_run() and publish() are dropped.
Apply(b) ==
    /\ want' = WantAfter(b)
    /\ IF StartsOnce(b)
       THEN \E launched \in BOOLEAN : Launch(launched)
       ELSE Stop(SignalOf(b)) /\ UNCHANGED <<logger, loggers>>
    /\ \E published \in BOOLEAN : Publish(published)

-----------------------------------------------------------------------------
(* The supervisor: new(), the steps of poll(), and the end of the process *)

\* The lock is taken and the control FIFO open: clients can write from here.
\* A down file may be there or not.
New ==
    /\ pc = "off"
    /\ pc' = "new"
    /\ want' \in {"Up", "Down"}
    /\ UNCHANGED <<process, logger, due, batch, terminate, fifo, status, ps, loggers>>

NewPublish ==
    /\ pc = "new"
    /\ UNCHANGED <<want, process, logger, due, batch, terminate, fifo, ps, loggers>>
    /\ \E ok \in BOOLEAN : Publish(ok) /\ pc' = IF ok THEN "read" ELSE "leave"

\* Mutant: one byte of what waits is kept.
ReadControlByte ==
    /\ pc = "read"
    /\ pc' = "apply"
    /\ batch' = IF fifo = <<>> THEN <<>> ELSE <<Head(fifo)>>
    /\ fifo' = <<>>
    /\ UNCHANGED <<want, process, logger, due, terminate, status, ps, loggers>>

ReadControl ==
    /\ pc = "read"
    /\ pc' = "apply"
    /\ batch' = fifo
    /\ fifo' = <<>>
    /\ UNCHANGED <<want, process, logger, due, terminate, status, ps, loggers>>

\* Mutant: the bytes are popped from the end.
ApplyControlNewest ==
    /\ pc = "apply"
    /\ batch # <<>>
    /\ Apply(batch[Len(batch)])
    /\ batch' = SubSeq(batch, 1, Len(batch) - 1)
    /\ UNCHANGED <<pc, due, terminate, fifo>>

ApplyControl ==
    /\ pc = "apply"
    /\ batch # <<>>
    /\ Apply(Head(batch))
    /\ batch' = Tail(batch)
    /\ UNCHANGED <<pc, due, terminate, fifo>>

TakeTerminate ==
    /\ pc = "apply"
    /\ batch = <<>>
    /\ pc' = "reap"
    /\ terminate' = FALSE
    /\ IF terminate
       THEN Apply("x")
       ELSE UNCHANGED <<want, process, logger, status, ps, loggers>>
    /\ UNCHANGED <<due, batch, fifo>>

\* try_wait() finds the child dead.
ChildExited == process # NoProcess /\ ps[process.child].state = "zombie"

ReapNothing ==
    /\ pc = "reap"
    /\ ~ChildExited
    /\ pc' = "start"
    /\ UNCHANGED <<want, process, logger, due, batch, terminate,
                   fifo, status, ps, loggers>>

\* Mutants: the dead child is kept in self.process; nothing is published.
ReapLastKeeps ==
    /\ pc = "reap"
    /\ ChildExited
    /\ ps' = [ps EXCEPT ![process.child] = Unused]
    /\ due' = FALSE
    /\ UNCHANGED <<want, process, logger, batch, terminate, fifo, loggers>>
    /\ \E ok \in BOOLEAN : Publish(ok) /\ pc' = IF ok THEN "start" ELSE "leave"

ReapLastSilent ==
    /\ pc = "reap"
    /\ ChildExited
    /\ ps' = [ps EXCEPT ![process.child] = Unused]
    /\ process' = NoProcess
    /\ due' = FALSE
    /\ pc' = "start"
    /\ UNCHANGED <<want, logger, batch, terminate, fifo, status, loggers>>

\* finish ended, or run ended and there is no finish script: no process, and
\* a rest of one second before the next start.
ReapLast ==
    /\ pc = "reap"
    /\ ChildExited
    /\ ps' = [ps EXCEPT ![process.child] = Unused]
    /\ process' = NoProcess
    /\ due' = FALSE
    /\ UNCHANGED <<want, logger, batch, terminate, fifo, loggers>>
    /\ \E ok \in BOOLEAN : Publish(ok) /\ pc' = IF ok THEN "start" ELSE "leave"

\* run ended and there is a finish script.
ReapRun ==
    /\ pc = "reap"
    /\ ChildExited
    /\ process.phase = "run"
    /\ UNCHANGED <<want, logger, due, batch, terminate, fifo, loggers>>
    /\ \/ \E p \in Free \cup {process.child}, ok \in BOOLEAN :
             /\ ps' = [q \in Pid |-> IF q = p THEN Spawned("finish")
                               ELSE IF q = process.child THEN Unused ELSE ps[q]]
             /\ process' = Started(p, "finish")
             /\ Publish(ok)
             /\ pc' = IF ok THEN "start" ELSE "leave"
       \/ /\ "spawn" \in Faults
          /\ ps' = [ps EXCEPT ![process.child] = Unused]
          /\ pc' = "leave"
          /\ UNCHANGED <<process, status>>

\* Mutants: no rest between two runs; the deadline compared the wrong way.
CanStartTired == process = NoProcess /\ want = "Up"
CanStartEarly == process = NoProcess /\ want = "Up" /\ ~due

CanStart == process = NoProcess /\ want = "Up" /\ due

Start ==
    /\ pc = "start"
    /\ CanStart
    /\ UNCHANGED <<want, due, batch, terminate, fifo>>
    /\ \/ /\ Launch(TRUE)
          /\ \E ok \in BOOLEAN : Publish(ok) /\ pc' = IF ok THEN "exit" ELSE "leave"
       \/ /\ Launch(FALSE)
          /\ pc' = "leave"
          /\ UNCHANGED status

StartNothing ==
    /\ pc = "start"
    /\ ~CanStart
    /\ pc' = "exit"
    /\ UNCHANGED <<want, process, logger, due, batch, terminate,
                   fifo, status, ps, loggers>>

\* Mutant: the wish to exit is enough.
EndPollHasty ==
    /\ pc = "exit"
    /\ IF want = "Exit"
       THEN pc' = "leave" /\ loggers' = loggers \ {logger}
       ELSE pc' = "read" /\ UNCHANGED loggers
    /\ UNCHANGED <<want, process, logger, due, batch, terminate, fifo, status, ps>>

\* The end of poll(): either the supervisor is done, and kills the logger it
\* knows of, or it sleeps.
EndPoll ==
    /\ pc = "exit"
    /\ IF want = "Exit" /\ process = NoProcess
       THEN pc' = "leave" /\ loggers' = loggers \ {logger}
       ELSE pc' = "read" /\ UNCHANGED loggers
    /\ UNCHANGED <<want, process, logger, due, batch, terminate, fifo, status, ps>>

Inherited(q) ==
    [role |-> q.role, state |-> q.state, sig |-> q.sig, parent |-> "init"]

\* The supervisor's process is gone: its lock and its end of the FIFO, with
\* the bytes in it, go with it, and PID 1 inherits its children.  Its memory
\* is set to what new() will find.
Gone ==
    /\ pc' = "off"
    /\ process' = NoProcess
    /\ logger' = NoLogger
    /\ due' = TRUE
    /\ batch' = <<>>
    /\ terminate' = FALSE
    /\ fifo' = <<>>
    /\ ps' = [p \in Pid |-> IF ps[p].parent = "lksys"
                            THEN Inherited(ps[p]) ELSE ps[p]]
    /\ UNCHANGED <<want, status, loggers>>

Leave == pc = "leave" /\ Gone

Crash == pc # "off" /\ "crash" \in Faults /\ Gone

-----------------------------------------------------------------------------
(* Around the supervisor *)

\* A client writes a whole command; without a reader it cannot open the FIFO.
ControlWrite(cmd) ==
    /\ pc # "off"
    /\ Len(fifo) + Len(cmd) <= MaxFifo
    /\ fifo' = fifo \o cmd
    /\ UNCHANGED <<supVars, status, ps, loggers>>

SigTerm ==
    /\ pc # "off"
    /\ terminate' = TRUE
    /\ UNCHANGED <<pc, want, process, logger, due, batch, fifo, status, ps, loggers>>

RetryDue ==
    /\ ~due
    /\ due' = TRUE
    /\ UNCHANGED <<pc, want, process, logger, batch, terminate, fifo, status, ps, loggers>>

\* What is left of a process that died, until its parent waits for it.
Dead(q) ==
    [role |-> q.role, state |-> "zombie", sig |-> "none", parent |-> q.parent]

Dies(p) ==
    /\ ps' = [ps EXCEPT ![p] = Dead(@)]
    /\ UNCHANGED <<supVars, fifo, status, loggers>>

\* A script ends of its own accord, or dies of the signal it got: a stopped
\* process ends only by SIGKILL.
ScriptEnds(p) == ps[p].state = "live" /\ Dies(p)
SignalKills(p) ==
    /\ \/ ps[p].state = "live" /\ ps[p].sig = "term"
       \/ ps[p].state \in {"live", "stopped"} /\ ps[p].sig = "kill"
    /\ Dies(p)

LoggerEnds(l) ==
    /\ l \in loggers
    /\ loggers' = loggers \ {l}
    /\ UNCHANGED <<supVars, fifo, status, ps>>

-----------------------------------------------------------------------------
Init ==
    /\ pc = "off"
    /\ want = "Up"
    /\ process = NoProcess
    /\ logger = NoLogger
    /\ due = TRUE
    /\ batch = <<>>
    /\ terminate = FALSE
    /\ fifo = <<>>
    /\ status = NoStatus
    /\ ps = [p \in Pid |-> Unused]
    /\ loggers = {}

Poll ==
    \/ ReadControl \/ ApplyControl \/ TakeTerminate
    \/ ReapNothing \/ ReapLast \/ ReapRun
    \/ Start \/ StartNothing \/ EndPoll

Supervisor == New \/ NewPublish \/ Poll \/ Leave

Processes ==
    \/ \E p \in Pid : ScriptEnds(p) \/ SignalKills(p)
    \/ \E l \in Logger : LoggerEnds(l)

Environment ==
    \/ \E cmd \in Commands : ControlWrite(cmd)
    \/ SigTerm \/ RetryDue \/ Crash

Next == Supervisor \/ Processes \/ Environment

Spec == Init /\ [][Next]_vars

-----------------------------------------------------------------------------
ProcessType == [child : Pid \cup {NoPid}, phase : {"down", "run", "finish"},
                gotTerm : BOOLEAN, paused : BOOLEAN]

EntryType == [role : {"none", "run", "finish"},
              state : {"free", "live", "stopped", "zombie"},
              sig : {"none", "term", "kill"},
              parent : {"none", "lksys", "init"}]

StatusType == [pid : Pid \cup {NoPid},
               state : {"absent", "down", "run", "finish"},
               paused : BOOLEAN, gotTerm : BOOLEAN, want : {"u", "d"}]

TypeOK ==
    /\ pc \in {"off", "new", "read", "apply", "reap", "start", "exit", "leave"}
    /\ want \in {"Up", "Down", "Exit"}
    /\ process \in ProcessType
    /\ logger \in Logger \cup {NoLogger}
    /\ due \in BOOLEAN
    /\ batch \in Seq(Byte)
    /\ terminate \in BOOLEAN
    /\ fifo \in Seq(Byte)
    /\ status \in StatusType
    /\ ps \in [Pid -> EntryType]
    /\ loggers \subseteq Logger

-----------------------------------------------------------------------------
(* Safety *)

\* Every child of the living supervisor that is not yet waited for is the one
\* it holds in self.process: no control byte and no exit can miss a script of
\* the service, and two scripts never execute side by side under one
\* supervisor, whatever order bytes, exits, failures and crashes come in.
NoLostChild == \A p \in Pid : ps[p].parent = "lksys" => p = process.child

\* The pid held in self.process is a child of this supervisor that it has not
\* waited for yet, executing the script the phase says: a signal is never
\* sent to a pid the kernel may have given to somebody else.
NoStrayHandle ==
    (pc # "leave" /\ process # NoProcess) =>
        /\ ps[process.child].parent = "lksys"
        /\ ps[process.child].state # "free"
        /\ ps[process.child].role = process.phase

\* At every step of a poll, supervise/status is what the supervisor believes:
\* no path through poll() changes process or want without a publish().
StatusTold ==
    pc \notin {"off", "new", "leave"} => status = StatusOf(process, want)

\* What the supervisor believes of its child, and publishes as "paused" and
\* "got TERM", is so: a child that is not dead is stopped exactly when it is
\* marked paused, and has a SIGTERM or SIGKILL on it when it is marked so.
FlagsTold ==
    (pc # "leave" /\ process # NoProcess) =>
        LET q == ps[process.child]
        IN  q.state # "zombie" =>
                /\ process.paused <=> q.state = "stopped"
                /\ process.gotTerm => q.sig # "none"
                /\ q.sig = "term" => process.gotTerm

\* A supervisor that meets no error leaves nothing behind: when it is about to
\* exit no script of the service executes, and the status says down.
CleanLeave ==
    (Faults = {} /\ pc = "leave") =>
        /\ ps = [p \in Pid |-> Unused]
        /\ status.state = "down" /\ status.pid = NoPid

(* As long as nothing fails and nobody kills the supervisor, the scripts     *)
(* that execute are those ServiceLife allows.                              *)
Inst == IF process = NoProcess \/ ChildExited THEN "none" ELSE process.phase

Ended == IF ChildExited THEN process.phase ELSE "no"

Life == INSTANCE ServiceLife WITH
    inst <- Inst,
    ended <- Ended,
    wanted <- (want = "Up"),
    rested <- due

\* Every step of the supervisor, of its clients and of the scripts is a step
\* of ServiceLife, or leaves the service's life as it is.
LifeSpec == Life!Spec

-----------------------------------------------------------------------------
(* Liveness, under the fairness of CtlFairSpec (Lksysctl) *)

\* 'x' or SIGTERM makes the supervisor exit, through run and finish, unless a
\* later byte takes the wish back or the child is paused.
ExitCompletes ==
    want = "Exit" ~> (pc = "off" \/ want # "Exit" \/ process.paused)

\* A service told down and sent SIGTERM is down in the end, unless a later
\* byte changes that or the child is paused.
DownCompletes ==
    (want = "Down" /\ process.gotTerm)
        ~> (process = NoProcess \/ want # "Down" \/ process.paused)

\* A service wanted up is running in the end: no exit of run or finish, and no
\* order of bytes, leaves it down for good.
UpCompletes ==
    (pc # "off" /\ want = "Up")
        ~> (pc = "off" \/ process.phase = "run" \/ want # "Up" \/ process.paused)
=============================================================================
