------------------------------ MODULE Lksystem ------------------------------
(***************************************************************************)
(* lksystem, PID 1 (src/bin/lksystem.rs), from boot to reboot(2), with the *)
(* stages it runs (etc/src/1.rs, 2.rs, 3.rs), the lksysdir that stage 2    *)
(* becomes, and those who ask for the end: lksysctl reboot, poweroff or    *)
(* halt (core::request_system_shutdown) and a plain kill -TERM 1.          *)
(*                                                                         *)
(* A supervisor (lksys) and its service are reduced to whether they live:  *)
(* Lksys has the details.                                                  *)
(***************************************************************************)
EXTENDS Naturals

CONSTANTS
    Service,     \* the service directories
    Requester,   \* the lksysctl processes that ask for the end of the system
    Asked,       \* the actions they ask for
    PlainTerms,  \* does anybody use kill -TERM 1?
    EnvReboot,   \* is LKSYSTEM_REBOOT set?
    DirFails,    \* may lksysdir end on an error?
    StageFails   \* may a stage program be missing or fail to start?

Power == {"reboot", "poweroff", "halt"}

ASSUME LksystemAssumption ==
    /\ Asked \subseteq Power
    /\ PlainTerms \in BOOLEAN
    /\ EnvReboot \in BOOLEAN
    /\ DirFails \in BOOLEAN
    /\ StageFails \in BOOLEAN

VARIABLES
    stage,      \* the stage PID 1 is at; 4 when the stages are over
    child,      \* the process of the stage: "none", "live" or "dead"
    terminate,  \* PID 1's TERMINATE flag
    shutdown,   \* shutdown_requested
    program,    \* what stage 2 executes: "2", "lksysdir" or "shell"
    dirTerm,    \* lksysdir's TERMINATE flag
    lksys,      \* the live lksys of each service: "none", or whose child it is
    running,    \* the services with a process alive
    cmdFile,    \* REBOOT_CMD_FILE
    request,    \* where each requester is
    performed,  \* what reboot(2) was called with; "panic" when PID 1 exited
    plain,      \* history: a plain kill -TERM 1 was sent
    dirFailed   \* history: a lksysdir has ended on an error

pid1 == <<stage, child, terminate, shutdown, performed>>
services == <<lksys, running>>
asking == <<cmdFile, request>>
history == <<plain, dirFailed>>
vars == <<stage, child, terminate, shutdown, program, dirTerm, lksys, running,
          cmdFile, request, performed, plain, dirFailed>>

-----------------------------------------------------------------------------
(* PID 1 *)

StartStage ==
    /\ stage \in 1..3
    /\ child = "none"
    /\ child' = "live"
    /\ program' = "2"
    /\ UNCHANGED <<stage, terminate, shutdown, performed, dirTerm, services,
                   asking, history>>

\* The stage cannot be started: main() returns the error, PID 1 is gone and the
\* kernel panics.
StageMissing ==
    /\ StageFails
    /\ stage \in 1..3
    /\ child = "none"
    /\ performed' = "panic"
    /\ UNCHANGED <<stage, child, terminate, shutdown, program, dirTerm,
                   services, asking, history>>

\* Mutant: stage 2 is left as soon as it exits.
StaysNowhere(s) == FALSE

\* Stage 2 is started again until the end was asked for, however it exits.
StaysAt(s) == s = 2 /\ ~shutdown

\* try_wait() or wait() has the exit of the stage.
ReapStage ==
    /\ child = "dead"
    /\ child' = "none"
    /\ stage' = IF StaysAt(stage) THEN stage ELSE stage + 1
    /\ UNCHANGED <<terminate, shutdown, performed, program, dirTerm, services,
                   asking, history>>

\* Mutant: the stage is left without waiting for the signal to be obeyed; the
\* signal is forgotten.
TakeTerminateLost ==
    /\ stage = 2
    /\ child # "none"
    /\ ~shutdown
    /\ terminate
    /\ terminate' = FALSE
    /\ UNCHANGED <<stage, child, shutdown, performed, program, dirTerm,
                   services, asking, history>>

\* SIGTERM is passed on to stage 2, which lksysdir notes in a flag and any
\* other program dies of; wait() follows, so the flag is not looked at again.
TakeTerminate ==
    /\ stage = 2
    /\ child # "none"
    /\ ~shutdown
    /\ terminate
    /\ terminate' = FALSE
    /\ shutdown' = TRUE
    /\ IF program = "lksysdir"
       THEN dirTerm' = TRUE /\ UNCHANGED child
       ELSE child' = "dead" /\ UNCHANGED dirTerm
    /\ UNCHANGED <<stage, performed, program, services, asking, history>>

Default == IF EnvReboot THEN "reboot" ELSE "poweroff"

\* Mutant: "halt" is forgotten.
MeaningTwo(file) ==
    IF file = "absent" THEN Default
    ELSE IF file = "reboot" THEN file ELSE "poweroff"

\* What reboot(2) is called with for the contents of the file: anything but
\* "reboot" and "halt", nothing too, powers off.
Meaning(file) ==
    IF file = "absent" THEN Default
    ELSE IF file \in {"reboot", "halt"} THEN file ELSE "poweroff"

Reboot ==
    /\ stage = 4
    /\ performed = "none"
    /\ performed' = Meaning(cmdFile)
    /\ UNCHANGED <<stage, child, terminate, shutdown, program, dirTerm,
                   services, asking, history>>

-----------------------------------------------------------------------------
(* The stages *)

\* Stage 1 and stage 3 come to their end.  Stage 3 gives lksysctl the option
\* "-w196", which is not the option "-w" and makes lksysctl print its usage:
\* force-stop and exit reach no service.
StageEnds ==
    /\ stage \in {1, 3}
    /\ child = "live"
    /\ child' = "dead"
    /\ UNCHANGED <<stage, terminate, shutdown, performed, program, dirTerm,
                   services, asking, history>>

Stage2Execs ==
    /\ stage = 2
    /\ child = "live"
    /\ program = "2"
    /\ program' \in {"lksysdir", "shell"}
    /\ dirTerm' = FALSE
    /\ UNCHANGED <<pid1, services, asking, history>>

Supervising == stage = 2 /\ child = "live" /\ program = "lksysdir"

\* lksysdir starts the lksys it misses.  Where one is left from an earlier
\* lksysdir the new one fails to lock and is gone again.
DirSpawns(s) ==
    /\ Supervising
    /\ lksys[s] = "none"
    /\ lksys' = [lksys EXCEPT ![s] = "lksysdir"]
    /\ UNCHANGED <<pid1, program, dirTerm, running, asking, history>>

\* Mutant: lksysdir leaves its children alive.
DirEndsAlone ==
    /\ Supervising
    /\ dirTerm
    /\ child' = "dead"
    /\ UNCHANGED <<stage, terminate, shutdown, performed, program, dirTerm,
                   services, asking, history>>

\* SIGTERM: every lksys it started is killed with SIGKILL; the services' own
\* processes are not touched.
DirEnds ==
    /\ Supervising
    /\ dirTerm
    /\ child' = "dead"
    /\ lksys' = [s \in Service |-> IF lksys[s] = "lksysdir" THEN "none" ELSE lksys[s]]
    /\ UNCHANGED <<stage, terminate, shutdown, performed, program, dirTerm,
                   running, asking, history>>

\* The directory cannot be read or lksys cannot be spawned or waited for: the
\* error is returned at once, a SIGTERM already noted or not, and the children
\* live on, adopted by PID 1.
DirError ==
    /\ DirFails
    /\ Supervising
    /\ child' = "dead"
    /\ lksys' = [s \in Service |-> IF lksys[s] = "lksysdir" THEN "init" ELSE lksys[s]]
    /\ dirFailed' = TRUE
    /\ UNCHANGED <<stage, terminate, shutdown, performed, program, dirTerm,
                   running, asking, plain>>

RunStarts(s) ==
    /\ lksys[s] # "none"
    /\ s \notin running
    /\ running' = running \cup {s}
    /\ UNCHANGED <<pid1, program, dirTerm, lksys, asking, history>>

RunEnds(s) ==
    /\ s \in running
    /\ running' = running \ {s}
    /\ UNCHANGED <<pid1, program, dirTerm, lksys, asking, history>>

-----------------------------------------------------------------------------
(* Those who ask for the end *)

Progress(r, from, to) ==
    /\ request[r].at = from
    /\ request' = [request EXCEPT ![r] = [@ EXCEPT !.at = to]]
    /\ UNCHANGED <<stage, child, shutdown, performed, program, dirTerm,
                   services, history>>

\* fs::write() opens the file and empties it,
Truncate(r) ==
    /\ Progress(r, "idle", "emptied")
    /\ cmdFile' = "empty"
    /\ UNCHANGED terminate

\* then writes the action,
WriteAction(r) ==
    /\ Progress(r, "emptied", "written")
    /\ cmdFile' = request[r].action
    /\ UNCHANGED terminate

\* and PID 1 is told.
Tell(r) ==
    /\ Progress(r, "written", "told")
    /\ terminate' = TRUE
    /\ UNCHANGED cmdFile

PlainTerm ==
    /\ PlainTerms
    /\ plain' = TRUE
    /\ terminate' = TRUE
    /\ UNCHANGED <<stage, child, shutdown, performed, program, dirTerm,
                   services,
                   asking, dirFailed>>

-----------------------------------------------------------------------------
Init ==
    /\ stage = 1
    /\ child = "none"
    /\ terminate = FALSE
    /\ shutdown = FALSE
    /\ program = "2"
    /\ dirTerm = FALSE
    /\ lksys = [s \in Service |-> "none"]
    /\ running = {}
    /\ cmdFile = "absent"
    /\ request \in [Requester -> [at : {"idle"}, action : Asked]]
    /\ performed = "none"
    /\ plain = FALSE
    /\ dirFailed = FALSE

Pid1 == StartStage \/ StageMissing \/ ReapStage \/ TakeTerminate \/ Reboot

\* After reboot(2) nothing happens any more.
Next ==
    /\ performed = "none"
    /\ \/ Pid1
       \/ StageEnds \/ Stage2Execs \/ DirEnds \/ DirError
       \/ \E s \in Service : DirSpawns(s) \/ RunStarts(s) \/ RunEnds(s)
       \/ \E r \in Requester : Truncate(r) \/ WriteAction(r) \/ Tell(r)
       \/ PlainTerm

Spec == Init /\ [][Next]_vars

\* PID 1 and lksysdir loop for ever; stage 1, stage 3 and the programs before
\* lksysdir come to their end, as the commands they run do; lksysctl goes on
\* with what it began.  PID 1 looks at its flag right after it has started
\* stage 2 and every 100 ms from then on, so a stage 2 that ends again and
\* again cannot be dead at every look: strong fairness.
FairSpec ==
    /\ Spec
    /\ WF_vars(Pid1 /\ performed = "none")
    /\ SF_vars(TakeTerminate /\ performed = "none")
    /\ WF_vars(StageEnds /\ performed = "none")
    /\ WF_vars(DirEnds /\ performed = "none")
    /\ \A r \in Requester : WF_vars((WriteAction(r) \/ Tell(r)) /\ performed = "none")

TypeOK ==
    /\ stage \in 1..4
    /\ child \in {"none", "live", "dead"}
    /\ terminate \in BOOLEAN
    /\ shutdown \in BOOLEAN
    /\ program \in {"2", "lksysdir", "shell"}
    /\ dirTerm \in BOOLEAN
    /\ lksys \in [Service -> {"none", "lksysdir", "init"}]
    /\ running \subseteq Service
    /\ cmdFile \in {"absent", "empty"} \cup Power
    /\ request \in [Requester -> [at : {"idle", "emptied", "written", "told"},
                                  action : Asked]]
    /\ performed \in {"none", "panic"} \cup Power
    /\ plain \in BOOLEAN
    /\ dirFailed \in BOOLEAN

-----------------------------------------------------------------------------
(* Properties *)

\* PID 1 takes the system down only when somebody told it to, in whatever
\* order the stages, lksysdir and their failures come.
NoUnaskedEnd ==
    performed \in Power => plain \/ \E r \in Requester : request[r].at = "told"

\* The action performed is one whose request was written in full.  A plain
\* kill -TERM 1 with no request gets the default; one that overtakes a request,
\* so that PID 1 reads the file between its truncation and the write, powers
\* off, whatever was being asked for and whatever LKSYSTEM_REBOOT says.
AsAsked ==
    performed \in Power =>
        \/ \E r \in Requester :
              /\ request[r].at \in {"written", "told"}
              /\ request[r].action = performed
        \/ /\ plain
           /\ \A r \in Requester : request[r].at = "idle"
           /\ performed = Default
        \/ /\ plain
           /\ \E r \in Requester : request[r].at = "emptied"
           /\ performed = "poweroff"

\* When stage 3 begins no supervisor is left to start a service again, provided
\* that no lksysdir has ended on an error.  One that did has left its lksys
\* alive, and nobody ends them: a later lksysdir does not know them, and the
\* last one may fail after SIGTERM was passed on to it and before it looks.
SupervisorsEnd ==
    stage >= 3 /\ ~dirFailed => \A s \in Service : lksys[s] = "none"

\* SIGTERM is never forgotten: one that comes while the system boots or runs
\* takes it down, even in stage 1, before lksysdir is there, while lksysdir
\* fails and comes again, or in its fallback shell.
TermIsServed == (terminate /\ stage < 3) ~> performed # "none"

(* What is said and does not hold *)

\* lksystem.rs prints "All services has been stopped!".
ServicesStopped == performed # "none" => running = {}

\* core.rs: "records the desired action for PID 1 to pick up".  AsAsked, with
\* several requests.
ActionPickedUp == AsAsked
=============================================================================
