------------------------------ MODULE Lksysctl ------------------------------
(***************************************************************************)
(* lksysctl (src/bin/lksysctl.rs): the clients that command a service and  *)
(* wait for the state they asked for, composed with the supervisor of      *)
(* Lksys.                                                                  *)
(*                                                                         *)
(* A client writes the bytes of its command into supervise/control in one  *)
(* write, then reads supervise/status every 200 ms until it shows what the *)
(* command is to bring about or the deadline is over.  It has no other     *)
(* word from the supervisor.  An invocation on several services is one     *)
(* client after the other, one per service.                                *)
(***************************************************************************)
EXTENDS Lksys

CONSTANTS
    Client,      \* the lksysctl processes
    CtlCommands  \* the commands they give

VARIABLES
    client,    \* what each client does
    wish,      \* history: the want that all bytes accepted so far amount to
    owed       \* history: the bytes this supervisor accepted and has not served

ctlVars == <<client, wish, owed>>
allVars == <<vars, client, wish, owed>>

\* action(): the bytes of a command.  "signal" is any of hup, alarm, int,
\* quit, usr1 and usr2.
ActionOf ==
    [up |-> <<"u">>, down |-> <<"d">>, exit |-> <<"x">>, once |-> <<"o">>,
     pause |-> <<"p">>, cont |-> <<"c">>, term |-> <<"t">>, kill |-> <<"k">>,
     signal |-> <<"h">>, restart |-> <<"t", "c", "u">>,
     force_stop |-> <<"d", "k">>, force_restart |-> <<"t", "k", "c", "u">>,
     force_shutdown |-> <<"x", "k">>]

\* The commands that wait for their state; the others do with -v.
Waiting == DOMAIN ActionOf \ {"term", "kill", "signal"}

ASSUME CtlAssumption == CtlCommands \subseteq DOMAIN ActionOf

\* Mutant: any running service is up.
ShowsRunning(st, b) ==
    /\ b = "u" => st.pid # NoPid /\ st.state = "run"
    /\ b \in {"d", "x"} => st.pid = NoPid /\ st.state = "down"
    /\ b = "p" => st.paused
    /\ b = "c" => ~st.paused

\* desired(): does a status show what the byte asks for?
Shows(st, b) ==
    /\ b = "u" => st.pid # NoPid /\ st.state = "run" /\ st.want = "u"
    /\ b \in {"d", "x"} => st.pid = NoPid /\ st.state = "down"
    /\ b = "p" => st.paused
    /\ b = "c" => ~st.paused

Desired(st, cmd) ==
    \A i \in DOMAIN ActionOf[cmd] : Shows(st, ActionOf[cmd][i])

Idle == [at |-> "idle", cmd |-> "status", late |-> FALSE]

\* The want that results when bytes are applied to w, one by one.
Amounts(w, bytes) ==
    LET Deciding == {i \in DOMAIN bytes : bytes[i] \in {"d", "o", "u", "x"}}
    IN  IF Deciding = {} THEN w
        ELSE LET i == CHOOSE j \in Deciding : \A k \in Deciding : k <= j
             IN  CASE bytes[i] = "u" -> "Up" [] bytes[i] = "x" -> "Exit"
                   [] OTHER -> "Down"

-----------------------------------------------------------------------------
(* A client *)

\* control() succeeds: the supervisor has the FIFO open and it has room.
Ask(c, cmd, verbose) ==
    /\ client[c].at # "wait"
    /\ ControlWrite(ActionOf[cmd])
    /\ client' = [client EXCEPT ![c] =
         [at |-> IF cmd \in Waiting \/ verbose THEN "wait" ELSE "sent",
          cmd |-> cmd, late |-> FALSE]]
    /\ wish' = IF wish = "any" THEN wish ELSE Amounts(wish, ActionOf[cmd])
    /\ owed' = owed \o ActionOf[cmd]

\* control() fails: there is no reader, or no room for the bytes.
Refused(c, cmd) ==
    /\ client[c].at # "wait"
    /\ pc = "off" \/ Len(fifo) + Len(ActionOf[cmd]) > MaxFifo
    /\ client' = [client EXCEPT ![c] = [at |-> "fail", cmd |-> cmd, late |-> FALSE]]
    /\ UNCHANGED <<vars, wish, owed>>

\* One turn of the wait loop that ends it.
Look(c) ==
    /\ client[c].at = "wait"
    /\ \/ /\ status = NoStatus
          /\ client' = [client EXCEPT ![c].at = "fail"]
       \/ /\ status # NoStatus
          /\ Desired(status, client[c].cmd)
          /\ client' = [client EXCEPT ![c].at = "ok"]
       \/ /\ status # NoStatus
          /\ ~Desired(status, client[c].cmd)
          /\ client[c].late
          /\ client' = [client EXCEPT ![c].at = "timeout"]
    /\ UNCHANGED <<vars, wish, owed>>

Deadline(c) ==
    /\ client[c].at = "wait"
    /\ ~client[c].late
    /\ client' = [client EXCEPT ![c].late = TRUE]
    /\ UNCHANGED <<vars, wish, owed>>

-----------------------------------------------------------------------------
(* The supervisor and its processes, with the history variables *)

\* A byte served is no longer owed; those a supervisor leaves unread are lost
\* with its end of the FIFO.
SupervisorStep ==
    /\ Supervisor
    /\ wish' = IF New THEN want' ELSE wish
    /\ owed' = IF ApplyControl THEN Tail(owed) ELSE IF Leave THEN <<>> ELSE owed
    /\ UNCHANGED client

\* The supervisor is killed with SIGKILL, as lksysdir does.
Killed == Crash /\ owed' = <<>> /\ UNCHANGED <<client, wish>>

\* SIGTERM is served after the bytes already waiting and before those still
\* to come, so it has no place in their order.
Terminated == SigTerm /\ wish' = "any" /\ UNCHANGED <<client, owed>>

Around == (Processes \/ RetryDue) /\ UNCHANGED ctlVars

CtlInit ==
    /\ Init
    /\ client = [c \in Client |-> Idle]
    /\ wish = "any"
    /\ owed = <<>>

Clients == \E c \in Client :
    \/ \E cmd \in CtlCommands :
          \/ \E verbose \in BOOLEAN : Ask(c, cmd, verbose)
          \/ Refused(c, cmd)
    \/ Look(c)
    \/ Deadline(c)

CtlNext == SupervisorStep \/ Killed \/ Terminated \/ Around \/ Clients

CtlSpec == CtlInit /\ [][CtlNext]_allVars

\* The supervisor's thread keeps polling (thread::sleep ends) and lksysdir
\* starts a new supervisor for one that is gone; one second passes; a process
\* that a pending signal kills dies; a finish script ends; a client looks again
\* every 200 ms.  Nothing is assumed of run, of what clients ask for or of the
\* ones who send SIGTERM and SIGKILL.
CtlFairSpec ==
    /\ CtlSpec
    /\ WF_allVars(SupervisorStep)
    /\ WF_allVars(RetryDue /\ UNCHANGED ctlVars)
    /\ \A p \in Pid :
          /\ WF_allVars(SignalKills(p) /\ UNCHANGED ctlVars)
          /\ WF_allVars(ps[p].role = "finish" /\ ScriptEnds(p) /\ UNCHANGED ctlVars)
    /\ \A c \in Client : WF_allVars(Look(c))

-----------------------------------------------------------------------------
(* Properties *)

\* What the answer "ok" to a command says of the processes themselves, at the
\* moment it is given.
Truth(b) ==
    /\ b = "u" => /\ want = "Up" /\ process # NoProcess
                  /\ ps[process.child].role = "run"
    /\ b \in {"d", "x"} => \A p \in Pid : ps[p] = Unused
    /\ b = "p" => process # NoProcess /\ ps[process.child].state # "live"
    /\ b = "c" => \A p \in Pid : ps[p].state # "stopped"

\* An "ok" is true when it is given, although the client sees nothing but the
\* status file: through every interleaving of two clients, the supervisor, the
\* exit of one supervisor and the birth of the next, and the service's scripts.
AnswersTrue == [][
    \A c \in Client :
        (client[c].at = "wait" /\ client'[c].at = "ok") =>
            \A i \in DOMAIN ActionOf[client[c].cmd] :
                Truth(ActionOf[client[c].cmd][i])]_allVars

\* The want that the clients have asked for, all bytes accepted taken together,
\* is the want of the supervisor once the bytes still on their way are served.
LastWordWins ==
    (wish # "any" /\ pc \notin {"off", "leave"}) => Amounts(want, batch \o fifo) = wish

\* As long as a supervisor lives, no byte that it accepted is lost, repeated or
\* overtaken, whichever of t, k, p, c, h or of those that decide on want it is:
\* what is still to be served is what waits in the batch and the FIFO, a step
\* that serves a byte serves the one accepted first, and nothing but the bytes
\* and SIGTERM has a say in want.
ServedInOrder ==
    /\ [](owed = batch \o fifo)
    /\ [][(pc = "apply" /\ batch' # batch) =>
             (pc' = "off" \/ Apply(Head(owed)))]_allVars
    /\ []LastWordWins

\* A client that asks for down and is patient is answered, unless the service
\* is paused, the supervisor exits, or another client has its say.
DownAnswered == \A c \in Client :
    (client[c].at = "wait" /\ client[c].cmd = "down" /\ wish = "Down") ~>
        \/ client[c].at # "wait" \/ client[c].late
        \/ process.paused \/ pc = "off" \/ wish # "Down"
=============================================================================
