---------------------------- MODULE Lksys_proofs ----------------------------
(***************************************************************************)
(* Theorems about Lksys, for any sets of process ids, commands and faults. *)
(***************************************************************************)
EXTENDS Lksys, SequenceTheorems, TLAPS

-----------------------------------------------------------------------------
(* What the operators return *)

SignalName == {"term", "kill", "stop", "cont", "other"}

\* A supervisor that has no process, or has just spawned one, is well typed,
\* and so are the entries of a free pid and of a new child.
LEMMA ConstantTypes ==
    /\ <<>> \in Seq(Byte)
    /\ NoProcess \in ProcessType
    /\ NoStatus \in StatusType
    /\ Unused \in EntryType
    /\ \A s \in {"run", "finish"} : Spawned(s) \in EntryType
    /\ \A p \in Pid, s \in {"run", "finish"} : Started(p, s) \in ProcessType
  BY EmptySeq DEF NoProcess, NoStatus, Unused, Spawned, Started,
                  ProcessType, EntryType, StatusType

\* A signal changes the state and the pending signal of an entry, no more.
LEMMA SignalledType ==
    ASSUME NEW q \in EntryType, NEW sg \in SignalName
    PROVE  /\ Signalled(q, sg) \in EntryType
           /\ Signalled(q, sg).parent = q.parent
           /\ Signalled(q, sg).role = q.role
           /\ q.state # "free" => Signalled(q, sg).state # "free"
  BY DEF Signalled, SignalName, EntryType

\* stop() changes the flags of a process, no more.
LEMMA MarkedType ==
    ASSUME NEW proc \in ProcessType, NEW sg \in SignalName
    PROVE  /\ Marked(proc, sg) \in ProcessType
           /\ Marked(proc, sg).child = proc.child
           /\ Marked(proc, sg).phase = proc.phase
  BY DEF Marked, ProcessType

\* Every control byte has a signal and a want.
LEMMA ByteTypes ==
    ASSUME TypeOK, NEW b \in Byte
    PROVE  /\ SignalOf(b) \in SignalName
           /\ WantAfter(b) \in {"Up", "Down", "Exit"}
  BY DEF SignalOf, SignalName, WantAfter, Byte, TypeOK

\* The status published is well typed, whether or not publish() fails.
LEMMA PublishType ==
    ASSUME status \in StatusType, process' \in ProcessType,
           want' \in {"Up", "Down", "Exit"},
           NEW ok \in BOOLEAN, Publish(ok)
    PROVE  status' \in StatusType
  <1>1. StatusOf(process', want') \in StatusType
    BY DEF StatusOf, StatusType, ProcessType, WantByte
  <1>2. QED
    BY <1>1 DEF Publish

-----------------------------------------------------------------------------
(* The inductive invariant *)

\* A free pid is nobody's, and the supervisor has no child but process.child.
Table == \A p \in Pid :
    /\ ps[p].state = "free" => ps[p] = Unused
    /\ ps[p].parent = "lksys" => p = process.child

\* The process held is a child of the supervisor that it has not waited for.
Handle == process # NoProcess =>
    /\ process.child \in Pid
    /\ ps[process.child].parent = "lksys"
    /\ ps[process.child].role = process.phase
    /\ process.phase \in {"run", "finish"}

\* Between the end of a supervisor that failed and its last step the handle
\* may be stale: a finish script could not be spawned after run was reaped.
IInv ==
    /\ TypeOK
    /\ Table
    /\ pc # "leave" => Handle
    /\ pc \in {"off", "new"} => process = NoProcess

\* The part of a step that touches the children is well typed and leaves the
\* table and the handle in order.
Kept ==
    /\ process' \in ProcessType
    /\ ps' \in [Pid -> EntryType]
    /\ Table'
    /\ Handle'

LEMMA StopKeeps ==
    ASSUME TypeOK, Table, Handle, NEW sg \in SignalName, Stop(sg)
    PROVE  Kept
  <1>1. CASE process = NoProcess
    BY <1>1 DEF Stop, Kept, TypeOK, Table, Handle
  <1>2. CASE process # NoProcess
    <2>1. /\ process.child \in Pid
          /\ process.phase \in {"run", "finish"}
          /\ process \in ProcessType
          /\ ps \in [Pid -> EntryType]
      BY <1>2 DEF Handle, TypeOK
    <2>2. /\ ps' = [ps EXCEPT ![process.child] = Signalled(@, sg)]
          /\ process' = Marked(process, sg)
      BY <1>2 DEF Stop
    <2>3. /\ process' \in ProcessType
          /\ process'.child = process.child
          /\ process'.phase = process.phase
      BY <2>1, <2>2, MarkedType
    <2>4. \A p \in Pid : /\ ps[p] \in EntryType
                         /\ Signalled(ps[p], sg) \in EntryType
                         /\ Signalled(ps[p], sg).parent = ps[p].parent
                         /\ Signalled(ps[p], sg).role = ps[p].role
                         /\ ps[p].state # "free" => Signalled(ps[p], sg).state # "free"
      BY <2>1, SignalledType
    <2>5. ps[process.child].state # "free"
      BY <1>2, <2>1 DEF Table, Handle, Unused
    <2>6. ps' \in [Pid -> EntryType]
      BY <2>1, <2>2, <2>4
    <2>7. Table'
      BY <2>1, <2>2, <2>3, <2>4, <2>5 DEF Table
    <2>8. Handle'
      BY <1>2, <2>1, <2>2, <2>3, <2>4 DEF Handle
    <2>9. QED
      BY <2>3, <2>6, <2>7, <2>8 DEF Kept
  <1>3. QED
    BY <1>1, <1>2

LEMMA LaunchKeeps ==
    ASSUME TypeOK, Table, process = NoProcess, NEW ok \in BOOLEAN, Launch(ok)
    PROVE  /\ Kept
           /\ logger' \in Logger \cup {NoLogger}
           /\ loggers' \subseteq Logger
  <1>1. /\ logger' \in Logger \cup {NoLogger}
        /\ loggers' \subseteq Logger
    BY DEF Launch, StartLogger, TypeOK
  <1>2. CASE ps' = ps /\ process' = process
    BY <1>1, <1>2 DEF Kept, TypeOK, Table, Handle
  <1>3. CASE ~(ps' = ps /\ process' = process)
    <2>1. PICK p \in Free : /\ ps' = [ps EXCEPT ![p] = Spawned("run")]
                            /\ process' = Started(p, "run")
      BY <1>3 DEF Launch
    <2>2. p \in Pid /\ ps \in [Pid -> EntryType]
      BY <2>1 DEF Free, TypeOK
    <2>3. /\ process' \in ProcessType
          /\ ps' \in [Pid -> EntryType]
      BY <2>1, <2>2, ConstantTypes
    <2>4. \A q \in Pid : ps[q].parent # "lksys"
      BY LksysAssumption DEF Table, NoProcess
    <2>5. Table'
      BY <2>1, <2>2, <2>4 DEF Table, Spawned, Started
    <2>6. Handle'
      BY <2>1, <2>2 DEF Handle, Spawned, Started
    <2>7. QED
      BY <1>1, <2>3, <2>5, <2>6 DEF Kept
  <1>4. QED
    BY <1>2, <1>3

LEMMA ApplyKeeps ==
    ASSUME TypeOK, Table, Handle, NEW b \in Byte, Apply(b)
    PROVE  /\ Kept
           /\ want' \in {"Up", "Down", "Exit"}
           /\ logger' \in Logger \cup {NoLogger}
           /\ loggers' \subseteq Logger
           /\ status' \in StatusType
  <1>1. want' \in {"Up", "Down", "Exit"}
    BY ByteTypes DEF Apply
  <1>2. /\ Kept
        /\ logger' \in Logger \cup {NoLogger}
        /\ loggers' \subseteq Logger
    <2>1. CASE StartsOnce(b)
      <3>1. PICK launched \in BOOLEAN : Launch(launched)
        BY <2>1 DEF Apply
      <3>2. process = NoProcess
        BY <2>1 DEF StartsOnce
      <3>3. QED
        BY <3>1, <3>2, LaunchKeeps
    <2>2. CASE ~StartsOnce(b)
      <3>1. Stop(SignalOf(b)) /\ UNCHANGED <<logger, loggers>>
        BY <2>2 DEF Apply
      <3>2. SignalOf(b) \in SignalName
        BY ByteTypes
      <3>3. Kept
        BY <3>1, <3>2, StopKeeps
      <3>4. QED
        BY <3>1, <3>3 DEF TypeOK
    <2>3. QED
      BY <2>1, <2>2
  <1>3. PICK published \in BOOLEAN : Publish(published)
    BY DEF Apply
  <1>4. status' \in StatusType
    BY <1>1, <1>2, <1>3, PublishType DEF Kept, TypeOK
  <1>5. QED
    BY <1>1, <1>2, <1>4

-----------------------------------------------------------------------------
(* Theorems *)

\* The invariant holds when nothing runs.
LEMMA InitIInv == Init => IInv
  <1> SUFFICES ASSUME Init PROVE IInv
    OBVIOUS
  <1>1. TypeOK
    BY ConstantTypes DEF Init, TypeOK
  <1>2. Table
    BY DEF Init, Table, Unused
  <1>3. process = NoProcess
    BY DEF Init
  <1>4. QED
    BY <1>1, <1>2, <1>3 DEF IInv, Handle

\* The end of a supervisor hands its children to PID 1.
LEMMA GoneKeeps ==
    ASSUME IInv, Gone
    PROVE  IInv'
  <1>1. TypeOK'
    <2>1. ps' \in [Pid -> EntryType]
      BY DEF Gone, IInv, TypeOK, EntryType, Inherited
    <2>2. QED
      BY <2>1, ConstantTypes DEF Gone, IInv, TypeOK
  <1>2. Table'
    <2>1. \A p \in Pid : ps[p] \in EntryType
      BY DEF IInv, TypeOK
    <2>2. \A p \in Pid : ps[p].parent = "lksys" => ps[p].state # "free"
      BY DEF IInv, Table, Unused
    <2>3. QED
      BY <2>1, <2>2 DEF IInv, Table, Gone, Inherited
  <1>3. process' = NoProcess
    BY DEF Gone
  <1>4. QED
    BY <1>1, <1>2, <1>3 DEF IInv, Handle

\* Every step of the program and of what is around it keeps the invariant.
LEMMA StepIInv == IInv /\ [Next]_vars => IInv'
  <1> SUFFICES ASSUME IInv, [Next]_vars PROVE IInv'
    OBVIOUS
  <1> USE DEF IInv
  <1>1. CASE New
    BY <1>1 DEF New, TypeOK, Table, Handle
  <1>2. CASE NewPublish
    <2>1. PICK ok \in BOOLEAN : Publish(ok)
      BY <1>2 DEF NewPublish
    <2>2. status' \in StatusType
      BY <1>2, <2>1, PublishType DEF NewPublish, TypeOK
    <2>3. QED
      BY <1>2, <2>2 DEF NewPublish, TypeOK, Table, Handle
  <1>3. CASE ReadControl
    BY <1>3 DEF ReadControl, TypeOK, Table, Handle
  <1>4. CASE ApplyControl
    <2>1. Head(batch) \in Byte /\ Tail(batch) \in Seq(Byte)
      BY <1>4 DEF ApplyControl, TypeOK
    <2>2. Apply(Head(batch))
      BY <1>4 DEF ApplyControl
    <2>3. /\ Kept
          /\ want' \in {"Up", "Down", "Exit"}
          /\ logger' \in Logger \cup {NoLogger}
          /\ loggers' \subseteq Logger
          /\ status' \in StatusType
      BY <1>4, <2>1, <2>2, ApplyKeeps DEF ApplyControl
    <2>4. QED
      BY <1>4, <2>1, <2>3 DEF ApplyControl, Kept, TypeOK
  <1>5. CASE TakeTerminate
    <2>1. CASE terminate
      <3>1. "x" \in Byte /\ Apply("x")
        BY <1>5, <2>1 DEF TakeTerminate, Byte
      <3>2. /\ Kept
            /\ want' \in {"Up", "Down", "Exit"}
            /\ logger' \in Logger \cup {NoLogger}
            /\ loggers' \subseteq Logger
            /\ status' \in StatusType
        BY <1>5, <3>1, ApplyKeeps DEF TakeTerminate
      <3>3. QED
        BY <1>5, <3>2 DEF TakeTerminate, Kept, TypeOK
    <2>2. CASE ~terminate
      BY <1>5, <2>2 DEF TakeTerminate, TypeOK, Table, Handle
    <2>3. QED
      BY <2>1, <2>2
  <1>6. CASE ReapNothing
    BY <1>6 DEF ReapNothing, TypeOK, Table, Handle
  <1>7. CASE ReapLast
    <2>1. PICK ok \in BOOLEAN : Publish(ok) /\ pc' = IF ok THEN "start" ELSE "leave"
      BY <1>7 DEF ReapLast
    <2>2. process' = NoProcess /\ ps' = [ps EXCEPT ![process.child] = Unused]
      BY <1>7 DEF ReapLast
    <2>3. status' \in StatusType
      BY <1>7, <2>1, <2>2, PublishType, ConstantTypes DEF ReapLast, TypeOK
    <2>4. TypeOK'
      BY <1>7, <2>1, <2>2, <2>3, ConstantTypes DEF ReapLast, TypeOK
    <2>5. Table'
      BY <2>2 DEF TypeOK, Table, Unused
    <2>6. QED
      BY <2>1, <2>2, <2>4, <2>5 DEF Handle
  <1>8. CASE ReapRun
    <2>1. CASE \E p \in Free \cup {process.child}, ok \in BOOLEAN :
                  /\ ps' = [q \in Pid |-> IF q = p THEN Spawned("finish")
                              ELSE IF q = process.child THEN Unused ELSE ps[q]]
                  /\ process' = Started(p, "finish")
                  /\ Publish(ok)
                  /\ pc' = IF ok THEN "start" ELSE "leave"
      <3>1. PICK p \in Free \cup {process.child}, ok \in BOOLEAN :
                  /\ ps' = [q \in Pid |-> IF q = p THEN Spawned("finish")
                              ELSE IF q = process.child THEN Unused ELSE ps[q]]
                  /\ process' = Started(p, "finish")
                  /\ Publish(ok)
                  /\ pc' = IF ok THEN "start" ELSE "leave"
        BY <2>1
      <3>2. p \in Pid
        BY <1>8 DEF ReapRun, ChildExited, Handle, Free
      <3>3. process' \in ProcessType /\ ps' \in [Pid -> EntryType]
        BY <3>1, <3>2, ConstantTypes DEF TypeOK
      <3>4. status' \in StatusType
        BY <1>8, <3>1, <3>3, PublishType DEF ReapRun, TypeOK
      <3>5. TypeOK'
        BY <1>8, <3>1, <3>3, <3>4 DEF ReapRun, TypeOK
      <3>6. Table'
        BY <3>1, <3>2 DEF Table, Spawned, Started, Unused
      <3>7. Handle'
        BY <3>1, <3>2 DEF Handle, Spawned, Started
      <3>8. pc' \notin {"off", "new"}
        BY <3>1
      <3>9. QED
        BY <3>5, <3>6, <3>7, <3>8
    <2>2. CASE /\ ps' = [ps EXCEPT ![process.child] = Unused]
               /\ pc' = "leave"
               /\ UNCHANGED <<process, status>>
      <3>1. TypeOK'
        BY <1>8, <2>2, ConstantTypes DEF ReapRun, TypeOK
      <3>2. Table'
        BY <2>2 DEF TypeOK, Table, Unused
      <3>3. QED
        BY <2>2, <3>1, <3>2
    <2>3. QED
      BY <1>8, <2>1, <2>2 DEF ReapRun
  <1>9. CASE Start
    <2>1. process = NoProcess
      BY <1>9 DEF Start, CanStart
    <2>2. PICK launched \in BOOLEAN : Launch(launched)
      BY <1>9 DEF Start
    <2>3. /\ Kept
          /\ logger' \in Logger \cup {NoLogger}
          /\ loggers' \subseteq Logger
      BY <2>1, <2>2, LaunchKeeps
    <2>4. status' \in StatusType
      BY <1>9, <2>3, PublishType DEF Start, Kept, TypeOK
    <2>5. pc' \in {"exit", "leave"}
      BY <1>9 DEF Start
    <2>6. QED
      BY <1>9, <2>3, <2>4, <2>5 DEF Start, Kept, TypeOK
  <1>10. CASE StartNothing
    BY <1>10 DEF StartNothing, TypeOK, Table, Handle
  <1>11. CASE EndPoll
    BY <1>11 DEF EndPoll, TypeOK, Table, Handle
  <1>12. CASE Leave
    BY <1>12, GoneKeeps DEF Leave
  <1>13. CASE Crash
    BY <1>13, GoneKeeps DEF Crash
  <1>14. ASSUME NEW cmd \in Commands, ControlWrite(cmd) PROVE IInv'
    <2>1. fifo \o cmd \in Seq(Byte)
      BY <1>14, LksysAssumption DEF TypeOK
    <2>2. QED
      BY <1>14, <2>1 DEF ControlWrite, supVars, TypeOK, Table, Handle
  <1>15. CASE SigTerm
    BY <1>15 DEF SigTerm, TypeOK, Table, Handle
  <1>16. CASE RetryDue
    BY <1>16 DEF RetryDue, TypeOK, Table, Handle
  <1>17. ASSUME NEW p \in Pid, ScriptEnds(p) \/ SignalKills(p) PROVE IInv'
    <2>1. /\ Dies(p)
          /\ ps[p].state # "free"
      BY <1>17 DEF ScriptEnds, SignalKills
    <2>2. /\ ps' = [ps EXCEPT ![p] = Dead(ps[p])]
          /\ UNCHANGED <<pc, want, process, logger, due, batch, terminate,
                         fifo, status, loggers>>
      BY <2>1 DEF Dies, supVars
    <2>3. /\ Dead(ps[p]) \in EntryType
          /\ Dead(ps[p]).parent = ps[p].parent
          /\ Dead(ps[p]).role = ps[p].role
          /\ Dead(ps[p]).state = "zombie"
      BY DEF Dead, TypeOK, EntryType
    <2>4. TypeOK'
      BY <2>2, <2>3 DEF TypeOK
    <2>5. Table'
      BY <2>2, <2>3 DEF Table, TypeOK
    <2>6. pc # "leave" => Handle'
      BY <2>2, <2>3 DEF Handle, TypeOK
    <2>7. QED
      BY <2>2, <2>4, <2>5, <2>6
  <1>18. ASSUME NEW l \in Logger, LoggerEnds(l) PROVE IInv'
    BY <1>18 DEF LoggerEnds, supVars, TypeOK, Table, Handle
  <1>19. CASE UNCHANGED vars
    BY <1>19 DEF vars, TypeOK, Table, Handle
  <1>20. QED
    BY <1>1, <1>2, <1>3, <1>4, <1>5, <1>6, <1>7, <1>8, <1>9, <1>10, <1>11,
       <1>12, <1>13, <1>14, <1>15, <1>16, <1>17, <1>18, <1>19
    DEF Next, Supervisor, Poll, Processes, Environment

THEOREM Invariance == Spec => []IInv
  <1>1. QED
    BY InitIInv, StepIInv, PTL DEF Spec

\* Every variable has its type, whatever fails.
THEOREM TypeCorrect == Spec => []TypeOK
  <1>1. IInv => TypeOK
    BY DEF IInv
  <1>2. QED
    BY <1>1, Invariance, PTL

\* A supervisor never loses a child, nor runs two at a time, however many
\* pids there are, whatever the clients write and whatever fails.
THEOREM NoChildIsLost == Spec => []NoLostChild
  <1>1. IInv => NoLostChild
    BY DEF IInv, Table, NoLostChild
  <1>2. QED
    BY <1>1, Invariance, PTL

\* A signal is never sent to a pid that is not, or no longer, the service's.
THEOREM NoHandleIsStray == Spec => []NoStrayHandle
  <1>1. IInv => NoStrayHandle
    BY DEF IInv, Table, Handle, NoStrayHandle, Unused
  <1>2. QED
    BY <1>1, Invariance, PTL

-----------------------------------------------------------------------------
(* What is published: the flags *)

\* FlagsTold, wherever the supervisor is.
Flags == (process # NoProcess /\ ps[process.child].state # "zombie") =>
    /\ process.paused <=> ps[process.child].state = "stopped"
    /\ process.gotTerm => ps[process.child].sig # "none"
    /\ ps[process.child].sig = "term" => process.gotTerm

LEMMA FlagsToldIsFlags == FlagsTold <=> (pc # "leave" => Flags)
  BY DEF FlagsTold, Flags

LEMMA StopFlags ==
    ASSUME TypeOK, Handle, Flags, NEW sg \in SignalName, Stop(sg)
    PROVE  Flags'
  <1>1. CASE process = NoProcess
    BY <1>1 DEF Stop, Flags
  <1>2. CASE process # NoProcess
    <2> DEFINE q == ps[process.child]
    <2>1. process.child \in Pid /\ q \in EntryType /\ process \in ProcessType
      BY <1>2 DEF Handle, TypeOK
    <2>2. /\ process' = Marked(process, sg)
          /\ process'.child = process.child
          /\ ps'[process.child] = Signalled(q, sg)
      BY <1>2, <2>1, MarkedType DEF Stop, TypeOK
    <2>3. CASE q.state = "zombie"
      BY <2>2, <2>3 DEF Signalled, Flags
    <2>4. CASE q.state # "zombie"
      <3>1. /\ process.paused <=> q.state = "stopped"
            /\ process.gotTerm => q.sig # "none"
            /\ q.sig = "term" => process.gotTerm
        BY <1>2, <2>4 DEF Flags
      <3>2. process.paused \in BOOLEAN /\ process.gotTerm \in BOOLEAN
        BY <2>1 DEF ProcessType
      <3>3. Marked(process, sg).paused <=> Signalled(q, sg).state = "stopped"
        BY <2>4, <3>1, <3>2 DEF Marked, Signalled, SignalName
      <3>4. Marked(process, sg).gotTerm => Signalled(q, sg).sig # "none"
        BY <2>4, <3>1, <3>2 DEF Marked, Signalled, SignalName
      <3>5. Signalled(q, sg).sig = "term" => Marked(process, sg).gotTerm
        BY <2>4, <3>1, <3>2 DEF Marked, Signalled, SignalName
      <3>6. QED
        BY <2>2, <3>3, <3>4, <3>5 DEF Flags
    <2>5. QED
      BY <2>3, <2>4
  <1>3. QED
    BY <1>1, <1>2

LEMMA LaunchFlags ==
    ASSUME TypeOK, process = NoProcess, NEW ok \in BOOLEAN, Launch(ok)
    PROVE  Flags'
  <1>1. CASE process' = process
    BY <1>1 DEF Flags
  <1>2. CASE process' # process
    <2>1. PICK p \in Free : /\ ps' = [ps EXCEPT ![p] = Spawned("run")]
                            /\ process' = Started(p, "run")
      BY <1>2 DEF Launch
    <2>2. p \in DOMAIN ps
      BY <2>1 DEF Free, TypeOK
    <2>3. QED
      BY <2>1, <2>2 DEF Flags, Spawned, Started
  <1>3. QED
    BY <1>1, <1>2

LEMMA ApplyFlags ==
    ASSUME TypeOK, Handle, Flags, NEW b \in Byte, Apply(b)
    PROVE  Flags'
  <1>1. CASE StartsOnce(b)
    BY <1>1, LaunchFlags DEF Apply, StartsOnce
  <1>2. CASE ~StartsOnce(b)
    BY <1>2, ByteTypes, StopFlags DEF Apply
  <1>3. QED
    BY <1>1, <1>2

LEMMA StepFlags ==
    ASSUME IInv, pc # "leave" => Flags, [Next]_vars
    PROVE  pc' # "leave" => Flags'
  <1> USE DEF IInv
  <1>1. CASE Leave \/ Crash
    BY <1>1 DEF Leave, Crash, Gone, Flags
  <1>2. CASE ApplyControl
    <2>1. Head(batch) \in Byte
      BY <1>2 DEF ApplyControl, TypeOK
    <2>2. QED
      BY <1>2, <2>1, ApplyFlags DEF ApplyControl
  <1>3. CASE TakeTerminate
    <2>1. CASE terminate
      BY <1>3, <2>1, ApplyFlags DEF TakeTerminate, Byte
    <2>2. CASE ~terminate
      BY <1>3, <2>2 DEF TakeTerminate, Flags
    <2>3. QED
      BY <2>1, <2>2
  <1>4. CASE ReapLast
    BY <1>4 DEF ReapLast, Flags
  <1>5. CASE ReapRun
    <2>1. CASE pc' = "leave"
      BY <2>1
    <2>2. CASE pc' # "leave"
      <3>1. PICK p \in Free \cup {process.child} :
                  /\ ps' = [q \in Pid |-> IF q = p THEN Spawned("finish")
                              ELSE IF q = process.child THEN Unused ELSE ps[q]]
                  /\ process' = Started(p, "finish")
        BY <1>5, <2>2 DEF ReapRun
      <3>2. p \in Pid
        BY <1>5, <3>1 DEF ReapRun, ChildExited, Handle, Free
      <3>3. QED
        BY <3>1, <3>2 DEF Flags, Spawned, Started
    <2>3. QED
      BY <2>1, <2>2
  <1>6. CASE Start
    BY <1>6, LaunchFlags DEF Start, CanStart
  <1>7. ASSUME NEW p \in Pid, ScriptEnds(p) \/ SignalKills(p)
        PROVE  pc' # "leave" => Flags'
    <2>1. /\ ps' = [ps EXCEPT ![p] = Dead(ps[p])]
          /\ UNCHANGED <<pc, process>>
      BY <1>7 DEF ScriptEnds, SignalKills, Dies, supVars
    <2>2. Dead(ps[p]).state = "zombie"
      BY DEF Dead
    <2>3. QED
      BY <2>1, <2>2 DEF Flags, Handle, TypeOK
  <1>8. CASE /\ UNCHANGED <<process, ps>>
             /\ pc = "leave" => pc' = "leave"
    BY <1>8 DEF Flags
  <1>9. CASE New \/ NewPublish \/ ReadControl \/ ReapNothing \/ StartNothing \/ EndPoll
    <2>1. UNCHANGED <<process, ps>> /\ pc # "leave"
      BY <1>9 DEF New, NewPublish, ReadControl, ReapNothing, StartNothing, EndPoll
    <2>2. QED
      BY <1>8, <2>1
  <1>10. CASE \/ \E cmd \in Commands : ControlWrite(cmd)
              \/ SigTerm \/ RetryDue
              \/ \E l \in Logger : LoggerEnds(l)
              \/ UNCHANGED vars
    <2>1. UNCHANGED <<process, ps, pc>>
      BY <1>10 DEF ControlWrite, SigTerm, RetryDue, LoggerEnds, supVars, vars
    <2>2. QED
      BY <1>8, <2>1
  <1>11. QED
    BY <1>1, <1>2, <1>3, <1>4, <1>5, <1>6, <1>7, <1>9, <1>10
    DEF Next, Supervisor, Poll, Processes, Environment

\* "paused" and "got TERM" are true of the child, whatever fails.
THEOREM FlagsAreTold == Spec => []FlagsTold
  <1>1. Init => (pc # "leave" => Flags)
    BY DEF Init, Flags
  <1>2. IInv /\ (pc # "leave" => Flags) /\ [Next]_vars => (pc # "leave" => Flags)'
    BY StepFlags
  <1>3. Spec => [](pc # "leave" => Flags)
    BY <1>1, <1>2, Invariance, PTL DEF Spec
  <1>4. QED
    BY <1>3, FlagsToldIsFlags, PTL

-----------------------------------------------------------------------------
(* What is published: process and want *)

LEMMA StepStatus ==
    ASSUME "publish" \notin Faults, StatusTold, [Next]_vars
    PROVE  StatusTold'
  <1> DEFINE Told == status' = StatusOf(process', want')
  <1>1. \A ok \in BOOLEAN : Publish(ok) => Told
    BY DEF Publish
  <1>2. CASE Told
    BY <1>2 DEF StatusTold, StatusOf, WantByte
  <1>3. CASE pc' \in {"off", "new", "leave"}
    BY <1>3 DEF StatusTold
  <1>4. CASE /\ UNCHANGED <<process, want, status>>
             /\ pc \in {"off", "new", "leave"} => pc' = pc
    BY <1>4 DEF StatusTold, StatusOf, WantByte
  <1>5. CASE NewPublish \/ ReapLast
    BY <1>1, <1>2, <1>5 DEF NewPublish, ReapLast
  <1>6. CASE ApplyControl
    BY <1>1, <1>2, <1>6 DEF ApplyControl, Apply
  <1>7. CASE TakeTerminate
    <2>1. CASE terminate
      BY <1>1, <1>2, <1>7, <2>1 DEF TakeTerminate, Apply
    <2>2. CASE ~terminate
      BY <1>4, <1>7, <2>2 DEF TakeTerminate
    <2>3. QED
      BY <2>1, <2>2
  <1>8. CASE ReapRun \/ Start
    BY <1>1, <1>2, <1>3, <1>8 DEF ReapRun, Start
  <1>9. CASE New \/ Leave \/ Crash
    BY <1>3, <1>9 DEF New, Leave, Crash, Gone
  <1>10. CASE ReadControl \/ ReapNothing \/ StartNothing \/ EndPoll
    BY <1>4, <1>10 DEF ReadControl, ReapNothing, StartNothing, EndPoll
  <1>11. CASE \/ \E cmd \in Commands : ControlWrite(cmd)
              \/ SigTerm \/ RetryDue \/ Processes \/ UNCHANGED vars
    <2>1. UNCHANGED <<process, want, status, pc>>
      BY <1>11 DEF ControlWrite, SigTerm, RetryDue, Processes, ScriptEnds,
                   SignalKills, Dies, LoggerEnds, supVars, vars
    <2>2. QED
      BY <1>4, <2>1
  <1>12. QED
    BY <1>5, <1>6, <1>7, <1>8, <1>9, <1>10, <1>11
    DEF Next, Supervisor, Poll, Environment

\* Where no write fails, supervise/status is at every step of every poll what
\* the supervisor believes.
THEOREM StatusIsTold ==
    ASSUME "publish" \notin Faults
    PROVE  Spec => []StatusTold
  <1>1. Init => StatusTold
    BY DEF Init, StatusTold
  <1>2. StatusTold /\ [Next]_vars => StatusTold'
    BY StepStatus
  <1>3. QED
    BY <1>1, <1>2, PTL DEF Spec

-----------------------------------------------------------------------------
(* As long as nothing fails, and nobody kills the supervisor: it implements *)
(* ServiceLife, and leaves nothing behind.                                  *)

\* A supervisor that meets no error leaves only when it has no process.
LeavesIdle == pc = "leave" => process = NoProcess

LEMMA StepLeaves ==
    ASSUME Faults = {}, IInv, LeavesIdle, [Next]_vars
    PROVE  LeavesIdle'
  <1>0. \A ok \in BOOLEAN : Publish(ok) => ok
    BY DEF Publish
  <1>1. CASE pc' # "leave"
    BY <1>1 DEF LeavesIdle
  <1>2. CASE NewPublish
    BY <1>0, <1>2 DEF NewPublish, LeavesIdle
  <1>3. CASE ReapLast
    BY <1>3 DEF ReapLast, LeavesIdle
  <1>4. CASE ReapRun
    BY <1>0, <1>4 DEF ReapRun, LeavesIdle
  <1>5. CASE Start
    BY <1>0, <1>5 DEF Start, CanStart, Launch, LeavesIdle
  <1>6. CASE EndPoll
    BY <1>6 DEF EndPoll, LeavesIdle
  <1>7. CASE \/ \E cmd \in Commands : ControlWrite(cmd)
             \/ SigTerm \/ RetryDue \/ Processes \/ UNCHANGED vars
    BY <1>7 DEF ControlWrite, SigTerm, RetryDue, Processes, ScriptEnds,
                SignalKills, Dies, LoggerEnds, supVars, vars, LeavesIdle
  <1>8. CASE \/ New \/ ReadControl \/ ApplyControl \/ TakeTerminate
             \/ ReapNothing \/ StartNothing \/ Leave \/ Crash
    BY <1>1, <1>8 DEF New, ReadControl, ApplyControl, TakeTerminate, ReapNothing,
                      StartNothing, Leave, Crash, Gone
  <1>9. QED
    BY <1>2, <1>3, <1>4, <1>5, <1>6, <1>7, <1>8
    DEF Next, Supervisor, Poll, Environment

-----------------------------------------------------------------------------
(* Steps, one kind at a time *)

\* Steps that leave the child as it is change at most the wish.
LEMMA SameLife ==
    ASSUME Inst' = Inst, Ended' = Ended, due' = due
    PROVE  [Life!Next]_(Life!vars)
  BY DEF Inst, Ended, Life!Next, Life!Request, Life!vars

\* A signal does not make a script end, and does not bring one back.
LEMMA StopLife ==
    ASSUME TypeOK, Handle, NEW sg \in SignalName, Stop(sg)
    PROVE  Inst' = Inst /\ Ended' = Ended
  <1>1. CASE process = NoProcess
    BY <1>1 DEF Stop, Inst, Ended, ChildExited
  <1>2. CASE process # NoProcess
    <2>1. process.child \in Pid /\ process \in ProcessType /\ ps \in [Pid -> EntryType]
      BY <1>2 DEF Handle, TypeOK
    <2>2. /\ process' = Marked(process, sg)
          /\ process'.child = process.child
          /\ process'.phase = process.phase
          /\ ps'[process.child] = Signalled(ps[process.child], sg)
      BY <1>2, <2>1, MarkedType DEF Stop
    <2>3. process' # NoProcess
      BY <2>1, <2>2, LksysAssumption DEF NoProcess
    <2>4. ps'[process.child].state = "zombie" <=> ps[process.child].state = "zombie"
      BY <2>2 DEF Signalled, SignalName
    <2>5. QED
      BY <1>2, <2>2, <2>3, <2>4 DEF Inst, Ended, ChildExited
  <1>3. QED
    BY <1>1, <1>2

\* Starting run is a start of run.
LEMMA LaunchLife ==
    ASSUME TypeOK, process = NoProcess, NEW ok \in BOOLEAN, Launch(ok)
    PROVE  /\ Inst = "none" /\ Ended = "no" /\ Ended' = "no"
           /\ ok => Inst' = "run"
           /\ ~ok => Inst' = "none"
  <1>1. Inst = "none" /\ Ended = "no"
    BY DEF Inst, Ended, ChildExited
  <1>2. CASE ~ok
    BY <1>2 DEF Launch, Inst, Ended, ChildExited
  <1>3. CASE ok
    <2>1. PICK p \in Free : /\ ps' = [ps EXCEPT ![p] = Spawned("run")]
                            /\ process' = Started(p, "run")
      BY <1>3 DEF Launch
    <2>2. p \in Pid /\ ps'[p].state = "live" /\ p # NoPid
      BY <2>1, LksysAssumption DEF Free, TypeOK, Spawned
    <2>3. process' # NoProcess /\ process'.child = p /\ process'.phase = "run"
      BY <2>1, <2>2 DEF Started, NoProcess
    <2>4. QED
      BY <1>3, <2>2, <2>3 DEF Inst, Ended, ChildExited
  <1>4. QED
    BY <1>1, <1>2, <1>3

LEMMA ApplyLife ==
    ASSUME TypeOK, Handle, NEW b \in Byte, Apply(b), due' = due
    PROVE  [Life!Next]_(Life!vars)
  <1>1. CASE StartsOnce(b)
    <2>1. PICK ok \in BOOLEAN : Launch(ok)
      BY <1>1 DEF Apply
    <2>2. want' = "Down"
      BY <1>1 DEF Apply, StartsOnce, WantAfter
    <2>3. CASE ok
      <3>1. Inst = "none" /\ Ended = "no" /\ Inst' = "run" /\ Ended' = "no"
        BY <1>1, <2>1, <2>3, LaunchLife DEF StartsOnce
      <3>2. Life!OnceStart
        BY <2>2, <3>1 DEF Inst, Ended, Life!OnceStart, Life!Idle
      <3>3. QED
        BY <3>2 DEF Life!Next
    <2>4. CASE ~ok
      BY <1>1, <2>1, <2>4, LaunchLife, SameLife DEF StartsOnce
    <2>5. QED
      BY <2>3, <2>4
  <1>2. CASE ~StartsOnce(b)
    BY <1>2, ByteTypes, StopLife, SameLife DEF Apply
  <1>3. QED
    BY <1>1, <1>2

\* A dead finish, or a dead run without a finish script, is settled.
LEMMA ReapLastLife ==
    ASSUME TypeOK, Handle, ReapLast
    PROVE  Life!Settle
  <1>1. Ended # "no"
    BY DEF ReapLast, ChildExited, Handle, Ended
  <1>2. Inst = "none" /\ Inst' = "none" /\ Ended' = "no"
    BY DEF ReapLast, ChildExited, Inst, Ended
  <1>3. QED
    BY <1>1, <1>2 DEF ReapLast, Life!Settle

\* A dead run is followed by finish.
LEMMA ReapRunLife ==
    ASSUME Faults = {}, TypeOK, Handle, ReapRun
    PROVE  Life!Finish
  <1>1. Ended = "run"
    BY DEF ReapRun, Ended
  <1>2. PICK p \in Free \cup {process.child} :
              /\ ps' = [q \in Pid |-> IF q = p THEN Spawned("finish")
                          ELSE IF q = process.child THEN Unused ELSE ps[q]]
              /\ process' = Started(p, "finish")
    BY DEF ReapRun
  <1>3. p \in Pid
    BY DEF ReapRun, ChildExited, Handle, Free
  <1>4. /\ process' # NoProcess
        /\ process'.child = p
        /\ process'.phase = "finish"
        /\ ps'[p].state = "live"
    BY <1>2, <1>3 DEF Started, NoProcess, Spawned
  <1>5. Inst' = "finish" /\ Ended' = "no"
    BY <1>4 DEF Inst, Ended, ChildExited
  <1>6. QED
    BY <1>1, <1>5 DEF ReapRun, Life!Finish

\* poll() starts run only where nothing is left and the rest is over.
LEMMA StartLife ==
    ASSUME TypeOK, Start
    PROVE  [Life!Next]_(Life!vars)
  <1>1. process = NoProcess /\ want = "Up" /\ due /\ want' = want /\ due' = due
    BY DEF Start, CanStart
  <1>2. CASE Launch(TRUE)
    <2>1. Inst = "none" /\ Ended = "no" /\ Inst' = "run" /\ Ended' = "no"
      BY <1>1, <1>2, LaunchLife
    <2>2. Life!AutoStart
      BY <1>1, <2>1 DEF Life!AutoStart, Life!Idle, TypeOK
    <2>3. QED
      BY <2>2 DEF Life!Next
  <1>3. CASE Launch(FALSE)
    BY <1>1, <1>3, LaunchLife, SameLife
  <1>4. QED
    BY <1>2, <1>3 DEF Start

\* The death of the child is the end of its script; another death is nothing.
LEMMA DiesLife ==
    ASSUME TypeOK, Handle, NEW p \in Pid, ScriptEnds(p) \/ SignalKills(p)
    PROVE  [Life!Next]_(Life!vars)
  <1>1. /\ ps' = [ps EXCEPT ![p] = Dead(ps[p])]
        /\ UNCHANGED <<want, process, due>>
        /\ ps[p].state # "zombie"
    BY DEF ScriptEnds, SignalKills, Dies, supVars
  <1>2. CASE process = NoProcess
    BY <1>1, <1>2, SameLife DEF Inst, Ended, ChildExited
  <1>3. CASE process # NoProcess /\ p # process.child
    BY <1>1, <1>3, SameLife DEF Inst, Ended, ChildExited, Handle, TypeOK
  <1>4. CASE process # NoProcess /\ p = process.child
    <2>1. ps'[process.child].state = "zombie"
      BY <1>1, <1>4 DEF Dead, TypeOK
    <2>2. /\ Inst = process.phase /\ Inst' = "none"
          /\ Ended = "no" /\ Ended' = process.phase
      BY <1>1, <1>4, <2>1 DEF Inst, Ended, ChildExited
    <2>3. Life!End
      BY <1>1, <1>4, <2>2 DEF Life!End, Handle
    <2>4. QED
      BY <2>3 DEF Life!Next
  <1>5. QED
    BY <1>2, <1>3, <1>4

LEMMA GoneLife ==
    ASSUME process = NoProcess, Gone
    PROVE  [Life!Next]_(Life!vars)
  <1>1. /\ Inst = "none" /\ Inst' = "none"
        /\ Ended = "no" /\ Ended' = "no"
        /\ want' = want /\ due'
    BY DEF Gone, Inst, Ended, ChildExited
  <1>2. Life!Rest
    BY <1>1 DEF Gone, Life!Rest
  <1>3. QED
    BY <1>2 DEF Life!Next

-----------------------------------------------------------------------------
LEMMA StepLife ==
    ASSUME Faults = {}, IInv, LeavesIdle, [Next]_vars
    PROVE  [Life!Next]_(Life!vars)
  <1>0. TypeOK /\ Handle
    BY DEF IInv, LeavesIdle, Handle
  <1>1. CASE UNCHANGED <<process, ps, due>>
    BY <1>1, SameLife DEF Inst, Ended, ChildExited
  <1>2. CASE \/ New \/ NewPublish \/ ReadControl \/ ReapNothing
             \/ StartNothing \/ EndPoll \/ SigTerm \/ UNCHANGED vars
             \/ \E cmd \in Commands : ControlWrite(cmd)
             \/ \E l \in Logger : LoggerEnds(l)
    BY <1>1, <1>2 DEF New, NewPublish, ReadControl, ReapNothing, StartNothing,
         EndPoll, SigTerm, ControlWrite, LoggerEnds, supVars, vars
  <1>3. CASE ApplyControl
    <2>1. Head(batch) \in Byte
      BY <1>0, <1>3 DEF ApplyControl, TypeOK
    <2>2. QED
      BY <1>0, <1>3, <2>1, ApplyLife DEF ApplyControl
  <1>4. CASE TakeTerminate
    <2>1. CASE terminate
      BY <1>0, <1>4, <2>1, ApplyLife DEF TakeTerminate, Byte
    <2>2. CASE ~terminate
      BY <1>1, <1>4, <2>2 DEF TakeTerminate
    <2>3. QED
      BY <2>1, <2>2
  <1>5. CASE ReapLast
    BY <1>0, <1>5, ReapLastLife DEF Life!Next
  <1>6. CASE ReapRun
    BY <1>0, <1>6, ReapRunLife DEF Life!Next
  <1>7. CASE Start
    BY <1>0, <1>7, StartLife
  <1>8. CASE Leave \/ Crash
    BY <1>8, GoneLife DEF Leave, Crash, LeavesIdle
  <1>9. CASE RetryDue
    <2>1. Inst' = Inst /\ Ended' = Ended /\ due' = TRUE /\ want' = want
      BY <1>9 DEF RetryDue, Inst, Ended, ChildExited
    <2>2. QED
      BY <2>1 DEF Life!Next, Life!Rest
  <1>10. ASSUME NEW p \in Pid, ScriptEnds(p) \/ SignalKills(p)
         PROVE  [Life!Next]_(Life!vars)
    BY <1>0, <1>10, DiesLife
  <1>11. QED
    BY <1>2, <1>3, <1>4, <1>5, <1>6, <1>7, <1>8, <1>9, <1>10
    DEF Next, Supervisor, Poll, Processes, Environment

\* As long as nothing fails, for any set of pids and any commands, one script
\* of the service executes at a time, finish only after run, and run anew only
\* when wanted and rested, or asked for once.
THEOREM ImplementsLife ==
    ASSUME Faults = {}
    PROVE  Spec => LifeSpec
  <1>1. Init => LeavesIdle /\ Life!Init
    BY DEF Init, LeavesIdle, Life!Init, Inst, Ended, ChildExited
  <1>2. IInv /\ LeavesIdle /\ [Next]_vars => LeavesIdle'
    BY StepLeaves
  <1>3. IInv /\ LeavesIdle /\ [Next]_vars => [Life!Next]_(Life!vars)
    BY StepLife
  <1>4. QED
    BY <1>1, <1>2, <1>3, Invariance, PTL DEF Spec, LifeSpec, Life!Spec

-----------------------------------------------------------------------------
(* A clean end *)

\* Without a crash nobody else has children in the table.
Own == \A p \in Pid : ps[p] = Unused \/ ps[p].parent = "lksys"

LeavesDown == pc = "leave" => status.state = "down" /\ status.pid = NoPid

\* A supervisor without a process has no child.
LEMMA IdleIsEmpty ==
    ASSUME IInv, Own, process = NoProcess
    PROVE  \A p \in Pid : ps[p] = Unused
  <1>1. NoPid \notin Pid /\ process.child = NoPid
    BY LksysAssumption DEF NoProcess
  <1>2. QED
    BY <1>1 DEF IInv, Table, Own

\* Whoever is started is a child of the supervisor, and stays one.
LEMMA StepOwn ==
    ASSUME Faults = {}, IInv, LeavesIdle, Own, [Next]_vars
    PROVE  Own'
  <1> USE DEF IInv
  <1>1. ASSUME NEW sg \in SignalName, Stop(sg) PROVE Own'
    <2>1. CASE process = NoProcess
      BY <1>1, <2>1 DEF Stop, Own, Unused
    <2>2. CASE process # NoProcess
      <3>1. /\ ps' = [ps EXCEPT ![process.child] = Signalled(@, sg)]
            /\ ps \in [Pid -> EntryType]
        BY <1>1, <2>2 DEF Stop, TypeOK
      <3>2. \A p \in Pid : p = process.child => ps[p].parent = "lksys"
        BY <2>2 DEF Handle, LeavesIdle
      <3>3. \A p \in Pid : p = process.child => ps'[p].parent = "lksys"
        BY <3>1, <3>2, <1>1, SignalledType
      <3>4. \A p \in Pid : p # process.child => ps'[p] = ps[p]
        BY <3>1
      <3>5. QED
        BY <3>3, <3>4 DEF Own, Unused
    <2>3. QED
      BY <2>1, <2>2
  <1>2. ASSUME NEW ok \in BOOLEAN, Launch(ok) PROVE Own'
    <2>1. CASE UNCHANGED ps
      BY <2>1 DEF Own, Unused
    <2>2. ASSUME NEW p \in Free, ps' = [ps EXCEPT ![p] = Spawned("run")]
          PROVE  Own'
      <3>1. p \in Pid /\ ps' = [q \in Pid |-> IF q = p THEN Spawned("run") ELSE ps[q]]
        BY <2>2 DEF Free, TypeOK
      <3>2. Spawned("run").parent = "lksys"
        BY DEF Spawned
      <3>3. QED
        BY <3>1, <3>2 DEF Own, Unused
    <2>3. QED
      BY <1>2, <2>1, <2>2 DEF Launch
  <1>3. ASSUME NEW b \in Byte, Apply(b) PROVE Own'
    BY <1>1, <1>2, <1>3, ByteTypes DEF Apply
  <1>4. CASE ApplyControl
    <2>1. Head(batch) \in Byte
      BY <1>4 DEF ApplyControl, TypeOK
    <2>2. QED
      BY <1>3, <1>4, <2>1 DEF ApplyControl
  <1>5. CASE UNCHANGED ps
    BY <1>5 DEF Own, Unused
  <1>6. CASE TakeTerminate
    BY <1>3, <1>5, <1>6 DEF TakeTerminate, Byte
  <1>7. CASE ReapLast \/ ReapRun
    BY <1>7 DEF ReapLast, ReapRun, Own, Unused, Spawned, TypeOK
  <1>8. CASE Start
    BY <1>2, <1>8 DEF Start
  <1>9. CASE Leave
    <2>1. \A p \in Pid : ps[p] = Unused
      BY <1>9, IdleIsEmpty DEF Leave, LeavesIdle
    <2>2. \A p \in Pid : ps'[p] = Unused
      BY <1>9, <2>1 DEF Leave, Gone, Unused
    <2>3. QED
      BY <2>2 DEF Own, Unused
  <1>10. ASSUME NEW p \in Pid, ScriptEnds(p) \/ SignalKills(p) PROVE Own'
    <2>1. ps[p].state # "free"
      BY <1>10 DEF ScriptEnds, SignalKills
    <2>2. ps' = [ps EXCEPT ![p] = Dead(ps[p])]
      BY <1>10 DEF ScriptEnds, SignalKills, Dies
    <2>3. ps'[p].parent = "lksys" /\ \A q \in Pid \ {p} : ps'[q] = ps[q]
      BY <2>1, <2>2 DEF TypeOK, Dead, Own, Unused
    <2>4. QED
      BY <2>3 DEF Own, Unused
  <1>11. CASE \/ New \/ NewPublish \/ ReadControl \/ ReapNothing \/ StartNothing
              \/ EndPoll \/ SigTerm \/ RetryDue \/ UNCHANGED vars
              \/ \E cmd \in Commands : ControlWrite(cmd)
              \/ \E l \in Logger : LoggerEnds(l)
    BY <1>5, <1>11 DEF New, NewPublish, ReadControl, ReapNothing, StartNothing,
         EndPoll, SigTerm, RetryDue, ControlWrite, LoggerEnds, supVars, vars
  <1>12. QED
    BY <1>4, <1>6, <1>7, <1>8, <1>9, <1>10, <1>11
    DEF Next, Supervisor, Poll, Processes, Environment, Crash

\* The last status of a supervisor that leaves is the one of its last poll.
LEMMA StepLeavesDown ==
    ASSUME Faults = {}, StatusTold, LeavesDown, [Next]_vars
    PROVE  LeavesDown'
  <1>0. \A ok \in BOOLEAN : Publish(ok) => ok
    BY DEF Publish
  <1>1. CASE pc' # "leave"
    BY <1>1 DEF LeavesDown
  <1>2. ASSUME process = NoProcess, status' = status, pc \in {"start", "exit"}
        PROVE  LeavesDown'
    BY <1>2 DEF StatusTold, StatusOf, NoProcess, LeavesDown
  <1>3. CASE NewPublish \/ ReapLast \/ ReapRun
    BY <1>0, <1>1, <1>3 DEF NewPublish, ReapLast, ReapRun
  <1>4. CASE Start
    BY <1>0, <1>1, <1>2, <1>4 DEF Start, CanStart
  <1>5. CASE EndPoll
    BY <1>1, <1>2, <1>5 DEF EndPoll
  <1>6. CASE UNCHANGED <<pc, status>>
    BY <1>6 DEF LeavesDown
  <1>7. CASE \/ \E cmd \in Commands : ControlWrite(cmd)
             \/ SigTerm \/ RetryDue \/ Processes \/ UNCHANGED vars
    BY <1>6, <1>7 DEF ControlWrite, SigTerm, RetryDue, Processes, ScriptEnds,
                SignalKills, Dies, LoggerEnds, supVars, vars
  <1>8. CASE \/ New \/ ReadControl \/ ApplyControl \/ TakeTerminate
             \/ ReapNothing \/ StartNothing \/ Leave \/ Crash
    BY <1>1, <1>8 DEF New, ReadControl, ApplyControl, TakeTerminate, ReapNothing,
                      StartNothing, Leave, Crash, Gone
  <1>9. QED
    BY <1>3, <1>4, <1>5, <1>7, <1>8 DEF Next, Supervisor, Poll, Environment

\* As long as nothing fails, a supervisor that exits has no script left, and
\* its status says down, for any set of pids and any commands.
THEOREM LeavesClean ==
    ASSUME Faults = {}
    PROVE  Spec => []CleanLeave
  <1>1. Init => LeavesIdle /\ Own /\ StatusTold /\ LeavesDown
    BY DEF Init, LeavesIdle, Own, StatusTold, LeavesDown
  <1>2. IInv /\ LeavesIdle /\ Own /\ StatusTold /\ LeavesDown /\ [Next]_vars
           => LeavesIdle' /\ Own' /\ StatusTold' /\ LeavesDown'
    <2>1. "publish" \notin Faults
      OBVIOUS
    <2>2. QED
      BY <2>1, StepLeaves, StepOwn, StepStatus, StepLeavesDown
  <1>3. IInv /\ LeavesIdle /\ Own /\ LeavesDown => CleanLeave
    <2> SUFFICES ASSUME IInv, LeavesIdle, Own, LeavesDown, pc = "leave"
                 PROVE  /\ ps = [p \in Pid |-> Unused]
                        /\ status.state = "down" /\ status.pid = NoPid
      BY DEF CleanLeave
    <2>1. \A p \in Pid : ps[p] = Unused
      BY IdleIsEmpty DEF LeavesIdle
    <2>2. ps = [p \in Pid |-> Unused]
      BY <2>1 DEF IInv, TypeOK
    <2>3. QED
      BY <2>2 DEF LeavesDown
  <1>4. QED
    BY <1>1, <1>2, <1>3, Invariance, PTL DEF Spec
=============================================================================
