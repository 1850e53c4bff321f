--------------------------- MODULE Lksystem_proofs --------------------------
(***************************************************************************)
(* PID 1 goes down only when asked, and as asked, for any services and     *)
(* requesters, whatever lksysdir and the stages do.                        *)
(*                                                                         *)
(* IInv follows the request from the flag over shutdown_requested to the   *)
(* last stage, and says that the children of a lksysdir live no longer     *)
(* than it does, unless a lksysdir ends on an error.                       *)
(***************************************************************************)
EXTENDS Lksystem, TLAPS

ToldBy == plain \/ \E r \in Requester : request[r].at = "told"

Path ==
    /\ terminate \/ shutdown => ToldBy
    /\ stage \in {3, 4} => shutdown
    /\ stage = 4 => child = "none"
    /\ performed \in Power => stage = 4

Children ==
    \A s \in Service :
        /\ lksys[s] = "lksysdir" => Supervising
        /\ lksys[s] = "init" => dirFailed

IInv == TypeOK /\ Path /\ Children

-----------------------------------------------------------------------------
LEMMA InitHolds == Init => IInv
<1> SUFFICES ASSUME Init PROVE IInv
  OBVIOUS
<1>1. TypeOK
  <2>1. /\ terminate \in BOOLEAN /\ shutdown \in BOOLEAN
        /\ dirTerm \in BOOLEAN /\ plain \in BOOLEAN /\ dirFailed \in BOOLEAN
    BY Zenon DEF Init
  <2>2. request \in [Requester -> [at : {"idle", "emptied", "written", "told"},
                                  action : Asked]]
    <3>1. \A r \in Requester :
             request[r] \in [at : {"idle", "emptied", "written", "told"},
                             action : Asked]
      BY DEF Init
    <3> QED BY <3>1 DEF Init
  <2>3. /\ stage \in 1..4 /\ child = "none" /\ program = "2" /\ running = {}
        /\ lksys \in [Service -> {"none", "lksysdir", "init"}]
        /\ cmdFile = "absent" /\ performed = "none"
    BY DEF Init
  <2> QED BY <2>1, <2>2, <2>3 DEF TypeOK
<1>2. Path
  BY DEF Init, Path, Power
<1>3. Children
  BY DEF Init, Children
<1> QED BY <1>1, <1>2, <1>3 DEF IInv

\* Every step keeps the types; after the last stage there is no child to reap.
LEMMA TypesHold == IInv /\ [Next]_vars => TypeOK'
<1> SUFFICES ASSUME IInv, [Next]_vars PROVE TypeOK'
  OBVIOUS
<1> USE LksystemAssumption
<1> USE DEF IInv, TypeOK, pid1, services, asking, history
<1>1. CASE UNCHANGED vars
  BY <1>1 DEF vars
<1>2. CASE StartStage \/ StageMissing \/ StageEnds
  BY <1>2 DEF StartStage, StageMissing, StageEnds
<1>3. CASE ReapStage
  <2>1. stage + 1 \in 1..4
    BY <1>3 DEF ReapStage, Path
  <2> QED BY <1>3, <2>1 DEF ReapStage
<1>4. CASE TakeTerminate
  BY <1>4, Zenon DEF TakeTerminate
<1>5. CASE Reboot
  <2>1. Meaning(cmdFile) \in Power
    BY DEF Meaning, Default, Power
  <2> QED BY <1>5, <2>1 DEF Reboot
<1>6. CASE Stage2Execs \/ DirEnds \/ DirError
  BY <1>6 DEF Stage2Execs, DirEnds, DirError
<1>7. ASSUME NEW s \in Service, DirSpawns(s) \/ RunStarts(s) \/ RunEnds(s)
      PROVE  TypeOK'
  BY <1>7 DEF DirSpawns, RunStarts, RunEnds
<1>8. ASSUME NEW r \in Requester, Truncate(r) \/ WriteAction(r) \/ Tell(r)
      PROVE  TypeOK'
  <2>1. /\ cmdFile' \in {cmdFile, "empty", request[r].action}
        /\ terminate' \in BOOLEAN
    BY <1>8 DEF Truncate, WriteAction, Tell
  <2>2. request' \in [Requester -> [at : {"idle", "emptied", "written", "told"},
                                    action : Asked]]
    BY <1>8 DEF Truncate, WriteAction, Tell, Progress
  <2>3. request[r].action \in Power
    OBVIOUS
  <2>4. UNCHANGED <<stage, child, shutdown, performed, program, dirTerm, services,
                    plain, dirFailed>>
    BY <1>8 DEF Truncate, WriteAction, Tell, Progress
  <2> QED BY <2>1, <2>2, <2>3, <2>4
<1>9. CASE PlainTerm
  BY <1>9 DEF PlainTerm
<1> QED
  BY <1>1, <1>2, <1>3, <1>4, <1>5, <1>6, <1>7, <1>8, <1>9 DEF Next, Pid1

\* Once PID 1 has been told, it has been told.
LEMMA ToldStays == IInv /\ [Next]_vars => (ToldBy => ToldBy')
<1> SUFFICES ASSUME IInv, [Next]_vars, ToldBy PROVE ToldBy'
  OBVIOUS
<1> USE DEF ToldBy
<1>1. CASE UNCHANGED <<plain, request>>
  BY <1>1
<1>2. ASSUME NEW r \in Requester, NEW from \in {"idle", "emptied", "written"},
             NEW to, Progress(r, from, to)
      PROVE  ToldBy'
  <2>1. plain' = plain /\ request[r].at = from
    BY <1>2 DEF Progress, history
  <2>2. \A q \in Requester \ {r} : request'[q] = request[q]
    BY <1>2 DEF Progress, IInv, TypeOK
  <2> QED BY <2>1, <2>2
<1>3. CASE PlainTerm
  BY <1>3 DEF PlainTerm
<1>4. UNCHANGED <<plain, request>> \/ PlainTerm
      \/ \E r \in Requester : Truncate(r) \/ WriteAction(r) \/ Tell(r)
  BY Zenon DEF Next, vars, Pid1, StartStage, StageMissing, ReapStage, TakeTerminate,
     Reboot, StageEnds, Stage2Execs, DirEnds, DirError, DirSpawns, RunStarts, RunEnds,
     asking, history
<1> QED BY <1>1, <1>2, <1>3, <1>4 DEF Truncate, WriteAction, Tell

\* PID 1 leaves stage 2 only when it was told, and goes down only at the end.
LEMMA PathHolds == IInv /\ [Next]_vars => Path'
<1> SUFFICES ASSUME IInv, [Next]_vars PROVE Path'
  OBVIOUS
<1> USE DEF IInv, pid1, services, asking, history
<1>1. CASE UNCHANGED <<terminate, shutdown, stage, child, performed>>
  BY <1>1, ToldStays DEF Path
<1>2. CASE StartStage \/ StageEnds
  BY <1>2, ToldStays DEF Path, StartStage, StageEnds
<1>3. CASE StageMissing
  BY <1>3, ToldStays DEF Path, StageMissing, Power
<1>4. CASE ReapStage
  <2>1. performed' = performed /\ performed \notin Power /\ child' = "none"
    BY <1>4 DEF ReapStage, Path
  <2>2. stage' \in {3, 4} => shutdown'
    BY <1>4 DEF ReapStage, Path, StaysAt, TypeOK
  <2>3. terminate' \/ shutdown' => ToldBy'
    BY <1>4, ToldStays DEF ReapStage, Path
  <2> QED BY <2>1, <2>2, <2>3 DEF Path
<1>5. CASE TakeTerminate
  <2>1. stage' = 2 /\ performed' = performed
    BY <1>5 DEF TakeTerminate
  <2>2. ToldBy'
    BY <1>5, ToldStays DEF TakeTerminate, Path
  <2>3. performed \notin Power
    BY <1>5 DEF TakeTerminate, Path
  <2> QED BY <2>1, <2>2, <2>3 DEF Path
<1>6. CASE Reboot
  BY <1>6, ToldStays DEF Path, Reboot
<1>7. CASE DirEnds \/ DirError
  BY <1>7, ToldStays DEF Path, DirEnds, DirError, Supervising
<1>8. ASSUME NEW r \in Requester, Tell(r) PROVE Path'
  <2>1. request'[r].at = "told"
    BY <1>8 DEF Tell, Progress, TypeOK
  <2>2. ToldBy'
    BY <2>1 DEF ToldBy
  <2> QED BY <1>8, <2>2 DEF Path, Tell, Progress
<1>9. CASE PlainTerm
  BY <1>9 DEF Path, PlainTerm, ToldBy
<1>10. \/ UNCHANGED <<terminate, shutdown, stage, child, performed>>
       \/ StartStage \/ StageEnds \/ StageMissing \/ ReapStage \/ TakeTerminate
       \/ Reboot \/ DirEnds \/ DirError \/ PlainTerm
       \/ \E r \in Requester : Tell(r)
  BY Zenon DEF Next, vars, Pid1, Stage2Execs, DirSpawns, RunStarts, RunEnds, Truncate,
     WriteAction, Progress
<1> QED
  BY <1>1, <1>2, <1>3, <1>4, <1>5, <1>6, <1>7, <1>8, <1>9, <1>10

\* A lksys that is a child of lksysdir has a lksysdir; one adopted by PID 1 was
\* left by a lksysdir that failed.
LEMMA ChildrenHold == IInv /\ [Next]_vars => Children'
<1> SUFFICES ASSUME IInv, [Next]_vars, NEW s \in Service
             PROVE  /\ lksys'[s] = "lksysdir" => Supervising'
                    /\ lksys'[s] = "init" => dirFailed'
  BY DEF Children
<1> USE DEF IInv, pid1, services, asking, history
<1>1. CASE UNCHANGED <<stage, child, program, lksys, dirFailed>>
  BY <1>1 DEF Children, Supervising
<1>2. CASE StartStage \/ StageEnds \/ ReapStage \/ TakeTerminate \/ Stage2Execs
  BY <1>2 DEF StartStage, StageEnds, ReapStage, TakeTerminate, Stage2Execs, Children,
     Supervising
<1>3. CASE DirEnds \/ DirError
  BY <1>3 DEF DirEnds, DirError, Children
<1>4. ASSUME NEW t \in Service, DirSpawns(t)
      PROVE  /\ lksys'[s] = "lksysdir" => Supervising'
             /\ lksys'[s] = "init" => dirFailed'
  BY <1>4 DEF DirSpawns, Supervising, Children, TypeOK
<1>5. \/ UNCHANGED <<stage, child, program, lksys, dirFailed>>
      \/ StartStage \/ StageEnds \/ ReapStage \/ TakeTerminate \/ Stage2Execs
      \/ DirEnds \/ DirError \/ \E t \in Service : DirSpawns(t)
  BY Zenon DEF Next, vars, Pid1, StageMissing, Reboot, RunStarts, RunEnds, Truncate,
     WriteAction, Tell, Progress, PlainTerm
<1> QED BY <1>1, <1>2, <1>3, <1>4, <1>5

LEMMA Invariance == Spec => []IInv
<1>1. IInv /\ [Next]_vars => IInv'
  BY TypesHold, PathHolds, ChildrenHold DEF IInv
<1> QED BY <1>1, InitHolds, PTL DEF Spec

-----------------------------------------------------------------------------
\* Every variable of PID 1's world keeps its type.
THEOREM TypeCorrect == Spec => []TypeOK
<1>1. IInv => TypeOK
  BY DEF IInv
<1> QED BY <1>1, Invariance, PTL

\* The system goes down only when somebody told PID 1.
THEOREM NeverUnasked == Spec => []NoUnaskedEnd
<1>1. IInv => NoUnaskedEnd
  BY DEF IInv, Path, ToldBy, NoUnaskedEnd
<1> QED BY <1>1, Invariance, PTL

\* No supervisor is left when stage 3 begins, unless a lksysdir has ended on an
\* error.
THEOREM SupervisorsHaveEnded == Spec => []SupervisorsEnd
<1>1. IInv => SupervisorsEnd
  <2> SUFFICES ASSUME IInv, stage >= 3, ~dirFailed, NEW s \in Service
               PROVE  lksys[s] = "none"
    BY DEF SupervisorsEnd
  <2>1. lksys[s] # "lksysdir"
    BY DEF IInv, Children, Supervising
  <2>2. lksys[s] # "init"
    BY DEF IInv, Children
  <2> QED BY <2>1, <2>2 DEF IInv, TypeOK
<1> QED BY <1>1, Invariance, PTL

\* With a single requester, plain signals or not and LKSYSTEM_REBOOT set or not,
\* what is performed is what it asked for, once its write is done; the default
\* when it had not begun; and poweroff when a plain signal had the file read
\* between its truncation and the write.  Asks is what is in the file at each
\* step of the request.
THEOREM DoneAsAsked ==
    ASSUME NEW one, Requester = {one}
    PROVE  Spec => []AsAsked
<1> DEFINE Asks ==
      /\ request[one].at = "idle" => cmdFile = "absent"
      /\ request[one].at = "emptied" => cmdFile = "empty"
      /\ request[one].at \in {"written", "told"} => cmdFile = request[one].action
    AInv == IInv /\ Asks /\ AsAsked
<1>1. Init => AInv
  <2> SUFFICES ASSUME Init PROVE Asks /\ AsAsked
    BY InitHolds
  <2> QED BY DEF Init, AsAsked, Power
<1>2. AInv /\ [Next]_vars => AInv'
  <2> SUFFICES ASSUME AInv, [Next]_vars PROVE Asks' /\ AsAsked'
    BY TypesHold, PathHolds, ChildrenHold DEF IInv
  <2>1. request[one].at \in {"idle", "emptied", "written", "told"}
    BY DEF IInv, TypeOK
  <2>2. CASE Reboot
    <3>1. UNCHANGED <<cmdFile, request, plain>> /\ performed' = Meaning(cmdFile)
      BY <2>2 DEF Reboot, asking, history
    <3>2. plain \/ request[one].at = "told"
      BY <2>2 DEF Reboot, IInv, Path, ToldBy
    <3>3. CASE request[one].at \in {"written", "told"}
      <4>1. cmdFile \in Power /\ cmdFile = request[one].action
        BY <3>3, LksystemAssumption DEF IInv, TypeOK
      <4>2. Meaning(cmdFile) = cmdFile
        BY <4>1 DEF Meaning, Power
      <4> QED BY <3>1, <3>3, <4>1, <4>2 DEF AsAsked
    <3>4. CASE request[one].at = "idle" /\ plain
      <4>1. Meaning(cmdFile) = Default
        BY <3>4 DEF Meaning
      <4> QED BY <3>1, <3>4, <4>1 DEF AsAsked
    <3>5. CASE request[one].at = "emptied" /\ plain
      <4>1. Meaning(cmdFile) = "poweroff"
        BY <3>5 DEF Meaning
      <4> QED BY <3>1, <3>5, <4>1 DEF AsAsked
    <3> QED BY <2>1, <3>2, <3>3, <3>4, <3>5
  <2>3. CASE StageMissing
    BY <2>3 DEF StageMissing, asking, history, AsAsked, Power
  <2>4. CASE UNCHANGED <<cmdFile, request, plain, performed>>
    BY <2>4 DEF AsAsked
  <2>5. CASE PlainTerm
    BY <2>5 DEF PlainTerm, AsAsked, asking
  <2>6. ASSUME performed = "none", Truncate(one) \/ WriteAction(one) \/ Tell(one)
        PROVE  Asks' /\ AsAsked'
    <3>1. performed' = "none"
      BY <2>6 DEF Truncate, WriteAction, Tell, Progress
    <3>2. AsAsked'
      BY <3>1 DEF AsAsked, Power
    <3>3. Asks'
      BY <2>6 DEF Truncate, WriteAction, Tell, Progress, IInv, TypeOK
    <3> QED BY <3>2, <3>3
  <2>7. \/ Reboot \/ StageMissing \/ PlainTerm
        \/ UNCHANGED <<cmdFile, request, plain, performed>>
        \/ performed = "none" /\ (Truncate(one) \/ WriteAction(one) \/ Tell(one))
    BY Zenon DEF Next, vars, Pid1, StartStage, ReapStage, TakeTerminate, StageEnds,
       Stage2Execs, DirEnds, DirError, DirSpawns, RunStarts, RunEnds, asking, history, pid1
  <2> QED BY <2>2, <2>3, <2>4, <2>5, <2>6, <2>7
<1>3. AInv => AsAsked
  OBVIOUS
<1> QED BY <1>1, <1>2, <1>3, PTL DEF Spec
=============================================================================
