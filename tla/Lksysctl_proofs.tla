-------------------------- MODULE Lksysctl_proofs --------------------------
(***************************************************************************)
(* Theorems about Lksysctl, for any clients, commands and pids: the bytes  *)
(* are served whole and in order, and an "ok" is true.                     *)
(***************************************************************************)
EXTENDS Lksysctl, Lksys_proofs, WellFoundedInduction

-----------------------------------------------------------------------------
(* What a sequence of bytes amounts to *)

Decider == {"d", "o", "u", "x"}

\* WantAfter, of any want.
After(w, b) ==
    IF b \in {"d", "o"} THEN "Down"
    ELSE IF b = "u" THEN "Up"
    ELSE IF b = "x" THEN "Exit" ELSE w

DecidesLast(bytes, i) ==
    /\ i \in 1..Len(bytes) /\ bytes[i] \in Decider
    /\ \A k \in 1..Len(bytes) : bytes[k] \in Decider => k <= i

\* Where a byte decides, one is the last that does.
LEMMA SomeLast ==
    ASSUME NEW bytes \in Seq(Byte), NEW k \in 1..Len(bytes), bytes[k] \in Decider
    PROVE  \E i : DecidesLast(bytes, i)
<1> DEFINE n == Len(bytes)
           Back == {j \in Nat : j < n /\ bytes[n - j] \in Decider}
<1>1. n \in Nat /\ n - k \in Back /\ n - (n - k) = k
  OBVIOUS
<1>2. PICK j \in Back : \A m \in Back : j <= m
  <2> DEFINE Less == {p \in Nat \X Nat : p[1] < p[2]}
  <2>1. IsWellFoundedOn(Less, Nat)
    BY NatLessThanWellFounded DEF OpToRel
  <2>2. Back \subseteq Nat /\ Back # {}
    BY <1>1
  <2>3. \E j \in Back : \A m \in Back : <<m, j>> \notin Less
    <3> HIDE DEF Back, Less
    <3> QED BY <2>1, <2>2, WFMin
  <2>4. \A a, b \in Nat : <<a, b>> \notin Less => b <= a
    OBVIOUS
  <2> HIDE DEF Back, Less
  <2> QED BY <2>2, <2>3, <2>4
<1>3. n - j \in 1..n /\ bytes[n - j] \in Decider
  BY <1>1, <1>2
<1>4. \A l \in 1..n : bytes[l] \in Decider => l <= n - j
  <2> SUFFICES ASSUME NEW l \in 1..n, bytes[l] \in Decider PROVE l <= n - j
    OBVIOUS
  <2>1. n - l \in Nat /\ n - l < n /\ n - (n - l) = l
    BY <1>1
  <2>2. n - l \in Back
    BY <2>1
  <2> QED BY <1>1, <1>2, <2>2
<1> QED BY <1>3, <1>4 DEF DecidesLast

LEMMA AmountsToLast ==
    ASSUME NEW w, NEW bytes \in Seq(Byte), NEW i, DecidesLast(bytes, i)
    PROVE  Amounts(w, bytes) = After(w, bytes[i])
<1> DEFINE D == {k \in DOMAIN bytes : bytes[k] \in {"d", "o", "u", "x"}}
           j == CHOOSE l \in D : \A k \in D : k <= l
<1>1. DOMAIN bytes = 1..Len(bytes) /\ Len(bytes) \in Nat
  OBVIOUS
<1>2. i \in D /\ \A k \in D : k <= i
  BY <1>1 DEF DecidesLast, Decider
<1>3. j \in D /\ \A k \in D : k <= j
  BY <1>2
<1>4. j = i
  <2>1. i \in Nat /\ j \in Nat /\ i <= j /\ j <= i
    BY <1>1, <1>2, <1>3
  <2> QED BY <2>1
<1>5. Amounts(w, bytes) = CASE bytes[j] = "u" -> "Up" [] bytes[j] = "x" -> "Exit"
                            [] OTHER -> "Down"
  BY <1>2 DEF Amounts
<1> HIDE DEF j
<1> QED BY <1>2, <1>4, <1>5 DEF After

LEMMA AmountsToNothing ==
    ASSUME NEW w, NEW bytes \in Seq(Byte),
           \A k \in 1..Len(bytes) : bytes[k] \notin Decider
    PROVE  Amounts(w, bytes) = w
<1>1. {k \in DOMAIN bytes : bytes[k] \in {"d", "o", "u", "x"}} = {}
  BY LenProperties DEF Decider
<1> QED BY <1>1 DEF Amounts

\* Bytes served one after the other amount to what they do at once.
LEMMA AmountsConcat ==
    ASSUME NEW w, NEW s \in Seq(Byte), NEW t \in Seq(Byte)
    PROVE  Amounts(w, s \o t) = Amounts(Amounts(w, s), t)
<1>1. /\ s \o t \in Seq(Byte) /\ Len(s \o t) = Len(s) + Len(t)
      /\ Len(s) \in Nat /\ Len(t) \in Nat
      /\ \A k \in 1..Len(s) + Len(t) :
            (s \o t)[k] = IF k <= Len(s) THEN s[k] ELSE t[k - Len(s)]
  BY ConcatProperties
<1>2. CASE \E k \in 1..Len(t) : t[k] \in Decider
  <2>1. PICK i : DecidesLast(t, i)
    BY <1>2, SomeLast
  <2>2. DecidesLast(s \o t, Len(s) + i)
    BY <1>1, <2>1 DEF DecidesLast
  <2>3. (s \o t)[Len(s) + i] = t[i] /\ t[i] \in Decider
    BY <1>1, <2>1 DEF DecidesLast
  <2>4. \A l : DecidesLast(s \o t, l)
                => Amounts(w, s \o t) = After(w, (s \o t)[l])
    BY <1>1, AmountsToLast
  <2>5. \A v : Amounts(v, t) = After(v, t[i])
    BY <2>1, AmountsToLast
  <2>6. Amounts(w, s \o t) = After(w, t[i])
    BY <2>2, <2>3, <2>4
  <2> QED BY <2>3, <2>5, <2>6 DEF After, Decider
<1>3. CASE \A k \in 1..Len(t) : t[k] \notin Decider
  <2>1. Amounts(Amounts(w, s), t) = Amounts(w, s)
    BY <1>3, AmountsToNothing
  <2>2. CASE \E k \in 1..Len(s) : s[k] \in Decider
    <3>1. PICK i : DecidesLast(s, i)
      BY <2>2, SomeLast
    <3>2. DecidesLast(s \o t, i) /\ (s \o t)[i] = s[i]
      BY <1>1, <1>3, <3>1 DEF DecidesLast
    <3>3. Amounts(w, s \o t) = After(w, s[i])
      BY <1>1, <3>2, AmountsToLast
    <3>4. Amounts(w, s) = After(w, s[i])
      BY <3>1, AmountsToLast
    <3> QED BY <2>1, <3>3, <3>4
  <2>3. CASE \A k \in 1..Len(s) : s[k] \notin Decider
    <3>1. \A k \in 1..Len(s \o t) : (s \o t)[k] \notin Decider
      BY <1>1, <1>3, <2>3
    <3>2. Amounts(w, s \o t) = w
      BY <1>1, <3>1, AmountsToNothing
    <3>3. Amounts(w, s) = w
      BY <2>3, AmountsToNothing
    <3> QED BY <2>1, <3>2, <3>3
  <2> QED BY <2>2, <2>3
<1> QED BY <1>2, <1>3

\* The first of the bytes waiting is served as apply_control() does.
LEMMA AmountsHead ==
    ASSUME NEW w, NEW bytes \in Seq(Byte), bytes # <<>>
    PROVE  Amounts(w, bytes) = Amounts(After(w, Head(bytes)), Tail(bytes))
<1> DEFINE b == Head(bytes)
<1>1. /\ b \in Byte /\ Tail(bytes) \in Seq(Byte)
      /\ <<b>> \in Seq(Byte) /\ Len(<<b>>) = 1 /\ <<b>>[1] = b
  OBVIOUS
<1> HIDE DEF b
<1>2. bytes = <<b>> \o Tail(bytes)
  BY DEF b
<1>3. Amounts(w, <<b>>) = After(w, b)
  <2>1. CASE b \in Decider
    <3>1. DecidesLast(<<b>>, 1)
      BY <1>1, <2>1 DEF DecidesLast
    <3> QED BY <1>1, <3>1, AmountsToLast
  <2>2. CASE b \notin Decider
    <3>1. Amounts(w, <<b>>) = w
      BY <1>1, <2>2, AmountsToNothing
    <3> QED BY <2>2, <3>1 DEF After, Decider
  <2> QED BY <2>1, <2>2
<1>4. Amounts(w, <<b>> \o Tail(bytes)) = Amounts(Amounts(w, <<b>>), Tail(bytes))
  BY <1>1, AmountsConcat
<1> QED BY <1>2, <1>3, <1>4 DEF b

-----------------------------------------------------------------------------
(* ServedInOrder *)

Waits == batch \o fifo

\* What waits in the order in which it will be served is what is owed, and
\* amounts to the wish.  A supervisor begins with nothing read, and one without a
\* process of its own with nothing to read; a SIGTERM noted leaves the wish open.
OInv ==
    /\ batch \in Seq(Byte) /\ fifo \in Seq(Byte)
    /\ pc # "apply" => batch = <<>>
    /\ pc = "off" => fifo = <<>> /\ ~terminate
    /\ terminate => wish = "any"
    /\ owed = Waits
    /\ LastWordWins

\* Every command is a sequence of control bytes.
LEMMA CommandBytes ==
    ASSUME NEW cmd \in CtlCommands
    PROVE  ActionOf[cmd] \in Seq(Byte)
<1>1. cmd \in DOMAIN ActionOf
  BY CtlAssumption
<1>2. \A c \in DOMAIN ActionOf : ActionOf[c] \in Seq(Byte)
  <2>1. \A a, b, c, d \in Byte :
            /\ <<a>> \in Seq(Byte) /\ <<a, b>> \in Seq(Byte)
            /\ <<a, b, c>> \in Seq(Byte) /\ <<a, b, c, d>> \in Seq(Byte)
    OBVIOUS
  <2>2. /\ "u" \in Byte /\ "d" \in Byte /\ "x" \in Byte /\ "o" \in Byte
        /\ "p" \in Byte /\ "c" \in Byte /\ "t" \in Byte /\ "k" \in Byte
        /\ "h" \in Byte
    BY DEF Byte
  <2> HIDE DEF Byte
  <2>3. /\ DOMAIN ActionOf = {"up", "down", "exit", "once", "pause", "cont", "term",
              "kill", "signal", "restart", "force_stop", "force_restart",
              "force_shutdown"}
    BY DEF ActionOf
  <2>4. /\ ActionOf["up"] = <<"u">> /\ ActionOf["down"] = <<"d">>
        /\ ActionOf["exit"] = <<"x">> /\ ActionOf["once"] = <<"o">>
        /\ ActionOf["pause"] = <<"p">> /\ ActionOf["cont"] = <<"c">>
        /\ ActionOf["term"] = <<"t">> /\ ActionOf["kill"] = <<"k">>
        /\ ActionOf["signal"] = <<"h">>
    BY DEF ActionOf
  <2>5. /\ ActionOf["restart"] = <<"t", "c", "u">>
        /\ ActionOf["force_stop"] = <<"d", "k">>
        /\ ActionOf["force_restart"] = <<"t", "k", "c", "u">>
        /\ ActionOf["force_shutdown"] = <<"x", "k">>
    BY DEF ActionOf
  <2>6. /\ <<"u">> \in Seq(Byte) /\ <<"d">> \in Seq(Byte) /\ <<"x">> \in Seq(Byte)
        /\ <<"o">> \in Seq(Byte) /\ <<"p">> \in Seq(Byte) /\ <<"c">> \in Seq(Byte)
        /\ <<"t">> \in Seq(Byte) /\ <<"k">> \in Seq(Byte) /\ <<"h">> \in Seq(Byte)
    BY <2>1, <2>2
  <2>7. /\ <<"t", "c", "u">> \in Seq(Byte) /\ <<"d", "k">> \in Seq(Byte)
        /\ <<"t", "k", "c", "u">> \in Seq(Byte) /\ <<"x", "k">> \in Seq(Byte)
    BY <2>1, <2>2
  <2> QED BY Zenon, <2>3, <2>4, <2>5, <2>6, <2>7
<1> QED BY <1>1, <1>2

LEMMA InitOrder == CtlInit => OInv
  BY EmptySeq DEF CtlInit, Init, OInv, Waits, LastWordWins

\* One byte is served.
LEMMA ServeOrder ==
    ASSUME OInv, ApplyControl, wish' = wish, owed' = Tail(owed)
    PROVE  OInv'
<1>1. /\ batch # <<>> /\ batch' = Tail(batch) /\ fifo' = fifo
      /\ pc = "apply" /\ pc' = "apply" /\ terminate' = terminate
      /\ want' = After(want, Head(batch))
  BY DEF ApplyControl, Apply, WantAfter, After
<1>2. /\ Waits \in Seq(Byte) /\ Waits # <<>>
      /\ Head(Waits) = Head(batch) /\ Tail(Waits) = Tail(batch) \o fifo
      /\ Tail(batch) \in Seq(Byte)
  BY <1>1 DEF OInv, Waits
<1>3. Amounts(want, Waits) = Amounts(want', Tail(batch) \o fifo)
  BY <1>1, <1>2, AmountsHead
<1> QED BY <1>1, <1>2, <1>3 DEF OInv, LastWordWins, Waits

\* A client writes its command.
LEMMA AskOrder ==
    ASSUME OInv, NEW c \in Client, NEW cmd \in CtlCommands, NEW verbose \in BOOLEAN,
           Ask(c, cmd, verbose)
    PROVE  OInv'
<1> DEFINE bytes == ActionOf[cmd]
<1>1. bytes \in Seq(Byte)
  BY CommandBytes
<1> HIDE DEF bytes
<1>2. /\ pc # "off" /\ fifo' = fifo \o bytes
      /\ UNCHANGED <<pc, want, batch, terminate>>
      /\ wish' = IF wish = "any" THEN wish ELSE Amounts(wish, bytes)
      /\ owed' = owed \o bytes
  BY DEF Ask, ControlWrite, supVars, bytes
<1>3. /\ fifo' \in Seq(Byte)
      /\ batch \o (fifo \o bytes) = Waits \o bytes /\ Waits \in Seq(Byte)
  <2>1. batch \in Seq(Byte) /\ fifo \in Seq(Byte)
    BY DEF OInv
  <2>2. batch \o (fifo \o bytes) = (batch \o fifo) \o bytes
    BY <1>1, <2>1, ConcatAssociative
  <2> QED BY <1>1, <1>2, <2>1, <2>2, ConcatProperties DEF Waits
<1>4. Amounts(want, Waits \o bytes) = Amounts(Amounts(want, Waits), bytes)
  BY <1>1, <1>3, AmountsConcat
<1>5. LastWordWins'
  <2> SUFFICES ASSUME wish' # "any", pc \notin {"off", "leave"}
               PROVE  Amounts(want, batch \o (fifo \o bytes)) = wish'
    BY <1>2 DEF LastWordWins
  <2>1. wish # "any" /\ Amounts(want, Waits) = wish
    BY <1>2 DEF OInv, LastWordWins, Waits
  <2> QED BY <1>2, <1>3, <1>4, <2>1
<1>6. (owed = Waits)'
  BY <1>2, <1>3 DEF OInv, Waits
<1> QED BY <1>2, <1>3, <1>5, <1>6 DEF OInv

LEMMA StepOrder == OInv /\ [CtlNext]_allVars => OInv'
<1> SUFFICES ASSUME OInv, [CtlNext]_allVars PROVE OInv'
  OBVIOUS
<1>1. CASE UNCHANGED <<pc, want, batch, fifo, terminate, wish, owed>>
  BY <1>1 DEF OInv, Waits, LastWordWins
<1>2. CASE SupervisorStep
  <2>1. CASE New
    <3>1. /\ pc' = "new" /\ pc = "off" /\ wish' = want'
          /\ UNCHANGED <<batch, fifo, terminate, owed>>
      BY <1>2, <2>1 DEF SupervisorStep, New, ApplyControl, Leave
    <3>2. batch = <<>> /\ fifo = <<>> /\ ~terminate
      BY <3>1 DEF OInv
    <3>3. Amounts(want', <<>> \o <<>>) = want'
      <4>1. /\ <<>> \o <<>> \in Seq(Byte)
            /\ \A k \in 1..Len(<<>> \o <<>>) : (<<>> \o <<>>)[k] \notin Decider
        OBVIOUS
      <4> QED BY <4>1, AmountsToNothing
    <3> QED BY <3>1, <3>2, <3>3 DEF OInv, Waits, LastWordWins
  <2>2. CASE ~New
    <3>1. /\ wish' = wish /\ Supervisor
          /\ owed' = IF ApplyControl THEN Tail(owed) ELSE IF Leave THEN <<>> ELSE owed
      BY <1>2, <2>2 DEF SupervisorStep
    <3>2. CASE ReadControl
      <4>1. /\ pc = "read" /\ pc' = "apply" /\ batch' = fifo /\ fifo' = <<>>
            /\ want' = want /\ terminate' = terminate /\ owed' = owed
        BY <3>1, <3>2 DEF ReadControl, ApplyControl, Leave
      <4>2. batch \o fifo = batch' \o fifo' /\ batch' \in Seq(Byte) /\ fifo' \in Seq(Byte)
        BY <4>1, EmptySeq, ConcatEmptySeq DEF OInv
      <4> QED BY <3>1, <4>1, <4>2 DEF OInv, Waits, LastWordWins
    <3>3. CASE ApplyControl
      BY <3>1, <3>3, ServeOrder
    <3>4. CASE TakeTerminate
      BY <3>1, <3>4 DEF TakeTerminate, ApplyControl, Leave, OInv, Waits, LastWordWins
    <3>5. CASE Leave
      BY <3>1, <3>5, EmptySeq DEF Leave, ApplyControl, Gone, OInv, Waits, LastWordWins
    <3>6. CASE /\ UNCHANGED <<want, batch, fifo, terminate>>
               /\ pc \notin {"off", "leave"} /\ pc' # "off"
               /\ pc # "apply"
      BY <3>1, <3>6 DEF ApplyControl, Leave, OInv, Waits, LastWordWins
    <3>7. CASE NewPublish
      BY <3>6, <3>7 DEF NewPublish, OInv
    <3>8. CASE ReapNothing \/ ReapLast \/ ReapRun \/ Start \/ StartNothing
      BY <3>6, <3>8 DEF ReapNothing, ReapLast, ReapRun, Start, StartNothing
    <3>9. CASE EndPoll
      BY <3>6, <3>9 DEF EndPoll
    <3> QED BY <2>2, <3>1, <3>2, <3>3, <3>4, <3>5, <3>7, <3>8, <3>9
            DEF Supervisor, Poll
  <2> QED BY <2>1, <2>2
<1>3. CASE Terminated
  BY <1>3 DEF Terminated, SigTerm, OInv, Waits, LastWordWins
<1>4. CASE Around
  BY <1>1, <1>4 DEF Around, ctlVars, RetryDue, Processes, ScriptEnds, SignalKills,
     Dies, LoggerEnds, supVars
<1>5. ASSUME NEW c \in Client, NEW cmd \in CtlCommands, NEW verbose \in BOOLEAN,
             Ask(c, cmd, verbose)
      PROVE  OInv'
  BY <1>5, AskOrder
<1>6. ASSUME NEW c \in Client,
             Look(c) \/ Deadline(c) \/ \E cmd \in CtlCommands : Refused(c, cmd)
      PROVE  OInv'
  BY <1>1, <1>6 DEF Look, Deadline, Refused, vars
<1>7. CASE UNCHANGED allVars
  BY <1>1, <1>7 DEF allVars, vars
<1>8. CASE Killed
  BY <1>8, EmptySeq DEF Killed, Crash, Gone, OInv, Waits, LastWordWins
<1> QED BY <1>2, <1>3, <1>4, <1>5, <1>6, <1>7, <1>8 DEF CtlNext, Clients

\* A step that shortens what was read serves the byte accepted first, unless
\* the supervisor ends with it.
LEMMA StepServes ==
    ASSUME OInv, CtlNext, pc = "apply", batch' # batch, pc' # "off"
    PROVE  Apply(Head(owed))
<1>1. ApplyControl
  <2>1. SupervisorStep
    BY DEF CtlNext, Killed, Crash, Gone, Terminated, SigTerm, Around, ctlVars, RetryDue,
       Processes, ScriptEnds, SignalKills, Dies, LoggerEnds, supVars, Clients, Ask,
       ControlWrite, Refused, Look, Deadline, vars
  <2> QED
    BY <2>1 DEF SupervisorStep, Supervisor, Poll, New, NewPublish, ReadControl,
       TakeTerminate, ReapNothing, ReapLast, ReapRun, Start, StartNothing, EndPoll,
       Leave
<1>2. Head(owed) = Head(batch)
  BY <1>1 DEF ApplyControl, OInv, Waits
<1> QED BY <1>1, <1>2 DEF ApplyControl

LEMMA OrderInvariance == CtlSpec => []OInv
  BY InitOrder, StepOrder, PTL DEF CtlSpec

\* As long as a supervisor lives no byte that it accepted is lost, repeated or
\* overtaken, for any number of clients and any commands, whatever spawn or write
\* fails and whenever supervisors are killed.
THEOREM AcceptedIsServed == CtlSpec => ServedInOrder
<1> DEFINE Serves == (pc = "apply" /\ batch' # batch) =>
                        (pc' = "off" \/ Apply(Head(owed)))
<1>1. OInv => owed = batch \o fifo
  BY DEF OInv, Waits
<1>2. OInv => LastWordWins
  BY DEF OInv
<1>3. OInv /\ [CtlNext]_allVars => [Serves]_allVars
  BY StepServes
<1> QED BY <1>1, <1>2, <1>3, OrderInvariance, PTL DEF CtlSpec, ServedInOrder

-----------------------------------------------------------------------------
(* AnswersTrue *)

\* A status without a pid is not one of a paused service.
Unpaused == status.pid = NoPid => ~status.paused

\* Before its first publish() a supervisor leaves a status without a pid.
Away == pc \in {"off", "new", "leave"} => status.pid = NoPid

Clean == LeavesIdle /\ Own /\ (pc # "leave" => Flags) /\ StatusTold /\ LeavesDown

AInv ==
    /\ IInv /\ Clean /\ Unpaused /\ Away
    /\ client \in [Client -> [at : {"idle", "sent", "wait", "ok", "fail", "timeout"},
                              cmd : DOMAIN ActionOf \cup {"status"},
                              late : BOOLEAN]]

\* A step of the supervisor or of what is around it.
LEMMA StepAway ==
    ASSUME Faults = {}, IInv, Clean, Unpaused, Away, Next
    PROVE  (IInv /\ Clean /\ Unpaused /\ Away)'
<1>1. IInv' /\ Clean'
  BY StepIInv, StepLeaves, StepOwn, StepFlags, StepStatus, StepLeavesDown DEF Clean
<1>2. \A ok \in BOOLEAN : Publish(ok) => status' = StatusOf(process', want')
  BY DEF Publish
<1>3. status' = status \/ status' = StatusOf(process', want')
  BY <1>2 DEF Next, Supervisor, Poll, New, NewPublish, Leave, ReadControl,
     ApplyControl, TakeTerminate, Apply, ReapNothing, ReapLast, ReapRun, Start,
     StartNothing, EndPoll, Gone, Crash, Environment, Processes, ControlWrite,
     SigTerm, RetryDue, ScriptEnds, SignalKills, Dies, LoggerEnds
<1>4. process'.child = NoPid => process' = NoProcess
  BY <1>1, LksysAssumption DEF IInv, Handle, Clean, LeavesIdle, NoProcess
<1>5. Unpaused'
  BY <1>3, <1>4 DEF Unpaused, StatusOf, NoProcess
<1>6. Away'
  <2>1. CASE pc' = "leave"
    BY <1>1, <2>1 DEF Clean, LeavesDown, Away
  <2>2. CASE New \/ Leave \/ Crash
    BY <2>2 DEF New, Leave, Crash, Gone, Clean, LeavesDown, Away
  <2>3. CASE NewPublish
    BY <1>1, <2>3 DEF NewPublish, Publish, Away, Clean, LeavesDown
  <2>4. CASE /\ \/ ReadControl \/ ApplyControl \/ TakeTerminate \/ ReapNothing
                \/ ReapLast \/ ReapRun \/ Start \/ StartNothing \/ EndPoll
             /\ pc' # "leave"
    BY <2>4 DEF ReadControl, ApplyControl, TakeTerminate, ReapNothing, ReapLast,
       ReapRun, Start, StartNothing, EndPoll, Away
  <2>5. CASE UNCHANGED <<pc, status>>
    BY <2>5 DEF Away
  <2>6. CASE Processes \/ RetryDue \/ SigTerm \/ \E cmd \in Commands : ControlWrite(cmd)
    BY <2>5, <2>6 DEF ControlWrite, SigTerm, RetryDue, Processes, ScriptEnds,
       SignalKills, Dies, LoggerEnds, supVars
  <2> QED BY <2>1, <2>2, <2>3, <2>4, <2>6 DEF Next, Supervisor, Poll, Environment
<1> QED BY <1>1, <1>5, <1>6

\* A step that changes nothing but what waits in the FIFO.
LEMMA WaitAway ==
    ASSUME IInv, Clean, Unpaused, Away, fifo' \in Seq(Byte),
           UNCHANGED <<supVars, status, ps, loggers>>
    PROVE  (IInv /\ Clean /\ Unpaused /\ Away)'
<1>1. IInv'
  BY DEF supVars, IInv, TypeOK, Table, Handle
<1>2. Clean' /\ Unpaused' /\ Away'
  BY DEF supVars, Clean, LeavesIdle, Own, Flags, StatusTold, LeavesDown,
     Unpaused, Away
<1> QED BY <1>1, <1>2

\* What a status shows is so.
LEMMA ShownIsTrue ==
    ASSUME IInv, Clean, Unpaused, Away, NEW b, Shows(status, b)
    PROVE  Truth(b)
<1>1. CASE pc \in {"off", "new", "leave"}
  <2>1. status.pid = NoPid /\ ~status.paused
    BY <1>1 DEF Away, Unpaused
  <2>2. process = NoProcess
    BY <1>1 DEF IInv, Clean, LeavesIdle
  <2>3. \A p \in Pid : ps[p] = Unused
    BY <2>2, IdleIsEmpty DEF Clean
  <2> QED BY <2>1, <2>3 DEF Shows, Truth, Unused
<1>2. CASE pc \notin {"off", "new", "leave"}
  <2>1. status = StatusOf(process, want) /\ Handle /\ Flags
    BY <1>2 DEF IInv, Clean, StatusTold
  <2>2. process.child = NoPid => process = NoProcess
    BY <2>1, LksysAssumption DEF Handle
  <2>3. process = NoProcess => \A p \in Pid : ps[p] = Unused
    BY IdleIsEmpty DEF Clean
  <2>4. process = NoProcess =>
            process.child = NoPid /\ process.phase = "down" /\ ~process.paused
    BY DEF NoProcess
  <2>5. CASE b = "u"
    <3>1. process.child # NoPid /\ process.phase = "run" /\ WantByte(want) = "u"
      BY <2>1, <2>5 DEF Shows, StatusOf
    <3>2. process # NoProcess /\ want = "Up"
      BY <2>4, <3>1 DEF WantByte
    <3> QED BY <2>1, <2>5, <3>1, <3>2 DEF Handle, Truth
  <2>6. CASE b \in {"d", "x"}
    BY <2>1, <2>2, <2>3, <2>6 DEF Shows, StatusOf, Truth
  <2>7. CASE b = "p"
    <3>1. process.paused /\ process # NoProcess
      BY <2>1, <2>4, <2>7 DEF Shows, StatusOf
    <3> QED BY <2>1, <2>7, <3>1 DEF Flags, Truth
  <2>8. CASE b = "c"
    <3>1. ~process.paused
      BY <2>1, <2>8 DEF Shows, StatusOf
    <3>2. CASE process = NoProcess
      BY <2>3, <2>8, <3>2 DEF Truth, Unused
    <3>3. CASE process # NoProcess
      <4>1. ps[process.child].state # "stopped"
        BY <2>1, <3>1, <3>3 DEF Flags
      <4>2. \A p \in Pid \ {process.child} : ps[p] = Unused
        BY DEF IInv, Table, Clean, Own
      <4> QED BY <2>8, <4>1, <4>2 DEF Truth, Unused
    <3> QED BY <3>2, <3>3
  <2>9. CASE b \notin {"u", "d", "x", "p", "c"}
    BY <2>9 DEF Truth
  <2> QED BY <2>5, <2>6, <2>7, <2>8, <2>9
<1> QED BY <1>1, <1>2

LEMMA InitAnswers == CtlInit => AInv
<1> SUFFICES ASSUME CtlInit PROVE AInv
  OBVIOUS
<1>1. IInv
  BY InitIInv DEF CtlInit
<1>2. Clean /\ Unpaused /\ Away
  BY DEF CtlInit, Init, Clean, LeavesIdle, Own, Flags, StatusTold, LeavesDown,
     Unpaused, Away, NoStatus
<1> QED BY <1>1, <1>2 DEF CtlInit, AInv, Idle

LEMMA StepAnswers ==
    ASSUME Faults = {}, AInv, [CtlNext]_allVars
    PROVE  AInv'
<1>1. CASE SupervisorStep \/ Terminated \/ Around
  <2>1. Next /\ client' = client
    BY <1>1 DEF SupervisorStep, Terminated, Around, ctlVars, Next, Environment
  <2> QED BY <2>1, StepAway DEF AInv
<1>2. ASSUME NEW c \in Client, NEW cmd \in CtlCommands, NEW verbose \in BOOLEAN,
             Ask(c, cmd, verbose)
      PROVE  AInv'
  <2>1. fifo' = fifo \o ActionOf[cmd] /\ UNCHANGED <<supVars, status, ps, loggers>>
    BY <1>2 DEF Ask, ControlWrite
  <2>2. fifo' \in Seq(Byte)
    BY <2>1, CommandBytes, ConcatProperties DEF AInv, IInv, TypeOK
  <2>3. (IInv /\ Clean /\ Unpaused /\ Away)'
    BY <2>1, <2>2, WaitAway DEF AInv
  <2> QED BY <1>2, <2>3, CtlAssumption DEF Ask, AInv
<1>3. ASSUME UNCHANGED vars
      PROVE  (IInv /\ Clean /\ Unpaused /\ Away)'
  BY <1>3, WaitAway DEF vars, supVars, AInv, IInv, TypeOK
<1>4. ASSUME NEW c \in Client,
             Look(c) \/ Deadline(c) \/ \E cmd \in CtlCommands : Refused(c, cmd)
      PROVE  AInv'
  <2>1. UNCHANGED vars
    BY <1>4 DEF Look, Deadline, Refused
  <2>2. CASE \E at \in {"ok", "fail", "timeout"} :
                 client' = [client EXCEPT ![c].at = at]
    BY <1>3, <2>1, <2>2 DEF AInv
  <2>3. CASE Deadline(c)
    BY <1>3, <2>1, <2>3 DEF Deadline, AInv
  <2>4. ASSUME NEW cmd \in CtlCommands, Refused(c, cmd) PROVE AInv'
    BY <1>3, <2>1, <2>4, CtlAssumption DEF Refused, AInv
  <2> QED BY <1>4, <2>2, <2>3, <2>4 DEF Look
<1>5. CASE UNCHANGED allVars
  BY <1>3, <1>5 DEF allVars, AInv
<1>6. ~Killed
  BY DEF Killed, Crash
<1> QED BY <1>1, <1>2, <1>4, <1>5, <1>6 DEF CtlNext, Clients

\* As long as nothing fails, an "ok" is true when it is given, for any number
\* of clients, any commands and any pids.
THEOREM OkIsTrue ==
    ASSUME Faults = {}
    PROVE  CtlSpec => AnswersTrue
<1> DEFINE Answered(c) == (client[c].at = "wait" /\ client'[c].at = "ok") =>
              \A i \in DOMAIN ActionOf[client[c].cmd] :
                  Truth(ActionOf[client[c].cmd][i])
<1>1. ASSUME AInv, CtlNext, NEW c \in Client PROVE Answered(c)
  <2> SUFFICES ASSUME client[c].at = "wait", client'[c].at = "ok"
               PROVE  \A i \in DOMAIN ActionOf[client[c].cmd] :
                          Truth(ActionOf[client[c].cmd][i])
    OBVIOUS
  <2>1. PICK d \in Client :
            \/ \E cmd \in CtlCommands :
                  \/ \E verbose \in BOOLEAN : Ask(d, cmd, verbose)
                  \/ Refused(d, cmd)
            \/ Look(d)
            \/ Deadline(d)
    BY <1>1 DEF CtlNext, Clients, SupervisorStep, Killed, Terminated, Around, ctlVars
  <2>2. d = c
    BY <1>1, <2>1 DEF Ask, Refused, Look, Deadline, AInv
  <2>3. Desired(status, client[c].cmd)
    BY <1>1, <2>1, <2>2 DEF Ask, Refused, Look, Deadline, AInv
  <2> QED BY <1>1, <2>3, ShownIsTrue DEF Desired, AInv
<1>2. AInv /\ [CtlNext]_allVars => [\A c \in Client : Answered(c)]_allVars
  BY <1>1
<1>3. CtlSpec => []AInv
  BY InitAnswers, StepAnswers, PTL DEF CtlSpec
<1> QED BY <1>2, <1>3, PTL DEF CtlSpec, AnswersTrue

-----------------------------------------------------------------------------
(* What the supervisor promises it promises to any clients *)

\* A step of the composition is one of the supervisor and what is around it,
\* or it changes nothing but what waits in the FIFO.
LEMMA StepOrAsk ==
    ASSUME TypeOK, [CtlNext]_allVars
    PROVE  \/ [Next]_vars
           \/ fifo' \in Seq(Byte) /\ UNCHANGED <<supVars, status, ps, loggers>>
<1>1. CASE SupervisorStep \/ Killed \/ Terminated \/ Around
  BY <1>1 DEF SupervisorStep, Killed, Terminated, Around, Next, Environment
<1>2. ASSUME NEW c \in Client, NEW cmd \in CtlCommands, NEW verbose \in BOOLEAN,
             Ask(c, cmd, verbose)
      PROVE  fifo' \in Seq(Byte) /\ UNCHANGED <<supVars, status, ps, loggers>>
  BY <1>2, CommandBytes, ConcatProperties DEF Ask, ControlWrite, TypeOK
<1>3. ASSUME NEW c \in Client,
             Look(c) \/ Deadline(c) \/ \E cmd \in CtlCommands : Refused(c, cmd)
      PROVE  UNCHANGED vars
  BY <1>3 DEF Look, Deadline, Refused
<1> QED BY <1>1, <1>2, <1>3 DEF CtlNext, Clients, allVars

LEMMA StepFacts ==
    ASSUME IInv, pc # "leave" => Flags, [CtlNext]_allVars
    PROVE  IInv' /\ (pc # "leave" => Flags)'
<1>1. CASE [Next]_vars
  BY <1>1, StepIInv, StepFlags
<1>2. CASE fifo' \in Seq(Byte) /\ UNCHANGED <<supVars, status, ps, loggers>>
  BY <1>2 DEF supVars, IInv, TypeOK, Table, Handle, Flags
<1> QED BY <1>1, <1>2, StepOrAsk DEF IInv

\* Whatever any clients write together, whatever spawn or write fails and
\* whenever the supervisor is killed: no child of run or finish is lost, no
\* signal goes astray, the flags are true.
THEOREM SupervisesForAll ==
    CtlSpec => [](NoLostChild /\ NoStrayHandle /\ FlagsTold)
<1>1. CtlInit => IInv /\ (pc # "leave" => Flags)
  BY InitIInv DEF CtlInit, Init, Flags
<1>2. IInv /\ (pc # "leave" => Flags) => NoLostChild /\ NoStrayHandle /\ FlagsTold
  BY FlagsToldIsFlags DEF IInv, Table, Handle, NoLostChild, NoStrayHandle, Unused
<1> QED BY <1>1, <1>2, StepFacts, PTL DEF CtlSpec

LEMMA StepLivesOn ==
    ASSUME Faults = {}, AInv, [CtlNext]_allVars
    PROVE  [Life!Next]_(Life!vars)
<1>1. IInv /\ LeavesIdle
  BY DEF AInv, Clean
<1>2. CASE [Next]_vars
  BY <1>1, <1>2, StepLife
<1>3. CASE UNCHANGED <<supVars, status, ps, loggers>>
  BY <1>3, SameLife DEF supVars, Inst, Ended, ChildExited
<1> QED BY <1>1, <1>2, <1>3, StepOrAsk DEF IInv

\* As long as nothing fails, a service under any clients lives as ServiceLife
\* allows: their commands cannot bring up a second script, nor a finish
\* without a run before it.
THEOREM LivesForAll ==
    ASSUME Faults = {}
    PROVE  CtlSpec => LifeSpec
<1>1. CtlInit => Life!Init
  BY DEF CtlInit, Init, Life!Init, Inst, Ended, ChildExited
<1> QED BY <1>1, InitAnswers, StepAnswers, StepLivesOn, PTL
        DEF CtlSpec, LifeSpec, Life!Spec
=============================================================================
