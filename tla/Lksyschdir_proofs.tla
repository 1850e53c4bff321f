-------------------------- MODULE Lksyschdir_proofs -------------------------
(***************************************************************************)
(* What lksyschdir may do to "current", for any number of processes, sets  *)
(* and faults.                                                             *)
(*                                                                         *)
(* Stage says what the links are at each step of a lksyschdir that is      *)
(* alone, and Ends what they are when it is gone.  Told needs no such      *)
(* knowledge: who takes current away is between the two renames, or has    *)
(* not ended well.                                                         *)
(***************************************************************************)
EXTENDS Lksyschdir, TLAPS

Lone == alone => \A s, t \in Switcher : (~Idle(s) /\ ~Idle(t)) => s = t

Stage(s) ==
    /\ at[s] \in {"clear", "link", "drop", "away"} => link["current"] = before[s]
    /\ at[s] = "link" => link["current.new"] = None
    /\ at[s] \in {"drop", "away", "in", "back"} => link["current.new"] = new[s]
    /\ at[s] \in {"in", "back"} =>
           /\ link["previous"] = before[s] /\ before[s] # None
           /\ link["current"] = None
    /\ at[s] = "back" => faults >= 1

Stages == alone => \A s \in Switcher : ~Idle(s) => Stage(s)

Ends == (alone /\ AllIdle) =>
    /\ last.before \in {link["current"], link["previous"]}
    /\ last.how = "ok" =>
           /\ link["current"] = last.new /\ link["previous"] = last.before
           /\ last.before # None
    /\ (last.how = "error" /\ faults <= 1) => link["current"] = last.before
    /\ last.before = None => link["current"] = None

Told == link["current"] = None =>
    refused \/ \E s \in Switcher : at[s] \in {"in", "back"}

IInv == TypeOK /\ Lone /\ Stages /\ Ends /\ Told

-----------------------------------------------------------------------------
\* rename(2) takes the name "from" away and gives what it named to "to".
LEMMA RenamedIs ==
    ASSUME TypeOK, NEW from \in Links, NEW to \in Links, from # to
    PROVE  /\ Renamed(from, to) \in [Links -> MaybeSet]
           /\ Renamed(from, to)[from] = None
           /\ Renamed(from, to)[to] = link[from]
           /\ \A l \in Links \ {from, to} : Renamed(from, to)[l] = link[l]
  BY DEF Renamed, TypeOK, MaybeSet

\* A fault is counted.
LEMMA FaultCounts ==
    ASSUME TypeOK, Fault \/ UNCHANGED faults
    PROVE  faults' \in Nat /\ faults' >= faults
  BY LksyschdirAssumption DEF Fault, TypeOK

\* The links and the processes begin in order.
LEMMA InitHolds == Init => IInv
<1> SUFFICES ASSUME Init PROVE IInv
  OBVIOUS
<1> USE LksyschdirAssumption
<1>1. PICK set \in Sets, old \in Sets \cup {None} :
        /\ link = [l \in Links |->
                      IF l = "current" THEN set
                      ELSE IF l = "previous" THEN old ELSE None]
        /\ last = [how |-> "none", new |-> set, before |-> set]
        /\ new = [s \in Switcher |-> set]
        /\ before = [s \in Switcher |-> set]
  BY DEF Init
<1>2. at = [s \in Switcher |-> "idle"] /\ faults = 0 /\ alone /\ ~refused
  BY DEF Init
<1>3. link["current"] = set
  BY <1>1 DEF Links
<1>4. TypeOK
  <2>1. alone \in BOOLEAN /\ refused \in BOOLEAN
    BY Zenon DEF Init
  <2>2. link \in [Links -> MaybeSet]
    BY <1>1 DEF MaybeSet
  <2>3. last \in [how : {"none", "ok", "error", "died"},
                 new : Sets, before : MaybeSet]
    BY <1>1 DEF MaybeSet
  <2>4. at \in [Switcher -> {"idle", "clear", "link", "drop", "away", "in", "back"}]
    BY <1>2
  <2>5. new \in [Switcher -> Sets] /\ before \in [Switcher -> MaybeSet]
    BY <1>1 DEF MaybeSet
  <2> QED BY <1>2, <2>1, <2>2, <2>3, <2>4, <2>5 DEF TypeOK
<1>5. \A s \in Switcher : Idle(s)
  BY <1>2 DEF Idle
<1> QED
  BY <1>1, <1>2, <1>3, <1>4, <1>5 DEF IInv, Lone, Stages, Ends, Told

\* Every operation keeps the types.
LEMMA TypesHold == TypeOK /\ [Next]_vars => TypeOK'
<1> SUFFICES ASSUME TypeOK, [Next]_vars PROVE TypeOK'
  OBVIOUS
<1> USE LksyschdirAssumption
<1>1. CASE UNCHANGED vars
  BY <1>1 DEF vars, TypeOK
<1>2. ASSUME NEW s \in Switcher,
             \/ Begin(s) \/ ClearTemporary(s) \/ Symlink(s) \/ DropPrevious(s)
             \/ RenameAway(s) \/ RenameIn(s) \/ RenameBack(s) \/ Dies(s)
      PROVE  TypeOK'
  <2>1. alone' \in BOOLEAN /\ refused' \in BOOLEAN
    <3>1. alone' = alone \/ alone' = (alone /\ AllIdle)
      BY <1>2, Zenon DEF Begin, ClearTemporary, Symlink, DropPrevious, RenameAway,
         RenameIn, RenameBack, Dies
    <3>2. (\E step : Goes(s, step)) \/ (\E how : Exits(s, how))
      BY <1>2, Zenon DEF Begin, ClearTemporary, Symlink, DropPrevious, RenameAway,
         RenameIn, RenameBack, Dies
    <3>3. refused' \in BOOLEAN
      BY <3>2, Zenon DEF Goes, Exits, TypeOK
    <3> QED BY <3>1, <3>3, Zenon DEF TypeOK
  <2>2. faults' \in Nat
    BY <1>2, FaultCounts DEF Begin, ClearTemporary, Symlink, DropPrevious, RenameAway,
       RenameIn, RenameBack, Dies, FailsOn, TypeOK
  <2>3. link' \in [Links -> MaybeSet]
    <3>1. \/ link' = link
          \/ \E l \in Links : link' = [link EXCEPT ![l] = None]
          \/ link' = [link EXCEPT !["current.new"] = new[s]]
          \/ \E from, to \in Links : from # to /\ link' = Renamed(from, to)
      BY <1>2 DEF Begin, ClearTemporary, Symlink, DropPrevious, RenameAway,
         RenameIn, RenameBack, Dies, Links
    <3>2. new[s] \in MaybeSet /\ None \in MaybeSet
      BY DEF TypeOK, MaybeSet
    <3> QED BY <3>1, <3>2, RenamedIs DEF TypeOK
  <2>4. at' \in [Switcher -> {"idle", "clear", "link", "drop", "away", "in", "back"}]
    BY <1>2 DEF Begin, ClearTemporary, Symlink, DropPrevious, RenameAway,
       RenameIn, RenameBack, Dies, Goes, Exits, TypeOK
  <2>5. last' \in [how : {"none", "ok", "error", "died"},
                 new : Sets, before : MaybeSet]
    BY <1>2 DEF Begin, ClearTemporary, Symlink, DropPrevious, RenameAway,
       RenameIn, RenameBack, Dies, Goes, Exits, TypeOK
  <2>6. new' \in [Switcher -> Sets] /\ before' \in [Switcher -> MaybeSet]
    BY <1>2 DEF Begin, ClearTemporary, Symlink, DropPrevious, RenameAway,
       RenameIn, RenameBack, Dies, TypeOK, Links
  <2> QED BY <2>1, <2>2, <2>3, <2>4, <2>5, <2>6 DEF TypeOK
<1> QED BY <1>1, <1>2 DEF Next

\* While lksyschdir is alone, who works is the only one.
LEMMA LoneHolds == IInv /\ [Next]_vars => Lone'
<1> SUFFICES ASSUME IInv, [Next]_vars PROVE Lone'
  OBVIOUS
<1>1. CASE UNCHANGED vars
  BY <1>1 DEF vars, IInv, Lone, Idle
<1>2. ASSUME NEW s \in Switcher, Begin(s) PROVE Lone'
  <2>1. alone' => AllIdle
    BY <1>2 DEF Begin
  <2>2. at' = [at EXCEPT ![s] = "clear"]
    BY <1>2 DEF Begin, Goes
  <2> QED BY <2>1, <2>2 DEF IInv, TypeOK, Lone, AllIdle, Idle
<1>3. ASSUME NEW s \in Switcher,
             \/ ClearTemporary(s) \/ Symlink(s) \/ DropPrevious(s)
             \/ RenameAway(s) \/ RenameIn(s) \/ RenameBack(s) \/ Dies(s)
      PROVE  Lone'
  <2>1. alone' = alone /\ ~Idle(s)
    BY <1>3 DEF ClearTemporary, Symlink, DropPrevious, RenameAway, RenameIn,
       RenameBack, Dies, Idle
  <2>2. \E step : at' = [at EXCEPT ![s] = step]
    BY <1>3, Zenon DEF ClearTemporary, Symlink, DropPrevious, RenameAway, RenameIn,
       RenameBack, Dies, Goes, Exits
  <2> QED BY <2>1, <2>2 DEF IInv, TypeOK, Lone, Idle
<1> QED BY <1>1, <1>2, <1>3 DEF Next

\* Whoever takes current away comes back to say so.
LEMMA ToldHolds == IInv /\ [Next]_vars => Told'
<1> SUFFICES ASSUME IInv, [Next]_vars, link'["current"] = None
             PROVE  refused' \/ \E s \in Switcher : at'[s] \in {"in", "back"}
  BY DEF Told
<1> USE LksyschdirAssumption
<1>1. CASE UNCHANGED vars
  BY <1>1 DEF vars, IInv, Told
<1>2. ASSUME NEW s \in Switcher, \E how \in {"error", "died"} : Exits(s, how)
      PROVE  refused'
  BY <1>2 DEF Exits
<1>3. ASSUME NEW s \in Switcher,
             Begin(s) \/ ClearTemporary(s) \/ Symlink(s) \/ DropPrevious(s)
      PROVE  refused' \/ \E t \in Switcher : at'[t] \in {"in", "back"}
  <2>1. CASE \E how \in {"error", "died"} : Exits(s, how)
    BY <2>1, <1>2
  <2>2. CASE \E step : Goes(s, step)
    <3>1. refused' = refused /\ link["current"] = None
      BY <1>3, <2>2 DEF Begin, ClearTemporary, Symlink, DropPrevious, Goes, IInv,
         TypeOK, Links, Exits
    <3>2. at[s] \notin {"in", "back"}
      BY <1>3 DEF Begin, ClearTemporary, Symlink, DropPrevious, Idle
    <3>3. \A t \in Switcher \ {s} : at'[t] = at[t]
      BY <2>2 DEF Goes, IInv, TypeOK
    <3> QED BY <3>1, <3>2, <3>3 DEF IInv, Told
  <2> QED BY <1>3, <2>1, <2>2, Zenon DEF Begin, ClearTemporary, Symlink, DropPrevious
<1>4. ASSUME NEW s \in Switcher, RenameAway(s)
      PROVE  refused' \/ \E t \in Switcher : at'[t] \in {"in", "back"}
  <2>1. CASE Goes(s, "in")
    BY <2>1 DEF Goes, IInv, TypeOK
  <2> QED BY <1>2, <1>4, <2>1 DEF RenameAway
<1>5. ASSUME NEW s \in Switcher, RenameIn(s)
      PROVE  refused' \/ \E t \in Switcher : at'[t] \in {"in", "back"}
  <2>1. CASE Goes(s, "back")
    BY <2>1 DEF Goes, IInv, TypeOK
  <2>2. CASE link["current.new"] # None /\ link' = Renamed("current.new", "current")
    BY <2>2, RenamedIs DEF IInv, Links
  <2> QED BY <1>5, <2>1, <2>2 DEF RenameIn
<1>6. ASSUME NEW s \in Switcher, RenameBack(s) \/ Dies(s) PROVE refused'
  BY <1>2, <1>6 DEF RenameBack, Dies
<1> QED BY <1>1, <1>3, <1>4, <1>5, <1>6 DEF Next

\* Who is alone finds the links as its step before has left them.
LEMMA StagesHold == IInv /\ [Next]_vars => Stages'
<1> SUFFICES ASSUME IInv, [Next]_vars, alone', NEW t \in Switcher, ~Idle(t)'
             PROVE  Stage(t)'
  BY DEF Stages
<1> USE LksyschdirAssumption
<1>1. CASE UNCHANGED vars
  BY <1>1 DEF vars, IInv, Stages, Stage, Idle
<1>2. ASSUME NEW s \in Switcher, Begin(s) PROVE Stage(t)'
  <2>1. AllIdle /\ at' = [at EXCEPT ![s] = "clear"] /\ link' = link
    BY <1>2 DEF Begin, Goes
  <2>2. t = s /\ at'[s] = "clear"
    BY <2>1 DEF AllIdle, Idle, IInv, TypeOK
  <2>3. before'[s] = link'["current"]
    BY <1>2, <2>1 DEF Begin, IInv, TypeOK
  <2> QED BY <2>2, <2>3 DEF Stage
<1>3. ASSUME NEW s \in Switcher,
             \/ ClearTemporary(s) \/ Symlink(s) \/ DropPrevious(s)
             \/ RenameAway(s) \/ RenameIn(s) \/ RenameBack(s) \/ Dies(s)
      PROVE  Stage(t)'
  <2>1. alone /\ ~Idle(s) /\ UNCHANGED <<new, before>>
    BY <1>3 DEF ClearTemporary, Symlink, DropPrevious, RenameAway, RenameIn,
       RenameBack, Dies, Idle
  <2>2. \E step : at' = [at EXCEPT ![s] = step]
    BY <1>3, Zenon DEF ClearTemporary, Symlink, DropPrevious, RenameAway, RenameIn,
       RenameBack, Dies, Goes, Exits
  <2>3. t = s
    BY <2>1, <2>2 DEF IInv, TypeOK, Lone, Idle
  <2>4. Stage(s)
    BY <2>1 DEF IInv, Stages
  <2>5. ASSUME NEW step, Goes(s, step) PROVE at'[s] = step
    BY <2>5 DEF Goes, IInv, TypeOK
  <2>6. ASSUME NEW how, Exits(s, how) PROVE FALSE
    BY <2>3, <2>6 DEF Exits, Idle, IInv, TypeOK
  <2> USE <2>1, <2>3, <2>4
  <2>7. CASE ClearTemporary(s)
    <3>1. at[s] = "clear" /\ at'[s] = "link"
      BY <2>5, <2>7 DEF ClearTemporary
    <3>2. link'["current.new"] = None /\ link'["current"] = link["current"]
      BY <2>7 DEF ClearTemporary, IInv, TypeOK, Links
    <3> QED BY <3>1, <3>2 DEF Stage
  <2>8. CASE Symlink(s)
    <3>1. at[s] = "link" /\ at'[s] = "drop"
      BY <2>5, <2>6, <2>8 DEF Symlink
    <3>2. link' = [link EXCEPT !["current.new"] = new[s]]
      BY <2>6, <2>8 DEF Symlink
    <3>3. link'["current.new"] = new[s] /\ link'["current"] = link["current"]
      BY <3>2 DEF IInv, TypeOK, Links
    <3> QED BY <3>1, <3>3 DEF Stage
  <2>9. CASE DropPrevious(s)
    <3>1. at[s] = "drop" /\ at'[s] = "away"
      BY <2>5, <2>9 DEF DropPrevious
    <3>2. /\ link'["current.new"] = link["current.new"]
          /\ link'["current"] = link["current"]
      BY <2>9 DEF DropPrevious, IInv, TypeOK, Links
    <3> QED BY <3>1, <3>2 DEF Stage
  <2>10. CASE RenameAway(s)
    <3>1. at[s] = "away" /\ at'[s] = "in"
      BY <2>5, <2>6, <2>10 DEF RenameAway
    <3>2. link["current"] # None /\ link' = Renamed("current", "previous")
      BY <2>6, <2>10 DEF RenameAway
    <3>3. /\ link'["current"] = None
          /\ link'["previous"] = link["current"]
          /\ link'["current.new"] = link["current.new"]
      BY <3>2, RenamedIs DEF IInv, Links
    <3> QED BY <3>1, <3>2, <3>3 DEF Stage
  <2>11. CASE RenameIn(s)
    <3>1. at[s] = "in" /\ at'[s] = "back" /\ link' = link
      BY <2>5, <2>6, <2>11 DEF RenameIn
    <3>2. link["current.new"] # None
      BY <3>1 DEF Stage, IInv, TypeOK
    <3>3. Fault
      BY <2>6, <2>11, <3>2 DEF RenameIn, FailsOn
    <3>4. faults' >= 1
      BY <3>3 DEF Fault, IInv, TypeOK
    <3> QED BY <3>1, <3>4 DEF Stage
  <2>12. CASE RenameBack(s) \/ Dies(s)
    BY <2>6, <2>12 DEF RenameBack, Dies
  <2> QED BY <1>3, <2>7, <2>8, <2>9, <2>10, <2>11, <2>12
<1> QED BY <1>1, <1>2, <1>3 DEF Next

\* An end of one that was alone leaves the links as it says.
LEMMA EndsHold == IInv /\ [Next]_vars => Ends'
<1> SUFFICES ASSUME IInv, [Next]_vars, alone', AllIdle' PROVE Ends'
  BY DEF Ends
<1> USE LksyschdirAssumption
<1> DEFINE Left(how, b, n) ==
      /\ b \in {link'["current"], link'["previous"]}
      /\ how = "ok" => link'["current"] = n /\ link'["previous"] = b /\ b # None
      /\ (how = "error" /\ faults' <= 1) => link'["current"] = b
      /\ b = None => link'["current"] = None
<1>1. CASE UNCHANGED vars
  BY <1>1 DEF vars, IInv, Ends, AllIdle, Idle
<1>2. ASSUME NEW s \in Switcher, NEW step, step # "idle", Goes(s, step)
      PROVE  FALSE
  BY <1>2 DEF Goes, AllIdle, Idle, IInv, TypeOK
<1>3. ASSUME NEW s \in Switcher, NEW how, Exits(s, how), Left(how, before[s], new[s])
      PROVE  Ends'
  <2>1. last' = [how |-> how, new |-> new[s], before |-> before[s]]
    BY <1>3 DEF Exits
  <2> QED BY <1>3, <2>1 DEF Ends
<1>4. ASSUME NEW s \in Switcher, Begin(s) \/ ClearTemporary(s) \/ DropPrevious(s)
      PROVE  FALSE
  BY <1>2, <1>4 DEF Begin, ClearTemporary, DropPrevious
<1>5. ASSUME NEW s \in Switcher,
             Symlink(s) \/ RenameAway(s) \/ RenameIn(s) \/ RenameBack(s) \/ Dies(s)
      PROVE  Ends'
  <2>1. alone /\ ~Idle(s)
    BY <1>5 DEF Symlink, RenameAway, RenameIn, RenameBack, Dies, Idle
  <2>2. Stage(s)
    BY <2>1 DEF IInv, Stages
  <2>3. new[s] # None /\ at[s] \in {"clear", "link", "drop", "away", "in", "back"}
    BY <2>1 DEF IInv, TypeOK, Idle
  <2> USE <2>2, <2>3
  <2>4. CASE Symlink(s)
    <3>1. Exits(s, "error") /\ link' = link /\ at[s] = "link"
      BY <1>2, <2>4 DEF Symlink
    <3>2. Left("error", before[s], new[s])
      BY <3>1 DEF Stage
    <3> QED BY <1>3, <3>1, <3>2
  <2>5. CASE RenameAway(s)
    <3>1. Exits(s, "error") /\ link' = link /\ at[s] = "away"
      BY <1>2, <2>5 DEF RenameAway
    <3>2. Left("error", before[s], new[s])
      BY <3>1 DEF Stage
    <3> QED BY <1>3, <3>1, <3>2
  <2>6. CASE RenameIn(s)
    <3>1. at[s] = "in" /\ Exits(s, "ok") /\ link' = Renamed("current.new", "current")
      BY <1>2, <2>6 DEF RenameIn
    <3>2. /\ link'["current"] = link["current.new"]
          /\ link'["previous"] = link["previous"]
      BY <3>1, RenamedIs DEF IInv, Links
    <3>3. Left("ok", before[s], new[s])
      BY <3>1, <3>2 DEF Stage
    <3> QED BY <1>3, <3>1, <3>3
  <2>7. CASE RenameBack(s)
    <3>1. at[s] = "back" /\ Exits(s, "error")
      BY <2>7 DEF RenameBack
    <3>2. link["previous"] = before[s] /\ before[s] # None
      BY <3>1 DEF Stage
    <3>3. CASE link' = Renamed("previous", "current")
      <4>1. link'["current"] = before[s]
        BY <3>2, <3>3, RenamedIs DEF IInv, Links
      <4>2. Left("error", before[s], new[s])
        BY <3>2, <4>1
      <4> QED BY <1>3, <3>1, <4>2
    <3>4. CASE link' = link /\ Fault
      <4>1. faults' > 1
        BY <3>1, <3>4 DEF Stage, Fault, IInv, TypeOK
      <4>2. Left("error", before[s], new[s])
        BY <3>2, <3>4, <4>1 DEF Fault, IInv, TypeOK
      <4> QED BY <1>3, <3>1, <4>2
    <3> QED BY <2>7, <3>2, <3>3, <3>4 DEF RenameBack, FailsOn
  <2>8. CASE Dies(s)
    <3>1. Exits(s, "died") /\ link' = link
      BY <2>8 DEF Dies
    <3>2. Left("died", before[s], new[s])
      BY <3>1 DEF Stage
    <3> QED BY <1>3, <3>1, <3>2
  <2> QED BY <1>5, <2>4, <2>5, <2>6, <2>7, <2>8
<1> QED BY <1>1, <1>4, <1>5 DEF Next

-----------------------------------------------------------------------------
LEMMA Invariance == Spec => []IInv
<1>1. IInv /\ [Next]_vars => IInv'
  <2> SUFFICES ASSUME IInv, [Next]_vars PROVE IInv'
    OBVIOUS
  <2>1. TypeOK'
    BY TypesHold DEF IInv
  <2> QED
    BY <2>1, LoneHolds, StagesHold, EndsHold, ToldHolds DEF IInv
<1> QED BY <1>1, InitHolds, PTL DEF Spec

\* Every variable of the switch keeps its type.
THEOREM TypeCorrect == Spec => []TypeOK
<1>1. IInv => TypeOK
  BY DEF IInv
<1> QED BY <1>1, Invariance, PTL

\* One at a time, lksyschdir switches or leaves current as it was.
THEOREM SwitchesOrNot == Spec => []SwitchedOrNot
<1>1. IInv => SwitchedOrNot
  BY DEF IInv, Ends, SwitchedOrNot
<1> QED BY <1>1, Invariance, PTL

\* One at a time, it does not lose the set that was current, at any step.
THEOREM SetIsStillNamed == Spec => []StillNamed
<1>1. IInv => StillNamed
  <2> SUFFICES ASSUME IInv, alone
               PROVE  LET there == {link["current"], link["previous"]}
                      IN  /\ AllIdle => last.before \in there
                          /\ \A s \in Switcher : ~Idle(s) => before[s] \in there
    BY DEF StillNamed
  <2>1. AllIdle => last.before \in {link["current"], link["previous"]}
    BY DEF IInv, Ends
  <2>2. ASSUME NEW s \in Switcher, ~Idle(s)
        PROVE  before[s] \in {link["current"], link["previous"]}
    BY <2>2 DEF IInv, TypeOK, Stages, Stage, Idle
  <2> QED BY <2>1, <2>2
<1> QED BY <1>1, Invariance, PTL

\* A switch cut in two is repaired by no later one.
THEOREM NothingRepairs == Spec => []NoRepair
<1>1. IInv => NoRepair
  BY DEF IInv, Ends, NoRepair
<1> QED BY <1>1, Invariance, PTL

\* Whatever overlaps, a lost current has been told.
THEOREM LossIsAlwaysTold == Spec => []LossIsTold
<1>1. IInv => LossIsTold
  BY DEF IInv, Told, LossIsTold, AllIdle, Idle
<1> QED BY <1>1, Invariance, PTL
=============================================================================
