-------------------------- MODULE Initramfs_proofs -------------------------
(***************************************************************************)
(* What the initramfs hands over, for any number of attempts to mount.     *)
(*                                                                         *)
(* IInv says what each step of the boot may rely on from those before it:  *)
(* the root is there from the moves on, and every pseudo filesystem is in  *)
(* it afterwards unless the boot was resumed, which only the shell does.   *)
(***************************************************************************)
EXTENDS Initramfs, TLAPS

\* Nothing is on /new_root before the root is mounted.
RootAbsent == pc \in {"pseudo", "root", "iso", "overlay"} => real = 0

\* From the search for an init on, something is there to be switched to.
RootPresent ==
    /\ pc \in {"switch", "exec", "init"} => hasInit
    /\ pc = "switch" => real > 0
    /\ pc \in {"exec", "init"} => inside

Moved ==
    pc \in {"find", "switch", "exec", "init"} /\ ~resumed
        => \A d \in Virtual : at[d] = "/new_root"

Offered ==
    pc \in {"exit", "reboot", "restarted", "halted"} \/ resumed => offered

IInv == TypeOK /\ RootAbsent /\ RootPresent /\ Moved /\ Offered

-----------------------------------------------------------------------------
\* The whole of Dirs is all there is to be moved.
LEMMA AllDirs == Len(Dirs) = 4 /\ {Dirs[i] : i \in 1..4} = Virtual
<1>1. Len(Dirs) = 4
  BY DEF Dirs
<1>2. Dirs[1] = "dev" /\ Dirs[2] = "proc" /\ Dirs[3] = "sys" /\ Dirs[4] = "run"
  BY DEF Dirs
<1>3. 1..4 = {1, 2, 3, 4}
  OBVIOUS
<1>4. {Dirs[i] : i \in {1, 2, 3, 4}} = {Dirs[1], Dirs[2], Dirs[3], Dirs[4]}
  OBVIOUS
<1> QED BY <1>1, <1>2, <1>3, <1>4 DEF Virtual

\* The boot begins with nothing mounted.
LEMMA InitHolds == Init => IInv
<1> SUFFICES ASSUME Init PROVE IInv
  OBVIOUS
<1>1. TypeOK
  <2>1. 0 \in 0..MaxTries /\ 0 \in 0..1
    BY InitramfsAssumption
  <2> QED BY <2>1 DEF Init, TypeOK
<1>2. pc = "pseudo" /\ real = 0 /\ resumed = FALSE
  BY DEF Init
<1> QED
  BY <1>1, <1>2 DEF IInv, RootAbsent, RootPresent, Moved, Offered

\* Every step of the boot, and of the shell, leaves the next what it needs.
LEMMA StepHolds == IInv /\ [Next]_vars => IInv'
<1> SUFFICES ASSUME IInv, [Next]_vars PROVE IInv'
  OBVIOUS
<1> USE InitramfsAssumption
<1> USE DEF IInv, TypeOK, RootAbsent, RootPresent, Moved, Offered, found, mounts, Failed
<1>1. CASE MountPseudo
  BY <1>1 DEF MountPseudo
<1>2. CASE NoRootKnown
  BY <1>2 DEF NoRootKnown
<1>3. CASE MountRoot
  BY <1>3 DEF MountRoot, Fruitless
<1>4. CASE FindIso
  BY <1>4 DEF FindIso, Fruitless
<1>5. CASE MountOverlay
  BY <1>5 DEF MountOverlay
<1>6. CASE MoveVirtual
  <2>1. PICK n \in 0..Len(Dirs) :
          LET S == {Dirs[i] : i \in 1..n}
          IN  /\ MoveTo(S)
              /\ IF n = Len(Dirs) THEN pc' = "find" ELSE Failed
    BY <1>6, Zenon DEF MoveVirtual
  <2>2. CASE n = Len(Dirs)
    <3>1. at' = [d \in Virtual |-> IF d \in Virtual THEN "/new_root" ELSE at[d]]
      BY <2>1, <2>2, AllDirs DEF MoveTo
    <3> QED BY <1>6, <2>1, <2>2, <3>1 DEF MoveVirtual
  <2>3. CASE n # Len(Dirs)
    BY <1>6, <2>1, <2>3 DEF MoveVirtual, MoveTo
  <2> QED BY <2>2, <2>3
<1>7. CASE FindInit
  BY <1>7 DEF FindInit
<1>8. CASE SwitchRoot
  <2>1. real > 0
    BY <1>8 DEF SwitchRoot
  <2>2. inside' \in BOOLEAN /\ (pc' = "exec" => inside' = TRUE)
    BY <1>8, <2>1 DEF SwitchRoot
  <2>3. real' \in 0..1
    BY <1>8 DEF SwitchRoot
  <2>4. /\ pc' \in {"exec", "shell", "reboot"}
        /\ pc' = "reboot" => resumed
        /\ UNCHANGED <<iso, hasInit, tries, at, resumed, offered>>
    BY <1>8 DEF SwitchRoot
  <2> QED
    BY <1>8, <2>2, <2>3, <2>4 DEF SwitchRoot
<1>9. CASE Exec
  BY <1>9 DEF Exec
<1>10. CASE NoShell
  BY <1>10 DEF NoShell
<1>11. CASE Shell
  <2>1. real' = real \/ real' = 1
    BY <1>11, Zenon DEF Shell
  <2>2. hasInit' = hasInit \/ hasInit' = TRUE
    BY <1>11, Zenon DEF Shell
  <2>3. /\ pc' = "exit" /\ offered' = TRUE
        /\ UNCHANGED <<iso, tries, at, inside, resumed>>
    BY <1>11 DEF Shell
  <2>4. hasInit' \in BOOLEAN
    BY <2>2, Zenon
  <2>5. real' \in 0..1
    BY <2>1
  <2> QED BY <2>3, <2>4, <2>5
<1>12. CASE TryResume
  BY <1>12 DEF TryResume, MoveTo
<1>13. CASE Reboot
  BY <1>13 DEF Reboot
<1>14. CASE UNCHANGED vars
  BY <1>14 DEF vars
<1> QED
  BY <1>1, <1>2, <1>3, <1>4, <1>5, <1>6, <1>7, <1>8, <1>9, <1>10, <1>11, <1>12,
     <1>13, <1>14 DEF Next

-----------------------------------------------------------------------------
\* What each step relies on holds throughout.
THEOREM Invariance == Spec => []IInv
<1> QED BY InitHolds, StepHolds, PTL DEF Spec

\* Every variable keeps its type; the root is mounted at most once.
THEOREM TypeCorrect == Spec => []TypeOK
<1>1. IInv => TypeOK
  BY DEF IInv
<1> QED BY Invariance, <1>1, PTL

\* The real init is started in the real root only.
THEOREM InitIsInside == Spec => []InitInside
<1>1. IInv => InitInside
  BY DEF IInv, RootPresent, InitInside
<1> QED BY Invariance, <1>1, PTL

\* An init that was reached without the shell finds every pseudo filesystem.
THEOREM VirtualsHaveFollowed == Spec => []VirtualsFollow
<1>1. IInv => VirtualsFollow
  BY DEF IInv, Moved, VirtualsFollow
<1> QED BY Invariance, <1>1, PTL

\* Whatever fails, the machine is not rebooted before the emergency shell.
THEOREM ShellIsFirst == Spec => []ShellFirst
<1>1. IInv => ShellFirst
  BY DEF IInv, Offered, ShellFirst
<1> QED BY Invariance, <1>1, PTL
=============================================================================
