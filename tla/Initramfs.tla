----------------------------- MODULE Initramfs -----------------------------
(***************************************************************************)
(* The initramfs's init (example-initramfs.rs): PID 1 mounts the pseudo    *)
(* filesystems and the real root, moves the former into the latter and     *)
(* becomes the init it finds there.  Whatever fails ends in an emergency   *)
(* shell, and the end of the shell in another attempt or a reboot.         *)
(*                                                                         *)
(* Every system call may fail.  The user of the shell may mount the real   *)
(* root, bring an init into it, both, or do nothing.                       *)
(***************************************************************************)
EXTENDS Naturals, Sequences

CONSTANTS
    MaxTries  \* the attempts to mount the root (15), or to find the ISO (20)

ASSUME InitramfsAssumption == MaxTries \in Nat \ {0}

VARIABLES
    pc,       \* place in the program; "init" when it has become the real one
    iso,      \* LKSYSTEM_INIT_ISO
    tries,
    at,       \* each pseudo filesystem: at "nowhere", under "/" or "/new_root"
    real,     \* number of mounts on /new_root
    inside,   \* chroot() to the real root has been done
    hasInit,  \* the real root has an init program
    resumed,  \* in try_resume_boot()
    offered   \* history: emergency_shell() has been called

found == <<iso, hasInit>>
mounts == <<at, real>>
vars == <<pc, iso, tries, at, real, inside, hasInit, resumed, offered>>

\* In the order in which they are moved.
Dirs == <<"dev", "proc", "sys", "run">>
Virtual == {"dev", "proc", "sys", "run"}

\* An error that run() passes on, or try_resume_boot() meets.
Failed == pc' = IF resumed THEN "reboot" ELSE "shell"

-----------------------------------------------------------------------------
(* run() *)

\* Those that cannot be mounted are left out.
MountPseudo ==
    /\ pc = "pseudo"
    /\ pc' = IF iso THEN "iso" ELSE "root"
    /\ \E S \in SUBSET Virtual :
          at' = [d \in Virtual |-> IF d \in S THEN "/" ELSE "nowhere"]
    /\ UNCHANGED <<found, tries, real, inside, resumed, offered>>

\* Without /proc there is no root= parameter.
NoRootKnown ==
    /\ pc = "root"
    /\ tries = 0
    /\ Failed
    /\ UNCHANGED <<found, tries, mounts, inside, resumed, offered>>

\* The device is not there, or no filesystem type fits.
Fruitless ==
    /\ tries < MaxTries
    /\ tries' = tries + 1
    /\ IF tries' = MaxTries THEN Failed ELSE pc' = pc
    /\ UNCHANGED <<found, mounts, inside, resumed, offered>>

\* Mutants: the attempts go on after a success, or for good.
MountRootOn ==
    /\ pc = "root"
    /\ at["proc"] = "/"
    /\ \/ /\ real' = real + 1
          /\ tries' = tries + 1
          /\ pc' = IF tries' >= MaxTries THEN "move" ELSE "root"
          /\ UNCHANGED <<found, at, inside, resumed, offered>>
       \/ Fruitless

MountRootForever ==
    /\ pc = "root"
    /\ at["proc"] = "/"
    /\ \/ /\ real' = real + 1
          /\ pc' = "move"
          /\ UNCHANGED <<found, tries, at, inside, resumed, offered>>
       \/ /\ tries' = 1 - tries
          /\ UNCHANGED <<pc, found, mounts, inside, resumed, offered>>

MountRoot ==
    /\ pc = "root"
    /\ at["proc"] = "/"
    /\ \/ /\ real' = real + 1
          /\ pc' = "move"
          /\ UNCHANGED <<found, tries, at, inside, resumed, offered>>
       \/ Fruitless

FindIso ==
    /\ pc = "iso"
    /\ \/ /\ pc' = "overlay"
          /\ UNCHANGED <<found, tries, mounts, inside, resumed, offered>>
       \/ Fruitless

\* The squashfs, the tmpfs and the overlay; the first two alone are no root.
MountOverlay ==
    /\ pc = "overlay"
    /\ \/ /\ real' = real + 1
          /\ pc' = "move"
       \/ /\ Failed
          /\ UNCHANGED real
    /\ UNCHANGED <<found, tries, at, inside, resumed, offered>>

MoveTo(S) == at' = [d \in Virtual |-> IF d \in S THEN "/new_root" ELSE at[d]]

\* Mutant: a filesystem that cannot be moved is skipped.
MoveVirtualSome ==
    /\ pc = "move"
    /\ \E S \in SUBSET {d \in Virtual : at[d] = "/"} : MoveTo(S)
    /\ pc' = "find"
    /\ UNCHANGED <<found, tries, real, inside, resumed, offered>>

\* The first of Dirs that cannot be moved is an error, and what is not
\* mounted cannot be moved.
MoveVirtual ==
    /\ pc = "move"
    /\ \E n \in 0..Len(Dirs) :
          LET Moved == {Dirs[i] : i \in 1..n}
          IN  /\ \A d \in Moved : at[d] = "/"
              /\ MoveTo(Moved)
              /\ IF n = Len(Dirs) THEN pc' = "find" ELSE Failed
    /\ UNCHANGED <<found, tries, real, inside, resumed, offered>>

\* Mutant: no init is an error that nobody is told of.
FindInitReboots ==
    /\ pc = "find"
    /\ pc' = IF real > 0 /\ hasInit THEN "switch" ELSE "reboot"
    /\ UNCHANGED <<found, tries, mounts, inside, resumed, offered>>

FindInit ==
    /\ pc = "find"
    /\ IF real > 0 /\ hasInit THEN pc' = "switch" ELSE Failed
    /\ UNCHANGED <<found, tries, mounts, inside, resumed, offered>>

\* Mutant: a chroot() that fails is skipped.
SwitchRootAnyway ==
    /\ pc = "switch"
    /\ \/ inside' = (real > 0)
       \/ UNCHANGED inside
    /\ pc' = "exec"
    /\ \E moved \in BOOLEAN : real' = IF moved THEN 0 ELSE real
    /\ UNCHANGED <<found, tries, at, resumed, offered>>

\* The move of the root onto / may fail; the changes of directory and root
\* may not.
SwitchRoot ==
    /\ pc = "switch"
    /\ \/ /\ inside' = (real > 0)
          /\ pc' = "exec"
       \/ /\ Failed
          /\ inside' \in {inside, real > 0}
    /\ \E moved \in BOOLEAN : real' = IF moved THEN 0 ELSE real
    /\ UNCHANGED <<found, tries, at, resumed, offered>>

\* If execv() fails a shell of the real root is started.
Exec ==
    /\ pc = "exec"
    /\ pc' \in {"init", "shell"}
    /\ UNCHANGED <<found, tries, mounts, inside, resumed, offered>>

-----------------------------------------------------------------------------
(* The emergency shell *)

\* None of the shells is there, or can be started.
NoShell ==
    /\ pc = "shell"
    /\ pc' = "reboot"
    /\ offered' = TRUE
    /\ UNCHANGED <<found, tries, mounts, inside, resumed>>

Shell ==
    /\ pc = "shell"
    /\ pc' = "exit"
    /\ offered' = TRUE
    /\ \/ UNCHANGED <<real, hasInit>>
       \/ real' = 1 /\ real = 0 /\ ~inside /\ UNCHANGED hasInit
       \/ hasInit' = TRUE /\ UNCHANGED real
       \/ hasInit' = TRUE /\ real' = 1 /\ real = 0 /\ ~inside
    /\ UNCHANGED <<iso, tries, at, inside, resumed>>

\* /proc/self/mountinfo can be read.
ProcSeen == at["proc"] = IF inside THEN "/new_root" ELSE "/"

\* is_mount_point("/new_root"), as the present root shows it.
NewRootIsMounted == ProcSeen /\ real > 0 /\ ~inside

\* What cannot be moved is left where it is.
TryResume ==
    /\ pc = "exit"
    /\ IF NewRootIsMounted
       THEN /\ pc' = "find"
            /\ resumed' = TRUE
            /\ \E S \in SUBSET {d \in Virtual : at[d] = "/"} : MoveTo(S)
       ELSE /\ pc' = "reboot"
            /\ UNCHANGED <<resumed, at>>
    /\ UNCHANGED <<found, tries, real, inside, offered>>

\* The kernel restarts, or no reboot program has an effect.
Reboot ==
    /\ pc = "reboot"
    /\ pc' \in {"restarted", "halted"}
    /\ UNCHANGED <<found, tries, mounts, inside, resumed, offered>>

-----------------------------------------------------------------------------
Init ==
    /\ pc = "pseudo"
    /\ iso \in BOOLEAN
    /\ tries = 0
    /\ at = [d \in Virtual |-> "nowhere"]
    /\ real = 0
    /\ inside = FALSE
    /\ hasInit \in BOOLEAN
    /\ resumed = FALSE
    /\ offered = FALSE

Next ==
    \/ MountPseudo \/ NoRootKnown \/ MountRoot \/ FindIso \/ MountOverlay
    \/ MoveVirtual \/ FindInit \/ SwitchRoot \/ Exec
    \/ NoShell \/ Shell \/ TryResume \/ Reboot

Spec == Init /\ [][Next]_vars

\* The program goes on, and the user leaves the shell.
FairSpec == Spec /\ WF_vars(Next)

TypeOK ==
    /\ pc \in {"pseudo", "root", "iso", "overlay", "move", "find", "switch",
               "exec", "init", "shell", "exit", "reboot", "restarted", "halted"}
    /\ iso \in BOOLEAN
    /\ tries \in 0..MaxTries
    /\ at \in [Virtual -> {"nowhere", "/", "/new_root"}]
    /\ real \in 0..1
    /\ inside \in BOOLEAN
    /\ hasInit \in BOOLEAN
    /\ resumed \in BOOLEAN
    /\ offered \in BOOLEAN

-----------------------------------------------------------------------------
(* Properties *)

\* The real init gets the real root, and never the initramfs's own.
InitInside == pc = "init" => inside /\ hasInit

\* An init that was reached without the shell finds every pseudo filesystem in
\* its place, although those that could not be mounted were passed over.
VirtualsFollow ==
    (pc = "init" /\ ~resumed) => \A d \in Virtual : at[d] = "/new_root"

\* No reboot without the emergency shell having been tried, whatever fails.
ShellFirst == pc \in {"reboot", "restarted", "halted"} => offered

\* The boot comes to an end: no failure, repair and new attempt follow each
\* other for good.
BootEnds == <>(pc \in {"init", "restarted", "halted"})
=============================================================================
