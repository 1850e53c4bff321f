------------------------------- MODULE Chpst -------------------------------
(***************************************************************************)
(* chpst (src/bin/chpst.rs): changes its own process state as its options  *)
(* ask and executes a program, so that run scripts can drop privileges,    *)
(* chroot, take a lock and so on.                                          *)
(*                                                                         *)
(* main() is a straight line of steps, each of which ends the process when *)
(* it fails.  What makes it hard is the order: what a step may do depends  *)
(* on the rights and on the root the steps before it left.  Several chpst  *)
(* run beside each other and meet at the lock file, which the program      *)
(* keeps locked after exec and may leave to children of its own.           *)
(*                                                                         *)
(* An id (of a user, a group, a list of groups, or the value of $UID) is a *)
(* pair: where it comes from, and the root whose database was asked.       *)
(***************************************************************************)
EXTENDS Integers, Sequences

CONSTANTS
    Process,     \* processes that execute chpst, all started by root
    NoProcess,
    Root,        \* directories given to -/
    Host,        \* the root directory without -/
    Requests,    \* the option lists each process may be given
    HardLimit    \* the resource limit chpst is started with

Roots == Root \cup {Host}

\* Options, as parse_args() leaves them: of several -u and -U, or -l and -L,
\* the last one counts.  The user "super" is an account with uid 0; one
\* resource stands for the eight of -m, -d, -s, -o, -p, -f, -c and -t.
Request ==
    [lock : {"no", "wait", "try"}, root : Roots, envdir : BOOLEAN,
     user : {"no", "env", "named", "numeric", "super"}, groups : BOOLEAN,
     nice : Int, limits : Seq(Nat), session : BOOLEAN, stdio : BOOLEAN]

ASSUME ChpstAssumption ==
    /\ NoProcess \notin Process
    /\ Host \notin Root
    /\ HardLimit \in Nat
    /\ \A p \in Process : Requests[p] \subseteq Request

VARIABLES
    want,    \* the options of each process
    proc,    \* its state: where it is in main(), and what has been changed
    holder   \* for the lock file seen from a root, whose descriptor locks it

vars == <<want, proc, holder>>

-----------------------------------------------------------------------------
(* Ids *)

Super == <<"super", Host>>
Inherited == <<"inherited", Host>>
Nobody == <<"nobody", Host>>

Ids == {"super", "inherited", "nobody", "account", "number", "given", "dir"}
           \X Roots

\* The uid of -u and -U: looked up by name in the root of the moment, or
\* taken as it is.
Account(w, r) ==
    IF w.user = "super" THEN Super
    ELSE IF w.user = "numeric" THEN <<"number", Host>> ELSE <<"account", r>>

\* The gid: the first of the groups given, or the account's own.
Gid(w, r) == IF w.groups THEN <<"given", r>> ELSE Account(w, r)

\* The supplementary groups: those given, those of the account's name
\* (initgroups), or none for a bare number.
Groups(w, r) ==
    IF w.groups THEN <<"given", r>>
    ELSE IF w.user = "numeric" THEN Nobody ELSE Account(w, r)

Switches(w) == w.user \notin {"no", "env"}

-----------------------------------------------------------------------------
(* The order of main(), with apply_privileges() taken apart *)

\* Mutants: two ways to get the order wrong.
AfterUidFirst ==
    [open |-> "flock", flock |-> "root", root |-> "envdir", envdir |-> "lookup",
     lookup |-> "uid", uid |-> "groups", groups |-> "gid", gid |-> "nice",
     nice |-> "limits", limits |-> "session", session |-> "stdio",
     stdio |-> "exec", exec |-> "runs"]
AfterLateEnvdir ==
    [open |-> "flock", flock |-> "root", root |-> "lookup", lookup |-> "groups",
     groups |-> "gid", gid |-> "uid", uid |-> "envdir", envdir |-> "nice",
     nice |-> "limits", limits |-> "session", session |-> "stdio",
     stdio |-> "exec", exec |-> "runs"]

After ==
    [open |-> "flock", flock |-> "root", root |-> "envdir", envdir |-> "lookup",
     lookup |-> "groups", groups |-> "gid", gid |-> "uid", uid |-> "nice",
     nice |-> "limits", limits |-> "session", session |-> "stdio",
     stdio |-> "exec", exec |-> "runs"]

Steps == DOMAIN After

\* The steps that do something for these options, and may fail at it.
\* The redirections are left out: their errors are dropped.
Asked(w) ==
    {s \in Steps :
        \/ s = "exec"
        \/ s = "open" /\ w.lock # "no"
        \/ s = "root" /\ w.root # Host
        \/ s = "envdir" /\ w.envdir
        \/ s = "lookup" /\ w.user # "no"
        \/ s \in {"groups", "gid", "uid"} /\ Switches(w)
        \/ s = "nice" /\ w.nice # 0
        \/ s = "limits" /\ w.limits # <<>>
        \/ s = "session" /\ w.session}

At(p, s) == proc[p].at = s
HasRoot(p) == proc[p].uid = Super

\* p has done its step, its state is q, and it goes on to the next.
Goes(p, q) == proc' = [proc EXCEPT ![p] = [q EXCEPT !.at = After[proc[p].at]]]

Skips(p, s) == At(p, s) /\ s \notin Asked(want[p]) /\ Goes(p, proc[p])

\* The descriptors of p are closed.
Unlock(p) ==
    holder' = [r \in Roots |-> IF holder[r] = p THEN NoProcess ELSE holder[r]]

\* die(), or the step's error: exit 111.
Dies(p) ==
    /\ proc' = [proc EXCEPT ![p] = [@ EXCEPT !.at = "died"]]
    /\ Unlock(p)
    /\ UNCHANGED want

Fails(p) == \E s \in Asked(want[p]) : At(p, s) /\ Dies(p)

-----------------------------------------------------------------------------
(* The steps *)

OpenLock(p) ==
    /\ At(p, "open")
    /\ Goes(p, proc[p])
    /\ UNCHANGED <<want, holder>>

\* flock(LOCK_EX) on the file that the path names in the present root.  With
\* -l it waits as long as somebody else holds it.
Flock(p) ==
    /\ At(p, "flock")
    /\ Goes(p, proc[p])
    /\ IF want[p].lock = "no" THEN UNCHANGED holder
       ELSE /\ holder[proc[p].root] = NoProcess
            /\ holder' = [holder EXCEPT ![proc[p].root] = p]
    /\ UNCHANGED want

\* Mutant: without LOCK_NB, -L waits as -l does.
FlockRefusedNever(p) == FALSE

\* With -L (LOCK_NB) a lock that is held is an error.
FlockRefused(p) ==
    /\ At(p, "flock")
    /\ want[p].lock = "try"
    /\ holder[proc[p].root] # NoProcess
    /\ Dies(p)

ApplyRoot(p) ==
    /\ At(p, "root")
    /\ want[p].root # Host => HasRoot(p)
    /\ Goes(p, [proc[p] EXCEPT !.root = want[p].root])
    /\ UNCHANGED <<want, holder>>

\* The directory is found in the new root; it has a file UID here, or the
\* question which of -e and -U wins would not arise.
ApplyEnvdir(p) ==
    /\ \/ Skips(p, "envdir")
       \/ /\ At(p, "envdir")
          /\ want[p].envdir
          /\ Goes(p, [proc[p] EXCEPT !.env = <<"dir", proc[p].root>>])
    /\ UNCHANGED <<want, holder>>

\* apply_privileges() up to its first system call: user and groups are looked
\* up, -U sets UID and GID, and is done.
Lookup(p) ==
    /\ At(p, "lookup")
    /\ Goes(p, IF want[p].user # "env" THEN proc[p]
               ELSE [proc[p] EXCEPT !.env = Account(want[p], proc[p].root)])
    /\ UNCHANGED <<want, holder>>

SetGroups(p) ==
    /\ \/ Skips(p, "groups")
       \/ /\ At(p, "groups")
          /\ Switches(want[p]) /\ HasRoot(p)
          /\ Goes(p, [proc[p] EXCEPT !.groups = Groups(want[p], proc[p].root)])
    /\ UNCHANGED <<want, holder>>

SetGid(p) ==
    /\ \/ Skips(p, "gid")
       \/ /\ At(p, "gid")
          /\ Switches(want[p]) /\ HasRoot(p)
          /\ Goes(p, [proc[p] EXCEPT !.gid = Gid(want[p], proc[p].root)])
    /\ UNCHANGED <<want, holder>>

SetUid(p) ==
    /\ \/ Skips(p, "uid")
       \/ /\ At(p, "uid")
          /\ Switches(want[p]) /\ HasRoot(p)
          /\ Goes(p, [proc[p] EXCEPT !.uid = Account(want[p], proc[p].root)])
    /\ UNCHANGED <<want, holder>>

\* nice(2): only root may lower the value.
ApplyNice(p) ==
    /\ At(p, "nice")
    /\ want[p].nice < 0 => HasRoot(p)
    /\ Goes(p, [proc[p] EXCEPT !.nice = @ + want[p].nice])
    /\ UNCHANGED <<want, holder>>

LimitAfter(w) ==
    IF w.limits = <<>> THEN HardLimit ELSE w.limits[Len(w.limits)]

\* setrlimit(2) for each value in turn, soft and hard: only root may raise
\* what an earlier one has set.
ApplyLimits(p) ==
    LET values == <<HardLimit>> \o want[p].limits
    IN  /\ At(p, "limits")
        /\ \/ HasRoot(p)
           \/ \A i \in 1..Len(want[p].limits) : values[i + 1] <= values[i]
        /\ Goes(p, [proc[p] EXCEPT !.limit = LimitAfter(want[p])])
        /\ UNCHANGED <<want, holder>>

ApplySession(p) ==
    /\ At(p, "session")
    /\ Goes(p, [proc[p] EXCEPT !.leader = want[p].session])
    /\ UNCHANGED <<want, holder>>

\* -0, -1 and -2: without a /dev/null in the root the descriptors stay as
\* they are, and main() goes on.
Redirect(p) ==
    /\ At(p, "stdio")
    /\ \E opened \in BOOLEAN :
          Goes(p, [proc[p] EXCEPT !.null = want[p].stdio /\ opened])
    /\ UNCHANGED <<want, holder>>

\* Mutant: the descriptor of the lock is closed on exec.
ExecClosing(p) == At(p, "exec") /\ Goes(p, proc[p]) /\ Unlock(p) /\ UNCHANGED want

\* The descriptor of the lock is inherited: FD_CLOEXEC has been cleared.
Exec(p) ==
    /\ At(p, "exec")
    /\ Goes(p, proc[p])
    /\ UNCHANGED <<want, holder>>

\* The program ends; children it leaves behind keep its descriptors open.
ProgramEnds(p) ==
    /\ \/ /\ At(p, "runs")
          /\ proc' = [proc EXCEPT ![p] = [@ EXCEPT !.at = "left"]]
          /\ UNCHANGED holder
       \/ /\ At(p, "runs") \/ At(p, "left")
          /\ proc' = [proc EXCEPT ![p] = [@ EXCEPT !.at = "ended"]]
          /\ Unlock(p)
    /\ UNCHANGED want

-----------------------------------------------------------------------------
Started ==
    [at |-> "open", root |-> Host, env |-> Inherited, uid |-> Super,
     gid |-> Super, groups |-> Inherited, nice |-> 0, limit |-> HardLimit,
     leader |-> FALSE, null |-> FALSE]

Init ==
    /\ want \in [Process -> UNION {Requests[p] : p \in Process}]
    /\ \A p \in Process : want[p] \in Requests[p]
    /\ proc = [p \in Process |-> Started]
    /\ holder = [r \in Roots |-> NoProcess]

Main(p) ==
    \/ OpenLock(p) \/ Flock(p) \/ FlockRefused(p) \/ ApplyRoot(p)
    \/ ApplyEnvdir(p) \/ Lookup(p) \/ SetGroups(p) \/ SetGid(p) \/ SetUid(p)
    \/ ApplyNice(p) \/ ApplyLimits(p) \/ ApplySession(p) \/ Redirect(p)
    \/ Exec(p) \/ Fails(p)

Next == \E p \in Process : Main(p) \/ ProgramEnds(p)

\* A process that can go on does; programs may run for ever.
Fairness == \A p \in Process : WF_vars(Main(p))

Spec == Init /\ [][Next]_vars
FairSpec == Spec /\ Fairness

-----------------------------------------------------------------------------
State ==
    [at : Steps \cup {"runs", "left", "ended", "died"}, root : Roots, env : Ids,
     uid : Ids, gid : Ids, groups : Ids, nice : Int, limit : Nat,
     leader : BOOLEAN, null : BOOLEAN]

TypeOK ==
    /\ want \in [Process -> Request]
    /\ proc \in [Process -> State]
    /\ holder \in [Roots -> Process \cup {NoProcess}]

Executes(p) == proc[p].at \in {"runs", "left"}

\* All or nothing: a program executes only when everything asked for has been
\* done to it, in the terms of the new root, and nothing that was not asked
\* for; -U has the last word over -e.  The redirections are excepted.
AsRequested ==
    \A p \in Process : Executes(p) =>
        LET w == want[p]
            q == proc[p]
            switched == Switches(w)
        IN  /\ q.root = w.root
            /\ q.uid = IF switched THEN Account(w, w.root) ELSE Super
            /\ q.gid = IF switched THEN Gid(w, w.root) ELSE Super
            /\ q.groups = IF switched THEN Groups(w, w.root) ELSE Inherited
            /\ q.env = IF w.user = "env" THEN <<"account", w.root>>
                       ELSE IF w.envdir THEN <<"dir", w.root>> ELSE Inherited
            /\ q.nice = w.nice
            /\ q.limit = LimitAfter(w)
            /\ q.leader = w.session
            /\ w.lock # "no" => holder[Host] = p

\* Not for a moment is there a process that has given up uid 0 and still has
\* a group of root's.
GroupsFirst ==
    \A p \in Process : ~HasRoot(p) =>
        proc[p].gid # Super /\ proc[p].groups # Inherited

\* "flock-based locking held across exec": two programs started under the same
\* lock file never execute at the same time, whatever roots they are given,
\* and neither do the children they leave behind.
OneAtATime ==
    \A p, q \in Process :
        (/\ Executes(p) /\ want[p].lock # "no"
         /\ Executes(q) /\ want[q].lock # "no") => p = q

\* Without -l, chpst comes to an end, whoever holds the lock: the program
\* executes, or it exits with an error.
NeverBlocks ==
    \A p \in Process : want[p].lock # "wait" ~>
        proc[p].at \in {"runs", "left", "ended", "died"}
=============================================================================
