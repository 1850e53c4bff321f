---------------------------- MODULE Chpst_proofs ----------------------------
(***************************************************************************)
(* What chpst hands over to the program, for any number of processes, any  *)
(* options and any roots.                                                  *)
(*                                                                         *)
(* Course says what has been done to a process at each place in main(),    *)
(* Handed that the lock is its own from the second step on.                *)
(***************************************************************************)
EXTENDS Chpst, TLAPS

\* The places after a step.
PastLock == {"root", "envdir", "lookup", "groups", "gid", "uid", "nice",
             "limits", "session", "stdio", "exec", "runs", "left"}
PastRoot == PastLock \ {"root"}
PastEnvdir == PastRoot \ {"envdir"}
PastLookup == PastEnvdir \ {"lookup"}
PastGroups == PastLookup \ {"groups"}
PastGid == PastGroups \ {"gid"}
PastUid == PastGid \ {"uid"}
PastNice == PastUid \ {"nice"}
PastLimits == PastNice \ {"limits"}
PastSession == PastLimits \ {"session"}

EnvAt(w, at) ==
    IF at \in PastLookup /\ w.user = "env" THEN <<"account", w.root>>
    ELSE IF at \in PastEnvdir /\ w.envdir THEN <<"dir", w.root>> ELSE Inherited

Course(w, q) == q.at \notin {"ended", "died"} =>
    /\ q.root = IF q.at \in PastRoot THEN w.root ELSE Host
    /\ q.env = EnvAt(w, q.at)
    /\ q.groups = IF q.at \in PastGroups /\ Switches(w) THEN Groups(w, w.root)
                  ELSE Inherited
    /\ q.gid = IF q.at \in PastGid /\ Switches(w) THEN Gid(w, w.root) ELSE Super
    /\ q.uid = IF q.at \in PastUid /\ Switches(w) THEN Account(w, w.root) ELSE Super
    /\ q.nice = IF q.at \in PastNice THEN w.nice ELSE 0
    /\ q.limit = IF q.at \in PastLimits THEN LimitAfter(w) ELSE HardLimit
    /\ q.at \in PastSession => q.leader = w.session

Handed == \A p \in Process :
    (proc[p].at \in PastLock /\ want[p].lock # "no") => holder[Host] = p

IInv ==
    /\ TypeOK
    /\ \A p \in Process : Course(want[p], proc[p])
    /\ Handed
    /\ GroupsFirst

-----------------------------------------------------------------------------
\* What is looked up is an id.
LEMMA IdsAre ==
    ASSUME NEW w \in Request, NEW r \in Roots
    PROVE  /\ Account(w, r) \in Ids /\ Gid(w, r) \in Ids /\ Groups(w, r) \in Ids
           /\ Super \in Ids /\ Inherited \in Ids /\ Nobody \in Ids
           /\ <<"dir", r>> \in Ids
  BY DEF Ids, Account, Gid, Groups, Super, Inherited, Nobody, Roots

\* No id that is switched to is left of root, unless it is the superuser's.
LEMMA IdsDiffer ==
    ASSUME NEW w, NEW r, Switches(w)
    PROVE  /\ Groups(w, r) # Inherited
           /\ Account(w, r) # Super => Gid(w, r) # Super
  BY DEF Account, Gid, Groups, Super, Inherited, Nobody

\* The last limit asked for is a limit.
LEMMA LimitIs == ASSUME NEW w \in Request PROVE LimitAfter(w) \in Nat
<1>1. w.limits \in Seq(Nat)
  BY DEF Request
<1>2. CASE w.limits = <<>>
  BY <1>2, ChpstAssumption DEF LimitAfter
<1>3. CASE w.limits # <<>>
  <2>1. Len(w.limits) \in 1..Len(w.limits)
    BY <1>1, <1>3
  <2> QED BY <1>1, <1>3, <2>1 DEF LimitAfter
<1> QED BY <1>2, <1>3

\* Every place but the last has one after it.
LEMMA AfterIs ==
    /\ Steps = {"open", "flock", "root", "envdir", "lookup", "groups", "gid",
                "uid", "nice", "limits", "session", "stdio", "exec"}
    /\ \A s \in Steps : After[s] \in Steps \cup {"runs"}
  BY DEF Steps, After

\* A step changes the fields it names, and the place.
LEMMA GoesIs ==
    ASSUME TypeOK, NEW p \in Process, NEW q \in State, Goes(p, q),
           proc[p].at \in Steps
    PROVE  /\ proc' \in [Process -> State]
           /\ proc'[p].at = After[proc[p].at]
           /\ proc'[p].root = q.root /\ proc'[p].env = q.env
           /\ proc'[p].uid = q.uid /\ proc'[p].gid = q.gid
           /\ proc'[p].groups = q.groups /\ proc'[p].nice = q.nice
           /\ proc'[p].limit = q.limit /\ proc'[p].leader = q.leader
           /\ \A o \in Process \ {p} : proc'[o] = proc[o]
<1> DEFINE r == [q EXCEPT !.at = After[proc[p].at]]
<1>1. After[proc[p].at] \in Steps \cup {"runs"}
  BY AfterIs
<1>2. /\ r \in State
      /\ r.at = After[proc[p].at] /\ r.root = q.root /\ r.env = q.env
      /\ r.uid = q.uid /\ r.gid = q.gid /\ r.groups = q.groups
      /\ r.nice = q.nice /\ r.limit = q.limit /\ r.leader = q.leader
  BY <1>1 DEF State
<1>3. proc' = [proc EXCEPT ![p] = r]
  BY DEF Goes
<1> HIDE DEF r
<1>4. proc'[p] = r /\ \A o \in Process \ {p} : proc'[o] = proc[o]
  BY <1>3 DEF TypeOK
<1> QED BY <1>2, <1>3, <1>4 DEF TypeOK

\* What each step has to do to keep to the course.
Moves(s, w, o, q) ==
    /\ o.at = s /\ q.at = After[s]
    /\ q.root = IF s = "root" THEN w.root ELSE o.root
    /\ q.env = IF s = "lookup" /\ w.user = "env" THEN <<"account", w.root>>
               ELSE IF s = "envdir" /\ w.envdir THEN <<"dir", w.root>> ELSE o.env
    /\ q.groups = IF s = "groups" /\ Switches(w) THEN Groups(w, w.root) ELSE o.groups
    /\ q.gid = IF s = "gid" /\ Switches(w) THEN Gid(w, w.root) ELSE o.gid
    /\ q.uid = IF s = "uid" /\ Switches(w) THEN Account(w, w.root) ELSE o.uid
    /\ q.nice = IF s = "nice" THEN o.nice + w.nice ELSE o.nice
    /\ q.limit = IF s = "limits" THEN LimitAfter(w) ELSE o.limit
    /\ s = "session" => q.leader = w.session
    /\ s # "session" => q.leader = o.leader

LEMMA KeepsCourse ==
    ASSUME NEW w \in Request, NEW o, NEW q, NEW s \in Steps, Moves(s, w, o, q),
           Course(w, o)
    PROVE  Course(w, q)
<1> USE AfterIs DEF After, PastLock, PastRoot, PastEnvdir, PastLookup, PastGroups,
    PastGid, PastUid, PastNice, PastLimits, PastSession
<1>1. /\ q.at \notin {"ended", "died"} /\ o.at \notin {"ended", "died"}
      /\ o.at = s /\ q.at = After[s]
  BY DEF Moves
<1>2. q.root = IF q.at \in PastRoot THEN w.root ELSE Host
  BY <1>1 DEF Course, Moves
<1>3. q.env = EnvAt(w, q.at)
  <2>1. o.env = EnvAt(w, s)
    BY <1>1 DEF Course
  <2>2. q.env = IF s = "lookup" /\ w.user = "env" THEN <<"account", w.root>>
               ELSE IF s = "envdir" /\ w.envdir THEN <<"dir", w.root>> ELSE o.env
    BY DEF Moves
  <2> QED BY <1>1, <2>1, <2>2 DEF EnvAt
<1>4. q.groups = IF q.at \in PastGroups /\ Switches(w) THEN Groups(w, w.root)
                 ELSE Inherited
  BY <1>1 DEF Course, Moves
<1>5. q.gid = IF q.at \in PastGid /\ Switches(w) THEN Gid(w, w.root) ELSE Super
  BY <1>1 DEF Course, Moves
<1>6. q.uid = IF q.at \in PastUid /\ Switches(w) THEN Account(w, w.root) ELSE Super
  BY <1>1 DEF Course, Moves
<1>7. q.nice = IF q.at \in PastNice THEN w.nice ELSE 0
  <2>1. w.nice \in Int
    BY DEF Request
  <2> QED BY <1>1, <2>1 DEF Course, Moves
<1>8. q.limit = IF q.at \in PastLimits THEN LimitAfter(w) ELSE HardLimit
  BY <1>1 DEF Course, Moves
<1>9. q.at \in PastSession => q.leader = w.session
  <2>1. CASE s = "session"
    BY <2>1 DEF Moves
  <2>2. CASE s # "session"
    BY <1>1, <2>2 DEF Course, Moves
  <2> QED BY <2>1, <2>2
<1> QED BY <1>2, <1>3, <1>4, <1>5, <1>6, <1>7, <1>8, <1>9 DEF Course

\* A step of one process keeps the invariant if it does for that process.
LEMMA OneMoves ==
    ASSUME IInv, NEW p \in Process, UNCHANGED want,
           proc' \in [Process -> State],
           holder' \in [Roots -> Process \cup {NoProcess}],
           \A o \in Process \ {p} : proc'[o] = proc[o],
           Course(want[p], proc'[p]),
           proc'[p].uid # Super => proc'[p].gid # Super /\ proc'[p].groups # Inherited,
           (proc'[p].at \in PastLock /\ want[p].lock # "no") => holder'[Host] = p,
           \A o \in Process \ {p} : holder[Host] = o => holder'[Host] = o
    PROVE  IInv'
<1>1. TypeOK'
  BY DEF IInv, TypeOK
<1>2. \A o \in Process : Course(want'[o], proc'[o])
  BY DEF IInv
<1>3. Handed'
  BY DEF IInv, Handed
<1>4. GroupsFirst'
  BY DEF IInv, GroupsFirst, HasRoot
<1> QED BY <1>1, <1>2, <1>3, <1>4 DEF IInv

\* Until it executes the program, a process has what Course says of its place.
LEMMA AtStep ==
    ASSUME IInv, NEW p \in Process, NEW s \in Steps, At(p, s)
    PROVE  /\ want[p] \in Request /\ proc[p] \in State /\ proc[p].at = s
           /\ Course(want[p], proc[p]) /\ want[p].root \in Roots
           /\ proc[p].at \in Steps
           /\ proc[p].uid # Super => proc[p].gid # Super /\ proc[p].groups # Inherited
           /\ (s \in PastLock /\ want[p].lock # "no") => holder[Host] = p
           /\ holder \in [Roots -> Process \cup {NoProcess}]
           /\ Host \in Roots
  BY DEF IInv, TypeOK, At, Request, GroupsFirst, HasRoot, Handed, Roots

\* A step that leaves the lock alone: what remains to be shown is the course.
LEMMA PlainStep ==
    ASSUME IInv, NEW p \in Process, NEW q \in State, Goes(p, q),
           proc[p].at \in Steps,
           UNCHANGED <<want, holder>>,
           proc[p].at \in PastLock \/ want[p].lock = "no" \/ proc[p].at = "open",
           Course(want[p], proc'[p]),
           q.uid # Super => q.gid # Super /\ q.groups # Inherited
    PROVE  IInv'
<1>1. /\ proc' \in [Process -> State]
      /\ \A o \in Process \ {p} : proc'[o] = proc[o]
      /\ proc'[p].at = After[proc[p].at]
      /\ proc'[p].uid = q.uid /\ proc'[p].gid = q.gid /\ proc'[p].groups = q.groups
  BY GoesIs DEF IInv
<1>2. holder' \in [Roots -> Process \cup {NoProcess}]
  BY DEF IInv, TypeOK
<1>3. (proc'[p].at \in PastLock /\ want[p].lock # "no") => holder'[Host] = p
  BY <1>1 DEF IInv, Handed, After, PastLock
<1> QED BY <1>1, <1>2, <1>3, OneMoves

\* A step that is skipped changes the place only.
LEMMA Skipped ==
    ASSUME IInv, NEW p \in Process,
           NEW s \in {"envdir", "groups", "gid", "uid"}, Skips(p, s),
           UNCHANGED <<want, holder>>
    PROVE  IInv'
<1>1. /\ s \in Steps /\ At(p, s) /\ Goes(p, proc[p])
      /\ (s = "envdir" => ~want[p].envdir) /\ (s # "envdir" => ~Switches(want[p]))
  BY AfterIs DEF Skips, Asked
<1>2. /\ proc'[p].at = After[s]
      /\ proc'[p].root = proc[p].root /\ proc'[p].env = proc[p].env
      /\ proc'[p].uid = proc[p].uid /\ proc'[p].gid = proc[p].gid
      /\ proc'[p].groups = proc[p].groups /\ proc'[p].nice = proc[p].nice
      /\ proc'[p].limit = proc[p].limit /\ proc'[p].leader = proc[p].leader
  BY <1>1, AtStep, GoesIs DEF IInv
<1>3. Course(want[p], proc[p]) /\ proc[p].at = s
  BY <1>1, AtStep
<1>4. Moves(s, want[p], proc[p], proc'[p])
  BY <1>1, <1>2, <1>3 DEF Moves
<1>5. Course(want[p], proc'[p])
  BY <1>1, <1>3, <1>4, AtStep, KeepsCourse
<1>6. s \in PastLock
  BY DEF PastLock
<1> QED BY <1>1, <1>3, <1>5, <1>6, AtStep, PlainStep

\* The steps that leave the lock as it is.
LEMMA PlainSteps ==
    ASSUME IInv, NEW p \in Process,
           \/ OpenLock(p) \/ ApplyRoot(p) \/ ApplyEnvdir(p) \/ Lookup(p)
           \/ SetGroups(p) \/ SetGid(p) \/ SetUid(p) \/ ApplyNice(p)
           \/ ApplyLimits(p) \/ ApplySession(p) \/ Redirect(p) \/ Exec(p)
    PROVE  IInv'
<1> DEFINE w == want[p]
           o == proc[p]
<1>1. UNCHANGED <<want, holder>>
  BY DEF OpenLock, ApplyRoot, ApplyEnvdir, Lookup, SetGroups, SetGid, SetUid,
     ApplyNice, ApplyLimits, ApplySession, Redirect, Exec
<1>2. w \in Request /\ o \in State /\ w.root \in Roots
  BY DEF IInv, TypeOK, Request
<1>3. ASSUME NEW s \in Steps \ {"flock"}, At(p, s), NEW q \in State, Goes(p, q),
             Moves(s, w, o, [q EXCEPT !.at = After[s]]),
             q.uid # Super => q.gid # Super /\ q.groups # Inherited
      PROVE  IInv'
  <2>1. o.at = s /\ Course(w, o)
    BY <1>3, AtStep
  <2>2. /\ proc'[p].at = After[s]
        /\ proc'[p].root = q.root /\ proc'[p].env = q.env
        /\ proc'[p].uid = q.uid /\ proc'[p].gid = q.gid
        /\ proc'[p].groups = q.groups /\ proc'[p].nice = q.nice
        /\ proc'[p].limit = q.limit /\ proc'[p].leader = q.leader
    BY <1>3, <2>1, GoesIs DEF IInv
  <2>3. Moves(s, w, o, proc'[p])
    BY <1>3, <2>2 DEF Moves, State
  <2>4. Course(w, proc'[p])
    BY <1>2, <2>1, <2>3, KeepsCourse
  <2>5. s \in PastLock \cup {"open"}
    BY AfterIs DEF PastLock
  <2> QED BY <1>1, <1>3, <2>1, <2>4, <2>5, PlainStep
<1>4. o.uid # Super => o.gid # Super /\ o.groups # Inherited
  BY DEF IInv, GroupsFirst, HasRoot
<1>5. {"open", "root", "envdir", "lookup", "groups", "gid", "uid", "nice",
       "limits", "session", "stdio", "exec"} = Steps \ {"flock"}
  BY AfterIs
<1>6. ASSUME NEW s \in Steps, At(p, s) PROVE o.at = s /\ Course(w, o)
  BY <1>6, AtStep
<1>7. CASE OpenLock(p) \/ Exec(p)
  <2>1. PICK s \in {"open", "exec"} : At(p, s) /\ Goes(p, o)
    BY <1>7 DEF OpenLock, Exec
  <2>2. Moves(s, w, o, [o EXCEPT !.at = After[s]])
    BY <1>2, <1>5, <1>6, <2>1 DEF Moves, State
  <2> QED BY <1>2, <1>3, <1>4, <1>5, <2>1, <2>2
<1>8. CASE ApplyRoot(p)
  <2> DEFINE q == [o EXCEPT !.root = w.root]
  <2>1. At(p, "root") /\ Goes(p, q) /\ q \in State
    BY <1>2, <1>8 DEF ApplyRoot, State
  <2>2. Moves("root", w, o, [q EXCEPT !.at = After["root"]])
    BY <1>2, <1>5, <1>6, <2>1 DEF Moves, State
  <2>3. q.uid = o.uid /\ q.gid = o.gid /\ q.groups = o.groups
    BY <1>2 DEF State
  <2> QED BY <1>3, <1>4, <1>5, <2>1, <2>2, <2>3
<1>9. ASSUME NEW s \in {"envdir", "lookup", "groups", "gid", "uid"}, At(p, s)
      PROVE  o.root = w.root
  BY <1>5, <1>6, <1>9 DEF Course, PastLock, PastRoot
<1>10. CASE ApplyEnvdir(p)
  <2>1. CASE Skips(p, "envdir")
    BY <1>1, <2>1, Skipped
  <2>2. CASE /\ At(p, "envdir") /\ w.envdir
             /\ Goes(p, [o EXCEPT !.env = <<"dir", o.root>>])
    <3> DEFINE q == [o EXCEPT !.env = <<"dir", o.root>>]
    <3>1. o.root = w.root /\ <<"dir", o.root>> \in Ids
      BY <1>2, <1>9, <2>2, IdsAre
    <3>2. q \in State /\ Goes(p, q)
      BY <1>2, <2>2, <3>1 DEF State
    <3>3. Moves("envdir", w, o, [q EXCEPT !.at = After["envdir"]])
      BY <1>2, <1>5, <1>6, <2>2, <3>1, <3>2 DEF Moves, State
    <3>4. q.uid = o.uid /\ q.gid = o.gid /\ q.groups = o.groups
      BY <1>2 DEF State
    <3> QED BY <1>3, <1>4, <1>5, <2>2, <3>2, <3>3, <3>4
  <2> QED BY <1>10, <2>1, <2>2 DEF ApplyEnvdir
<1>11. CASE Lookup(p)
  <2> DEFINE q == IF w.user # "env" THEN o ELSE [o EXCEPT !.env = Account(w, o.root)]
  <2>1. At(p, "lookup") /\ Goes(p, q)
    BY <1>11 DEF Lookup
  <2>2. o.root = w.root /\ Account(w, o.root) \in Ids
    BY <1>2, <1>9, <2>1, IdsAre
  <2>3. q \in State
    BY <1>2, <2>2 DEF State
  <2>4. w.user = "env" => Account(w, o.root) = <<"account", w.root>>
    BY <2>2 DEF Account
  <2>5. Moves("lookup", w, o, [q EXCEPT !.at = After["lookup"]])
    BY <1>2, <1>5, <1>6, <2>1, <2>3, <2>4 DEF Moves, State
  <2>6. q.uid = o.uid /\ q.gid = o.gid /\ q.groups = o.groups
    BY <1>2 DEF State
  <2> QED BY <1>3, <1>4, <1>5, <2>1, <2>3, <2>5, <2>6
<1>12. CASE SetGroups(p)
  <2>1. CASE Skips(p, "groups")
    BY <1>1, <2>1, Skipped
  <2>2. CASE /\ At(p, "groups") /\ Switches(w) /\ HasRoot(p)
             /\ Goes(p, [o EXCEPT !.groups = Groups(w, o.root)])
    <3> DEFINE q == [o EXCEPT !.groups = Groups(w, o.root)]
    <3>1. o.root = w.root /\ Groups(w, o.root) \in Ids
      BY <1>2, <1>9, <2>2, IdsAre
    <3>2. q \in State /\ Goes(p, q)
      BY <1>2, <2>2, <3>1 DEF State
    <3>3. Moves("groups", w, o, [q EXCEPT !.at = After["groups"]])
      BY <1>2, <1>5, <1>6, <2>2, <3>1, <3>2 DEF Moves, State
    <3>4. q.uid = Super
      BY <1>2, <2>2 DEF State, HasRoot
    <3> QED BY <1>3, <1>5, <2>2, <3>2, <3>3, <3>4
  <2> QED BY <1>12, <2>1, <2>2 DEF SetGroups
<1>13. CASE SetGid(p)
  <2>1. CASE Skips(p, "gid")
    BY <1>1, <2>1, Skipped
  <2>2. CASE /\ At(p, "gid") /\ Switches(w) /\ HasRoot(p)
             /\ Goes(p, [o EXCEPT !.gid = Gid(w, o.root)])
    <3> DEFINE q == [o EXCEPT !.gid = Gid(w, o.root)]
    <3>1. o.root = w.root /\ Gid(w, o.root) \in Ids
      BY <1>2, <1>9, <2>2, IdsAre
    <3>2. q \in State /\ Goes(p, q)
      BY <1>2, <2>2, <3>1 DEF State
    <3>3. Moves("gid", w, o, [q EXCEPT !.at = After["gid"]])
      BY <1>2, <1>5, <1>6, <2>2, <3>1, <3>2 DEF Moves, State
    <3>4. q.uid = Super
      BY <1>2, <2>2 DEF State, HasRoot
    <3> QED BY <1>3, <1>5, <2>2, <3>2, <3>3, <3>4
  <2> QED BY <1>13, <2>1, <2>2 DEF SetGid
<1>14. CASE SetUid(p)
  <2>1. CASE Skips(p, "uid")
    BY <1>1, <2>1, Skipped
  <2>2. CASE /\ At(p, "uid") /\ Switches(w) /\ HasRoot(p)
             /\ Goes(p, [o EXCEPT !.uid = Account(w, o.root)])
    <3> DEFINE q == [o EXCEPT !.uid = Account(w, o.root)]
    <3>1. o.root = w.root /\ Account(w, o.root) \in Ids
      BY <1>2, <1>9, <2>2, IdsAre
    <3>2. q \in State /\ Goes(p, q)
      BY <1>2, <2>2, <3>1 DEF State
    <3>3. Moves("uid", w, o, [q EXCEPT !.at = After["uid"]])
      BY <1>2, <1>5, <1>6, <2>2, <3>1, <3>2 DEF Moves, State
    <3>4. o.gid = Gid(w, w.root) /\ o.groups = Groups(w, w.root)
      BY <1>5, <1>6, <2>2 DEF Course, PastLock, PastRoot, PastEnvdir, PastLookup,
         PastGroups, PastGid
    <3>5. /\ q.uid = Account(w, w.root)
          /\ q.gid = Gid(w, w.root) /\ q.groups = Groups(w, w.root)
      BY <1>2, <3>1, <3>4 DEF State
    <3> HIDE DEF q
    <3>6. q.uid # Super => q.gid # Super /\ q.groups # Inherited
      BY <2>2, <3>5, IdsDiffer
    <3> QED BY <1>3, <1>5, <2>2, <3>2, <3>3, <3>6
  <2> QED BY <1>14, <2>1, <2>2 DEF SetUid
<1>15. CASE ApplyNice(p)
  <2> DEFINE q == [o EXCEPT !.nice = o.nice + w.nice]
  <2>1. At(p, "nice") /\ Goes(p, q)
    BY <1>15 DEF ApplyNice
  <2>2. q \in State
    <3>1. w.nice \in Int
      BY <1>2 DEF Request
    <3>2. o.nice + w.nice \in Int
      BY <1>2, <3>1 DEF State
    <3> QED BY <1>2, <3>2 DEF State
  <2>3. Moves("nice", w, o, [q EXCEPT !.at = After["nice"]])
    BY <1>2, <1>5, <1>6, <2>1, <2>2 DEF Moves, State
  <2>4. q.uid = o.uid /\ q.gid = o.gid /\ q.groups = o.groups
    BY <1>2 DEF State
  <2> QED BY <1>3, <1>4, <1>5, <2>1, <2>2, <2>3, <2>4
<1>16. CASE ApplyLimits(p)
  <2> DEFINE q == [o EXCEPT !.limit = LimitAfter(w)]
  <2>1. At(p, "limits") /\ Goes(p, q)
    BY <1>16 DEF ApplyLimits
  <2>2. q \in State
    BY <1>2, LimitIs DEF State
  <2>3. Moves("limits", w, o, [q EXCEPT !.at = After["limits"]])
    BY <1>2, <1>5, <1>6, <2>1, <2>2 DEF Moves, State
  <2>4. q.uid = o.uid /\ q.gid = o.gid /\ q.groups = o.groups
    BY <1>2 DEF State
  <2> QED BY <1>3, <1>4, <1>5, <2>1, <2>2, <2>3, <2>4
<1>17. CASE ApplySession(p)
  <2> DEFINE q == [o EXCEPT !.leader = w.session]
  <2>1. At(p, "session") /\ Goes(p, q)
    BY <1>17 DEF ApplySession
  <2>2. q \in State
    <3>1. w.session \in BOOLEAN
      BY <1>2 DEF Request
    <3> QED BY <1>2, <3>1 DEF State
  <2>3. Moves("session", w, o, [q EXCEPT !.at = After["session"]])
    BY <1>2, <1>5, <1>6, <2>1, <2>2 DEF Moves, State
  <2>4. q.uid = o.uid /\ q.gid = o.gid /\ q.groups = o.groups
    BY <1>2 DEF State
  <2> QED BY <1>3, <1>4, <1>5, <2>1, <2>2, <2>3, <2>4
<1>18. CASE Redirect(p)
  <2>1. PICK opened \in BOOLEAN : Goes(p, [o EXCEPT !.null = w.stdio /\ opened])
    BY <1>18 DEF Redirect
  <2> DEFINE q == [o EXCEPT !.null = w.stdio /\ opened]
  <2>2. At(p, "stdio") /\ q \in State
    BY <1>2, <1>18 DEF Redirect, State, Request
  <2>3. Moves("stdio", w, o, [q EXCEPT !.at = After["stdio"]])
    BY <1>2, <1>5, <1>6, <2>1, <2>2 DEF Moves, State
  <2>4. q.uid = o.uid /\ q.gid = o.gid /\ q.groups = o.groups
    BY <1>2 DEF State
  <2> QED BY <1>3, <1>4, <1>5, <2>1, <2>2, <2>3, <2>4
<1> QED
  BY <1>7, <1>8, <1>10, <1>11, <1>12, <1>13, <1>14, <1>15, <1>16, <1>17, <1>18

\* Closing the descriptors of one process leaves the locks of the others.
LEMMA UnlockIs ==
    ASSUME TypeOK, NEW p \in Process, Unlock(p)
    PROVE  /\ holder' \in [Roots -> Process \cup {NoProcess}]
           /\ \A o \in Process \ {p} : holder[Host] = o => holder'[Host] = o
<1>1. holder' = [r \in Roots |-> IF holder[r] = p THEN NoProcess ELSE holder[r]]
  BY DEF Unlock
<1>2. Host \in Roots
  BY DEF Roots
<1> QED BY <1>1, <1>2 DEF TypeOK

\* A process that dies, or whose program ends, holds no lock any more.
LEMMA EndKeeps ==
    ASSUME IInv, NEW p \in Process, NEW end \in {"left", "ended", "died"},
           proc' = [proc EXCEPT ![p] = [@ EXCEPT !.at = end]],
           \/ end = "left" /\ UNCHANGED holder /\ At(p, "runs")
           \/ end # "left" /\ Unlock(p),
           UNCHANGED want
    PROVE  IInv'
<1> DEFINE o == proc[p]
           q == [o EXCEPT !.at = end]
<1>1. o \in State /\ q \in State
  BY DEF IInv, TypeOK, State
<1>2. /\ q.at = end /\ q.root = o.root /\ q.env = o.env
      /\ q.uid = o.uid /\ q.gid = o.gid /\ q.groups = o.groups
      /\ q.nice = o.nice /\ q.limit = o.limit /\ q.leader = o.leader
  BY <1>1 DEF State
<1> HIDE DEF q
<1>3. proc'[p] = q /\ proc' \in [Process -> State]
  BY <1>1 DEF IInv, TypeOK, q
<1>4. \A e \in Process \ {p} : proc'[e] = proc[e]
  BY DEF IInv, TypeOK
<1>5. Course(want[p], q)
  <2>1. CASE end # "left"
    BY <1>2, <2>1 DEF Course
  <2>2. CASE end = "left"
    <3>1. o.at = "runs" /\ Course(want[p], o)
      BY <2>2 DEF IInv, At
    <3> QED BY <1>2, <2>2, <3>1 DEF Course, EnvAt, PastLock, PastRoot, PastEnvdir,
          PastLookup, PastGroups, PastGid, PastUid, PastNice, PastLimits, PastSession
  <2> QED BY <2>1, <2>2
<1>6. q.uid # Super => q.gid # Super /\ q.groups # Inherited
  BY <1>2 DEF IInv, GroupsFirst, HasRoot
<1>7. CASE end # "left"
  <2>1. q.at \notin PastLock
    BY <1>2, <1>7 DEF PastLock
  <2> QED BY <1>3, <1>4, <1>5, <1>6, <1>7, <2>1, UnlockIs, OneMoves DEF IInv
<1>8. CASE end = "left"
  <2>1. want[p].lock # "no" => holder[Host] = p
    BY <1>8 DEF IInv, Handed, At, PastLock
  <2>2. holder' \in [Roots -> Process \cup {NoProcess}] /\ UNCHANGED holder
    BY <1>8 DEF IInv, TypeOK
  <2> QED BY <1>3, <1>4, <1>5, <1>6, <2>1, <2>2, OneMoves
<1> QED BY <1>7, <1>8

\* The lock is taken when nobody has it.
LEMMA FlockKeeps ==
    ASSUME IInv, NEW p \in Process, Flock(p) PROVE IInv'
<1>1. At(p, "flock") /\ Goes(p, proc[p]) /\ "flock" \in Steps
  BY AfterIs DEF Flock
<1>2. /\ want[p] \in Request /\ proc[p] \in State /\ proc[p].at = "flock"
      /\ Course(want[p], proc[p]) /\ proc[p].at \in Steps
      /\ proc[p].uid # Super => proc[p].gid # Super /\ proc[p].groups # Inherited
      /\ Host \in Roots
  BY <1>1, AtStep
<1>3. /\ proc' \in [Process -> State]
      /\ proc'[p].at = After["flock"]
      /\ proc'[p].root = proc[p].root /\ proc'[p].env = proc[p].env
      /\ proc'[p].uid = proc[p].uid /\ proc'[p].gid = proc[p].gid
      /\ proc'[p].groups = proc[p].groups /\ proc'[p].nice = proc[p].nice
      /\ proc'[p].limit = proc[p].limit /\ proc'[p].leader = proc[p].leader
      /\ \A o \in Process \ {p} : proc'[o] = proc[o]
  BY <1>1, <1>2, GoesIs DEF IInv
<1>4. Moves("flock", want[p], proc[p], proc'[p])
  BY <1>2, <1>3 DEF Moves
<1>5. Course(want[p], proc'[p])
  BY <1>1, <1>2, <1>4, KeepsCourse
<1>6. proc[p].root = Host
  BY <1>2 DEF Course, PastLock, PastRoot
<1>7. CASE want[p].lock = "no"
  <2>1. UNCHANGED <<want, holder>>
    BY <1>7 DEF Flock
  <2> QED BY <1>2, <1>3, <1>5, <1>7, <2>1, OneMoves DEF IInv, TypeOK
<1>8. CASE want[p].lock # "no"
  <2>1. /\ holder[Host] = NoProcess
        /\ holder' = [holder EXCEPT ![Host] = p] /\ UNCHANGED want
    BY <1>6, <1>8 DEF Flock
  <2>2. holder' \in [Roots -> Process \cup {NoProcess}] /\ holder'[Host] = p
    BY <1>2, <2>1 DEF IInv, TypeOK
  <2>3. \A o \in Process \ {p} : holder[Host] = o => holder'[Host] = o
    BY <2>1, ChpstAssumption
  <2> QED BY <1>2, <1>3, <1>5, <2>1, <2>2, <2>3, OneMoves
<1> QED BY <1>7, <1>8

\* chpst is started by root, with nothing done.
LEMMA InitHolds == Init => IInv
<1> SUFFICES ASSUME Init PROVE IInv
  OBVIOUS
<1>1. /\ Started \in State
      /\ Started.at = "open" /\ Started.root = Host /\ Started.env = Inherited
      /\ Started.uid = Super /\ Started.gid = Super /\ Started.groups = Inherited
      /\ Started.nice = 0 /\ Started.limit = HardLimit
  <2>1. Super \in Ids /\ Inherited \in Ids /\ Host \in Roots
    BY DEF Ids, Super, Inherited, Roots
  <2> QED BY <2>1, AfterIs, ChpstAssumption DEF Started, State
<1>2. \A p \in Process : proc[p] = Started
  BY DEF Init
<1>3. TypeOK
  <2>1. want \in [Process -> Request]
    <3>1. want \in [Process -> UNION {Requests[p] : p \in Process}]
      BY DEF Init
    <3>2. \A p \in Process : want[p] \in Request
      BY ChpstAssumption DEF Init
    <3> QED BY <3>1, <3>2
  <2>2. proc \in [Process -> State]
    BY <1>1 DEF Init
  <2>3. holder \in [Roots -> Process \cup {NoProcess}]
    BY DEF Init
  <2> QED BY <2>1, <2>2, <2>3 DEF TypeOK
<1>4. ASSUME NEW p \in Process PROVE Course(want[p], proc[p])
  BY <1>1, <1>2 DEF Course, EnvAt, PastLock, PastRoot, PastEnvdir, PastLookup,
     PastGroups, PastGid, PastUid, PastNice, PastLimits, PastSession
<1>5. Handed /\ GroupsFirst
  BY <1>1, <1>2 DEF Handed, GroupsFirst, HasRoot, PastLock
<1> QED BY <1>3, <1>4, <1>5 DEF IInv

LEMMA Invariance == Spec => []IInv
<1>1. IInv /\ [Next]_vars => IInv'
  <2> SUFFICES ASSUME IInv, [Next]_vars PROVE IInv'
    OBVIOUS
  <2>1. CASE UNCHANGED vars
    BY <2>1 DEF vars, IInv, TypeOK, Handed, GroupsFirst, HasRoot
  <2>2. ASSUME NEW p \in Process, Dies(p) PROVE IInv'
    BY <2>2, EndKeeps DEF Dies
  <2>3. ASSUME NEW p \in Process, Main(p) PROVE IInv'
    BY <2>2, <2>3, PlainSteps, FlockKeeps DEF Main, FlockRefused, Fails
  <2>4. ASSUME NEW p \in Process, ProgramEnds(p) PROVE IInv'
    BY <2>4, EndKeeps DEF ProgramEnds
  <2> QED BY <2>1, <2>3, <2>4 DEF Next
<1> QED BY <1>1, InitHolds, PTL DEF Spec

\* Every variable keeps its type.
THEOREM TypeCorrect == Spec => []TypeOK
<1>1. IInv => TypeOK
  BY DEF IInv
<1> QED BY <1>1, Invariance, PTL

\* A program executes with all that was asked for, or not at all.
THEOREM AlwaysAsRequested == Spec => []AsRequested
<1>1. IInv => AsRequested
  <2> SUFFICES ASSUME IInv, NEW p \in Process, Executes(p)
               PROVE  LET w == want[p]
                          q == proc[p]
                          switched == Switches(w)
                      IN  /\ q.root = w.root
                          /\ q.uid = IF switched THEN Account(w, w.root) ELSE Super
                          /\ q.gid = IF switched THEN Gid(w, w.root) ELSE Super
                          /\ q.groups = IF switched THEN Groups(w, w.root)
                                        ELSE Inherited
                          /\ q.env = IF w.user = "env" THEN <<"account", w.root>>
                                     ELSE IF w.envdir THEN <<"dir", w.root>>
                                     ELSE Inherited
                          /\ q.nice = w.nice
                          /\ q.limit = LimitAfter(w)
                          /\ q.leader = w.session
                          /\ w.lock # "no" => holder[Host] = p
    BY DEF AsRequested
  <2>1. proc[p].at \in {"runs", "left"} /\ Course(want[p], proc[p])
    BY DEF Executes, IInv
  <2>2. {"runs", "left"} \subseteq PastSession
    BY DEF PastLock, PastRoot, PastEnvdir, PastLookup, PastGroups, PastGid, PastUid,
       PastNice, PastLimits, PastSession
  <2>3. want[p].lock # "no" => holder[Host] = p
    BY <2>1 DEF IInv, Handed, PastLock
  <2> QED
    BY <2>1, <2>2, <2>3 DEF Course, EnvAt, PastLock, PastRoot, PastEnvdir, PastLookup,
       PastGroups, PastGid, PastUid, PastNice, PastLimits, PastSession
<1> QED BY <1>1, Invariance, PTL

\* Root's groups go before root does.
THEOREM GroupsGoFirst == Spec => []GroupsFirst
<1>1. IInv => GroupsFirst
  BY DEF IInv
<1> QED BY <1>1, Invariance, PTL

\* Two programs under one lock file never execute at the same time.
THEOREM LockExcludes == Spec => []OneAtATime
<1>1. IInv => OneAtATime
  <2>1. ASSUME NEW p \in Process, Executes(p) PROVE proc[p].at \in PastLock
    BY <2>1 DEF Executes, PastLock
  <2> QED BY <2>1 DEF IInv, Handed, OneAtATime
<1> QED BY <1>1, Invariance, PTL
=============================================================================
