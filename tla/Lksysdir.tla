------------------------------ MODULE Lksysdir ------------------------------
(***************************************************************************)
(* lksysdir (src/bin/lksysdir.rs): one lksys per directory in the          *)
(* directory of services, while an administrator adds and removes          *)
(* services, each lksys may die, and lksysdir itself may end on an error   *)
(* and be started again by PID 1.                                          *)
(*                                                                         *)
(* An error leaves the lksys processes alive without their parent, each    *)
(* with the lock of its service: strays.  A new lksys for such a service   *)
(* finds the lock taken and exits.                                         *)
(***************************************************************************)
EXTENDS Naturals

CONSTANTS
    Service,    \* the services there may be
    Dbus,       \* the service named dbus
    Agetty,     \* those whose name begins with agetty
    MaxTrouble  \* bound on changes of the directory, errors and SIGHUPs

ASSUME LksysdirAssumption ==
    /\ Dbus \notin Agetty
    /\ Agetty \subseteq Service
    /\ MaxTrouble \in Nat

VARIABLES
    pc,            \* "discover", "visit", "signals"; "gone" after an
                   \* error, "over" after SIGTERM
    dir,           \* the directory
    services,      \* the services discover() found
    todo,          \* those the pass has still to visit
    dbusStarted,   \* the gates of the pass
    othersStarted,
    children,      \* the table of children; "none": not in it
    strays,        \* services whose lock a lksys of an earlier lksysdir holds
    reload,        \* the RELOAD and TERMINATE flags
    terminate,
    dbusOnce,      \* history: this lksysdir has started dbus
    trouble        \* counts what MaxTrouble bounds

flags == <<reload, terminate>>
pass == <<services, todo, dbusStarted, othersStarted>>
vars == <<pc, dir, pass, children, strays, flags, dbusOnce, trouble>>

-----------------------------------------------------------------------------
(* One pass *)

\* Mutants: the gate for dbus is always open; the one for agettys waits for
\* the agettys too, or for one service.
DbusStartedAtOnce(found) == TRUE
OthersStartedAll(found) == \A s \in found : children[s] # "none"
OthersStartedOne(found) == \E s \in found \ Agetty : children[s] # "none"

DbusStarted(found) == Dbus \in found => children[Dbus] # "none"
OthersStarted(found) == \A s \in found \ Agetty : children[s] # "none"

Discover ==
    /\ pc = "discover"
    /\ pc' = "visit"
    /\ services' = dir
    /\ todo' = dir
    /\ dbusStarted' = DbusStarted(dir)
    /\ othersStarted' = OthersStarted(dir)
    /\ UNCHANGED <<dir, children, strays, flags, dbusOnce, trouble>>

\* The service is not yet to be started in this pass.
HeldBack(s) ==
    /\ children[s] = "none"
    /\ IF s \in Agetty THEN ~othersStarted ELSE s # Dbus /\ ~dbusStarted

Missing(s) == children[s] \in {"none", "dead"}

\* The service is skipped, has its lksys, or gets one.
Visit(s) ==
    /\ pc = "visit"
    /\ s \in todo
    /\ todo' = todo \ {s}
    /\ IF ~HeldBack(s) /\ Missing(s)
       THEN /\ children' = [children EXCEPT ![s] = "starting"]
            /\ dbusOnce' = (dbusOnce \/ s = Dbus)
       ELSE UNCHANGED <<children, dbusOnce>>
    /\ UNCHANGED <<pc, dir, services, dbusStarted, othersStarted, strays, flags, trouble>>

\* Mutant: the lksys of a removed service is kept.
RetainAll ==
    /\ pc = "visit"
    /\ todo = {}
    /\ pc' = "signals"
    /\ UNCHANGED <<dir, pass, children, strays, flags, dbusOnce, trouble>>

\* The lksys of a removed service is killed and forgotten.
Retain ==
    /\ pc = "visit"
    /\ todo = {}
    /\ pc' = "signals"
    /\ children' = [s \in Service |-> IF s \in services THEN children[s] ELSE "none"]
    /\ UNCHANGED <<dir, pass, strays, flags, dbusOnce, trouble>>

\* Mutant: SIGTERM is served as SIGHUP is.
SignalsReload ==
    /\ pc = "signals"
    /\ pc' = "discover"
    /\ reload' = FALSE
    /\ terminate' = FALSE
    /\ UNCHANGED <<children, dir, pass, strays, dbusOnce, trouble>>

\* SIGHUP comes first and ends the turn: no sleep, and SIGTERM waits for the
\* next pass.
Signals ==
    /\ pc = "signals"
    /\ reload' = FALSE
    /\ IF ~reload /\ terminate
       THEN /\ pc' = "over"
            /\ terminate' = FALSE
            /\ children' = [s \in Service |-> "none"]
       ELSE /\ pc' = "discover"
            /\ UNCHANGED <<terminate, children>>
    /\ UNCHANGED <<dir, pass, strays, dbusOnce, trouble>>

\* The lksys that lksysdir has started for s lives.  A stray is none of its
\* children: nothing lksysdir does reaches it.
Alive(s) == children[s] \in {"starting", "live"}

Bounded == trouble < MaxTrouble /\ trouble' = trouble + 1

\* The directory cannot be read, or lksys not spawned or waited for: lksysdir
\* returns the error at once, without a look at TERMINATE, and kills nobody.  A
\* child that is still coming to its lock gets it, or finds it taken, after
\* lksysdir is gone.
Error ==
    /\ pc \in {"discover", "visit"}
    /\ Bounded
    /\ pc' = "gone"
    /\ \E late \in SUBSET {s \in Service : children[s] = "starting"} :
          strays' = strays \cup late \cup {s \in Service : children[s] = "live"}
    /\ children' = [s \in Service |-> "none"]
    /\ UNCHANGED <<dir, pass, flags, dbusOnce>>

\* PID 1 runs stage 2 again, which becomes lksysdir: a new process, which has
\* never heard of a SIGTERM that the former one had noted.  (PID 1 does not come
\* here when the SIGTERM was its own: Lksystem.)
Again ==
    /\ pc = "gone"
    /\ pc' = "discover"
    /\ reload' = FALSE
    /\ terminate' = FALSE
    /\ dbusOnce' = FALSE
    /\ UNCHANGED <<dir, pass, children, strays, trouble>>

-----------------------------------------------------------------------------
(* Around it *)

\* A new lksys takes the lock, or finds it taken and exits.
Locks(s) ==
    /\ children[s] = "starting"
    /\ children' = [children EXCEPT ![s] = IF s \in strays THEN "dead" ELSE "live"]
    /\ UNCHANGED <<pc, dir, pass, strays, flags, dbusOnce, trouble>>

LksysEnds(s) ==
    /\ \/ /\ children[s] = "live"
          /\ children' = [children EXCEPT ![s] = "dead"]
          /\ UNCHANGED strays
       \/ /\ s \in strays
          /\ strays' = strays \ {s}
          /\ UNCHANGED children
    /\ UNCHANGED <<pc, dir, pass, flags, dbusOnce, trouble>>

Change(s) ==
    /\ Bounded
    /\ dir' = IF s \in dir THEN dir \ {s} ELSE dir \cup {s}
    /\ UNCHANGED <<pc, pass, children, strays, flags, dbusOnce>>

Running == pc \notin {"gone", "over"}

Hup ==
    /\ Running
    /\ Bounded
    /\ reload' = TRUE
    /\ UNCHANGED <<pc, dir, pass, children, strays, terminate, dbusOnce>>

Term ==
    /\ Running
    /\ terminate' = TRUE
    /\ UNCHANGED <<pc, dir, pass, children, strays, reload, dbusOnce, trouble>>

-----------------------------------------------------------------------------
Init ==
    /\ pc = "discover"
    /\ dir \in SUBSET Service
    /\ services = {}
    /\ todo = {}
    /\ dbusStarted = FALSE
    /\ othersStarted = FALSE
    /\ children = [s \in Service |-> "none"]
    /\ strays = {}
    /\ reload = FALSE
    /\ terminate = FALSE
    /\ dbusOnce = FALSE
    /\ trouble = 0

Supervise ==
    Discover \/ (\E s \in Service : Visit(s)) \/ Retain \/ Signals \/ Again

Next ==
    \/ Supervise \/ Error \/ Hup \/ Term
    \/ \E s \in Service : Locks(s) \/ LksysEnds(s) \/ Change(s)

Spec == Init /\ [][Next]_vars

\* lksysdir goes on (its sleep ends, PID 1 starts it again), and a new lksys
\* comes to its lock.
FairSpec ==
    /\ Spec
    /\ WF_vars(Supervise)
    /\ \A s \in Service : WF_vars(Locks(s))

TypeOK ==
    /\ pc \in {"discover", "visit", "signals", "gone", "over"}
    /\ dir \subseteq Service
    /\ services \subseteq Service
    /\ todo \subseteq services
    /\ dbusStarted \in BOOLEAN
    /\ othersStarted \in BOOLEAN
    /\ children \in [Service -> {"none", "starting", "live", "dead"}]
    /\ strays \subseteq Service
    /\ reload \in BOOLEAN
    /\ terminate \in BOOLEAN
    /\ dbusOnce \in BOOLEAN
    /\ trouble \in 0..MaxTrouble

-----------------------------------------------------------------------------
(* Properties *)

\* A service that lksysdir has not started before.
FirstStart(s) == children[s] = "none" /\ children'[s] = "starting"

\* The comment on the gate: "every other non-agetty service waits until dbus
\* has been spawned at least once" -- by this lksysdir, where dbus was found,
\* whatever was added, removed or died before.
DbusFirst == [][
    \A s \in Service \ (Agetty \cup {Dbus}) :
        FirstStart(s) /\ Dbus \in services => dbusOnce]_vars

\* No login prompt before every other service found has a lksys, be it dead.
AgettysLast == [][
    \A s \in Agetty :
        FirstStart(s) => \A o \in services \ Agetty : children[o] # "none"]_vars

\* A service that stays in the directory has a lksys in the end, its own or a
\* stray: the gates hold nobody back for good, however services come, go and
\* fail.
Supervised == \A s \in Service :
    (s \in dir /\ pc # "over")
        ~> (s \notin dir \/ children[s] = "live" \/ s \in strays \/ pc = "over")

\* The lksys of a service that was removed is killed, unless it is a stray.
RemovedGoes == \A s \in Service : (s \notin dir) ~> (s \in dir \/ ~Alive(s))

\* lksysdir has ended and has ended every lksys it had started.
Ended == pc = "over" /\ \A s \in Service : ~Alive(s)

\* SIGTERM, once SIGHUPs cease, ends lksysdir and every lksys it has started; an
\* error that comes first is the only way round that, and then the lksys live on
\* as strays and the SIGTERM may be forgotten.  Where no lksysdir ever ends on an
\* error, no lksys at all is left.
TermEnds ==
    /\ terminate ~> (Ended \/ pc = "gone")
    /\ [](pc # "gone") => (terminate ~> (Ended /\ strays = {}))
=============================================================================
