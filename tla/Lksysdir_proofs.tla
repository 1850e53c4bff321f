-------------------------- MODULE Lksysdir_proofs --------------------------
(***************************************************************************)
(* The order in which lksysdir starts services, for any set of services    *)
(* and any number of changes, errors and restarts.                         *)
(*                                                                         *)
(* The gates are computed at the head of a pass and used in the course of  *)
(* it.  IInv says why they are still good then: what they were computed    *)
(* from does not become false before Retain, which ends the visits.        *)
(***************************************************************************)
EXTENDS Lksysdir, TLAPS

\* A dbus in the table of children has been started by this lksysdir.
DbusKnown == Dbus \in Service /\ children[Dbus] # "none" => dbusOnce

\* The gates, while they are used.
DbusGate == pc = "visit" /\ dbusStarted /\ Dbus \in services => dbusOnce

OthersGate ==
    pc = "visit" /\ othersStarted => \A o \in services \ Agetty : children[o] # "none"

\* What an error leaves behind is no child of the next lksysdir.
Forgotten == pc = "gone" => \A s \in Service : children[s] = "none"

IInv == TypeOK /\ DbusKnown /\ DbusGate /\ OthersGate /\ Forgotten

-----------------------------------------------------------------------------
\* Nothing is started and no gate is in use at first.
LEMMA InitHolds == Init => IInv
<1> SUFFICES ASSUME Init PROVE IInv
  OBVIOUS
<1> USE LksysdirAssumption DEF Init
<1>1. TypeOK
  <2>1. 0 \in 0..MaxTrouble
    OBVIOUS
  <2> QED BY <2>1 DEF TypeOK
<1>2. DbusKnown
  BY DEF DbusKnown
<1>3. pc # "visit" /\ pc # "gone"
  OBVIOUS
<1> QED
  BY <1>1, <1>2, <1>3, Zenon DEF IInv, DbusGate, OthersGate, Forgotten

\* Every action keeps the types, and the gates good for as long as they are used.
LEMMA StepHolds == IInv /\ [Next]_vars => IInv'
<1> SUFFICES ASSUME IInv, [Next]_vars PROVE IInv'
  OBVIOUS
<1> USE LksysdirAssumption
<1> USE DEF IInv, TypeOK, DbusKnown, DbusGate, OthersGate, Forgotten, pass, flags
<1>1. CASE Discover
  BY <1>1 DEF Discover, DbusStarted, OthersStarted
<1>2. ASSUME NEW s \in Service, Visit(s) PROVE IInv'
  BY <1>2 DEF Visit, HeldBack, Missing
<1>3. CASE Retain
  BY <1>3 DEF Retain
<1>4. CASE Signals
  BY <1>4 DEF Signals
<1>5. CASE Again
  BY <1>5 DEF Again
<1>6. CASE Error
  BY <1>6 DEF Error, Bounded
<1>7. CASE Hup
  BY <1>7 DEF Hup, Bounded, Running
<1>8. CASE Term
  BY <1>8 DEF Term, Running
<1>9. ASSUME NEW s \in Service, Locks(s) PROVE IInv'
  BY <1>9 DEF Locks
<1>10. ASSUME NEW s \in Service, LksysEnds(s) PROVE IInv'
  BY <1>10 DEF LksysEnds
<1>11. ASSUME NEW s \in Service, Change(s) PROVE IInv'
  BY <1>11 DEF Change, Bounded
<1>12. CASE UNCHANGED vars
  BY <1>12 DEF vars
<1> QED
  BY <1>1, <1>2, <1>3, <1>4, <1>5, <1>6, <1>7, <1>8, <1>9, <1>10, <1>11, <1>12
  DEF Next, Supervise

\* What the gates rest on holds throughout.
THEOREM Invariance == Spec => []IInv
<1> QED BY InitHolds, StepHolds, PTL DEF Spec

\* Every variable of the model of lksysdir keeps its type.
THEOREM TypeCorrect == Spec => []TypeOK
<1>1. IInv => TypeOK
  BY DEF IInv
<1> QED BY Invariance, <1>1, PTL

-----------------------------------------------------------------------------
\* Only a visit puts a service into the table of children that was not in it.
LEMMA OnlyVisitsStart ==
    ASSUME TypeOK, [Next]_vars, NEW s \in Service, FirstStart(s)
    PROVE  Visit(s)
<1> USE DEF TypeOK, FirstStart, pass, flags
<1>1. CASE Discover
  BY <1>1 DEF Discover
<1>2. ASSUME NEW o \in Service, Visit(o) PROVE Visit(s)
  BY <1>2 DEF Visit
<1>3. CASE Retain
  BY <1>3 DEF Retain
<1>4. CASE Signals
  BY <1>4 DEF Signals
<1>5. CASE Again
  BY <1>5 DEF Again
<1>6. CASE Error
  BY <1>6 DEF Error
<1>7. CASE Hup \/ Term
  BY <1>7 DEF Hup, Term
<1>8. ASSUME NEW o \in Service, Locks(o) \/ LksysEnds(o) \/ Change(o) PROVE Visit(s)
  BY <1>8 DEF Locks, LksysEnds, Change
<1>9. CASE UNCHANGED vars
  BY <1>9 DEF vars
<1> QED
  BY <1>1, <1>2, <1>3, <1>4, <1>5, <1>6, <1>7, <1>8, <1>9 DEF Next, Supervise

\* No service is started before dbus, where dbus was found, but the agettys,
\* which have a gate of their own: the head start holds whatever is added,
\* removed, dies or fails between two passes.
THEOREM DbusIsFirst == Spec => DbusFirst
<1>1. ASSUME IInv, [Next]_vars
      PROVE  [\A s \in Service \ (Agetty \cup {Dbus}) :
                  FirstStart(s) /\ Dbus \in services => dbusOnce]_vars
  <2> SUFFICES ASSUME NEW s \in Service, s \notin Agetty, s # Dbus,
                      FirstStart(s), Dbus \in services
               PROVE  dbusOnce
    OBVIOUS
  <2>1. Visit(s)
    BY <1>1, OnlyVisitsStart DEF IInv
  <2>2. pc = "visit" /\ dbusStarted
    BY <2>1 DEF Visit, HeldBack, FirstStart, IInv, TypeOK
  <2> QED
    BY <1>1, <2>2 DEF IInv, DbusGate
<1> QED
  BY Invariance, <1>1, PTL DEF Spec, DbusFirst

\* No login prompt is started before every other service found has a lksys.
THEOREM AgettysAreLast == Spec => AgettysLast
<1>1. ASSUME IInv, [Next]_vars
      PROVE  [\A s \in Agetty :
                  FirstStart(s) => \A o \in services \ Agetty : children[o] # "none"]_vars
  <2> SUFFICES ASSUME NEW s \in Agetty, FirstStart(s)
               PROVE  \A o \in services \ Agetty : children[o] # "none"
    OBVIOUS
  <2>1. s \in Service
    BY LksysdirAssumption
  <2>2. Visit(s)
    BY <1>1, <2>1, OnlyVisitsStart DEF IInv
  <2>3. pc = "visit" /\ othersStarted
    BY <2>2 DEF Visit, HeldBack, FirstStart
  <2> QED
    BY <1>1, <2>3 DEF IInv, OthersGate
<1> QED
  BY Invariance, <1>1, PTL DEF Spec, AgettysLast
=============================================================================
