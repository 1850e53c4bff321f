---------------------------- MODULE Lksyschdir ----------------------------
(***************************************************************************)
(* lksyschdir (src/bin/lksyschdir.rs): switches the symbolic link          *)
(* "current" of a base directory to another set of services, and keeps the *)
(* former one as "previous".  It is a line of file operations without a    *)
(* lock, so a second lksyschdir and a crash may come between any two.      *)
(***************************************************************************)
EXTENDS Naturals

CONSTANTS
    Switcher,    \* processes that may execute lksyschdir, again and again
    Sets,        \* the service directories below base
    None,        \* there is no such link
    MaxFaults    \* bound on failing operations and on deaths

ASSUME LksyschdirAssumption == None \notin Sets /\ MaxFaults \in Nat

VARIABLES
    at,        \* where each process is in main()
    new,       \* the set it has been given
    before,    \* the set that was current when it began
    last,      \* of the last process that ended: how, and its new and before
    link,      \* what each link of base names
    faults,    \* failures and deaths so far
    alone,     \* no two processes have overlapped
    refused    \* some process did not end well

vars == <<at, new, before, last, link, faults, alone, refused>>

Links == {"current", "current.new", "previous"}

Idle(s) == at[s] = "idle"
AllIdle == \A s \in Switcher : Idle(s)

Goes(s, step) == at' = [at EXCEPT ![s] = step] /\ UNCHANGED <<last, refused>>
Exits(s, how) ==
    /\ at' = [at EXCEPT ![s] = "idle"]
    /\ last' = [how |-> how, new |-> new[s], before |-> before[s]]
    /\ refused' = (refused \/ how # "ok")

\* An operation that could succeed fails all the same.
Fault == faults < MaxFaults /\ faults' = faults + 1
FailsOn(l) == IF link[l] # None THEN Fault ELSE UNCHANGED faults

Renamed(from, to) ==
    [l \in Links |-> IF l = from THEN None
                     ELSE IF l = to THEN link[from] ELSE link[l]]

-----------------------------------------------------------------------------
\* The new directory exists, and current does not name it already.  The links
\* previous and current themselves, which pass for directories too, are not
\* among the sets.
Begin(s) ==
    /\ Idle(s)
    /\ \E set \in Sets \ {link["current"]} : new' = [new EXCEPT ![s] = set]
    /\ before' = [before EXCEPT ![s] = link["current"]]
    /\ alone' = (alone /\ AllIdle)
    /\ Goes(s, "clear") /\ UNCHANGED <<link, faults>>

ClearTemporary(s) ==
    /\ at[s] = "clear"
    /\ link' = [link EXCEPT !["current.new"] = None]
    /\ Goes(s, "link") /\ UNCHANGED <<new, before, faults, alone>>

\* symlink(2) does not replace what is there.
Symlink(s) ==
    /\ at[s] = "link"
    /\ \/ /\ link["current.new"] = None
          /\ link' = [link EXCEPT !["current.new"] = new[s]]
          /\ Goes(s, "drop") /\ UNCHANGED faults
       \/ /\ IF link["current.new"] = None THEN Fault ELSE UNCHANGED faults
          /\ Exits(s, "error") /\ UNCHANGED link
    /\ UNCHANGED <<new, before, alone>>

DropPrevious(s) ==
    /\ at[s] = "drop"
    /\ link' = [link EXCEPT !["previous"] = None]
    /\ Goes(s, "away") /\ UNCHANGED <<new, before, faults, alone>>

\* Mutants: current is removed; a missing current is passed over.
RenameAwayRemoves(s) ==
    /\ at[s] = "away"
    /\ link' = [link EXCEPT !["current"] = None]
    /\ Goes(s, "in") /\ UNCHANGED <<new, before, faults, alone>>
RenameAwayAnyway(s) ==
    /\ at[s] = "away"
    /\ link' = IF link["current"] = None THEN link
               ELSE Renamed("current", "previous")
    /\ Goes(s, "in") /\ UNCHANGED <<new, before, faults, alone>>

\* The first rename: from here on there is no current.
RenameAway(s) ==
    /\ at[s] = "away"
    /\ \/ /\ link["current"] # None
          /\ link' = Renamed("current", "previous")
          /\ Goes(s, "in") /\ UNCHANGED faults
       \/ FailsOn("current") /\ Exits(s, "error") /\ UNCHANGED link
    /\ UNCHANGED <<new, before, alone>>

\* Mutants: a failure is not undone; it is not reported either.
RenameInOrNot(s) ==
    /\ at[s] = "in"
    /\ \/ /\ link["current.new"] # None
          /\ link' = Renamed("current.new", "current")
          /\ Exits(s, "ok") /\ UNCHANGED faults
       \/ FailsOn("current.new") /\ Exits(s, "error") /\ UNCHANGED link
    /\ UNCHANGED <<new, before, alone>>
RenameInSilent(s) ==
    /\ at[s] = "in"
    /\ \/ link["current.new"] # None /\ link' = Renamed("current.new", "current")
       \/ link["current.new"] = None /\ UNCHANGED link
    /\ Exits(s, "ok") /\ UNCHANGED <<new, before, faults, alone>>

\* The second rename.
RenameIn(s) ==
    /\ at[s] = "in"
    /\ \/ /\ link["current.new"] # None
          /\ link' = Renamed("current.new", "current")
          /\ Exits(s, "ok") /\ UNCHANGED faults
       \/ FailsOn("current.new") /\ Goes(s, "back") /\ UNCHANGED link
    /\ UNCHANGED <<new, before, alone>>

\* After a failure current is put back, if it can be.
RenameBack(s) ==
    /\ at[s] = "back"
    /\ \/ /\ link["previous"] # None
          /\ link' = Renamed("previous", "current")
          /\ UNCHANGED faults
       \/ FailsOn("previous") /\ UNCHANGED link
    /\ Exits(s, "error") /\ UNCHANGED <<new, before, alone>>

Dies(s) ==
    /\ ~Idle(s)
    /\ Fault
    /\ Exits(s, "died") /\ UNCHANGED <<new, before, link, alone>>

-----------------------------------------------------------------------------
Init ==
    /\ at = [s \in Switcher |-> "idle"]
    /\ \E set \in Sets, old \in Sets \cup {None} :
          /\ link = [l \in Links |->
                        IF l = "current" THEN set
                        ELSE IF l = "previous" THEN old ELSE None]
          /\ last = [how |-> "none", new |-> set, before |-> set]
          /\ new = [s \in Switcher |-> set]
          /\ before = [s \in Switcher |-> set]
    /\ faults = 0 /\ alone = TRUE /\ refused = FALSE

Next == \E s \in Switcher :
    \/ Begin(s) \/ ClearTemporary(s) \/ Symlink(s) \/ DropPrevious(s)
    \/ RenameAway(s) \/ RenameIn(s) \/ RenameBack(s) \/ Dies(s)

Spec == Init /\ [][Next]_vars

-----------------------------------------------------------------------------
MaybeSet == Sets \cup {None}

TypeOK ==
    /\ at \in [Switcher ->
                  {"idle", "clear", "link", "drop", "away", "in", "back"}]
    /\ new \in [Switcher -> Sets]
    /\ before \in [Switcher -> MaybeSet]
    /\ last \in [how : {"none", "ok", "error", "died"},
                 new : Sets, before : MaybeSet]
    /\ link \in [Links -> MaybeSet]
    /\ faults \in Nat
    /\ alone \in BOOLEAN /\ refused \in BOOLEAN

\* One lksyschdir at a time switches or leaves current as it was: after "now
\* current" it is the new set, and previous is the former one; an error, where
\* no other came before it, has been undone.
SwitchedOrNot ==
    (alone /\ AllIdle) =>
        /\ last.how = "ok" =>
               link["current"] = last.new /\ link["previous"] = last.before
        /\ (last.how = "error" /\ faults <= 1) => link["current"] = last.before

\* One at a time, whatever fails, and wherever it is killed, lksyschdir does
\* not lose the set that was current: it is there as current or as previous,
\* when lksyschdir is gone and at every step before.
StillNamed ==
    alone => LET there == {link["current"], link["previous"]}
             IN  /\ AllIdle => last.before \in there
                 /\ \A s \in Switcher : ~Idle(s) => before[s] \in there

\* But killed between the two renames it leaves no current, and no later run
\* repairs that: each ends with an error, the first one having removed the
\* previous that still named the set.
NoRepair ==
    (alone /\ AllIdle /\ last.before = None) =>
        last.how # "ok" /\ link["current"] = None

\* However many of them run at once: if there is no current in the end, one of
\* them has ended with an error or has been killed.
LossIsTold == (AllIdle /\ link["current"] = None) => refused
=============================================================================
