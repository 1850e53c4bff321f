---------------------------- MODULE ServiceLife ----------------------------
(***************************************************************************)
(* What supervision promises about one service, with the polling loop, the *)
(* control FIFO, signals and the status file abstracted away.              *)
(*                                                                         *)
(* At any moment at most one script of the service is executing.  A finish *)
(* script starts only where a run script ended.  A run script starts only  *)
(* where nothing of the service is left over, and by itself only while the *)
(* service is wanted up and has rested since its last end; a request to    *)
(* run it once needs no rest but leaves the service wanted down.           *)
(***************************************************************************)
VARIABLES
    inst,     \* the script executing now: "none", "run" or "finish"
    ended,    \* a script that ended and is not dealt with: "no", "run", "finish"
    wanted,   \* is the service to be kept up?
    rested    \* has it rested since a script last ended?

vars == <<inst, ended, wanted, rested>>

TypeOK ==
    /\ inst \in {"none", "run", "finish"}
    /\ ended \in {"no", "run", "finish"}
    /\ wanted \in BOOLEAN
    /\ rested \in BOOLEAN

Init ==
    /\ inst = "none"
    /\ ended = "no"
    /\ wanted \in BOOLEAN
    /\ rested = TRUE

Idle == inst = "none" /\ ended = "no"

Request ==
    /\ wanted' \in BOOLEAN
    /\ UNCHANGED <<inst, ended, rested>>

AutoStart ==
    /\ Idle
    /\ wanted
    /\ rested
    /\ inst' = "run"
    /\ UNCHANGED <<ended, wanted, rested>>

OnceStart ==
    /\ Idle
    /\ inst' = "run"
    /\ wanted' = FALSE
    /\ UNCHANGED <<ended, rested>>

End ==
    /\ inst # "none"
    /\ inst' = "none"
    /\ ended' = inst
    /\ UNCHANGED <<wanted, rested>>

Finish ==
    /\ ended = "run"
    /\ inst' = "finish"
    /\ ended' = "no"
    /\ UNCHANGED <<wanted, rested>>

Settle ==
    /\ ended # "no"
    /\ ended' = "no"
    /\ rested' = FALSE
    /\ UNCHANGED <<inst, wanted>>

Rest ==
    /\ rested' = TRUE
    /\ UNCHANGED <<inst, ended, wanted>>

Next ==
    Request \/ AutoStart \/ OnceStart \/ End \/ Finish \/ Settle \/ Rest

Spec == Init /\ [][Next]_vars
=============================================================================
