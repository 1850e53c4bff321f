----------------------------- MODULE RollingLog -----------------------------
(***************************************************************************)
(* What logging into several places promises, whatever becomes of the      *)
(* logger: a log takes the line that was read last, once, and not before   *)
(* the logs ahead of it have it; what it gives up are its oldest lines.    *)
(* Lines stand for themselves: they are numbered as they are read.         *)
(***************************************************************************)
EXTENDS Naturals

CONSTANT Logs    \* how many there are

VARIABLES
    read,    \* the number of lines read
    log      \* for each log, the lines it holds

vars == <<read, log>>

Init == read = 0 /\ log = [d \in 1..Logs |-> {}]

Read == read' = read + 1 /\ UNCHANGED log

Write(d) ==
    /\ read > 0
    /\ \A n \in log[d] : n < read
    /\ \A e \in 1..d - 1 : read \in log[e]
    /\ log' = [log EXCEPT ![d] = @ \cup {read}]
    /\ UNCHANGED read

DropOldest(d) ==
    /\ \E gone \in SUBSET log[d] :
          /\ \A n \in gone, m \in log[d] \ gone : n < m
          /\ log' = [log EXCEPT ![d] = @ \ gone]
    /\ UNCHANGED read

Next == Read \/ \E d \in 1..Logs : Write(d) \/ DropOldest(d)

Spec == Init /\ [][Next]_vars
=============================================================================
