----------------------------- MODULE MCLksysctl -----------------------------
\* Values for the constants of Lksysctl.
EXTENDS Lksysctl, TLC

\* The commands are given by CtlCommands; nobody else writes to the FIFO.
NoCommands == {}

RacingCommands == {"down", "exit", "restart"}
LiveCommands == {"up", "down", "exit", "once", "pause", "cont"}

CtlSymmetry == Permutations(Client) \cup Permutations(Pid)
=============================================================================
