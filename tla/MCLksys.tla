------------------------------ MODULE MCLksys ------------------------------
\* Values for the constants of Lksys: the command strings of the runs.
EXTENDS Lksys, TLC

OneByte == {<<b>> : b \in Byte}
FaultBytes == {<<"u">>, <<"o">>, <<"x">>}

PidSymmetry == Permutations(Pid)
FaultSymmetry == Permutations(Pid) \cup Permutations(Logger)
=============================================================================
