------------------------------ MODULE MCChpst ------------------------------
\* Values for the constants of Chpst: c1 may be given any options, c2 meets it
\* at the lock.
EXTENDS Chpst, TLC

CONSTANTS c1, c2, jail

AnyRequest ==
    [lock : {"no", "wait", "try"}, root : Roots, envdir : BOOLEAN,
     user : {"no", "env", "named", "numeric", "super"}, groups : BOOLEAN,
     nice : {-1, 1}, limits : {<<>>, <<1, 2>>, <<3>>}, session : {TRUE},
     stdio : {TRUE}]

\* -L with -/, and -l without.
LockRequest ==
    {[lock |-> l, root |-> IF l = "try" THEN jail ELSE Host, envdir |-> FALSE,
      user |-> "no", groups |-> FALSE, nice |-> 0, limits |-> <<>>,
      session |-> FALSE, stdio |-> FALSE] : l \in {"wait", "try"}}

ChpstRequests == (c1 :> AnyRequest) @@ (c2 :> LockRequest)
=============================================================================
