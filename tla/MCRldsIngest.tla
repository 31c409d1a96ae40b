---------------------------- MODULE MCRldsIngest ----------------------------
\* RldsIngest on small instances.
EXTENDS RldsIngest, TLC

CONSTANTS t1, t2, t3, p1, p2

\* Threads t1 and t2 share process p1 and its locks; t3 is alone in p2.
MCProcessOf == [t \in Threads |-> IF t = t3 THEN p2 ELSE p1]

\* Two episodes, of two steps and of one.
MCStepsOf == (0 :> 2) @@ (1 :> 1)
=============================================================================
