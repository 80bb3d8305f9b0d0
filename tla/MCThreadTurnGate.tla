-------------------------- MODULE MCThreadTurnGate --------------------------
(***************************************************************************)
(* Three turns over two threads.  A caller refers to at most one           *)
(* semaphore, so as many heap cells as callers never run out.              *)
(***************************************************************************)
EXTENDS ThreadTurnGate
CONSTANTS t1, t2, c1, c2, c3, s1, s2, s3

MCThreads == {t1, t2}
MCCallers == {c1, c2, c3}
MCSemaphores == {s1, s2, s3}

==============================================================================
