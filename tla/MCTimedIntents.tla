--------------------------- MODULE MCTimedIntents ---------------------------
(***************************************************************************)
(* One thread with a heartbeat and a one-shot wake.  Two wake turns and    *)
(* one user turn let wakes pile up behind each other and behind a user.    *)
(***************************************************************************)
EXTENDS TimedIntents
CONSTANTS t1, w1, w2, u1

MCThreads == {t1}
MCKinds == {"heartbeat", "wake"}
MCWakeTurns == {w1, w2}
MCUserTurns == {u1}

==============================================================================
