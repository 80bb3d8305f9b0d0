-------------------------- MODULE MCThreadMapping --------------------------
(***************************************************************************)
(* A chat with two Telegram topics, of which the default one is visible,   *)
(* and a mailbox: its mail falls back to that thread, and an operator may  *)
(* bind another topic of it.                                               *)
(*                                                                         *)
(* Beside it, the admission that comes before (Inbound).  They share no    *)
(* state, and a behaviour exercises one of them, so that TLC does not      *)
(* multiply their states.                                                  *)
(***************************************************************************)
EXTENDS ThreadMapping, Inbound, TLC
CONSTANTS general, side, mail, letter, telegram, gmail, c1, c2, c3, b1, d1, d2

MCTopics == {general, side, mail, letter}
MCChannelTopics == {mail}
MCVisibleTopics == {general}
MCComponent == [t \in MCTopics |-> IF t \in {mail, letter} THEN gmail ELSE telegram]
MCCalls == {c1, c2, c3}
MCBinders == {b1}
MCInboundCalls == {d1, d2}
MCSymmetry == Permutations(MCCalls) \cup Permutations(MCInboundCalls)

VARIABLE part   \* what a behaviour exercises

MCInit == part \in {"mapping", "admission"} /\ Init /\ InboundInit

MCNext ==
  \/ part = "mapping" /\ Next /\ UNCHANGED <<part, inboundVars>>
  \/ part = "admission" /\ InboundNext /\ UNCHANGED <<part, vars>>

MCSpec == MCInit /\ [][MCNext]_<<part, vars, inboundVars>>

==============================================================================
