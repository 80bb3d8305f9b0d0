-------------------------- MODULE MCConversations --------------------------
(***************************************************************************)
(* Turns, from two sides: three messages in the threads of a chat, with a  *)
(* purge and a failing relay (Conversations), and two turns of one thread  *)
(* in the container of their agent, with two commands about it and a fault *)
(* (AgentSandbox).  The two share no state: a behaviour exercises one of   *)
(* them.                                                                   *)
(***************************************************************************)
EXTENDS Conversations, AgentSandbox, TLC
CONSTANTS t1, t2, c1, c2, c3, a1, a2, d1, d2

MCThreads == {t1, t2}
MCCalls == {c1, c2, c3}
MCAgentTurns == {a1, a2}
MCSandboxCommands == {d1, d2}
MCSymmetry == Permutations(MCCalls) \cup Permutations(MCThreads)

VARIABLE part   \* what a behaviour exercises

MCInit == part \in {"conversations", "sandbox"} /\ Init /\ SandboxInit

MCNext ==
  \/ part = "conversations" /\ Next /\ UNCHANGED <<part, sandboxVars>>
  \/ part = "sandbox" /\ SandboxNext /\ UNCHANGED <<part, vars>>

MCSpec == MCInit /\ [][MCNext]_<<part, vars, sandboxVars>>

============================================================================
