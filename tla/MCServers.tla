----------------------------- MODULE MCServers -----------------------------
(***************************************************************************)
(* Servers that share no state, side by side: the llama.cpp server of one  *)
(* model, and the queue of the hostbridge.  A behaviour exercises one of   *)
(* them.                                                                   *)
(*                                                                         *)
(* One inference session stops the server at once, two wait for an idle    *)
(* timeout.  Four executions share two keys, so that a hand-over can meet  *)
(* a cancellation in front and one behind it.                              *)
(***************************************************************************)
EXTENDS InferenceServer, AliasExecutionQueue

VARIABLE part   \* the server a behaviour exercises
servers == <<part, llamaVars, queueVars>>

Init == part \in {"llama", "queue"} /\ LlamaInit /\ QueueInit

Next ==
  \/ part = "llama" /\ LlamaNext /\ UNCHANGED <<part, queueVars>>
  \/ part = "queue" /\ QueueNext /\ UNCHANGED <<part, llamaVars>>

\* No server owes a step in its initial state: fairness asks nothing of those
\* that do not run.
FairSpec == Init /\ [][Next]_servers /\ LlamaFairness /\ QueueFairness
============================================================================
