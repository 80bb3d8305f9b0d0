------------------------------ MODULE FifoLine ------------------------------
(***************************************************************************)
(* What callers are promised by the hostbridge's alias queue: per key one  *)
(* line in order of arrival.  Only the first in line may run, and closing  *)
(* sends everybody behind it away and lets nobody new run.                 *)
(* AliasExecutionQueue is shown to implement this specification.           *)
(***************************************************************************)
EXTENDS Sequences, Naturals

CONSTANTS Keys, Callers

VARIABLES
  line,     \* per key, the callers in order of arrival
  running,  \* the callers that execute
  open

vars == <<line, running, open>>

Init ==
  /\ line = [k \in Keys |-> <<>>]
  /\ running = {}
  /\ open = TRUE

\* A caller that finds no line runs at once.
Join(c, k) ==
  /\ open
  /\ line' = [line EXCEPT ![k] = Append(@, c)]
  /\ running' = IF line[k] = <<>> THEN running \cup {c} ELSE running
  /\ UNCHANGED open

Enter(c, k) ==
  /\ open
  /\ line[k] # <<>> /\ Head(line[k]) = c
  /\ running' = running \cup {c}
  /\ UNCHANGED <<line, open>>

\* The end of an execution, or a caller that gives up.
Leave(k, i) ==
  /\ i \in 1..Len(line[k])
  /\ line' = [line EXCEPT ![k] = SubSeq(@, 1, i - 1) \o SubSeq(@, i + 1, Len(@))]
  /\ running' = running \ {line[k][i]}
  /\ UNCHANGED open

Close ==
  /\ open' = FALSE
  /\ line' = [k \in Keys |-> IF line[k] = <<>> THEN <<>> ELSE <<Head(line[k])>>]
  /\ UNCHANGED running

Next ==
  \/ \E c \in Callers, k \in Keys : Join(c, k) \/ Enter(c, k)
  \/ \E k \in Keys : \E i \in 1..Len(line[k]) : Leave(k, i)
  \/ Close

Spec == Init /\ [][Next]_vars

==============================================================================
