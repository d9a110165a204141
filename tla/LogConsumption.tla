--------------------------- MODULE LogConsumption ---------------------------
(***************************************************************************)
(* What the exporter promises about the pipeline's log stream, with none   *)
(* of the machinery that keeps the promise: every log reaches exactly one  *)
(* final outcome, in stream order, and an outcome never changes.  There    *)
(* are no transactions, crashes, redeliveries or acknowledgements here.    *)
(* ClearExporter is shown to implement this module.                        *)
(***************************************************************************)
EXTENDS Naturals

CONSTANT N                   \* length of the stream

VARIABLE outcome             \* outcome[l]: what became of log l

Outcomes == {"pending", "applied", "skipped"}

Init == outcome = [l \in 1..N |-> "pending"]

\* The oldest pending log reaches its outcome: its writes are in the database
\* ("applied") or its contract is not one the exporter follows ("skipped").
Consume(l) ==
  /\ outcome[l] = "pending"
  /\ \A m \in 1..N : m < l => outcome[m] # "pending"
  /\ \E o \in {"applied", "skipped"} : outcome' = [outcome EXCEPT ![l] = o]

Next == \E l \in 1..N : Consume(l)

Spec == Init /\ [][Next]_outcome
=============================================================================
