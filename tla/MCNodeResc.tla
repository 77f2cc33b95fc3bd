----------------------------- MODULE MCNodeResc -----------------------------
(* Vnodes "n1", "n2", ... with one consumable resource R.                  *)
EXTENDS NodeResc

\* ncpus 0, 1 or 2 on "n1" (so subnodes are added and removed); no request
\* or report changes ncpus elsewhere, which stays at its initial 1
CapFirstTwo == [n \in Nodes |-> IF n = "n1" THEN 0..2 ELSE {}]
====
