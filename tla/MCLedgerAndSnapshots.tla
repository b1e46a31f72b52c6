------------------------ MODULE MCLedgerAndSnapshots --------------------------
(***************************************************************************)
(* The monthly snapshots: three months, the last two kept, a cron and a    *)
(* dispatched job over a release of two datasets whose first is replaced,  *)
(* and restores of the first month's tag; and, on its own, the index       *)
(* ledger over the history of MCIndexScenario.  `which` names the one that *)
(* moves in a behaviour; nothing of the code relates them.                 *)
(***************************************************************************)
EXTENDS Snapshots, IndexLedger, MCIndexScenario

CONSTANTS cron, dispatch
VARIABLE which

Baseline(d, c) == [ds |-> d, kind |-> "base", content |-> c]
Delta(d, c) == [ds |-> d, kind |-> "delta", content |-> c]
MCPublished ==
  << {Baseline("reference", 1), Baseline("calls", 1)},
     {Baseline("reference", 2), Delta("reference", 3), Baseline("calls", 1)} >>
MCMonth == 1..3
MCJob == {cron, dispatch}
MCRestored == {1}

\* The history of MCIndexScenario but for f's new symbol is one of those that the
\* theorems of IndexLedgerProofs are about.
PlainStock == MCStock \ {"g"}
Unrenamed(s) == IF s = "g" THEN "f" ELSE s
PlainIsin == [s \in PlainStock |-> s]
PlainMembership ==
  [i \in MCIndex |-> [d \in MCDay |-> {Unrenamed(s) : s \in MCMembership[i][d]}]]
Plain == INSTANCE IndexLedger
           WITH Stock <- PlainStock, Master <- PlainStock, Isin <- PlainIsin,
                Membership <- PlainMembership
ASSUME Plain!LedgerAssumptions /\ Plain!OneNamePerIssuer /\ Plain!NseDoesAsAnnounced

MCInit == which \in {"ledger", "snapshots"} /\ Init /\ LedgerInit
MCNext ==
  \/ which = "ledger" /\ LedgerNext /\ UNCHANGED <<which, vars>>
  \/ which = "snapshots" /\ Next /\ UNCHANGED <<which, ledgerVars>>
MCSpec == MCInit /\ [][MCNext]_<<which, vars, ledgerVars>>
=============================================================================
