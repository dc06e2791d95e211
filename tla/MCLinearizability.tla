------------------------- MODULE MCLinearizability -------------------------
(***************************************************************************)
(* Every small history, of five profiles.                                  *)
(***************************************************************************)
EXTENDS Linearizability, TLC

CONSTANTS k1, k2, v1, v2

ARegister == [key |-> {k1}, value |-> {v1, v2}, kind |-> {"Get", "Put"},
              horizon |-> 4, numOps |-> 3, budget |-> 100]
ACell == [ARegister EXCEPT !.value = {v1}, !.kind = {"Get", "Put", "Delete", "Cas"}]
TwoKeys == [ARegister EXCEPT !.key = {k1, k2}, !.value = {v1}, !.horizon = 3]
FourOps == [ARegister EXCEPT !.value = {v1}, !.horizon = 3, !.numOps = 4]
ASmallBudget == [ARegister EXCEPT !.horizon = 3, !.budget = 7]

AllProfiles == {ARegister, ACell, TwoKeys, FourOps, ASmallBudget}
=============================================================================
