---------------------------- MODULE MCAccounts ----------------------------
(* Two tabs of one browser.                                              *)
EXTENDS Accounts, TLC

CONSTANTS tab1, tab2

TabsMC == {tab1, tab2}

(* Once requests have crossed no property promises anything: such          *)
(* histories are followed while there is one pair and nothing has failed.  *)
CrossedBriefly == crossed => failures = 0 /\ Len(tokens) = 1

Symmetry == Permutations(TabsMC)

===========================================================================
