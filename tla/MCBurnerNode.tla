----------------------------- MODULE MCBurnerNode -----------------------------
(***************************************************************************)
(* An instance of BurnerNode: the first node with the Monad and a vat made *)
(* later, a second node with its NodeMan.                                  *)
(***************************************************************************)
EXTENDS BurnerNode

CONSTANTS n0, n1, monad, nodeman, program

TwoNodes == {n0, n1}
ThreeVats == {monad, nodeman, program}
HomeOfVat == [v \in ThreeVats |-> IF v = nodeman THEN n1 ELSE n0]
Sends == [v \in ThreeVats |-> IF v = monad THEN 2 ELSE 0]
=============================================================================
