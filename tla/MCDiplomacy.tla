------------------------------ MODULE MCDiplomacy ------------------------------
(***************************************************************************)
(* Two human empires, one of which sends more messages than the other, and   *)
(* an AI.                                                                    *)
(***************************************************************************)
EXTENDS Diplomacy

CONSTANTS h, k

MCHumanEmpires == {h, k}
MCMaxSent == [e \in {h, k} |-> IF e = h THEN 2 ELSE 1]
=============================================================================
