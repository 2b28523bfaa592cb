---------------------------- MODULE MCFatWrite ----------------------------
(* Instances of FatWrite for TLC.                                          *)
EXTENDS FatWrite

CONSTANTS f1, f2

Chains(a, b) == [f \in Files |-> IF f = f1 THEN a ELSE b]

\* An empty volume, and volumes whose free clusters are in pieces.
MCPreload == {Chains(<<>>, <<>>), Chains(<<2>>, <<4>>), Chains(<<2, 3, 4>>, <<>>),
              Chains(<<7, 4, 2>>, <<6>>)}
=============================================================================
