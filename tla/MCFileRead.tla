---------------------------- MODULE MCFileRead ----------------------------
(* An instance of FileRead for TLC.                                        *)
EXTENDS FileRead

\* Chains in one run, in several runs, and running backwards.
MCChains == {<<>>, <<4, 5>>, <<5, 6, 3, 9>>, <<7, 8, 6, 5>>}
=============================================================================
