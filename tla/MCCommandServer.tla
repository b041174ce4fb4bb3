---------------------------- MODULE MCCommandServer ----------------------------
(***************************************************************************)
(* CommandServer for TLC: a client whose second line comes behind a first, *)
(* and one that keeps it company.                                          *)
(***************************************************************************)
EXTENDS CommandServer

CONSTANTS c1, c2

MCClients == {c1, c2}
MCMaxLines == [c \in MCClients |-> IF c = c1 THEN 2 ELSE 0]
=============================================================================
