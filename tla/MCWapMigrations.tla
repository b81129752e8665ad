---------------------------- MODULE MCWapMigrations ----------------------------
(* The instance of WapMigrations for TLC: an empty directory, an old       *)
(* deployment without the second file, and a new one with a file of each   *)
(* kind; two runners start up to twice.                                    *)
EXTENDS WapMigrations

CONSTANTS r1, r2

Two == {r1, r2}

MCFiles    == {1, 2, 3}
OldAndNew  == {{}, {1, 3}, {1, 2, 3}}
MixedKinds == <<"guarded", "strict", "repeats">>
===============================================================================
