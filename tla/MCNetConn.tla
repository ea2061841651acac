------------------------------ MODULE MCNetConn ------------------------------
(* Instances of NetConn for TLC.                                           *)
EXTENDS NetConn

(* Every row with a reader, one reader after a lost one, none at all.      *)
SomeRows == {<<"used", "used">>, <<"lost", "used">>, <<"free", "free">>}
=============================================================================
