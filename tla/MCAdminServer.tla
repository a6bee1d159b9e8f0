---------------------------- MODULE MCAdminServer ----------------------------
(* A small instance of AdminServer: every connection has its own address.  *)
EXTENDS AdminServer, TLC

CONSTANTS a, b, x, y

MCSessions  == {a, b}
MCAddresses == {x, y}
OwnAddress  == (a :> x) @@ (b :> y)
=============================================================================
