--------------------------- MODULE MCEventEmitter ---------------------------
(* A small instance of EventEmitter: one typed and one wildcard subscriber. *)
EXTENDS EventEmitter

CONSTANTS session, tls, any, s1, s2

MCTypes         == {session, tls}
MCSubscriptions == {s1, s2}
MCTopic         == (s1 :> session) @@ (s2 :> any)
MCTypeOf        == [e \in 1..MaxEvents |-> IF e = 2 THEN tls ELSE session]
=============================================================================
