-------------------------- MODULE MCEntityManager --------------------------
(* An instance of EntityManager.                                           *)
EXTENDS EntityManager, TLC

CONSTANTS e1, e2, m1, m2, s1, s2, s3

MCRecipient == [m \in Messages |-> IF m = m2 THEN e2 ELSE e1]
MCSends     == [s \in Senders |-> IF s = s3 THEN m2 ELSE m1]
=============================================================================
