---------------------------- MODULE MCMessaging ----------------------------
(* An instance of Messaging.                                               *)
EXTENDS Messaging

CONSTANTS p1, p2, p3, s1, s2, b1, b2, m1, m2

MCFirstRoute == [s \in Shards |-> IF s = 1 THEN p2 ELSE p1]
MCCarries == [k \in Senders \cup Broadcasts |-> IF k \in Senders THEN m1 ELSE m2]
=============================================================================
