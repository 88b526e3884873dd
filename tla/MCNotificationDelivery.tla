------------------------ MODULE MCNotificationDelivery ------------------------
(* Small instances of NotificationDelivery: t1 and t2 carry the same payload *)
(* for two quotes; t3 asks for the notification of t1's quote again, under  *)
(* another name and so with another payload.                                *)
EXTENDS NotificationDelivery

CONSTANTS t1, t2, t3, n1, n2, m1, m2

MCNotificationOf == [t \in Tasks |-> IF t = t2 THEN n2 ELSE n1]
MCMarkOf         == [t \in Tasks |-> IF t = t3 THEN m2 ELSE m1]
==============================================================================
