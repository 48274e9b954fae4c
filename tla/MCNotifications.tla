-------------------------- MODULE MCNotifications --------------------------
(* A small instance of Notifications for TLC: one event id of every kind   *)
(* of send.                                                                *)
EXTENDS Notifications

CONSTANTS k1, k2, k3, t1, t2

ThreeKeys == {k1, k2, k3}
TwoCallers == {t1, t2}

KindOfKey == [k \in Keys |->
            CASE k = k1 -> "raising" [] k = k2 -> "report" [] k = k3 -> "by_url"]
=============================================================================
