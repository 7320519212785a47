----------------------- MODULE MCNotificationDelivery -----------------------
(* Instances of NotificationDelivery for TLC: two state events (one of     *)
(* them visible), one visible bounce behind them.                          *)
EXTENDS NotificationDelivery

MCEventRows == {1, 2}
MCVisibleRows == {2, 3}
MCBounceRows == {3}
=============================================================================
