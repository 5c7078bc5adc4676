---- MODULE MCNotifications ----
(* A small instance of Notifications, and with it of WebSession, for TLC. *)
EXTENDS Notifications

OneOfTheFirst == <<"u1">>
====
