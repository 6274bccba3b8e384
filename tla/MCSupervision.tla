--------------------------- MODULE MCSupervision ---------------------------
(* One ticket, whose worker may outlive SIGTERM and whose log may be unreadable, on which *)
(* TLC runs Supervision: two daemons one after the other and two gestures in all.         *)
EXTENDS Supervision
=============================================================================
