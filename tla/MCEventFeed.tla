---------------------------- MODULE MCEventFeed -----------------------------
(* TLC instance of EventFeed: the constants are given in the configuration.  *)
EXTENDS EventFeed
=============================================================================
