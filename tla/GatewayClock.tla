---------------------------- MODULE GatewayClock ----------------------------
(* The wall clock of the gateway process, read by Date.now() and new Date(). *)
EXTENDS Naturals

CONSTANT MaxTime  \* bound: ticks

VARIABLE now

ASSUME ClockAssumption == MaxTime \in Nat

Tick == now < MaxTime /\ now' = now + 1
=============================================================================
