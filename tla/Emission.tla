------------------------------ MODULE Emission ------------------------------
(* The events requests leave behind, and who emits them. *)
EXTENDS Integers

CONSTANTS
    Writers,     \* goroutines that record requests
    Events       \* the events, numbered from 1 in the order they are emitted

NoEvent == 0

ASSUME EmissionAssumption == Events \subseteq Nat \ {NoEvent}
=============================================================================
