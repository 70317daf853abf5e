------------------------------ MODULE NmbmSerial ------------------------------
(***************************************************************************)
(* What the bad-block core needs of the layer above it: at most one caller *)
(* is inside the core at a time, and once the device is switched off no    *)
(* caller enters it again.  Module Nmbm, which runs each core operation to *)
(* completion before the next one starts, is written on this assumption.   *)
(***************************************************************************)
CONSTANTS Callers, None

VARIABLES inside,   \* the caller inside the core, or None
          off       \* the device has been switched off

vars == <<inside, off>>

Init == inside = None /\ off = FALSE

Enter(c) ==
    /\ inside = None /\ ~off
    /\ inside' = c
    /\ UNCHANGED off

Leave ==
    /\ inside # None
    /\ inside' = None
    /\ UNCHANGED off

SwitchOff ==
    /\ inside = None /\ ~off
    /\ off' = TRUE
    /\ UNCHANGED inside

Next == (\E c \in Callers : Enter(c)) \/ Leave \/ SwitchOff

Spec == Init /\ [][Next]_vars
=============================================================================
