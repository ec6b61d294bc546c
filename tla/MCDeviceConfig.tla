--------------------------- MODULE MCDeviceConfig ---------------------------
(***************************************************************************)
(* Two commands at a time, two devices that call themselves the same, at   *)
(* most three new files and one hand edit.                                 *)
(***************************************************************************)
EXTENDS DeviceConfig

CONSTANTS first, second, watch, k1, k2

\* Both devices are enrolled, and both must agree.
Both == [devices |-> {[id |-> <<watch, 1>>, key |-> k1, tuned |-> TRUE],
                      [id |-> <<watch, 2>>, key |-> k2, tuned |-> FALSE]},
         required |-> 2]
FoundBoth == {Both}
=============================================================================
