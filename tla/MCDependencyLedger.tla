------------------------- MODULE MCDependencyLedger -------------------------
(***************************************************************************)
(* A package of the runtime and two for printing, one of which needs the   *)
(* other.                                                                  *)
(***************************************************************************)
EXTENDS DependencyLedger, TLC

CONSTANTS ydotool, cups, filters, core, printing

MCDepends == [p \in Package |-> IF p = filters THEN {cups} ELSE {}]
MCPackagesOf ==
  [f \in Profile |-> IF f = core THEN {ydotool} ELSE {cups, filters}]
=============================================================================
