---------------------------- MODULE MCProgressUI ----------------------------
(* Both interfaces, one after the other two indicators of one report each:   *)
(* the first may still be stopping, or left over, when the second starts.    *)
EXTENDS ProgressUI

BothInterfaces == {"dialog", "bar"}
=============================================================================
