--------------------------- MODULE MCUpdateSession ---------------------------
(* Small instances of UpdateSession: the hosts and hives that make the      *)
(* interesting branches reachable.                                           *)
EXTENDS UpdateSession

CONSTANTS p1, p2

Copies == {p1, p2}

Blank == [k \in Key |-> NoValue]

AllModes  == {"Reset", "Disable", "Enable", "Auto", "Prompt", "IgnoreSkip", "Reinstall"}
PairModes == {"Disable", "Auto"}

(* Checks every day and skips for one day. *)
Daily      == [Blank EXCEPT !["AutoInterval"] = 1, !["SkipInterval"] = 1]
DailyHives == {Daily}

(* The user set AutoCheck by hand, as the header of AutoUpdater.cpp invites. *)
TweakedHives == {[Daily EXCEPT !["AutoCheck"] = 1]}

(* The machine's hive turns checks on, and skips for ever by default. *)
Managed == [Blank EXCEPT !["AutoCheck"] = 1, !["SkipInterval"] = -1]

Terminal == [machine |-> Blank, console |-> TRUE, emulated |-> FALSE]
Desktop  == [machine |-> Blank, console |-> FALSE, emulated |-> FALSE]
Legacy   == [machine |-> Blank, console |-> FALSE, emulated |-> TRUE]
Office   == [machine |-> Managed, console |-> FALSE, emulated |-> FALSE]

AllHosts     == {Terminal, Legacy, Office}
DesktopHosts == {Desktop}
=============================================================================
