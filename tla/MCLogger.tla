------------------------------ MODULE MCLogger ------------------------------
(* The client and two other ids, each had by two threads in turn, and a table *)
(* with room for two.                                                        *)
EXTENDS Logger

CONSTANTS client, w1, w2

Workers == {w1, w2}
=============================================================================
