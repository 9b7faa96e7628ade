------------------------------ MODULE MCPolicyPage ------------------------------
(* Small instances of PolicyPage for TLC.                                    *)
EXTENDS PolicyPage

CONSTANTS name, description, v0, v1, gA, gDot

MCSeed == [f \in Fields |-> v0]

(* gDot is gA followed by a dot and more, which Spring takes for a suffix.   *)
MCPathGroup == [g \in Groups |-> gA]
================================================================================
