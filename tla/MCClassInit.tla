---------------------------- MODULE MCClassInit ----------------------------
(***************************************************************************)
(* Instances of ClassInit for TLC.  A constructor may, but need not, use   *)
(* the classes its graph names: the largest graph without a circle and the *)
(* complete graph have the behaviours of every other graph, up to a        *)
(* renaming of the classes.                                                *)
(***************************************************************************)
EXTENDS ClassInit, TLC

CONSTANTS c1, c2, c3

MCClasses == {c1, c2, c3}
Ordered == (c1 :> {c2, c3}) @@ (c2 :> {c3}) @@ (c3 :> {})
Complete == [c \in Classes |-> Classes \ {c}]
MCGraphs == {Ordered, Complete}
============================================================================
