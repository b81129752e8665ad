------------------------------- MODULE WapValues -------------------------------
(***************************************************************************)
(* What the assertions tell apart among the values of a payload. Numbers   *)
(* are integers, in a unit small enough for the question; infinities are   *)
(* left out. Python compares NaN with everything as false.                 *)
(***************************************************************************)
EXTENDS Integers

CONSTANTS
    NaN,            \* the float: an instance of float, but no number
    Text            \* any value that is no int or float

ASSUME ValuesAssumption == NaN \notin Int /\ Text \notin Int /\ NaN # Text
===============================================================================
