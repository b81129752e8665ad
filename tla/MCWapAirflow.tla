----------------------------- MODULE MCWapAirflow -----------------------------
(* The instance of WapAirflow for TLC: a task of a DAG with the operator's *)
(* defaults, and one that lets reviews pass and has no XCom.               *)
EXTENDS WapAirflow

CONSTANTS strict, lenient

TwoTasks == {strict, lenient}

StrictOnly == [t \in TwoTasks |-> t = strict]
===============================================================================
