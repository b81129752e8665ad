---------------------------- MODULE MCWapPipeline ----------------------------
(* Instances of WapPipeline for TLC: one small world of payloads and two    *)
(* assertions, and for each question the calls that make it interesting.    *)
EXTENDS WapPipeline, TLC

CONSTANTS i1, i2, i3

Two   == {i1, i2}
Three == {i1, i2, i3}

Symmetry == Permutations(Invocations)

(* "usd" and "usd2" agree within tolerance, "off" does not agree with them. *)
(* "tuple" is stored as "usd"; "list" is a JSON array; "scalar" is refused. *)
MCPayloads == {"usd", "usd2", "off", "tuple", "list", "scalar"}

MCJsonb == [p \in MCPayloads |->
              CASE p = "tuple" -> "usd" [] p = "scalar" -> None [] OTHER -> p]

MCDictOf == [p \in MCPayloads |-> IF p = "list" THEN None ELSE p]

MCAssertions == {"fx", "rows"}
MCSeverityOf == [fx |-> "critical", rows |-> "warn"]

(* "fx" crashes on a list; "rows" compares the shape only. *)
MCVerdict ==
    [c \in MCAssertions \X MCPayloads \X MCPayloads |->
        CASE c[1] = "fx" /\ c[2] = "list" -> "raises"
          [] c[1] = "fx" /\ c[2] # "list" ->
                IF c[2] = c[3] \/ {c[2], c[3]} = {"usd", "usd2"}
                THEN "passed" ELSE "failed"
          [] c[1] = "rows" ->
                IF (c[2] = "list") = (c[3] = "list") THEN "passed" ELSE "failed"]

MCKeys   == {"k1", "k2", "a/b"}
MCRunIds == {"r1", "r2", "r3", "R4", "junk"}

MCValidKeys       == {"k1", "k2"}
MCValidRunIds     == {"r1", "r2", "r3", "R4"}
MCCanonicalRunIds == {"r1", "r2", "r3"}

Both == {"fx", "rows"}

ToCall(key, data, suite, source, run) ==
    [key |-> key, data |-> data, suite |-> suite, source |-> source, run |-> run]

(* A bootstrap run, its successors, a wrong rate, a list on which one       *)
(* assertion crashes, and a dataset that never had a snapshot.              *)
FreshCalls ==
    {ToCall("k1", "tuple", Both, "usd", "r1"),
     ToCall("k1", "usd2", Both, Snapshot, "r2"),
     ToCall("k1", "off", Both, Snapshot, "r3"),
     ToCall("k1", "usd", Both, Snapshot, "r3"),
     ToCall("k1", "list", Both, "list", "r2"),
     ToCall("k2", "usd", Both, Snapshot, "r3")}

(* Calls that pass one run_id on, for the same dataset and for another. *)
ReuseCalls ==
    {ToCall("k1", "usd", Both, "usd", "r1"),
     ToCall("k1", "off", Both, "usd", "r1"),
     ToCall("k2", "usd", Both, "usd2", "r1"),
     ToCall("k2", "list", Both, "list", "r1"),
     ToCall("k1", "usd2", Both, Snapshot, "r2")}

(* Those, and every way the arguments themselves are refused. *)
RefusedCalls ==
    {ToCall("k1", "usd", {}, "usd", "r1"),
     ToCall("k1", "usd", Both, "usd", "junk"),
     ToCall("k1", "usd", Both, "usd", "R4"),
     ToCall("a/b", "usd", Both, "usd", "r2"),
     ToCall("k1", "scalar", Both, "usd", "r3"),
     ToCall("k1", "list", {"rows"}, "list", "r1")}

AllCalls == ReuseCalls \cup RefusedCalls
===============================================================================
