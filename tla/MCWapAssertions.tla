---------------------------- MODULE MCWapAssertions ----------------------------
(* The instance of WapAssertions for TLC. A rate moves by more than the    *)
(* tolerance of 1 when it moves by 2; a value of a sample is below 1e-10   *)
(* in size when it is below 2.                                             *)
EXTENDS WapAssertions

MCNames == {"usd_gbp", "usd_eur", "row_count"}
MCRates == 0 .. 2

MCCounts == {-2, 0, 1, 2, 3, 4, 5, 6, 8, 12}

MCSamples ==
    UNION {[1 .. n -> {-5, 0, 1, 5}] : n \in 1 .. 3}
        \cup {<<>>, <<NaN>>, <<1, NaN>>, <<1, Text>>, NoList}

MCDriftConfigs ==
    [max_mean_drift : {5, 50}, max_stddev_drift : {10, 60}, min_sample_size : {1, 2}]
===============================================================================
