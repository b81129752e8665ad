------------------------- MODULE MCWapConnectionPool -------------------------
(* The instance of WapConnectionPool for TLC: the third call may find both *)
(* connections taken, while another thread closes the pool.                *)
EXTENDS WapConnectionPool

CONSTANTS c1, c2, c3, k1

ThreeCalls == {c1, c2, c3}
OneCloser  == {k1}
===============================================================================
