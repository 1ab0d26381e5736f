--------------------------- MODULE MCReconcileLoop ----------------------------
(* A small instance of ReconcileLoop for TLC.                              *)
EXTENDS ReconcileLoop

TwoKeys == {"org1", "org2"}
TwoWorkers == {"w1", "w2"}
===============================================================================
