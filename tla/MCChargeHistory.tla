--------------------------- MODULE MCChargeHistory ---------------------------
EXTENDS ChargeHistory, TLC
=============================================================================
