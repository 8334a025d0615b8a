----------------------------- MODULE MCCustody -----------------------------
EXTENDS Custody
CONSTANTS w1, w2
=============================================================================
