-------------------------- MODULE MCMainThreadGate --------------------------
EXTENDS MainThreadGate, TLC

CONSTANTS main, b1, b2, b3

MCBackground == {b1, b2, b3}
=============================================================================
