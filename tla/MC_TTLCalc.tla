---------------------------- MODULE MC_TTLCalc ----------------------------
EXTENDS TTLCalc

CONSTANTS r1, r2, k1

MCRules == {r1, r2}
MCStaleKeys == {k1}
=============================================================================
