------------------------- MODULE MC_ExternalQuery -------------------------
EXTENDS ExternalQuery

CONSTANTS a, u

MCKnown == {a}
MCUnknown == {u}
=============================================================================
