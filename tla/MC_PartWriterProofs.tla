------------------------ MODULE MC_PartWriterProofs ------------------------
EXTENDS PartWriterProofs

CONSTANTS c1, c2

MCColumns == {c1, c2}
MCConfigs == Config
=============================================================================
