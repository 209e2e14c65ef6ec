--------------------------- MODULE MC_PartWriter ---------------------------
EXTENDS PartWriter

CONSTANTS c1, c2

MCColumns == {c1, c2}

\* Every combination of part settings.
MCConfigs == Config

\* Settings of a part without custom partitioning: no min-max index.
MCConfigsPlain == {c \in Config : ~c.customPartitioning}
=============================================================================
