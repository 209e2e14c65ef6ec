--------------------------- MODULE MC_FormatUUID ---------------------------
EXTENDS FormatUUID

\* Two bytes whose nibbles are all different, letters and digits.
MCByteValues == {163, 92}
=============================================================================
