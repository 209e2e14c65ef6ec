------------------------- MODULE MC_WriteIPv4Text -------------------------
EXTENDS WriteIPv4Text

\* Octets of one, two and three digits, 255 among them, in every position
\* but the first: TLC's integers are signed 32-bit, so the first octet stays
\* below 128.
MCOctets == {0, 7, 100, 255}
MCIPs == {((o1 * 256 + o2) * 256 + o3) * 256 + o4 :
            o1 \in {0, 7, 100, 127}, o2 \in MCOctets, o3 \in MCOctets, o4 \in MCOctets}
=============================================================================
