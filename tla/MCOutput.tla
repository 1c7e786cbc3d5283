------------------------------- MODULE MCOutput -------------------------------
\* Two streams, one of them longer and perhaps with a line too long to scan, for TLC.
EXTENDS Output

MCLines == [s \in Streams |-> IF s = "stdout" THEN 3 ELSE 1]
MCLongLines == {<<"stdout", 2>>}
MCEventTexts == {<<"event", 0>>}
MCTexts == Printed \cup MCEventTexts

=============================================================================
