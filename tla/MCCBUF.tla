------------------------------- MODULE MCCBUF -------------------------------
EXTENDS CBUF

\* Two columns a section, narrow in the middle of the image
Sections == [s \in 0 .. 15 |-> IF s = 1 THEN 1 ELSE 2]
=============================================================================
