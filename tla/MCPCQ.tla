------------------------------- MODULE MCPCQ -------------------------------
EXTENDS PCQ

\* Rows from above the side-lobe margin (2 rows) into the image
EnterRows == -3 .. 1

\* Columns a range finder reports, in quarter columns: outside, 0 and 1
RangeCols == {-8, 0, 4}
=============================================================================
