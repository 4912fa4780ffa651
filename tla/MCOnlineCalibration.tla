------------------------- MODULE MCOnlineCalibration -------------------------
EXTENDS OnlineCalibration

\* Two of three vertices share a section
McSection == [v \in 1..3 |-> IF v < 3 THEN 0 ELSE 1]

\* Images with scores 0, 6, 12, alike in all rows or fading towards the last one
McColumns == [-HalfW .. HalfW -> {0, 6, 12}]
McImages ==
    {[p \in Pixels |-> c[p[1]]] : c \in McColumns}
        \cup {[p \in Pixels |-> IF p[2] > 0 THEN 0 ELSE c[p[1]]] : c \in McColumns}

\* The first section on the middle row, the other vertex there or above the upper border,
\* where only the lens brings it into the image
McPlaces ==
    {[v \in 1..3 |-> CASE v = 1 -> <<a, 0>> [] v = 2 -> <<b, 0>> [] OTHER -> c] :
        a \in {-3, 0, 1}, b \in {1, 3}, c \in {<<-2, 0>>, <<1, 0>>, <<-2, 3>>}}

\* A lens that does not bend and one that does
McCoefficients == {0, -1}
=============================================================================
