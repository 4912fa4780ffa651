--------------------------- MODULE PixelDelivery ---------------------------
(***************************************************************************)
(* What the pixel-chunk queue promises to the blocks after it.  The chunks *)
(* inside the region of interest are numbered in the order they arrive.  A *)
(* pixel owns the chunks of its main lobe, first .. last - 1, and is given *)
(* the window from .. to - 1 around it.  Main lobes do not overlap and     *)
(* come in the order of the scan.  Windows are delivered in that order,    *)
(* each one whole and chunk by chunk before the next is begun.             *)
(***************************************************************************)
EXTENDS Integers, Sequences

VARIABLES
    queue,  \* windows of the pixels found and not yet begun
    cur,    \* what is left of the window being delivered
    edge    \* no later main lobe begins before this chunk

Nothing == [from |-> 0, to |-> 0, first |-> 0, last |-> 0]

Init == queue = << >> /\ cur = Nothing /\ edge = -1

\* Chunks that belong to no pixel of the image
Skip == edge' > edge /\ UNCHANGED <<queue, cur>>

WindowOf(w) == w.from <= w.first /\ w.first < w.last /\ w.last <= w.to

Detect ==
    /\ Len(queue') = Len(queue) + 1
    /\ SubSeq(queue', 1, Len(queue)) = queue
    /\ LET w == queue'[Len(queue')]
       IN  WindowOf(w) /\ edge <= w.first /\ edge' = w.last
    /\ UNCHANGED cur

Take ==
    /\ cur.from = cur.to /\ queue # << >>
    /\ cur' = Head(queue) /\ queue' = Tail(queue)
    /\ UNCHANGED edge

Deliver ==
    /\ cur.from < cur.to
    /\ cur' = [cur EXCEPT !.from = @ + 1]
    /\ UNCHANGED <<queue, edge>>

Next == Skip \/ Detect \/ Take \/ Deliver

Spec == Init /\ [][Next]_<<queue, cur, edge>>
=============================================================================
