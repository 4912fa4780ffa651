--------------------------- MODULE CmaFilterProofs ---------------------------
(***************************************************************************)
(* Proofs about the CMA filter, for every image and every order in which   *)
(* the rows interleave.  The code finds the pixel to smooth by a slot      *)
(* number, rowIndex; the invariant says which pixel of the row that is.    *)
(***************************************************************************)
EXTENDS CmaFilter, SequenceTheorems, TLAPS

Typed ==
    /\ phase \in {"stream", "flush", "done"}
    /\ refs \in [Rows -> Seq(Cols)]
    /\ start \in [Rows -> 0 .. 3] /\ rowIndex \in [Rows -> 0 .. 3]
    /\ rowCounters \in [Rows -> 0 .. 2] /\ rowPtrs \in [Rows -> 0 .. 2]
    /\ flushRow \in 0 .. NRows /\ nIn \in Nat
    /\ arrived \in [Rows -> Seq(Cols)] /\ smoothed \in [Rows -> Seq(Cols)]
    /\ invalidPop = FALSE
    /\ phase = "stream" => flushRow = 0
    /\ phase = "done" => flushRow = NRows

\* Pixels of a row that arrived, and that were smoothed
N(y) == Len(arrived[y])
K(y) == Len(smoothed[y])

\* The FIFO holds the last pixels that arrived, at most three.
RefsAreLast(y) ==
    /\ N(y) < MaxRefs => Len(refs[y]) = N(y)
    /\ N(y) >= MaxRefs => Len(refs[y]) = MaxRefs
    /\ \A j \in 1 .. Len(refs[y]) : refs[y][j] = arrived[y][N(y) - Len(refs[y]) + j]

\* m_start and rowIndex are the slots of the oldest pixel in the FIFO and of the
\* next one to smooth, if pixels take the slots in turn.
SlotsMatch(y) ==
    /\ start[y] = (N(y) - Len(refs[y])) % FifoSlots
    /\ rowIndex[y] = K(y) % FifoSlots

\* Smoothing is two pixels behind while pixels arrive, and done when the row was
\* flushed.
Lag(y) ==
    /\ K(y) <= N(y) /\ N(y) <= K(y) + 2
    /\ N(y) < 2 => rowCounters[y] = 2 - N(y)
    /\ N(y) >= 2 => rowCounters[y] = 0
    /\ phase = "stream" => (N(y) < 2 /\ K(y) = 0) \/ (N(y) >= 2 /\ K(y) = N(y) - 2)
    /\ y < flushRow => K(y) = N(y)

InOrder(y) == \A j \in 1 .. K(y) : smoothed[y][j] = arrived[y][j]

RowInv(y) == RefsAreLast(y) /\ SlotsMatch(y) /\ Lag(y) /\ InOrder(y)

\* The window shown last; a pixel smoothed while pixels arrive has one after it.
WindowInv ==
    /\ NeighboursAdjacent
    /\ window.y # None =>
          /\ window.y \in Rows /\ window.j \in 1 .. N(window.y)
          /\ phase = "stream" => window.j < N(window.y)

IInv == Typed /\ (\A y \in Rows : RowInv(y)) /\ WindowInv

\* The neighbours of a row's j-th pixel
Before(y, j) == IF j > 1 THEN arrived[y][j - 1] ELSE None
After(y, j) ==
    IF j < N(y) THEN arrived[y][j + 1] ELSE IF j > 2 THEN arrived[y][j - 2] ELSE None

-----------------------------------------------------------------------------
(* Slots *)

LEMMA SlotNext == ASSUME NEW a \in Nat PROVE Next4(a % FifoSlots) = (a + 1) % FifoSlots
BY DEF Next4, FifoSlots

LEMMA RowTyped ==
    ASSUME Typed, NEW y \in Rows
    PROVE  /\ y \in Nat /\ N(y) \in Nat /\ K(y) \in Nat /\ Len(refs[y]) \in Nat
           /\ refs[y] \in Seq(Cols) /\ arrived[y] \in Seq(Cols) /\ smoothed[y] \in Seq(Cols)
<1>1. refs[y] \in Seq(Cols) /\ arrived[y] \in Seq(Cols) /\ smoothed[y] \in Seq(Cols)
  BY DEF Typed
<1> QED BY <1>1 DEF N, K, Rows

\* rowIndex finds the first pixel that was not smoothed.
LEMMA OrderIs ==
    ASSUME Typed, NEW y \in Rows, RowInv(y)
    PROVE  /\ Order(y) = K(y) - (N(y) - Len(refs[y])) /\ Order(y) \in 0 .. Len(refs[y])
           /\ N(y) - Len(refs[y]) \in Nat /\ Len(refs[y]) \in 0 .. MaxRefs
<1> DEFINE n == N(y)
           k == K(y)
           r == Len(refs[y])
<1>1. n \in Nat /\ k \in Nat /\ r \in Nat
  BY RowTyped
<1>2. /\ n < 3 => r = n
      /\ n >= 3 => r = 3
      /\ k <= n /\ n <= k + 2
  BY DEF RowInv, RefsAreLast, Lag, MaxRefs
<1>3. Order(y) = ((k % 4) - ((n - r) % 4)) % 4
  BY DEF RowInv, SlotsMatch, Order, FifoSlots
<1> HIDE DEF n, k, r
<1>4. n - r \in Nat /\ k - (n - r) \in 0 .. r /\ r \in 0 .. 3
  <2>1. CASE n < 3
    BY <1>1, <1>2, <2>1
  <2>2. CASE n >= 3
    BY <1>1, <1>2, <2>2
  <2> QED BY <1>1, <2>1, <2>2
<1>5. ASSUME NEW a \in Nat, NEW b \in Nat, b - a \in 0 .. 3
      PROVE  ((b % 4) - (a % 4)) % 4 = b - a
  BY <1>5
<1>6. k - (n - r) \in 0 .. 3
  BY <1>1, <1>4
<1>7. Order(y) = k - (n - r)
  BY <1>1, <1>3, <1>4, <1>5, <1>6
<1> QED BY <1>1, <1>4, <1>7 DEF n, k, r, MaxRefs

-----------------------------------------------------------------------------
(* Smoothing a pixel *)

\* The pixel smoothed is the next one of the row, with its neighbours.
LEMMA SmoothNextIs ==
    ASSUME Typed, NEW y \in Rows, RowInv(y), K(y) < N(y), SmoothNext(y)
    PROVE  /\ smoothed' = [smoothed EXCEPT ![y] = Append(@, arrived[y][K(y) + 1])]
           /\ arrived[y][K(y) + 1] \in Cols
           /\ window'.y = y /\ window'.j = K(y) + 1
           /\ <<window'.left, window'.right>>
                 \in {<<Before(y, K(y) + 1), After(y, K(y) + 1)>>,
                      <<After(y, K(y) + 1), Before(y, K(y) + 1)>>}
<1> DEFINE n == N(y)
           k == K(y)
           r == Len(refs[y])
           o == Order(y)
           s == arrived[y]
<1>1. n \in Nat /\ k \in Nat /\ r \in Nat /\ s \in Seq(Cols) /\ n = Len(s)
  BY RowTyped DEF N
<1>2. o = k - (n - r) /\ o \in 0 .. r /\ n - r \in Nat /\ r \in 0 .. 3
  BY OrderIs DEF MaxRefs
<1>3. /\ n < 3 => r = n
      /\ n >= 3 => r = 3
      /\ \A j \in 1 .. r : refs[y][j] = s[(n - r) + j]
      /\ k < n /\ n <= k + 2
  BY DEF RowInv, RefsAreLast, Lag, MaxRefs
<1>4. smoothed' = [smoothed EXCEPT ![y] = Append(@, refs[y][o + 1])]
      /\ window' = [y |-> y, j |-> k + 1, left |-> RowWindow(y, o)[1], right |-> RowWindow(y, o)[2]]
  BY DEF SmoothNext, K
<1>5. RowWindow(y, o) =
         LET left == IF o > 0 THEN refs[y][o] ELSE None
             right == IF o + 1 < r THEN refs[y][o + 2]
                      ELSE IF r = 3 THEN refs[y][1] ELSE None
         IN  IF rowPtrs[y] = 0 THEN <<right, left>> ELSE <<left, right>>
  BY DEF RowWindow, MaxRefs
<1> HIDE DEF n, k, r, o, s
<1>6. refs[y][o + 1] = s[k + 1] /\ s[k + 1] \in Cols
  <2>1. o + 1 \in 1 .. r /\ n - r + (o + 1) = k + 1 /\ k + 1 \in 1 .. n
    BY <1>1, <1>2, <1>3
  <2>2. refs[y][o + 1] = s[n - r + (o + 1)]
    BY <1>3, <2>1
  <2> QED BY <1>1, <2>1, <2>2
<1>7. (IF o > 0 THEN refs[y][o] ELSE None) = (IF k + 1 > 1 THEN s[k] ELSE None)
  <2>1. o > 0 <=> k > 0
    BY <1>1, <1>2, <1>3
  <2>2. CASE o > 0
    <3>1. refs[y][o] = s[n - r + o] /\ n - r + o = k
      BY <1>1, <1>2, <1>3, <2>2
    <3> QED BY <1>1, <2>1, <2>2, <3>1
  <2> QED BY <1>1, <1>2, <2>1, <2>2
<1>8. (IF o + 1 < r THEN refs[y][o + 2] ELSE IF r = 3 THEN refs[y][1] ELSE None)
        = (IF k + 1 < n THEN s[k + 2] ELSE IF k + 1 > 2 THEN s[k - 1] ELSE None)
  <2>1. o + 1 < r <=> k + 1 < n
    BY <1>1, <1>2, <1>3
  <2>2. CASE o + 1 < r
    <3>1. refs[y][o + 2] = s[n - r + (o + 2)] /\ n - r + (o + 2) = k + 2
      BY <1>1, <1>2, <1>3, <2>2
    <3> QED BY <2>1, <2>2, <3>1
  <2>3. CASE ~(o + 1 < r)
    <3>1. k + 1 = n /\ (r = 3 <=> k + 1 > 2)
      BY <1>1, <1>2, <1>3, <2>1, <2>3
    <3>2. r = 3 => refs[y][1] = s[n - r + 1] /\ n - r + 1 = k - 1
      BY <1>1, <1>2, <1>3, <3>1
    <3> QED BY <2>1, <2>3, <3>1, <3>2
  <2> QED BY <2>2, <2>3
<1>9. /\ window'.y = y /\ window'.j = k + 1
      /\ window'.left = RowWindow(y, o)[1] /\ window'.right = RowWindow(y, o)[2]
  BY <1>4
<1>10. <<window'.left, window'.right>> = RowWindow(y, o)
  BY <1>5, <1>9
<1>11. /\ Before(y, k + 1) = IF k + 1 > 1 THEN s[k] ELSE None
       /\ After(y, k + 1) = IF k + 1 < n THEN s[k + 2]
                            ELSE IF k + 1 > 2 THEN s[k - 1] ELSE None
  BY <1>1 DEF Before, After, n, s
<1>12. <<window'.left, window'.right>>
         \in {<<Before(y, k + 1), After(y, k + 1)>>, <<After(y, k + 1), Before(y, k + 1)>>}
  <2>1. RowWindow(y, o) = <<Before(y, k + 1), After(y, k + 1)>>
        \/ RowWindow(y, o) = <<After(y, k + 1), Before(y, k + 1)>>
    BY <1>5, <1>7, <1>8, <1>11
  <2> QED BY <1>10, <2>1
<1>13. smoothed' = [smoothed EXCEPT ![y] = Append(@, s[k + 1])]
  BY <1>4, <1>6
<1> QED BY <1>6, <1>9, <1>12, <1>13 DEF k, s

-----------------------------------------------------------------------------
(* A pixel arrives *)

\* A row whose own variables do not change
LEMMA RowUnchanged ==
    ASSUME NEW y \in Rows, RowInv(y),
           refs'[y] = refs[y], start'[y] = start[y], rowIndex'[y] = rowIndex[y],
           rowCounters'[y] = rowCounters[y], arrived'[y] = arrived[y],
           smoothed'[y] = smoothed[y],
           phase' = "stream" => phase = "stream", y < flushRow' => K(y) = N(y)
    PROVE  RowInv(y)'
BY DEF RowInv, RefsAreLast, SlotsMatch, Lag, InOrder, N, K

\* Nothing leaves the FIFO before it is smoothed, and rowIndex goes on by one if
\* a pixel was smoothed.
LEMMA IndexMoves ==
    ASSUME Typed, phase = "stream", NEW y \in Rows, RowInv(y)
    PROVE  /\ ~PopsUnsmoothed(y)
           /\ Waiting(y) => IndexAfterSmooth(y) = K(y) % FifoSlots
           /\ ~Waiting(y) => IndexAfterSmooth(y) = (K(y) + 1) % FifoSlots
<1> DEFINE n == N(y)
           k == K(y)
           r == Len(refs[y])
<1>1. n \in Nat /\ k \in Nat /\ r \in Nat
  BY RowTyped
<1>2. /\ n < 3 => r = n
      /\ n >= 3 => r = 3
      /\ n < 2 => rowCounters[y] = 2 - n
      /\ n >= 2 => rowCounters[y] = 0
      /\ (n < 2 /\ k = 0) \/ (n >= 2 /\ k = n - 2)
      /\ start[y] = (n - r) % FifoSlots /\ rowIndex[y] = k % FifoSlots
  BY DEF RowInv, RefsAreLast, Lag, SlotsMatch, MaxRefs
<1>3. Next4(k % FifoSlots) = (k + 1) % FifoSlots
  BY <1>1, SlotNext
<1>4. /\ Waiting(y) => IndexAfterSmooth(y) = k % FifoSlots
      /\ ~Waiting(y) => IndexAfterSmooth(y) = (k + 1) % FifoSlots
  BY <1>2, <1>3 DEF IndexAfterSmooth
<1>5. ~PopsUnsmoothed(y)
  <2> SUFFICES ASSUME r = 3, start[y] = IndexAfterSmooth(y) PROVE FALSE
    BY DEF PopsUnsmoothed, Full, MaxRefs
  <2> HIDE DEF n, k, r
  <2>1. n >= 3 /\ k = n - 2
    BY <1>1, <1>2
  <2>2. ~Waiting(y)
    BY <1>2, <2>1 DEF Waiting
  <2>3. (n - 3) % 4 = (n - 1) % 4
    BY <1>1, <1>2, <1>4, <2>1, <2>2 DEF FifoSlots
  <2> QED BY <1>1, <2>1, <2>3
<1> QED BY <1>4, <1>5

\* What an iteration of the loop over the input does besides Push
SmoothsAhead(y) ==
    /\ phase' = phase /\ flushRow' = flushRow /\ nIn' \in Nat
    /\ Waiting(y) => smoothed' = smoothed
    /\ ~Waiting(y) =>
          /\ K(y) < N(y) /\ arrived[y][K(y) + 1] \in Cols
          /\ smoothed' = [smoothed EXCEPT ![y] = Append(@, arrived[y][K(y) + 1])]

\* Push keeps the row, if the pixel that was the next to smooth has been smoothed.
LEMMA PushKeepsRow ==
    ASSUME Typed, phase = "stream", NEW y \in Rows, RowInv(y), NEW x \in Cols, Push(y, x),
           SmoothsAhead(y)
    PROVE  /\ RowInv(y)' /\ Typed' /\ arrived' = [arrived EXCEPT ![y] = Append(@, x)]
           /\ \A q \in Rows : q # y =>
                 /\ refs'[q] = refs[q] /\ start'[q] = start[q] /\ rowIndex'[q] = rowIndex[q]
                 /\ rowCounters'[q] = rowCounters[q] /\ arrived'[q] = arrived[q]
                 /\ smoothed'[q] = smoothed[q]
<1> DEFINE n == N(y)
           k == K(y)
           r == Len(refs[y])
           m == Len(refs'[y])
<1>1. n \in Nat /\ k \in Nat /\ r \in Nat
  BY RowTyped
<1>2. n = Len(arrived[y]) /\ k = Len(smoothed[y]) /\ r = Len(refs[y])
  BY DEF N, K
<1>3. /\ n < 3 => r = n
      /\ n >= 3 => r = 3
      /\ n < 2 => rowCounters[y] = 2 - n
      /\ n >= 2 => rowCounters[y] = 0
      /\ (n < 2 /\ k = 0) \/ (n >= 2 /\ k = n - 2)
  BY DEF RowInv, RefsAreLast, Lag, MaxRefs
<1>4. \A j \in 1 .. r : refs[y][j] = arrived[y][(n - r) + j]
  BY DEF RowInv, RefsAreLast
<1>5. \A j \in 1 .. k : smoothed[y][j] = arrived[y][j]
  BY DEF RowInv, InOrder
<1>6. start[y] = (n - r) % FifoSlots /\ rowIndex[y] = k % FifoSlots
  BY DEF RowInv, SlotsMatch
<1>7. /\ ~PopsUnsmoothed(y)
      /\ Waiting(y) => IndexAfterSmooth(y) = k % FifoSlots
      /\ ~Waiting(y) => IndexAfterSmooth(y) = (k + 1) % FifoSlots
  BY IndexMoves
<1>8. /\ refs \in [Rows -> Seq(Cols)] /\ start \in [Rows -> 0 .. 3] /\ rowIndex \in [Rows -> 0 .. 3]
      /\ rowCounters \in [Rows -> 0 .. 2] /\ rowPtrs \in [Rows -> 0 .. 2]
      /\ arrived \in [Rows -> Seq(Cols)] /\ smoothed \in [Rows -> Seq(Cols)]
      /\ flushRow = 0 /\ invalidPop = FALSE
  BY DEF Typed
<1>9. /\ refs' = [refs EXCEPT ![y] = Append(KeptRefs(y), x)]
      /\ start' = [start EXCEPT ![y] = IF Full(y) THEN Next4(start[y]) ELSE start[y]]
      /\ rowIndex' = [rowIndex EXCEPT ![y] = IndexAfterSmooth(y)]
      /\ invalidPop' = FALSE
      /\ rowPtrs' = [rowPtrs EXCEPT ![y] = NextPtr(y)]
      /\ rowCounters' = [rowCounters EXCEPT
                            ![y] = IF rowCounters[y] # 0 THEN rowCounters[y] - 1 ELSE 0]
      /\ arrived' = [arrived EXCEPT ![y] = Append(arrived[y], x)]
  BY <1>7, <1>8 DEF Push
<1>10. Waiting(y) <=> n < 2
  BY <1>1, <1>3 DEF Waiting
<1> HIDE DEF n, k, r, m
<1>11. /\ arrived'[y] = Append(arrived[y], x) /\ arrived'[y] \in Seq(Cols)
       /\ N(y)' = n + 1 /\ arrived'[y][n + 1] = x
       /\ \A j \in 1 .. n : arrived'[y][j] = arrived[y][j]
  BY <1>1, <1>2, <1>8, <1>9 DEF N
<1>12. /\ smoothed'[y] \in Seq(Cols) /\ smoothed' \in [Rows -> Seq(Cols)]
       /\ n < 2 => K(y)' = k
       /\ n >= 2 => K(y)' = k + 1
       /\ \A j \in 1 .. K(y)' : smoothed'[y][j] = arrived'[y][j]
       /\ \A q \in Rows : q # y => smoothed'[q] = smoothed[q]
  <2>1. CASE n < 2
    <3>1. smoothed' = smoothed /\ K(y)' = k /\ k = 0
      BY <1>1, <1>2, <1>3, <1>10, <2>1 DEF K, SmoothsAhead
    <3> QED BY <1>1, <1>8, <2>1, <3>1
  <2>2. CASE n >= 2
    <3>1. /\ smoothed' = [smoothed EXCEPT ![y] = Append(smoothed[y], arrived[y][k + 1])]
          /\ arrived[y][k + 1] \in Cols /\ k < n
      BY <1>1, <1>10, <2>2 DEF SmoothsAhead, n, k, N, K
    <3>2. smoothed'[y] = Append(smoothed[y], arrived[y][k + 1]) /\ smoothed[y] \in Seq(Cols)
      BY <1>8, <3>1
    <3>3. /\ smoothed'[y] \in Seq(Cols) /\ K(y)' = k + 1
          /\ smoothed'[y][k + 1] = arrived[y][k + 1]
          /\ \A j \in 1 .. k : smoothed'[y][j] = smoothed[y][j]
      BY <1>1, <1>2, <3>1, <3>2 DEF K
    <3>4. \A j \in 1 .. k + 1 : (j \in 1 .. k \/ j = k + 1) /\ j \in 1 .. n
      BY <1>1, <3>1
    <3>5. \A j \in 1 .. k + 1 : smoothed'[y][j] = arrived'[y][j]
      BY <1>11, <1>5, <3>3, <3>4
    <3>6. smoothed' \in [Rows -> Seq(Cols)] /\ \A q \in Rows : q # y => smoothed'[q] = smoothed[q]
      BY <1>8, <3>1, <3>2, <3>3
    <3> QED BY <1>1, <2>2, <3>3, <3>5, <3>6
  <2> QED BY <1>1, <2>1, <2>2
<1>13. /\ refs'[y] \in Seq(Cols) /\ refs' \in [Rows -> Seq(Cols)] /\ m = Len(refs'[y])
       /\ n < 3 => m = n + 1
       /\ n >= 3 => m = 3
       /\ \A j \in 1 .. m : refs'[y][j] = arrived'[y][((n + 1) - m) + j]
  <2>1. refs'[y] = Append(KeptRefs(y), x) /\ refs[y] \in Seq(Cols)
    BY <1>8, <1>9
  <2>2. refs'[y] \in Seq(Cols) => refs' \in [Rows -> Seq(Cols)]
    BY <1>8, <1>9, <2>1
  <2>3. CASE n < 3
    <3>1. r = n /\ r # 3
      BY <1>1, <1>3, <2>3
    <3>2. KeptRefs(y) = refs[y] /\ Len(refs[y]) = n
      BY <1>2, <3>1 DEF KeptRefs, Full, MaxRefs
    <3>3. /\ refs'[y] \in Seq(Cols) /\ m = n + 1 /\ refs'[y][n + 1] = x
          /\ \A j \in 1 .. n : refs'[y][j] = refs[y][j]
      BY <2>1, <3>2, AppendProperties DEF m
    <3>4. \A j \in 1 .. n + 1 : (j \in 1 .. n \/ j = n + 1) /\ ((n + 1) - (n + 1)) + j = j
      BY <1>1
    <3>5. \A j \in 1 .. n : refs[y][j] = arrived[y][j]
      <4>1. \A j \in 1 .. n : n - n + j = j
        BY <1>1
      <4> QED BY <1>4, <3>1, <4>1
    <3>6. \A j \in 1 .. n + 1 : refs'[y][j] = arrived'[y][j]
      BY <1>11, <3>3, <3>4, <3>5
    <3>7. \A j \in 1 .. n + 1 : refs'[y][j] = arrived'[y][((n + 1) - (n + 1)) + j]
      BY <3>4, <3>6
    <3>8. m = n + 1 /\ ~(n >= 3)
      BY <1>1, <2>3, <3>3
    <3>9. \A j \in 1 .. m : refs'[y][j] = arrived'[y][((n + 1) - m) + j]
      BY <3>7, <3>8
    <3> QED BY <2>2, <3>3, <3>8, <3>9 DEF m
  <2>4. CASE n >= 3
    <3>1. r = 3
      BY <1>3, <2>4
    <3>2. KeptRefs(y) = Tail(refs[y]) /\ Len(refs[y]) = 3 /\ refs[y] # << >>
      <4>1. Len(refs[y]) = 3
        BY <1>2, <3>1
      <4>2. refs[y] # << >>
        <5>1. Len(<< >>) = 0 /\ 3 # 0
          OBVIOUS
        <5> QED BY <4>1, <5>1
      <4> QED BY <4>1, <4>2 DEF KeptRefs, Full, MaxRefs
    <3>3. /\ Tail(refs[y]) \in Seq(Cols) /\ Len(Tail(refs[y])) = 2
          /\ \A j \in 1 .. 2 : Tail(refs[y])[j] = refs[y][j + 1]
      BY <2>1, <3>2, HeadTailProperties
    <3>4. /\ refs'[y] \in Seq(Cols) /\ m = 3 /\ refs'[y][3] = x
          /\ \A j \in 1 .. 2 : refs'[y][j] = refs[y][j + 1]
      BY <2>1, <3>2, <3>3 DEF m
    <3>5. ASSUME NEW j \in 1 .. 3 PROVE refs'[y][j] = arrived'[y][((n + 1) - 3) + j]
      <4>1. CASE j = 3
        <5>1. ((n + 1) - 3) + 3 = n + 1
          BY <1>1
        <5> QED BY <1>11, <3>4, <4>1, <5>1
      <4>2. CASE j \in 1 .. 2
        <5>1. j + 1 \in 1 .. 3
          BY <4>2
        <5>2. refs'[y][j] = arrived[y][(n - 3) + (j + 1)]
          BY <1>4, <3>1, <3>4, <4>2, <5>1
        <5>3. (n - 3) + (j + 1) = ((n + 1) - 3) + j /\ (n - 3) + (j + 1) \in 1 .. n
          BY <1>1, <2>4, <4>2
        <5> QED BY <1>11, <5>2, <5>3
      <4>3. j = 3 \/ j \in 1 .. 2
        OBVIOUS
      <4> QED BY <4>1, <4>2, <4>3
    <3>6. m = 3 /\ ~(n < 3)
      BY <1>1, <2>4, <3>4
    <3>7. \A j \in 1 .. m : refs'[y][j] = arrived'[y][((n + 1) - m) + j]
      BY <3>5, <3>6
    <3> QED BY <2>2, <3>4, <3>6, <3>7 DEF m
  <2>5. n < 3 \/ n >= 3
    BY <1>1
  <2> QED BY <2>3, <2>4, <2>5
<1>14. (n < 3 => m = n + 1) /\ (n >= 3 => m = 3)
  BY <1>13
<1>15. start'[y] = ((n + 1) - m) % FifoSlots /\ rowIndex'[y] = K(y)' % FifoSlots
  <2>1. start'[y] = IF Full(y) THEN Next4(start[y]) ELSE start[y]
    BY <1>8, <1>9
  <2>2. rowIndex'[y] = K(y)' % FifoSlots
    BY <1>1, <1>7, <1>8, <1>9, <1>10, <1>12
  <2>3. CASE n < 3
    <3>1. r = n /\ r # 3 /\ n - r = 0 /\ (n + 1) - m = 0
      BY <1>1, <1>3, <1>14, <2>3
    <3>2. ~Full(y)
      BY <1>2, <3>1 DEF Full, MaxRefs
    <3> QED BY <1>6, <2>1, <2>2, <3>1, <3>2
  <2>4. CASE n >= 3
    <3>1. r = 3 /\ n - 3 \in Nat /\ (n + 1) - m = (n - 3) + 1
      BY <1>1, <1>3, <1>14, <2>4
    <3>2. Full(y)
      BY <1>2, <3>1 DEF Full, MaxRefs
    <3>3. Next4((n - 3) % FifoSlots) = ((n - 3) + 1) % FifoSlots
      BY <3>1, SlotNext
    <3> QED BY <1>6, <2>1, <2>2, <3>1, <3>2, <3>3
  <2> QED BY <1>1, <2>3, <2>4
<1>16. RowInv(y)'
  <2>1. RefsAreLast(y)'
    <3>1. (n + 1 < 3 => m = n + 1) /\ (n + 1 >= 3 => m = 3)
      BY <1>1, <1>14
    <3>2. \A j \in 1 .. m : refs'[y][j] = arrived'[y][((n + 1) - m) + j]
      BY <1>13
    <3>3. \A j \in 1 .. Len(refs'[y]) : refs'[y][j] = arrived'[y][N(y)' - Len(refs'[y]) + j]
      BY <1>11, <3>2, Zenon DEF m
    <3>4. /\ N(y)' < MaxRefs => Len(refs'[y]) = N(y)'
          /\ N(y)' >= MaxRefs => Len(refs'[y]) = MaxRefs
      BY <1>11, <3>1, Zenon DEF MaxRefs, m
    <3> QED BY <3>3, <3>4, Zenon DEF RefsAreLast
  <2>4. SlotsMatch(y)'
    <3>1. N(y)' - Len(refs'[y]) = (n + 1) - m
      BY <1>11, Zenon DEF m
    <3> QED BY <1>15, <3>1, Zenon DEF SlotsMatch
  <2>2. Lag(y)'
    <3>1. /\ n + 1 < 2 => rowCounters'[y] = 2 - (n + 1)
          /\ n + 1 >= 2 => rowCounters'[y] = 0
      BY <1>1, <1>3, <1>8, <1>9
    <3>2. ~(y < flushRow')
      BY <1>8 DEF Rows, SmoothsAhead
    <3>3. /\ K(y)' <= n + 1 /\ n + 1 <= K(y)' + 2
          /\ (n + 1 < 2 /\ K(y)' = 0) \/ (n + 1 >= 2 /\ K(y)' = n + 1 - 2)
      BY <1>1, <1>3, <1>12
    <3> QED BY <1>1, <1>11, <3>1, <3>2, <3>3 DEF Lag
  <2>3. InOrder(y)'
    BY <1>12 DEF InOrder
  <2> QED BY <2>1, <2>2, <2>3, <2>4 DEF RowInv
<1>17. \A q \in Rows : q # y =>
          /\ refs'[q] = refs[q] /\ start'[q] = start[q] /\ rowIndex'[q] = rowIndex[q]
          /\ rowCounters'[q] = rowCounters[q] /\ arrived'[q] = arrived[q]
          /\ smoothed'[q] = smoothed[q]
  BY <1>8, <1>9, <1>12
<1>18. Typed'
  <2>1. start' \in [Rows -> 0 .. 3] /\ rowIndex' \in [Rows -> 0 .. 3]
    <3>1. /\ start[y] \in 0 .. 3 /\ Next4(start[y]) \in 0 .. 3
          /\ rowIndex[y] \in 0 .. 3 /\ Next4(rowIndex[y]) \in 0 .. 3
      BY <1>8 DEF Next4, FifoSlots
    <3>2. IndexAfterSmooth(y) \in 0 .. 3
      BY <3>1 DEF IndexAfterSmooth
    <3> QED BY <1>8, <1>9, <3>1, <3>2
  <2>2. rowCounters' \in [Rows -> 0 .. 2] /\ rowPtrs' \in [Rows -> 0 .. 2]
    <3>1. rowPtrs[y] \in 0 .. 2 /\ rowCounters[y] \in 0 .. 2
      BY <1>8
    <3>2. NextPtr(y) \in 0 .. 2 /\ (rowCounters[y] # 0 => rowCounters[y] - 1 \in 0 .. 2)
      BY <3>1 DEF NextPtr
    <3> QED BY <1>8, <1>9, <3>1, <3>2
  <2>3. arrived' \in [Rows -> Seq(Cols)]
    BY <1>8, <1>9, <1>11
  <2>4. flushRow' \in 0 .. NRows /\ nIn' \in Nat /\ phase' = "stream" /\ flushRow' = 0
    BY DEF Typed, SmoothsAhead
  <2> QED BY <1>9, <1>12, <1>13, <2>1, <2>2, <2>3, <2>4 DEF Typed
<1> QED BY <1>9, <1>16, <1>17, <1>18

-----------------------------------------------------------------------------
(* The steps *)

LEMMA InitIInv == Init => IInv
<1> SUFFICES ASSUME Init PROVE IInv
  OBVIOUS
<1>1. NRows \in Nat
  BY ImageAssumption
<1>2. /\ phase = "stream" /\ flushRow = 0 /\ nIn = 0 /\ invalidPop = FALSE
      /\ refs = [q \in Rows |-> << >>] /\ arrived = [q \in Rows |-> << >>]
      /\ smoothed = [q \in Rows |-> << >>] /\ start = [q \in Rows |-> 0]
      /\ rowIndex = [q \in Rows |-> 0] /\ rowCounters = [q \in Rows |-> 2]
      /\ rowPtrs = [q \in Rows |-> 0] /\ window.y = None
  BY DEF Init
<1>3. Typed
  <2>1. << >> \in Seq(Cols)
    OBVIOUS
  <2> QED BY <1>1, <1>2, <2>1 DEF Typed
<1>4. ASSUME NEW y \in Rows PROVE RowInv(y)
  <2>1. /\ refs[y] = << >> /\ arrived[y] = << >> /\ smoothed[y] = << >>
        /\ start[y] = 0 /\ rowIndex[y] = 0 /\ rowCounters[y] = 2
    BY <1>2
  <2>2. N(y) = 0 /\ K(y) = 0 /\ Len(refs[y]) = 0
    BY <2>1 DEF N, K
  <2>3. RefsAreLast(y) /\ SlotsMatch(y) /\ InOrder(y)
    BY <2>1, <2>2 DEF RefsAreLast, SlotsMatch, InOrder, MaxRefs, FifoSlots
  <2>4. Lag(y)
    BY <1>2, <2>1, <2>2 DEF Lag, Rows
  <2> QED BY <2>3, <2>4 DEF RowInv
<1>5. WindowInv
  BY <1>2 DEF WindowInv, NeighboursAdjacent
<1> QED BY <1>3, <1>4, <1>5 DEF IInv

\* A pixel that arrives is no new neighbour of the pixel smoothed last.
LEMMA WindowStays ==
    ASSUME WindowInv, phase = "stream", window' = window, phase' = phase,
           arrived \in [Rows -> Seq(Cols)], NEW y \in Rows, NEW x \in Cols,
           arrived' = [arrived EXCEPT ![y] = Append(@, x)]
    PROVE  WindowInv'
<1> SUFFICES ASSUME window.y # None PROVE WindowInv'
  BY DEF WindowInv, NeighboursAdjacent
<1> DEFINE w == window.y
           j == window.j
<1>1. w \in Rows /\ j \in 1 .. N(w) /\ j < N(w) /\ N(w) \in Nat /\ N(w) = Len(arrived[w])
  BY DEF WindowInv, N
<1>2. /\ N(w)' \in Nat /\ N(w) <= N(w)' /\ N(w)' = Len(arrived'[w])
      /\ \A i \in 1 .. N(w) : arrived'[w][i] = arrived[w][i]
  <2>1. CASE w = y
    <3>1. arrived'[w] = Append(arrived[w], x) /\ arrived[w] \in Seq(Cols)
      BY <1>1, <2>1
    <3> QED BY <1>1, <3>1 DEF N
  <2>2. CASE w # y
    BY <1>1, <2>2 DEF N
  <2> QED BY <2>1, <2>2
<1>3. <<window.left, window.right>>
         \in {<<Before(w, j), After(w, j)>>, <<After(w, j), Before(w, j)>>}
  BY DEF WindowInv, NeighboursAdjacent, Before, After, N
<1> HIDE DEF w, j
<1>4. /\ j > 1 => arrived'[w][j - 1] = arrived[w][j - 1]
      /\ arrived'[w][j + 1] = arrived[w][j + 1]
      /\ j < N(w)'
  BY <1>1, <1>2
<1>5. /\ (IF j > 1 THEN arrived'[w][j - 1] ELSE None) = Before(w, j)
      /\ (IF j < Len(arrived'[w]) THEN arrived'[w][j + 1]
          ELSE IF j > 2 THEN arrived'[w][j - 2] ELSE None) = After(w, j)
  BY <1>1, <1>2, <1>4 DEF Before, After
<1>6. NeighboursAdjacent'
  BY <1>3, <1>5 DEF NeighboursAdjacent, w, j
<1>7. w \in Rows /\ j \in 1 .. N(w)' /\ j < N(w)'
  BY <1>1, <1>2, <1>4
<1> QED BY <1>6, <1>7 DEF WindowInv, w, j

LEMMA TakeFirstKeeps ==
    ASSUME IInv, NEW y \in Rows, NEW x \in Cols, TakeFirst(y, x)
    PROVE  IInv'
<1>1. /\ Typed /\ phase = "stream" /\ RowInv(y) /\ Push(y, x) /\ Waiting(y)
      /\ phase' = phase /\ flushRow' = flushRow /\ nIn' \in Nat
      /\ smoothed' = smoothed /\ window' = window
  BY DEF IInv, Typed, TakeFirst, Arrives
<1>2. /\ RowInv(y)' /\ Typed' /\ arrived' = [arrived EXCEPT ![y] = Append(@, x)]
      /\ \A q \in Rows : q # y =>
            /\ refs'[q] = refs[q] /\ start'[q] = start[q] /\ rowIndex'[q] = rowIndex[q]
            /\ rowCounters'[q] = rowCounters[q] /\ arrived'[q] = arrived[q]
            /\ smoothed'[q] = smoothed[q]
  BY <1>1, PushKeepsRow DEF SmoothsAhead
<1>3. ASSUME NEW q \in Rows PROVE RowInv(q)'
  <2>1. CASE q = y
    BY <1>2, <2>1
  <2>2. CASE q # y
    <3>1. RowInv(q) /\ flushRow = 0 /\ ~(q < flushRow')
      BY <1>1 DEF IInv, Typed, Rows
    <3> QED BY <1>1, <1>2, <2>2, <3>1, RowUnchanged
  <2> QED BY <2>1, <2>2
<1>4. WindowInv'
  BY <1>1, <1>2, WindowStays DEF IInv, Typed
<1> QED BY <1>2, <1>3, <1>4 DEF IInv

\* The window of the pixel smoothed now, in the row's new sequence of pixels
LEMMA WindowIs ==
    ASSUME NEW y \in Rows, NEW j \in Nat \ {0}, j <= N(y), Len(arrived[y]) \in Nat,
           window'.y = y, window'.j = j, arrived'[y] \in Seq(Cols), N(y) <= N(y)',
           \A i \in 1 .. N(y) : arrived'[y][i] = arrived[y][i],
           arrived' = arrived \/ j < N(y),
           <<window'.left, window'.right>>
               \in {<<Before(y, j), After(y, j)>>, <<After(y, j), Before(y, j)>>}
    PROVE  NeighboursAdjacent'
<1>1. N(y) \in Nat /\ N(y) = Len(arrived[y]) /\ N(y)' = Len(arrived'[y]) /\ N(y)' \in Nat
  BY DEF N
<1>2. (IF j > 1 THEN arrived'[y][j - 1] ELSE None) = Before(y, j)
  <2>1. j > 1 => j - 1 \in 1 .. N(y)
    BY <1>1
  <2> QED BY <2>1 DEF Before
<1>3. (IF j < Len(arrived'[y]) THEN arrived'[y][j + 1]
       ELSE IF j > 2 THEN arrived'[y][j - 2] ELSE None) = After(y, j)
  <2>1. CASE arrived' = arrived
    BY <1>1, <2>1 DEF After
  <2>2. CASE j < N(y)
    <3>1. j + 1 \in 1 .. N(y) /\ j < Len(arrived'[y])
      BY <1>1, <2>2
    <3> QED BY <2>2, <3>1 DEF After
  <2> QED BY <2>1, <2>2
<1> QED BY <1>2, <1>3 DEF NeighboursAdjacent

LEMMA TakeAndSmoothKeeps ==
    ASSUME IInv, NEW y \in Rows, NEW x \in Cols, TakeAndSmooth(y, x)
    PROVE  IInv'
<1> DEFINE k == K(y)
<1>1. /\ Typed /\ phase = "stream" /\ RowInv(y) /\ Push(y, x) /\ ~Waiting(y)
      /\ phase' = phase /\ flushRow' = flushRow /\ nIn' \in Nat /\ SmoothNext(y)
  BY DEF IInv, Typed, TakeAndSmooth, Arrives
<1>2. k \in Nat /\ N(y) \in Nat /\ k + 1 < N(y) /\ k < N(y)
  <2>1. N(y) \in Nat /\ k \in Nat
    BY <1>1, RowTyped
  <2>2. /\ N(y) < 2 => rowCounters[y] = 2 - N(y)
        /\ (N(y) < 2 /\ k = 0) \/ (N(y) >= 2 /\ k = N(y) - 2)
    BY <1>1 DEF RowInv, Lag
  <2>3. ~(N(y) < 2)
    <3> SUFFICES ASSUME N(y) < 2 PROVE FALSE
      OBVIOUS
    <3>1. rowCounters[y] = 0 /\ rowCounters[y] = 2 - N(y)
      BY <1>1, <2>2 DEF Waiting
    <3> QED BY <2>1, <3>1
  <2> QED BY <2>1, <2>2, <2>3
<1>3. /\ smoothed' = [smoothed EXCEPT ![y] = Append(@, arrived[y][k + 1])]
      /\ arrived[y][k + 1] \in Cols
      /\ window'.y = y /\ window'.j = k + 1
      /\ <<window'.left, window'.right>>
            \in {<<Before(y, k + 1), After(y, k + 1)>>, <<After(y, k + 1), Before(y, k + 1)>>}
  BY <1>1, <1>2, SmoothNextIs
<1>4. SmoothsAhead(y)
  BY <1>1, <1>2, <1>3 DEF SmoothsAhead
<1>5. /\ RowInv(y)' /\ Typed' /\ arrived' = [arrived EXCEPT ![y] = Append(@, x)]
      /\ \A q \in Rows : q # y =>
            /\ refs'[q] = refs[q] /\ start'[q] = start[q] /\ rowIndex'[q] = rowIndex[q]
            /\ rowCounters'[q] = rowCounters[q] /\ arrived'[q] = arrived[q]
            /\ smoothed'[q] = smoothed[q]
  BY <1>1, <1>4, PushKeepsRow
<1>6. ASSUME NEW q \in Rows PROVE RowInv(q)'
  <2>1. CASE q = y
    BY <1>5, <2>1
  <2>2. CASE q # y
    <3>1. RowInv(q) /\ flushRow = 0 /\ ~(q < flushRow')
      BY <1>1 DEF IInv, Typed, Rows
    <3> QED BY <1>1, <1>5, <2>2, <3>1, RowUnchanged
  <2> QED BY <2>1, <2>2
<1>7. /\ arrived'[y] \in Seq(Cols) /\ N(y) = Len(arrived[y]) /\ N(y)' = N(y) + 1
      /\ \A i \in 1 .. N(y) : arrived'[y][i] = arrived[y][i]
  <2>1. arrived \in [Rows -> Seq(Cols)] /\ arrived[y] \in Seq(Cols)
    BY <1>1 DEF Typed
  <2>2. arrived'[y] = Append(arrived[y], x)
    BY <1>5, <2>1
  <2> QED BY <2>1, <2>2 DEF N
<1>8. NeighboursAdjacent'
  <2>1. k + 1 \in Nat \ {0} /\ k + 1 <= N(y) /\ Len(arrived[y]) \in Nat /\ N(y) <= N(y)'
    BY <1>2, <1>7
  <2> HIDE DEF k
  <2> QED BY <1>2, <1>3, <1>7, <2>1, WindowIs
<1>9. window'.y \in Rows /\ window'.j \in 1 .. N(y)' /\ window'.j < N(y)'
  <2> HIDE DEF k
  <2> QED BY <1>2, <1>3, <1>7
<1>10. WindowInv'
  BY <1>3, <1>8, <1>9 DEF WindowInv
<1> QED BY <1>5, <1>6, <1>10 DEF IInv

\* Nothing arrives and no pixel is smoothed.
LEMMA PhaseStepKeeps ==
    ASSUME IInv, UNCHANGED <<rowVars, nIn, arrived, smoothed, window, invalidPop>>,
           phase' \in {"stream", "flush", "done"}, flushRow' \in 0 .. NRows,
           phase' = "stream" => phase = "stream" /\ flushRow' = 0,
           phase' = "done" => flushRow' = NRows,
           \A y \in Rows : y < flushRow' => K(y) = N(y)
    PROVE  IInv'
<1>1. /\ refs' = refs /\ start' = start /\ rowIndex' = rowIndex
      /\ rowCounters' = rowCounters /\ rowPtrs' = rowPtrs
      /\ arrived' = arrived /\ smoothed' = smoothed /\ window' = window /\ nIn' = nIn
      /\ invalidPop' = invalidPop
  BY DEF rowVars
<1>2. Typed'
  BY <1>1 DEF IInv, Typed
<1>3. ASSUME NEW y \in Rows PROVE RowInv(y)'
  BY <1>1, RowUnchanged DEF IInv
<1>4. WindowInv'
  BY <1>1 DEF IInv, WindowInv, NeighboursAdjacent, N
<1> QED BY <1>2, <1>3, <1>4 DEF IInv

LEMMA FlushPixelKeeps ==
    ASSUME IInv, NEW y \in Rows, FlushPixel(y)
    PROVE  IInv'
<1> DEFINE n == N(y)
           k == K(y)
<1>1. /\ Typed /\ phase = "flush" /\ flushRow = y /\ RowInv(y) /\ SmoothNext(y)
      /\ rowIndex' = [rowIndex EXCEPT ![y] = Next4(rowIndex[y])]
      /\ rowPtrs' = [rowPtrs EXCEPT ![y] = NextPtr(y)]
      /\ phase' = phase /\ refs' = refs /\ start' = start /\ rowCounters' = rowCounters
      /\ flushRow' = flushRow /\ nIn' = nIn /\ arrived' = arrived /\ invalidPop' = invalidPop
      /\ Order(y) < Len(refs[y])
  BY DEF IInv, FlushPixel, Unsmoothed
<1>2. n \in Nat /\ k \in Nat /\ k < n /\ k + 1 <= n /\ n <= (k + 1) + 2
  <2>1. n \in Nat /\ k \in Nat /\ Len(refs[y]) \in Nat
    BY <1>1, RowTyped
  <2>2. Order(y) = k - (n - Len(refs[y]))
    BY <1>1, OrderIs
  <2>3. n <= k + 2
    BY <1>1 DEF RowInv, Lag
  <2> QED BY <1>1, <2>1, <2>2, <2>3
<1>3. /\ smoothed' = [smoothed EXCEPT ![y] = Append(smoothed[y], arrived[y][k + 1])]
      /\ arrived[y][k + 1] \in Cols
      /\ window'.y = y /\ window'.j = k + 1
      /\ <<window'.left, window'.right>>
            \in {<<Before(y, k + 1), After(y, k + 1)>>, <<After(y, k + 1), Before(y, k + 1)>>}
  BY <1>1, <1>2, SmoothNextIs
<1>4. /\ rowIndex \in [Rows -> 0 .. 3] /\ rowPtrs \in [Rows -> 0 .. 2]
      /\ smoothed \in [Rows -> Seq(Cols)] /\ smoothed[y] \in Seq(Cols)
      /\ arrived[y] \in Seq(Cols)
  BY <1>1 DEF Typed
<1>5. smoothed'[y] = Append(smoothed[y], arrived[y][k + 1])
  BY <1>3, <1>4
<1>6. /\ smoothed'[y] \in Seq(Cols) /\ K(y)' = k + 1
      /\ smoothed'[y][k + 1] = arrived[y][k + 1]
      /\ \A j \in 1 .. k : smoothed'[y][j] = smoothed[y][j]
  BY <1>3, <1>4, <1>5, AppendProperties DEF K
<1>7. Typed'
  <2>1. smoothed' \in [Rows -> Seq(Cols)]
    BY <1>3, <1>4, <1>6
  <2>2. rowIndex' \in [Rows -> 0 .. 3]
    <3>1. rowIndex[y] \in 0 .. 3
      BY <1>4
    <3>2. Next4(rowIndex[y]) \in 0 .. 3
      BY <3>1 DEF Next4, FifoSlots
    <3> QED BY <1>1, <1>4, <3>2
  <2>3. rowPtrs' \in [Rows -> 0 .. 2]
    <3>1. rowPtrs[y] \in 0 .. 2
      BY <1>4
    <3>2. NextPtr(y) \in 0 .. 2
      BY <3>1 DEF NextPtr
    <3> QED BY <1>1, <1>4, <3>2
  <2> QED BY <1>1, <2>1, <2>2, <2>3 DEF Typed
<1>8. RowInv(y)'
  <2>1. RefsAreLast(y)' /\ N(y)' = n
    BY <1>1 DEF RowInv, RefsAreLast, N
  <2>2. SlotsMatch(y)'
    <3>1. start[y] = (N(y) - Len(refs[y])) % FifoSlots /\ rowIndex[y] = k % FifoSlots
      BY <1>1 DEF RowInv, SlotsMatch
    <3>2. rowIndex'[y] = Next4(rowIndex[y]) /\ start'[y] = start[y] /\ refs'[y] = refs[y]
      BY <1>1, <1>4
    <3>3. Next4(k % FifoSlots) = (k + 1) % FifoSlots
      BY <1>2, SlotNext
    <3>4. rowIndex'[y] = K(y)' % FifoSlots
      BY <1>6, <3>1, <3>2, <3>3
    <3> QED BY <2>1, <3>1, <3>2, <3>4 DEF SlotsMatch
  <2>3. Lag(y)'
    <3>1. /\ N(y) < 2 => rowCounters[y] = 2 - N(y)
          /\ N(y) >= 2 => rowCounters[y] = 0
      BY <1>1 DEF RowInv, Lag
    <3>2. ~(y < flushRow') /\ phase' # "stream"
      BY <1>1 DEF Rows
    <3>3. K(y)' <= N(y)' /\ N(y)' <= K(y)' + 2
      BY <1>2, <1>6, <2>1
    <3> QED BY <1>1, <2>1, <3>1, <3>2, <3>3 DEF Lag
  <2>4. InOrder(y)'
    <3>1. \A j \in 1 .. k : smoothed[y][j] = arrived[y][j]
      BY <1>1 DEF RowInv, InOrder
    <3>2. \A j \in 1 .. k + 1 : j \in 1 .. k \/ j = k + 1
      BY <1>2
    <3>3. \A j \in 1 .. k + 1 : smoothed'[y][j] = arrived[y][j]
      BY <1>6, <3>1, <3>2
    <3> QED BY <1>1, <1>6, <3>3 DEF InOrder
  <2> QED BY <2>1, <2>2, <2>3, <2>4 DEF RowInv
<1>9. ASSUME NEW q \in Rows PROVE RowInv(q)'
  <2>1. CASE q = y
    BY <1>8, <2>1
  <2>2. CASE q # y
    <3>1. rowIndex'[q] = rowIndex[q] /\ smoothed'[q] = smoothed[q]
      BY <1>1, <1>3, <1>4, <2>2
    <3>2. RowInv(q) /\ (q < flushRow => K(q) = N(q))
      BY DEF IInv, RowInv, Lag
    <3> QED BY <1>1, <3>1, <3>2, RowUnchanged
  <2> QED BY <2>1, <2>2
<1>10. NeighboursAdjacent'
  <2>1. /\ k + 1 \in Nat \ {0} /\ k + 1 <= N(y) /\ Len(arrived[y]) \in Nat
        /\ N(y) <= N(y)' /\ arrived'[y] \in Seq(Cols)
    BY <1>1, <1>2, <1>4 DEF N
  <2> HIDE DEF k
  <2> QED BY <1>1, <1>3, <2>1, WindowIs
<1>11. WindowInv'
  <2>1. window'.y \in Rows /\ window'.j \in 1 .. N(y)' /\ phase' # "stream"
    BY <1>1, <1>2, <1>3 DEF N
  <2> QED BY <1>3, <1>10, <2>1 DEF WindowInv
<1> QED BY <1>7, <1>9, <1>11 DEF IInv

LEMMA FlushNextRowKeeps ==
    ASSUME IInv, NEW y \in Rows, FlushNextRow(y)
    PROVE  IInv'
<1>1. /\ Typed /\ RowInv(y) /\ phase = "flush" /\ phase' = "flush"
      /\ flushRow = y /\ flushRow' = y + 1 /\ ~(Order(y) < Len(refs[y]))
      /\ UNCHANGED <<rowVars, nIn, arrived, smoothed, window, invalidPop>>
  BY DEF IInv, FlushNextRow, Unsmoothed
<1>2. K(y) = N(y)
  <2>1. N(y) \in Nat /\ K(y) \in Nat /\ Len(refs[y]) \in Nat
    BY <1>1, RowTyped
  <2>2. Order(y) = K(y) - (N(y) - Len(refs[y])) /\ Order(y) \in 0 .. Len(refs[y])
    BY <1>1, OrderIs
  <2> QED BY <1>1, <2>1, <2>2
<1>3. ASSUME NEW q \in Rows, q < flushRow' PROVE K(q) = N(q)
  <2>1. q < flushRow \/ q = y
    BY <1>1, <1>3 DEF Rows
  <2>2. q < flushRow => K(q) = N(q)
    BY DEF IInv, RowInv, Lag
  <2> QED BY <1>2, <2>1, <2>2
<1>4. flushRow' \in 0 .. NRows
  BY <1>1, ImageAssumption DEF Rows
<1> QED BY <1>1, <1>3, <1>4, PhaseStepKeeps

LEMMA NextIInv == IInv /\ [Next]_vars => IInv'
<1> SUFFICES ASSUME IInv, [Next]_vars PROVE IInv'
  OBVIOUS
<1>1. ASSUME NEW y \in Rows, NEW x \in Cols, TakeFirst(y, x) PROVE IInv'
  BY <1>1, TakeFirstKeeps
<1>2. ASSUME NEW y \in Rows, NEW x \in Cols, TakeAndSmooth(y, x) PROVE IInv'
  BY <1>2, TakeAndSmoothKeeps
<1>3. ASSUME NEW y \in Rows, FlushPixel(y) PROVE IInv'
  BY <1>3, FlushPixelKeeps
<1>4. ASSUME NEW y \in Rows, FlushNextRow(y) PROVE IInv'
  BY <1>4, FlushNextRowKeeps
<1>5. \A y \in Rows : y < flushRow => K(y) = N(y)
  BY DEF IInv, RowInv, Lag
<1>6. CASE EndOfInput
  <2>1. /\ phase' = "flush" /\ flushRow' = flushRow /\ flushRow \in 0 .. NRows
        /\ UNCHANGED <<rowVars, nIn, arrived, smoothed, window, invalidPop>>
    BY <1>6 DEF IInv, Typed, EndOfInput
  <2> QED BY <1>5, <2>1, PhaseStepKeeps
<1>7. CASE Finish
  <2>1. /\ phase' = "done" /\ flushRow' = flushRow /\ flushRow = NRows /\ flushRow \in 0 .. NRows
        /\ UNCHANGED <<rowVars, nIn, arrived, smoothed, window, invalidPop>>
    BY <1>7 DEF IInv, Typed, Finish
  <2> QED BY <1>5, <2>1, PhaseStepKeeps
<1>8. CASE UNCHANGED vars
  <2>1. /\ phase' = phase /\ flushRow' = flushRow /\ flushRow \in 0 .. NRows
        /\ phase \in {"stream", "flush", "done"}
        /\ (phase = "stream" => flushRow = 0) /\ (phase = "done" => flushRow = NRows)
        /\ UNCHANGED <<rowVars, nIn, arrived, smoothed, window, invalidPop>>
    BY <1>8 DEF IInv, Typed, vars
  <2> QED BY <1>5, <2>1, PhaseStepKeeps
<1> QED BY <1>1, <1>2, <1>3, <1>4, <1>6, <1>7, <1>8 DEF Next, Step, Ended

-----------------------------------------------------------------------------
(* Theorems *)

\* The invariant holds, however the rows interleave.
THEOREM IInvHolds == Spec => []IInv
BY InitIInv, NextIInv, PTL DEF Spec

\* The state is well typed, and a FIFO holds three pixels at most.
THEOREM TypeCorrect == Spec => []TypeOK
<1>1. IInv => TypeOK
  <2> SUFFICES ASSUME IInv PROVE TypeOK
    OBVIOUS
  <2>1. \A y \in Rows : Len(refs[y]) <= MaxRefs
    <3> SUFFICES ASSUME NEW y \in Rows PROVE Len(refs[y]) <= MaxRefs
      OBVIOUS
    <3>1. Typed /\ RowInv(y)
      BY DEF IInv
    <3>2. Len(refs[y]) \in 0 .. MaxRefs
      BY <3>1, OrderIs
    <3>3. \A r \in 0 .. 3 : r <= 3
      OBVIOUS
    <3> QED BY <3>2, <3>3 DEF MaxRefs
  <2> QED BY <2>1 DEF IInv, Typed, TypeOK
<1> QED BY <1>1, IInvHolds, PTL

\* CHECK(InvalidRefPop) never fires: no pixel leaves its FIFO unsmoothed.
THEOREM NeverPopsUnsmoothed == Spec => []NoInvalidPop
<1>1. IInv => NoInvalidPop
  BY DEF IInv, Typed, NoInvalidPop
<1> QED BY <1>1, IInvHolds, PTL

\* CHECK(ValidPixel): the slot to be smoothed holds a pixel of the FIFO.
THEOREM SmoothsOnlyQueued == Spec => []SmoothsQueued
<1>1. IInv => SmoothsQueued
  <2> SUFFICES ASSUME IInv, NEW y \in Rows, phase = "stream", ~Waiting(y)
               PROVE  Order(y) < Len(refs[y])
    BY DEF SmoothsQueued
  <2>1. N(y) \in Nat /\ K(y) \in Nat /\ Len(refs[y]) \in Nat
    BY RowTyped DEF IInv
  <2>2. Order(y) = K(y) - (N(y) - Len(refs[y]))
    BY OrderIs DEF IInv
  <2>3. /\ N(y) < 2 => rowCounters[y] = 2 - N(y)
        /\ (N(y) < 2 /\ K(y) = 0) \/ (N(y) >= 2 /\ K(y) = N(y) - 2)
    BY DEF IInv, RowInv, Lag
  <2>4. rowCounters[y] = 0
    BY DEF Waiting
  <2>5. K(y) < N(y)
    BY <2>1, <2>3, <2>4
  <2> QED BY <2>1, <2>2, <2>5
<1> QED BY <1>1, IInvHolds, PTL

\* Every pixel of a row is smoothed once, in the order of arrival.
THEOREM AllSmoothedInOrder == Spec => []SmoothedInOrder
<1>1. IInv => SmoothedInOrder
  <2> SUFFICES ASSUME IInv, NEW y \in Rows
               PROVE  /\ K(y) <= N(y)
                      /\ smoothed[y] = SubSeq(arrived[y], 1, K(y))
                      /\ phase = "done" => K(y) = N(y)
    BY DEF SmoothedInOrder, K, N
  <2>1. /\ N(y) \in Nat /\ K(y) \in Nat
        /\ arrived[y] \in Seq(Cols) /\ smoothed[y] \in Seq(Cols)
    BY RowTyped DEF IInv
  <2>2. /\ K(y) <= N(y) /\ (y < flushRow => K(y) = N(y))
        /\ \A j \in 1 .. K(y) : smoothed[y][j] = arrived[y][j]
        /\ (phase = "done" => flushRow = NRows)
    BY DEF IInv, Typed, RowInv, Lag, InOrder
  <2>3. phase = "done" => K(y) = N(y)
    BY <2>2, ImageAssumption DEF Rows
  <2>4. smoothed[y] = SubSeq(arrived[y], 1, K(y))
    <3> DEFINE s == SubSeq(arrived[y], 1, K(y))
    <3>1. s \in Seq(Cols) /\ Len(s) = K(y) /\ \A j \in 1 .. K(y) : s[j] = arrived[y][j]
      BY <2>1, <2>2 DEF N
    <3>2. Len(smoothed[y]) = Len(s) /\ \A j \in 1 .. Len(smoothed[y]) : smoothed[y][j] = s[j]
      BY <2>2, <3>1 DEF K
    <3> HIDE DEF s
    <3>3. smoothed[y] = s
      BY <2>1, <3>1, <3>2, SeqEqual
    <3> QED BY <3>3 DEF s
  <2> QED BY <2>2, <2>3, <2>4
<1> QED BY <1>1, IInvHolds, PTL

\* A pixel is smoothed with its neighbours in the row.
THEOREM NeighboursAreAdjacent == Spec => []NeighboursAdjacent
<1>1. IInv => NeighboursAdjacent
  BY DEF IInv, WindowInv
<1> QED BY <1>1, IInvHolds, PTL

-----------------------------------------------------------------------------
(* The filter ends *)

\* Steps that are left: a row of the flush takes one for each pixel that is not
\* smoothed, at most three, and one to go on to the next row.
Remaining ==
    CASE phase = "stream" -> (MaxPixels - nIn) + 4 * NRows + 2
      [] phase = "flush" ->
             4 * (NRows - flushRow) + 1 - (IF flushRow < NRows THEN Order(flushRow) ELSE 0)
      [] phase = "done" -> 0

InputInv == nIn <= MaxPixels

LEMMA InputStep == IInv /\ InputInv /\ [Next]_vars => InputInv'
<1> SUFFICES ASSUME IInv, InputInv, [Next]_vars PROVE InputInv'
  OBVIOUS
<1>1. CASE UNCHANGED nIn
  BY <1>1 DEF InputInv
<1>2. ASSUME NEW y \in Rows, NEW x \in Cols, Arrives(y, x) PROVE InputInv'
  BY <1>2, ImageAssumption DEF Arrives, InputInv, IInv, Typed
<1> QED BY <1>1, <1>2 DEF Next, Step, TakeFirst, TakeAndSmooth, FlushPixel, FlushNextRow,
           EndOfInput, Finish, Ended, vars

LEMMA OrderSmall ==
    ASSUME Typed, NEW y \in Rows
    PROVE  Order(y) \in 0 .. 3 /\ y \in Nat /\ y < NRows
<1>1. rowIndex[y] \in 0 .. 3 /\ start[y] \in 0 .. 3
  BY DEF Typed
<1>2. \A a \in 0 .. 3, b \in 0 .. 3 : (b - a) % 4 \in 0 .. 3
  OBVIOUS
<1> QED BY <1>1, <1>2, ImageAssumption DEF Order, FifoSlots, Rows

LEMMA RemainingIsNat == IInv /\ InputInv => Remaining \in Nat
<1> SUFFICES ASSUME IInv, InputInv PROVE Remaining \in Nat
  OBVIOUS
<1>1. /\ phase \in {"stream", "flush", "done"} /\ nIn \in Nat /\ flushRow \in 0 .. NRows
      /\ NRows \in Nat /\ MaxPixels \in Nat
  BY ImageAssumption DEF IInv, Typed
<1>2. CASE phase = "stream"
  BY <1>1, <1>2 DEF Remaining, InputInv
<1>3. CASE phase = "flush"
  <2>1. CASE flushRow < NRows
    <3>1. Order(flushRow) \in 0 .. 3
      BY <1>1, <2>1, OrderSmall DEF IInv, Rows
    <3> QED BY <1>1, <1>3, <2>1, <3>1 DEF Remaining
  <2>2. CASE ~(flushRow < NRows)
    BY <1>1, <1>3, <2>2 DEF Remaining
  <2> QED BY <2>1, <2>2
<1>4. CASE phase = "done"
  BY <1>4 DEF Remaining
<1> QED BY <1>1, <1>2, <1>3, <1>4

LEMMA RemainingShrinks ==
    ASSUME IInv, InputInv, Remaining' \in Nat, Step
    PROVE  Remaining' < Remaining
<1>1. /\ nIn \in Nat /\ flushRow \in 0 .. NRows /\ NRows \in Nat /\ MaxPixels \in Nat
  BY ImageAssumption DEF IInv, Typed
<1>2. Remaining \in Nat
  BY RemainingIsNat
<1>3. ASSUME NEW y \in Rows, NEW x \in Cols, TakeFirst(y, x) \/ TakeAndSmooth(y, x)
      PROVE  Remaining' < Remaining
  <2>1. phase = "stream" /\ phase' = "stream" /\ nIn' = nIn + 1
    BY <1>3 DEF TakeFirst, TakeAndSmooth, Arrives
  <2> QED BY <1>1, <2>1 DEF Remaining
<1>4. ASSUME NEW y \in Rows, FlushPixel(y) PROVE Remaining' < Remaining
  <2>1. Order(y) \in 0 .. 3 /\ y < NRows /\ y \in Nat
    BY OrderSmall DEF IInv
  <2>2. Order(y) < Len(refs[y]) /\ Len(refs[y]) \in 0 .. 3
    BY <1>4, OrderIs DEF FlushPixel, Unsmoothed, IInv, MaxRefs
  <2>3. Order(y)' = Order(y) + 1
    <3>1. start[y] \in 0 .. 3 /\ rowIndex[y] \in 0 .. 3 /\ start' = start
          /\ rowIndex'[y] = (rowIndex[y] + 1) % 4
      BY <1>4 DEF FlushPixel, IInv, Typed, Next4, FifoSlots
    <3>2. Order(y) = (rowIndex[y] - start[y]) % 4 /\ Order(y)' = (rowIndex'[y] - start[y]) % 4
      BY <3>1 DEF Order, FifoSlots
    <3>3. ASSUME NEW a \in 0 .. 3, NEW b \in 0 .. 3, (b - a) % 4 < 3
          PROVE  (((b + 1) % 4) - a) % 4 = ((b - a) % 4) + 1
      BY <3>3
    <3>4. Order(y) < 3
      <4> DEFINE o == Order(y)
                 l == Len(refs[y])
      <4>1. o \in 0 .. 3 /\ l \in 0 .. 3 /\ o < l
        BY <2>1, <2>2
      <4> HIDE DEF o, l
      <4>2. o < 3
        BY <4>1
      <4> QED BY <4>2 DEF o
    <3> QED BY <3>1, <3>2, <3>3, <3>4
  <2>4. phase = "flush" /\ phase' = "flush" /\ flushRow = y /\ flushRow' = y
    BY <1>4 DEF FlushPixel
  <2>5. Remaining = 4 * (NRows - y) + 1 - Order(y)
    BY <2>1, <2>4 DEF Remaining
  <2>6. Remaining' = 4 * (NRows - y) + 1 - (Order(y) + 1)
    BY <2>1, <2>3, <2>4 DEF Remaining
  <2> QED BY <1>1, <2>1, <2>5, <2>6
<1>5. ASSUME NEW y \in Rows, FlushNextRow(y) PROVE Remaining' < Remaining
  <2>1. Order(y) \in 0 .. 3 /\ y < NRows /\ y \in Nat
    BY OrderSmall DEF IInv
  <2>2. phase = "flush" /\ phase' = "flush" /\ flushRow = y /\ flushRow' = y + 1 /\ UNCHANGED rowVars
    BY <1>5 DEF FlushNextRow
  <2>3. Remaining = 4 * (NRows - y) + 1 - Order(y)
    BY <2>1, <2>2 DEF Remaining
  <2>4. Remaining' <= 4 * (NRows - (y + 1)) + 1
    <3>1. CASE y + 1 < NRows
      <4>1. Order(y + 1) \in 0 .. 3
        BY <1>1, <2>1, <3>1, OrderSmall DEF IInv, Rows
      <4>2. Remaining' = 4 * (NRows - (y + 1)) + 1 - Order(y + 1)
        BY <2>2, <3>1 DEF Remaining, Order, rowVars
      <4> QED BY <1>1, <2>1, <4>1, <4>2
    <3>2. CASE ~(y + 1 < NRows)
      BY <1>1, <2>1, <2>2, <3>2 DEF Remaining
    <3> QED BY <3>1, <3>2
  <2> QED BY <1>1, <2>1, <2>3, <2>4
<1>6. CASE EndOfInput
  <2>1. phase = "stream" /\ phase' = "flush" /\ UNCHANGED <<rowVars, flushRow, nIn>> /\ flushRow = 0
    BY <1>6 DEF EndOfInput, IInv, Typed
  <2>2. Remaining' <= 4 * NRows + 1
    <3>1. CASE 0 < NRows
      <4>1. Order(0) \in 0 .. 3
        BY <1>1, <3>1, OrderSmall DEF IInv, Rows
      <4>2. Remaining' = 4 * (NRows - 0) + 1 - Order(0)
        BY <2>1, <3>1 DEF Remaining, Order, rowVars
      <4> QED BY <1>1, <4>1, <4>2
    <3>2. CASE ~(0 < NRows)
      BY <1>1, <2>1, <3>2 DEF Remaining
    <3> QED BY <3>1, <3>2
  <2>3. Remaining >= 4 * NRows + 2
    BY <1>1, <2>1 DEF Remaining, InputInv
  <2> QED BY <1>1, <1>2, <2>2, <2>3
<1>7. CASE Finish
  <2>1. Remaining' = 0 /\ Remaining = 1
    BY <1>1, <1>7 DEF Finish, Remaining
  <2> QED BY <2>1
<1> QED BY <1>3, <1>4, <1>5, <1>6, <1>7 DEF Step

\* Every step of the loops leaves fewer steps to be taken, a natural number: the filter
\* cannot go on for ever, no row is flushed again and none is skipped back to.
THEOREM EndsInBoundedSteps ==
    Spec => [](Remaining \in Nat) /\ [][Remaining' < Remaining]_vars
<1>1. Init => InputInv
  BY ImageAssumption DEF Init, InputInv
<1>2. IInv /\ InputInv /\ (Remaining \in Nat)' /\ [Next]_vars => [Remaining' < Remaining]_vars
  BY RemainingShrinks DEF Next, Ended
<1> QED BY IInvHolds, <1>1, <1>2, InputStep, RemainingIsNat, PTL DEF Spec
=============================================================================
