----------------------------- MODULE CBUFProofs -----------------------------
(***************************************************************************)
(* Proofs about the two pointers of the column buffer, for any image size, *)
(* any release distances and any times between pixels.                     *)
(***************************************************************************)
EXTENDS CBUF, FiniteSetTheorems, TLAPS

\* The pointers before the pixel that comes next; the first pixel sets them.
PointersInv ==
    /\ n \in Nat /\ right \in Nat /\ left \in Nat /\ asked \in Nat
    /\ n = 0 => right = 0 /\ left = 0 /\ asked = 0
    /\ left <= asked /\ asked <= right

\* No section asks for more than the buffer holds
FitsBuffer == \A s \in DOMAIN XRelease : XRelease[s] <= MaxBufferSize

\* While the scan is slow enough the buffer is never too wide.
WidthInv ==
    paced /\ FitsBuffer =>
        /\ overflow = {}
        /\ n > 0 => right - left <= MaxBufferSize * Scale

IInv == PointersInv /\ WidthInv

-----------------------------------------------------------------------------
(* What a pixel asks for *)

\* A column of the image has a release distance, which is no more than the buffer
\* holds if none is.
LEMMA ReleaseBounded ==
    ASSUME NEW x \in Cols
    PROVE  /\ Release(x) \in Nat
           /\ FitsBuffer => Release(x) <= MaxBufferSize * Scale
<1>1. Section(x) \in 0 .. 15
  BY ReleaseAssumption DEF Cols, Section
<1>2. XRelease[Section(x)] \in Nat
  BY <1>1, ReleaseAssumption
<1>3. Release(x) \in Nat
  BY <1>2, ImageAssumption DEF Release
<1>4. ASSUME FitsBuffer PROVE Release(x) <= MaxBufferSize * Scale
  <2>1. XRelease[Section(x)] <= MaxBufferSize
    BY <1>1, <1>4, ReleaseAssumption DEF FitsBuffer
  <2>2. ASSUME NEW a \in Nat, NEW b \in Nat, NEW c \in Nat, a <= b PROVE a * c <= b * c
    BY <2>2
  <2> QED BY <1>2, <2>1, <2>2, ImageAssumption DEF Release
<1> QED BY <1>3, <1>4

\* The pointers of the next pixel: the right one does not go back and is that of a
\* column, and what is asked for lies behind it by at most the release distance.
LEMMA NextPointers ==
    ASSUME PointersInv, NEW x \in Cols
    PROVE  /\ Right(x) \in Nat /\ right <= Right(x)
           /\ OptLeft(x) \in Nat /\ OptLeft(x) <= Right(x)
           /\ Right(x) - Release(x) <= OptLeft(x)
<1>1. x * Scale \in Nat
  BY ImageAssumption DEF Cols
<1>2. right \in Nat /\ (n = 0 => right = 0)
  BY DEF PointersInv
<1>3. Right(x) \in Nat /\ right <= Right(x)
  BY <1>1, <1>2 DEF Right, Greater
<1>4. Release(x) \in Nat
  BY ReleaseBounded
<1> QED BY <1>3, <1>4 DEF OptLeft, Greater

\* The left pointer moves towards the one asked for, by the time that went by.
LEMMA NextLeft ==
    ASSUME PointersInv, NEW x \in Cols, NEW dt \in Nat
    PROVE  /\ StepInc(OptLeft(x), dt) \in Nat
           /\ StepInc(OptLeft(x), dt) <= Greater(asked, OptLeft(x))
           /\ \/ StepInc(OptLeft(x), dt) >= OptLeft(x)
              \/ n > 0 /\ StepInc(OptLeft(x), dt) = left + dt
<1> DEFINE opt == OptLeft(x)
<1>1. opt \in Nat
  BY NextPointers
<1>2. n \in Nat /\ left \in Nat /\ asked \in Nat /\ left <= asked
  BY DEF PointersInv
<1> HIDE DEF opt
<1>3. /\ StepInc(opt, dt) \in Nat
      /\ StepInc(opt, dt) <= Greater(asked, opt)
      /\ StepInc(opt, dt) >= opt \/ (n > 0 /\ StepInc(opt, dt) = left + dt)
  BY <1>1, <1>2 DEF StepInc, Greater, Lesser
<1> QED BY <1>3 DEF opt

-----------------------------------------------------------------------------
(* The steps *)

LEMMA InitIInv == Init => IInv
BY DEF Init, IInv, PointersInv, WidthInv

LEMMA TakePixelKeeps ==
    ASSUME IInv, NEW x \in Cols, NEW y \in Rows, NEW dt \in Dts, TakePixel(x, y, dt)
    PROVE  IInv'
<1>1. dt \in Nat
  BY TimeAssumption
<1>2. /\ n' = n + 1 /\ right' = Right(x) /\ left' = StepInc(OptLeft(x), dt)
      /\ asked' = Greater(asked, OptLeft(x))
      /\ paced' = (paced /\ (n > 0 => Right(x) - right <= dt))
      /\ overflow' = IF Overflows(x, dt) THEN overflow \cup {n + 1} ELSE overflow
  BY DEF TakePixel
<1>3. /\ n \in Nat /\ right \in Nat /\ left \in Nat /\ asked \in Nat
      /\ left <= asked /\ asked <= right
  BY DEF IInv, PointersInv
<1>4. /\ Right(x) \in Nat /\ right <= Right(x)
      /\ OptLeft(x) \in Nat /\ OptLeft(x) <= Right(x)
      /\ Right(x) - Release(x) <= OptLeft(x)
  BY NextPointers DEF IInv
<1>5. /\ StepInc(OptLeft(x), dt) \in Nat
      /\ StepInc(OptLeft(x), dt) <= Greater(asked, OptLeft(x))
      /\ \/ StepInc(OptLeft(x), dt) >= OptLeft(x)
         \/ n > 0 /\ StepInc(OptLeft(x), dt) = left + dt
  BY <1>1, NextLeft DEF IInv
<1>6. PointersInv'
  BY <1>2, <1>3, <1>4, <1>5 DEF PointersInv, Greater
<1>7. WidthInv'
  <2> SUFFICES ASSUME paced', FitsBuffer
               PROVE  /\ overflow' = {}
                      /\ right' - left' <= MaxBufferSize * Scale
    BY DEF WidthInv, FitsBuffer
  <2>1. /\ paced /\ (n > 0 => Right(x) - right <= dt)
        /\ overflow = {} /\ (n > 0 => right - left <= MaxBufferSize * Scale)
    BY <1>2 DEF IInv, WidthInv
  <2>2. Release(x) \in Nat /\ Release(x) <= MaxBufferSize * Scale /\ MaxBufferSize * Scale \in Nat
    BY ReleaseBounded, ImageAssumption
  <2>3. right' - left' <= MaxBufferSize * Scale
    <3>1. CASE left' >= OptLeft(x)
      BY <1>2, <1>4, <1>5, <2>2, <3>1
    <3>2. CASE n > 0 /\ left' = left + dt
      BY <1>1, <1>2, <1>3, <1>4, <2>1, <2>2, <3>2
    <3> QED BY <1>2, <1>5, <3>1, <3>2
  <2>4. ~Overflows(x, dt)
    BY <1>2, <1>4, <1>5, <2>2, <2>3 DEF Overflows
  <2> QED BY <1>2, <2>1, <2>3, <2>4
<1> QED BY <1>6, <1>7 DEF IInv

LEMMA StepIInv == IInv /\ [Next]_vars => IInv'
<1> SUFFICES ASSUME IInv, [Next]_vars PROVE IInv'
  OBVIOUS
<1>1. ASSUME NEW x \in Cols, NEW y \in Rows, NEW dt \in Dts, TakePixel(x, y, dt)
      PROVE  IInv'
  BY <1>1, TakePixelKeeps
<1>2. CASE Discard \/ UNCHANGED vars
  <2>1. UNCHANGED <<n, right, left, asked, paced, overflow>>
    BY <1>2 DEF Discard, vars
  <2> QED BY <2>1 DEF IInv, PointersInv, WidthInv, FitsBuffer
<1> QED BY <1>1, <1>2 DEF Next, Ended

\* The inductive invariant holds in every reachable state.
THEOREM IInvHolds == Spec => []IInv
BY InitIInv, StepIInv, PTL DEF Spec

\* Columns are released on request only, whatever the release distances are and
\* however they change from section to section.
THEOREM ReleaseOnRequest == Spec => []ReleasedOnRequest
<1>1. IInv => ReleasedOnRequest
  BY DEF IInv, PointersInv, ReleasedOnRequest
<1> QED BY <1>1, IInvHolds, PTL

\* An overflow means that the scan went faster than columns can be released, or
\* that a section asks for more than the buffer holds.
THEOREM OverflowOnlyTooFast == Spec => []OverflowMeansTooFast
<1>1. IInv => OverflowMeansTooFast
  BY DEF IInv, WidthInv, FitsBuffer, OverflowMeansTooFast
<1> QED BY <1>1, IInvHolds, PTL

-----------------------------------------------------------------------------
(* Types *)

\* The pixels that rows have got past when r gives their last columns; every pixel
\* taken is one of them.
Passed(r) == {p \in Cols \X Rows : p[1] <= r[p[2]]}

TypeInv ==
    /\ phase \in {"run", "done"} /\ n \in Nat
    /\ rowX \in [Rows -> 0 .. ImgH]
    /\ n <= Cardinality(Passed(rowX))
    /\ right <= ImgH * Scale
    /\ underflow \subseteq 1 .. n /\ overflow \subseteq 1 .. n
    /\ zeroed \subseteq 1 .. n /\ lost \subseteq Cells
    /\ paced \in BOOLEAN

\* Products of the image's sizes: what is smaller stays smaller.
LEMMA Grows ==
    ASSUME NEW a \in Nat, NEW b \in Nat, NEW c \in Nat, a <= b
    PROVE  a * c \in Nat /\ b * c \in Nat /\ a * c <= b * c
OBVIOUS

LEMMA CellInImage ==
    ASSUME NEW x \in Cols, NEW y \in Rows
    PROVE  Cell(x, y) \in Cells
<1>1. /\ x - 1 \in Nat /\ ImgH - 1 \in Nat /\ x - 1 <= ImgH - 1
      /\ ImgV \in Nat /\ ImgH \in Nat /\ y \in 1 .. ImgV
  BY ImageAssumption DEF Cols, Rows
<1>2. (x - 1) * ImgV \in Nat /\ (x - 1) * ImgV <= (ImgH - 1) * ImgV
  BY <1>1, Grows
<1>3. (ImgH - 1) * ImgV = ImgH * ImgV - ImgV
  BY <1>1
<1>4. ImgH * ImgV \in Nat
  BY <1>1
<1> QED BY <1>1, <1>2, <1>3, <1>4 DEF Cell, Cells

LEMMA PassedFinite ==
    ASSUME NEW r
    PROVE  /\ IsFiniteSet(Passed(r)) /\ Cardinality(Passed(r)) \in Nat
           /\ ImgH * ImgV \in Nat /\ Cardinality(Passed(r)) <= ImgH * ImgV
<1>1. ImgH \in Nat \ {0} /\ ImgV \in Nat \ {0}
  BY ImageAssumption
<1>2. /\ IsFiniteSet(Cols) /\ Cardinality(Cols) = ImgH
      /\ IsFiniteSet(Rows) /\ Cardinality(Rows) = ImgV
  BY <1>1, FS_Interval DEF Cols, Rows
<1>3. IsFiniteSet(Cols \X Rows) /\ Cardinality(Cols \X Rows) = ImgH * ImgV
  BY <1>2, FS_Product
<1>4. Passed(r) \in SUBSET (Cols \X Rows)
  BY DEF Passed
<1>5. IsFiniteSet(Passed(r)) /\ Cardinality(Passed(r)) <= ImgH * ImgV
  BY <1>3, <1>4, FS_Subset
<1> QED BY <1>1, <1>5, FS_CardinalityType

LEMMA InitTypeInv == Init => TypeInv
<1> SUFFICES ASSUME Init PROVE TypeInv
  OBVIOUS
<1>1. rowX \in [Rows -> 0 .. ImgH] /\ n = 0 /\ right = 0
  BY ImageAssumption DEF Init
<1>2. right <= ImgH * Scale
  BY <1>1, Grows, ImageAssumption
<1>3. n <= Cardinality(Passed(rowX))
  BY <1>1, PassedFinite
<1> QED BY <1>1, <1>2, <1>3 DEF Init, TypeInv

LEMMA TakePixelTyped ==
    ASSUME IInv, TypeInv, NEW x \in Cols, NEW y \in Rows, NEW dt \in Dts, TakePixel(x, y, dt)
    PROVE  TypeInv'
<1>1. /\ x > rowX[y] /\ n' = n + 1 /\ rowX' = [rowX EXCEPT ![y] = x] /\ right' = Right(x)
      /\ phase' = phase /\ zeroed' = zeroed
  BY DEF TakePixel
<1>2. n \in Nat /\ rowX \in [Rows -> 0 .. ImgH] /\ x \in 1 .. ImgH /\ x \in Nat
  BY DEF TypeInv, Cols
<1>3. rowX' \in [Rows -> 0 .. ImgH]
  BY <1>1, <1>2
<1>4. n' <= Cardinality(Passed(rowX'))
  <2>1. <<x, y>> \notin Passed(rowX)
    BY <1>1, <1>2 DEF Passed
  <2>2. Passed(rowX) \cup {<<x, y>>} \subseteq Passed(rowX')
    <3>1. <<x, y>> \in Passed(rowX')
      BY <1>1, <1>2 DEF Passed
    <3>2. ASSUME NEW p \in Passed(rowX) PROVE p \in Passed(rowX')
      <4>1. p \in Cols \X Rows /\ p[1] \in Nat /\ p[1] <= rowX[p[2]]
        BY <3>2 DEF Passed, Cols
      <4>2. rowX[p[2]] \in Nat /\ rowX[p[2]] <= rowX'[p[2]] /\ rowX'[p[2]] \in Nat
        BY <1>1, <1>2, <4>1
      <4>3. p[1] <= rowX'[p[2]]
        BY <4>1, <4>2
      <4> QED BY <4>1, <4>3 DEF Passed
    <3> QED BY <3>1, <3>2
  <2>3. IsFiniteSet(Passed(rowX')) /\ Cardinality(Passed(rowX')) \in Nat
    BY PassedFinite
  <2>4. IsFiniteSet(Passed(rowX)) /\ Cardinality(Passed(rowX)) \in Nat
    BY PassedFinite
  <2>5. Cardinality(Passed(rowX) \cup {<<x, y>>}) = Cardinality(Passed(rowX)) + 1
    BY <2>1, <2>4, FS_AddElement
  <2>6. Cardinality(Passed(rowX) \cup {<<x, y>>}) <= Cardinality(Passed(rowX'))
    BY <2>2, <2>3, FS_Subset
  <2> QED BY <1>1, <1>2, <2>3, <2>4, <2>5, <2>6 DEF TypeInv
<1>5. right' <= ImgH * Scale
  <2>1. /\ Right(x) = x * Scale \/ Right(x) = right
    BY DEF Right, Greater
  <2>2. x * Scale <= ImgH * Scale
    BY <1>2, Grows, ImageAssumption
  <2> QED BY <1>1, <2>1, <2>2 DEF TypeInv
<1>6. /\ underflow' \subseteq 1 .. n' /\ overflow' \subseteq 1 .. n' /\ zeroed' \subseteq 1 .. n'
  <2>1. 1 .. n \subseteq 1 .. n + 1 /\ n + 1 \in 1 .. n + 1
    BY <1>2
  <2> QED BY <1>1, <2>1 DEF TakePixel, TypeInv
<1>7. lost' \subseteq Cells
  BY CellInImage DEF TakePixel, TypeInv
<1>8. paced' \in BOOLEAN
  BY DEF TakePixel, TypeInv
<1> QED BY <1>1, <1>2, <1>3, <1>4, <1>5, <1>6, <1>7, <1>8 DEF TypeInv

LEMMA StepTypeInv == IInv /\ TypeInv /\ [Next]_vars => TypeInv'
<1> SUFFICES ASSUME IInv, TypeInv, [Next]_vars PROVE TypeInv'
  OBVIOUS
<1>1. ASSUME NEW x \in Cols, NEW y \in Rows, NEW dt \in Dts, TakePixel(x, y, dt)
      PROVE  TypeInv'
  BY <1>1, TakePixelTyped
<1>2. CASE Discard
  <2>1. UNCHANGED <<n, rowX, right, underflow, overflow, lost, paced>> /\ phase' = "done"
        /\ zeroed' = underflow \cup overflow
    BY <1>2 DEF Discard
  <2> QED BY <2>1 DEF TypeInv
<1>3. CASE UNCHANGED vars
  BY <1>3 DEF vars, TypeInv
<1> QED BY <1>1, <1>2, <1>3 DEF Next, Ended

\* The pointers stay inside the image, and no more pixels come than it has, so that
\* the vectors by which Discard indexes the images fit them.
THEOREM TypeCorrect == Spec => []TypeOK
<1>1. IInv /\ TypeInv => TypeOK
  <2> SUFFICES ASSUME IInv, TypeInv PROVE TypeOK
    OBVIOUS
  <2>1. n \in 0 .. ImgH * ImgV /\ ImgH * ImgV \in Nat
    BY PassedFinite DEF TypeInv
  <2>2. 1 .. n \subseteq Cells
    BY <2>1 DEF Cells
  <2>3. ImgH * Scale \in Nat
    BY ImageAssumption
  <2>4. right \in 0 .. ImgH * Scale /\ asked \in 0 .. ImgH * Scale /\ left \in 0 .. ImgH * Scale
    BY <2>3 DEF TypeInv, IInv, PointersInv
  <2> QED BY <2>1, <2>2, <2>4 DEF TypeInv, TypeOK
<1> QED BY <1>1, InitTypeInv, StepTypeInv, IInvHolds, PTL DEF Spec
=============================================================================
