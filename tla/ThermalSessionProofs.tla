------------------------ MODULE ThermalSessionProofs ------------------------
(***************************************************************************)
(* Proofs about the session of a thermal calibration, for any number of    *)
(* units, any heating curve and any way the earlier units ended.           *)
(***************************************************************************)
EXTENDS ThermalSession, FiniteSetTheorems, WellFoundedInduction, TLAPS

USE UnitsAssumption, HeatingAssumption

\* The state is well typed; the part of TypeOK about the end of the loop is left
\* to HeatingInv.
Typed ==
    /\ pc \in {"idle", "heat", "lastShort", "final"}
    /\ unit \in 0 .. NUnits /\ currPreset \in {Long, Short}
    /\ samples \subseteq SampleTemps /\ frame \in Frame /\ finished \in BOOLEAN
    /\ acc \in Seq(Frame) /\ taken \in Seq(Frame)
    /\ tempCount \in Nat /\ index \in Nat /\ prev \in Frame /\ regsOf \in 0 .. NUnits

\* The frames, the count of calls and the persistent variables are in step and
\* belong to the unit being calibrated.
SessionInv ==
    pc # "idle" =>
        /\ acc = taken /\ tempCount = Len(acc)
        /\ tempCount > 0 =>
              /\ index = Len(acc) /\ acc[index] = frame
              /\ regsOf = unit /\ \E j \in 1 .. Len(taken) : prev = taken[j]

\* The loop runs until heating is finished; the reference frame is not beyond the
\* time limit and less than a period old.
HeatingInv ==
    /\ pc = "heat" =>
          /\ ~finished
          /\ tempCount = 0 => frame.time = 0
          /\ tempCount > 0 => prev.time <= MaxTime /\ frame.time - prev.time < Period
    /\ pc \in {"lastShort", "final"} => finished

IInv == Typed /\ SessionInv /\ HeatingInv

-----------------------------------------------------------------------------
(* One call *)

\* In a session that is in step, the frame checked is the new one, and the
\* reference is the one set before, or for the first call the frame itself.
LEMMA CallInStep ==
    ASSUME Typed, SessionInv, pc # "idle", NEW f \in Frame
    PROVE  /\ Frames(f) \in Seq(Frame) /\ Len(Frames(f)) = Len(acc) + 1
           /\ IndexAtCall = Len(acc) /\ Checked(f) = f
           /\ PrevAtCall(f) = IF tempCount = 0 THEN f ELSE prev
<1>1. acc \in Seq(Frame) /\ tempCount = Len(acc) /\ Len(acc) \in Nat
      /\ (tempCount > 0 => index = Len(acc))
  BY DEF Typed, SessionInv
<1>2. IndexAtCall = Len(acc)
  BY <1>1 DEF IndexAtCall, FirstCall
<1>3. Frames(f) \in Seq(Frame) /\ Len(Frames(f)) = Len(acc) + 1 /\ Frames(f)[Len(acc) + 1] = f
  BY <1>1 DEF Frames
<1> QED BY <1>1, <1>2, <1>3 DEF Checked, PrevAtCall

\* What a stored frame changes stays typed.
LEMMA StoreTyped ==
    ASSUME Typed, SessionInv, pc # "idle", NEW f \in Frame, Store(f)
    PROVE  /\ acc' \in Seq(Frame) /\ taken' \in Seq(Frame) /\ prev' \in Frame
           /\ index' \in Nat /\ regsOf' \in 0 .. NUnits
<1>1. /\ Frames(f) \in Seq(Frame) /\ IndexAtCall = Len(acc) /\ Checked(f) = f
      /\ PrevAtCall(f) = IF tempCount = 0 THEN f ELSE prev
  BY CallInStep
<1>2. prev' = f \/ prev' = prev
  BY <1>1 DEF Store
<1>3. taken' \in Seq(Frame) /\ Len(acc) \in Nat
  BY DEF Store, Typed
<1>4. regsOf' = unit \/ regsOf' = regsOf
  BY DEF Store, RegsForCall
<1> QED BY <1>1, <1>2, <1>3, <1>4 DEF Store, Typed

\* A call that accepts the frame keeps the session in step.
LEMMA AcceptKeepsSession ==
    ASSUME Typed, SessionInv, pc # "idle", NEW f \in Frame, Accepts(f), frame' = f, unit' = unit
    PROVE  SessionInv'
<1>1. /\ Frames(f) \in Seq(Frame) /\ Len(Frames(f)) = Len(acc) + 1
      /\ IndexAtCall = Len(acc) /\ Checked(f) = f
      /\ PrevAtCall(f) = IF tempCount = 0 THEN f ELSE prev
  BY CallInStep
<1>2. acc \in Seq(Frame) /\ acc = taken /\ tempCount = Len(acc) /\ Len(acc) \in Nat
  BY DEF Typed, SessionInv
<1>3. acc' = Append(acc, f) /\ taken' = Append(acc, f) /\ tempCount' = Len(acc) + 1
      /\ index' = Len(acc) + 1
  BY <1>1, <1>2 DEF Accepts, Store, Frames
<1>4. regsOf' = unit
  <2>1. CASE tempCount = 0
    BY <2>1 DEF Accepts, Store, RegsForCall, FirstCall
  <2>2. CASE tempCount > 0
    BY <2>2 DEF Accepts, Store, RegsForCall, FirstCall, SessionInv
  <2> QED BY <1>2, <2>1, <2>2
<1>5. prev' = f \/ (tempCount > 0 /\ prev' = prev)
  BY <1>1, <1>2 DEF Accepts, Store
<1>6. \E j \in 1 .. Len(taken') : prev' = taken'[j]
  <2>1. CASE prev' = f
    <3>1. taken'[Len(acc) + 1] = f /\ Len(acc) + 1 \in 1 .. Len(taken')
      BY <1>2, <1>3
    <3> QED BY <2>1, <3>1
  <2>2. CASE tempCount > 0 /\ prev' = prev
    <3>1. PICK j \in 1 .. Len(taken) : prev = taken[j]
      BY <2>2 DEF SessionInv
    <3>2. taken'[j] = taken[j] /\ j \in 1 .. Len(taken')
      BY <1>2, <1>3, <3>1
    <3> QED BY <2>2, <3>1, <3>2
  <2> QED BY <1>5, <2>1, <2>2
<1>7. acc'[Len(acc) + 1] = f /\ Len(acc') = Len(acc) + 1
  BY <1>2, <1>3
<1> QED BY <1>2, <1>3, <1>4, <1>6, <1>7 DEF SessionInv

\* A new frame is a frame of the unit, later than the last one.
LEMMA NewFrameTyped ==
    ASSUME Typed, NEW gap \in Gaps, NEW rise \in Steps
    PROVE  /\ NewFrame(gap, rise) \in Frame
           /\ NewFrame(gap, rise).time = frame.time + gap
<1>1. frame.time \in Nat /\ frame.ldd \in Nat /\ gap \in Nat /\ rise \in Nat
  BY DEF Typed, Frame
<1> QED BY <1>1 DEF NewFrame, Frame, Typed

-----------------------------------------------------------------------------
(* The steps *)

LEMMA InitIInv == Init => IInv
<1> SUFFICES ASSUME Init PROVE IInv
  OBVIOUS
<1>1. NoFrame \in Frame
  BY UnitsAssumption DEF NoFrame, Frame, Long
<1>2. acc \in Seq(Frame) /\ taken \in Seq(Frame)
  BY DEF Init
<1>3. samples \subseteq SampleTemps
  BY DEF Init
<1>4. pc = "idle" /\ unit \in 0 .. NUnits /\ regsOf \in 0 .. NUnits
  BY UnitsAssumption DEF Init
<1>5. tempCount \in Nat /\ index \in Nat
  BY DEF Init
<1>6. currPreset \in {Long, Short} /\ finished \in BOOLEAN /\ frame \in Frame /\ prev \in Frame
  BY <1>1 DEF Init
<1>7. Typed
  BY <1>2, <1>3, <1>4, <1>5, <1>6 DEF Typed
<1>8. SessionInv /\ HeatingInv
  BY <1>4 DEF SessionInv, HeatingInv
<1> QED BY <1>7, <1>8 DEF IInv

\* Frames in the heating stage
LEMMA HeatFrameKeeps ==
    ASSUME IInv, NEW gap \in Gaps, NEW rise \in Steps, HeatFrame(NewFrame(gap, rise))
    PROVE  IInv'
<1> DEFINE f == NewFrame(gap, rise)
<1>1. f \in Frame /\ f.time = frame.time + gap /\ frame.time \in Nat /\ gap \in 1 .. MaxTime
  BY NewFrameTyped DEF IInv, Typed, Frame
<1>2. /\ pc = "heat" /\ Accepts(f) /\ frame' = f /\ finished' = Finishes(f)
      /\ samples' = SamplesAfter(f) /\ pc' = AfterHeating(f) /\ unit' = unit
      /\ currPreset' = IF pc' = "lastShort" THEN Short ELSE PresetAfter(f)
  BY DEF HeatFrame
<1> HIDE DEF f
<1>3. SessionInv'
  BY <1>1, <1>2, AcceptKeepsSession DEF IInv
<1>4. Typed'
  <2>1. /\ acc' \in Seq(Frame) /\ taken' \in Seq(Frame) /\ prev' \in Frame
        /\ index' \in Nat /\ regsOf' \in 0 .. NUnits
    BY <1>1, <1>2, StoreTyped DEF IInv, Accepts
  <2>2. tempCount' \in Nat
    BY <1>2 DEF Accepts, IInv, Typed
  <2>3. pc' \in {"idle", "heat", "lastShort", "final"} /\ finished' \in BOOLEAN
    BY <1>2 DEF AfterHeating, Finishes
  <2>4. samples' \subseteq SampleTemps
    BY <1>2 DEF SamplesAfter, IInv, Typed
  <2>5. currPreset' \in {Long, Short}
    BY <1>2 DEF PresetAfter
  <2> QED BY <1>1, <1>2, <2>1, <2>2, <2>3, <2>4, <2>5 DEF IInv, Typed
<1>5. HeatingInv'
  <2>1. /\ Checked(f) = f
        /\ PrevAtCall(f) = IF tempCount = 0 THEN f ELSE prev
    BY <1>1, <1>2, CallInStep DEF IInv
  <2>2. tempCount \in Nat /\ tempCount' = tempCount + 1 /\ f.time \in Nat /\ prev.time \in Nat
    BY <1>1, <1>2 DEF Accepts, IInv, Typed, Frame
  <2>3. prev' = IF Due(f) THEN f ELSE PrevAtCall(f)
    BY <1>2, <2>1 DEF Accepts, Store
  <2>4. ASSUME ~Finishes(f) PROVE prev'.time <= MaxTime /\ f.time - prev'.time < Period
    <3>1. CASE tempCount = 0
      <4>1. prev' = f /\ f.time = gap
        BY <1>1, <1>2, <2>1, <2>3, <3>1 DEF IInv, HeatingInv
      <4> QED BY <1>1, <4>1
    <3>2. CASE tempCount > 0 /\ Due(f)
      <4>1. ~(f.time > MaxTime)
        BY <2>1, <2>4, <3>2 DEF Finishes, StopsHeating
      <4> QED BY <2>2, <2>3, <3>2, <4>1
    <3>3. CASE tempCount > 0 /\ ~Due(f)
      <4>1. PrevAtCall(f) = prev /\ prev' = prev
        BY <2>1, <2>3, <3>3
      <4>2. ~(f.time - prev.time >= Period)
        BY <2>1, <3>3, <4>1 DEF Due
      <4>3. prev.time <= MaxTime
        BY <1>2, <3>3 DEF IInv, HeatingInv
      <4> QED BY <2>2, <4>1, <4>2, <4>3
    <3> QED BY <2>2, <3>1, <3>2, <3>3
  <2>5. CASE Finishes(f)
    BY <1>2, <2>5 DEF AfterHeating, HeatingInv
  <2>6. CASE ~Finishes(f)
    <3>1. pc' = "heat" /\ ~finished'
      BY <1>2, <2>6 DEF AfterHeating
    <3> QED BY <1>2, <2>2, <2>4, <2>6, <3>1 DEF HeatingInv
  <2> QED BY <2>5, <2>6
<1> QED BY <1>3, <1>4, <1>5 DEF IInv

LEMMA LastShortFrameKeeps ==
    ASSUME IInv, NEW gap \in Gaps, NEW rise \in Steps, LastShortFrame(NewFrame(gap, rise))
    PROVE  IInv'
<1> DEFINE f == NewFrame(gap, rise)
<1>1. f \in Frame
  BY NewFrameTyped DEF IInv
<1>2. /\ pc = "lastShort" /\ Accepts(f) /\ frame' = f /\ pc' = "final"
      /\ UNCHANGED <<unit, currPreset, samples, finished>>
  BY DEF LastShortFrame
<1> HIDE DEF f
<1>3. SessionInv'
  BY <1>1, <1>2, AcceptKeepsSession DEF IInv
<1>4. /\ acc' \in Seq(Frame) /\ taken' \in Seq(Frame) /\ prev' \in Frame
      /\ index' \in Nat /\ regsOf' \in 0 .. NUnits
  BY <1>1, <1>2, StoreTyped DEF IInv, Accepts
<1>5. tempCount' \in Nat
  BY <1>2 DEF Accepts, IInv, Typed
<1>6. Typed' /\ HeatingInv'
  BY <1>1, <1>2, <1>4, <1>5 DEF IInv, Typed, HeatingInv
<1> QED BY <1>3, <1>6 DEF IInv

\* A session that ends by an error is left as it is.
LEMMA FailKeeps ==
    ASSUME IInv, NEW gap \in Gaps, NEW rise \in Steps, Fail(NewFrame(gap, rise))
    PROVE  IInv'
<1> DEFINE f == NewFrame(gap, rise)
<1>1. f \in Frame
  BY NewFrameTyped DEF IInv
<1>2. /\ pc # "idle" /\ pc' = "idle" /\ UNCHANGED <<unit, currPreset, samples, frame, finished>>
      /\ ThrowsEarly \/ ThrowsLate(f) \/ UNCHANGED <<session, taken>>
  BY DEF Fail
<1> HIDE DEF f
<1>3. /\ acc' \in Seq(Frame) /\ taken' \in Seq(Frame) /\ prev' \in Frame
      /\ tempCount' \in Nat /\ index' \in Nat /\ regsOf' \in 0 .. NUnits
  <2>1. CASE ThrowsEarly
    <3>1. NoFrame \in Frame
      BY DEF NoFrame, Frame, Long
    <3> QED BY <2>1, <3>1 DEF ThrowsEarly, IndexAtCall, RegsForCall, IInv, Typed
  <2>2. CASE ThrowsLate(f)
    BY <1>1, <1>2, <2>2, StoreTyped DEF ThrowsLate, IInv, Typed
  <2>3. CASE UNCHANGED <<session, taken>>
    BY <2>3 DEF session, IInv, Typed
  <2> QED BY <1>2, <2>1, <2>2, <2>3
<1> QED BY <1>2, <1>3 DEF IInv, Typed, SessionInv, HeatingInv

LEMMA StepIInv == IInv /\ [Next]_vars => IInv'
<1> SUFFICES ASSUME IInv, [Next]_vars PROVE IInv'
  OBVIOUS
<1>1. CASE CalInit
  <2>1. [NoFrame EXCEPT !.ldd = StartLdd]
          = [unit |-> 0, preset |-> Long, ldd |-> StartLdd, time |-> 0]
    BY DEF NoFrame
  <2>2. frame' \in Frame /\ frame'.time = 0
    BY <1>1, <2>1, UnitsAssumption, HeatingAssumption DEF CalInit, Frame, Long
  <2>3. acc' = << >> /\ taken' = << >> /\ tempCount' = 0 /\ pc' = "heat" /\ finished' = FALSE
    BY <1>1 DEF CalInit, AccAtInit
  <2>4. unit' \in 0 .. NUnits
    BY <1>1, UnitsAssumption DEF CalInit, IInv, Typed
  <2>5. /\ currPreset' \in {Long, Short} /\ samples' \subseteq SampleTemps
        /\ index' \in Nat /\ prev' \in Frame /\ regsOf' \in 0 .. NUnits
    BY <1>1 DEF CalInit, IInv, Typed
  <2>6. Typed'
    <3>1. acc' \in Seq(Frame) /\ taken' \in Seq(Frame)
      BY <2>3
    <3>2. tempCount' \in Nat
      BY <2>3
    <3>3. pc' \in {"idle", "heat", "lastShort", "final"} /\ finished' \in BOOLEAN
      BY <2>3
    <3> QED BY <2>2, <2>4, <2>5, <3>1, <3>2, <3>3, Zenon DEF Typed
  <2>7. SessionInv'
    BY <2>3 DEF SessionInv
  <2>8. HeatingInv'
    BY <2>2, <2>3 DEF HeatingInv
  <2> QED BY <2>6, <2>7, <2>8 DEF IInv
<1>2. ASSUME NEW gap \in Gaps, NEW rise \in Steps,
             LET f == NewFrame(gap, rise) IN HeatFrame(f) \/ LastShortFrame(f) \/ Fail(f)
      PROVE  IInv'
  BY <1>2, HeatFrameKeeps, LastShortFrameKeeps, FailKeeps
<1>3. CASE FailFinal \/ FinalCall
  <2>1. pc' = "idle" /\ tempCount' \in Nat
    BY <1>3 DEF FailFinal, FinalCall, session, IInv, Typed
  <2>2. UNCHANGED <<unit, currPreset, samples, frame, finished, acc, index, prev, regsOf, taken>>
    BY <1>3 DEF FailFinal, FinalCall, session
  <2>3. Typed'
    <3>1. /\ unit' \in 0 .. NUnits /\ currPreset' \in {Long, Short}
          /\ samples' \subseteq SampleTemps /\ finished' \in BOOLEAN
      BY <2>2 DEF IInv, Typed
    <3>2. /\ frame' \in Frame /\ acc' \in Seq(Frame) /\ taken' \in Seq(Frame)
          /\ index' \in Nat /\ prev' \in Frame /\ regsOf' \in 0 .. NUnits
      BY <2>2 DEF IInv, Typed
    <3> QED BY <2>1, <3>1, <3>2 DEF Typed
  <2>4. SessionInv' /\ HeatingInv'
    BY <2>1 DEF SessionInv, HeatingInv
  <2> QED BY <2>3, <2>4 DEF IInv
<1>4. CASE UNCHANGED vars
  BY <1>4 DEF vars, caller, session, IInv, Typed, SessionInv, HeatingInv
<1> QED BY <1>1, <1>2, <1>3, <1>4 DEF Next, Ended

\* The inductive invariant holds in every reachable state.
THEOREM IInvHolds == Spec => []IInv
BY InitIInv, StepIInv, PTL DEF Spec

\* The state is well typed, and the loop runs until heating is finished.
THEOREM TypeCorrect == Spec => []TypeOK
<1>1. IInv => TypeOK
  BY DEF IInv, Typed, HeatingInv, TypeOK
<1> QED BY <1>1, IInvHolds, PTL

\* A unit's table is made of its own frames, reference and registers, whatever way
\* the units before it ended: clearing acc and the count in cal_init is enough.
THEOREM OwnSession == Spec => []SessionOfUnit
<1>1. IInv => SessionOfUnit
  BY DEF IInv, SessionInv, SessionOfUnit
<1> QED BY <1>1, IInvHolds, PTL

\* The frame checked for convergence is the one just taken.
THEOREM CheckedFrameIsLast == Spec => []CheckedIsLast
<1>1. IInv => CheckedIsLast
  BY DEF IInv, SessionInv, CheckedIsLast
<1> QED BY <1>1, IInvHolds, PTL

\* Heating ends within a period of the time limit, for every heating curve and
\* every spacing of the frames.
THEOREM HeatingEndsInTime == Spec => []HeatingBounded
<1>1. IInv => HeatingBounded
  <2> SUFFICES ASSUME IInv, pc = "heat" PROVE frame.time < MaxTime + Period
    BY DEF HeatingBounded
  <2>1. tempCount \in Nat /\ frame.time \in Nat /\ prev.time \in Nat
    BY DEF IInv, Typed, Frame
  <2>2. CASE tempCount = 0
    BY <2>1, <2>2 DEF IInv, HeatingInv
  <2>3. CASE tempCount > 0
    BY <2>1, <2>3 DEF IInv, HeatingInv
  <2> QED BY <2>1, <2>2, <2>3
<1> QED BY <1>1, IInvHolds, PTL

-----------------------------------------------------------------------------
(* Short frames *)

\* The coldest of the temperatures that are left exists.
LEMMA LeastExists ==
    ASSUME NEW S, S \subseteq Nat, IsFiniteSet(S), S # {}
    PROVE  \E s \in S : \A r \in S : s <= r
<1> DEFINE Below(x) == {r \in S : r < x}
           R == StrictSubsetOrdering(S)
           T == {Below(x) : x \in S}
<1>1. IsWellFoundedOn(R, FiniteSubsetsOf(S))
  BY FS_StrictSubsetOrderingWellFounded
<1>2. T \subseteq FiniteSubsetsOf(S) /\ T # {}
  <2>1. FiniteSubsetsOf(S) = SUBSET S
    BY FS_FiniteSubsetsOfFinite
  <2>2. T \subseteq SUBSET S
    OBVIOUS
  <2>3. T # {}
    OBVIOUS
  <2> HIDE DEF T
  <2> QED BY <2>1, <2>2, <2>3
<1>3. \E U \in T : \A V \in T : <<V, U>> \notin R
  <2> HIDE DEF R, T
  <2> QED BY <1>1, <1>2, WFMin
<1>4. PICK s \in S : \A r \in S : <<Below(r), Below(s)>> \notin R
  BY <1>3
<1>5. ASSUME NEW r \in S, r < s PROVE FALSE
  <2> r \in Nat /\ s \in Nat /\ r < s
    BY <1>5
  <2>1. \A x \in S : x < r => x < s
    OBVIOUS
  <2>2. Below(r) \subseteq Below(s)
    BY <2>1
  <2>3. r \in Below(s) /\ r \notin Below(r)
    OBVIOUS
  <2>4. <<Below(r), Below(s)>> \in R
    BY <2>2, <2>3 DEF StrictSubsetOrdering
  <2> QED BY <1>4, <2>4
<1> QED BY <1>5

\* Taking the coldest away leaves one less.
LEMMA ColdestTaken ==
    ASSUME NEW S \in SUBSET SampleTemps, S # {}
    PROVE  IsFiniteSet(S) /\ Cardinality(S \ {Coldest(S)}) = Cardinality(S) - 1
<1>1. IsFiniteSet(S)
  BY FS_Subset, HeatingAssumption
<1>2. \E s \in S : \A r \in S : s <= r
  BY <1>1, LeastExists, HeatingAssumption
<1>3. Coldest(S) \in S
  BY <1>2 DEF Coldest
<1> QED BY <1>1, <1>3, FS_RemoveElement

Shorts(t) == {j \in 1 .. Len(t) : t[j].preset = Short}

LEMMA ShortsFinite ==
    ASSUME NEW t \in Seq(Frame)
    PROVE  IsFiniteSet(Shorts(t)) /\ Cardinality(Shorts(t)) \in Nat
<1>1. IsFiniteSet(1 .. Len(t))
  BY FS_Interval
<1>2. IsFiniteSet(Shorts(t))
  BY <1>1, FS_Subset DEF Shorts
<1> QED BY <1>2, FS_CardinalityType

\* A frame adds one short frame if it is short.
LEMMA ShortsAppend ==
    ASSUME NEW t \in Seq(Frame), NEW f \in Frame
    PROVE  Cardinality(Shorts(Append(t, f)))
             = Cardinality(Shorts(t)) + (IF f.preset = Short THEN 1 ELSE 0)
<1>1. /\ Len(Append(t, f)) = Len(t) + 1 /\ Len(t) \in Nat
      /\ Append(t, f)[Len(t) + 1] = f
      /\ \A j \in 1 .. Len(t) : Append(t, f)[j] = t[j]
  OBVIOUS
<1>2. 1 .. Len(t) + 1 = (1 .. Len(t)) \cup {Len(t) + 1}
  BY <1>1
<1>3. IsFiniteSet(Shorts(t)) /\ Cardinality(Shorts(t)) \in Nat /\ Len(t) + 1 \notin Shorts(t)
  BY <1>1, ShortsFinite DEF Shorts
<1>4. CASE f.preset = Short
  <2>1. Shorts(Append(t, f)) = Shorts(t) \cup {Len(t) + 1}
    BY <1>1, <1>2, <1>4 DEF Shorts
  <2> QED BY <1>3, <1>4, <2>1, FS_AddElement
<1>5. CASE f.preset # Short
  <2>1. Shorts(Append(t, f)) = Shorts(t)
    BY <1>1, <1>2, <1>5 DEF Shorts
  <2> QED BY <1>3, <1>5, <2>1
<1> QED BY <1>4, <1>5

\* Short frames taken, temperatures left to reach and a short frame asked for
\* together never exceed the number of temperatures by more than the first frame,
\* to which the last one is added.
ShortInv ==
    /\ pc = "heat" =>
          Cardinality(Shorts(taken)) + Cardinality(samples) + (IF currPreset = Short THEN 1 ELSE 0)
              <= Cardinality(SampleTemps) + 1
    /\ pc = "lastShort" => Cardinality(Shorts(taken)) <= Cardinality(SampleTemps) + 1
    /\ pc = "final" => Cardinality(Shorts(taken)) <= Cardinality(SampleTemps) + 2

LEMMA HeatFrameKeepsShort ==
    ASSUME IInv, ShortInv, NEW gap \in Gaps, NEW rise \in Steps, HeatFrame(NewFrame(gap, rise))
    PROVE  ShortInv'
<1> DEFINE f == NewFrame(gap, rise)
<1>1. f \in Frame /\ f.preset = currPreset
  BY NewFrameTyped DEF IInv, NewFrame
<1>2. /\ pc = "heat" /\ taken' = Append(taken, f) /\ samples' = SamplesAfter(f)
      /\ pc' = AfterHeating(f)
      /\ currPreset' = IF pc' = "lastShort" THEN Short ELSE PresetAfter(f)
  BY DEF HeatFrame, Accepts, Store
<1> HIDE DEF f
<1>3. /\ taken \in Seq(Frame) /\ samples \in SUBSET SampleTemps /\ currPreset \in {Long, Short}
      /\ IsFiniteSet(samples) /\ Cardinality(samples) \in Nat /\ Cardinality(SampleTemps) \in Nat
  BY FS_Subset, FS_CardinalityType, HeatingAssumption DEF IInv, Typed
<1>4. Cardinality(Shorts(taken')) = Cardinality(Shorts(taken)) + (IF currPreset = Short THEN 1 ELSE 0)
  BY <1>1, <1>2, <1>3, ShortsAppend
<1>5. Cardinality(Shorts(taken)) \in Nat
  BY <1>3, ShortsFinite
<1>6. /\ Cardinality(samples') \in Nat
      /\ Cardinality(Shorts(taken')) + Cardinality(samples')
            + (IF PresetAfter(f) = Short THEN 1 ELSE 0) <= Cardinality(SampleTemps) + 1
  <2>1. CASE currPreset = Short
    <3>1. samples' \in SUBSET samples /\ PresetAfter(f) = Long
      BY <1>2, <2>1 DEF SamplesAfter, PresetAfter, Long, Short
    <3>2. Cardinality(samples') \in Nat /\ Cardinality(samples') <= Cardinality(samples)
      BY <1>3, <3>1, FS_Subset, FS_CardinalityType
    <3> QED BY <1>2, <1>3, <1>4, <1>5, <2>1, <3>1, <3>2 DEF ShortInv, Long, Short
  <2>2. CASE currPreset = Long /\ Reached(f) # {}
    <3>1. samples # {} /\ samples' = samples \ {Coldest(samples)} /\ PresetAfter(f) = Short
      BY <1>2, <2>2 DEF SamplesAfter, PresetAfter, Reached, Long, Short
    <3>2. Cardinality(samples') = Cardinality(samples) - 1
      BY <1>3, <3>1, ColdestTaken
    <3>3. Cardinality(samples') \in Nat
      BY <1>3, <3>1, FS_RemoveElement, FS_CardinalityType
    <3> QED BY <1>2, <1>3, <1>4, <1>5, <2>2, <3>1, <3>2, <3>3 DEF ShortInv, Long, Short
  <2>3. CASE currPreset = Long /\ Reached(f) = {}
    <3>1. samples' = samples /\ PresetAfter(f) = Long
      BY <1>2, <2>3 DEF SamplesAfter, PresetAfter, Long, Short
    <3> QED BY <1>2, <1>3, <1>4, <1>5, <2>3, <3>1 DEF ShortInv, Long, Short
  <2> QED BY <1>3, <2>1, <2>2, <2>3
<1>7. Cardinality(Shorts(taken')) \in Nat
  BY <1>4, <1>5
<1> QED BY <1>2, <1>3, <1>6, <1>7 DEF AfterHeating, ShortInv

LEMMA StepShortInv == IInv /\ ShortInv /\ [Next]_vars => ShortInv'
<1> SUFFICES ASSUME IInv, ShortInv, [Next]_vars PROVE ShortInv'
  OBVIOUS
<1>1. ASSUME NEW gap \in Gaps, NEW rise \in Steps, HeatFrame(NewFrame(gap, rise)) PROVE ShortInv'
  BY <1>1, HeatFrameKeepsShort
<1>2. ASSUME NEW gap \in Gaps, NEW rise \in Steps, LastShortFrame(NewFrame(gap, rise)) PROVE ShortInv'
  <2> DEFINE f == NewFrame(gap, rise)
  <2>1. f \in Frame
    BY NewFrameTyped DEF IInv
  <2>2. pc = "lastShort" /\ pc' = "final" /\ taken' = Append(taken, f)
    BY <1>2 DEF LastShortFrame, Accepts, Store
  <2> HIDE DEF f
  <2>3. taken \in Seq(Frame) /\ Cardinality(SampleTemps) \in Nat
    BY FS_CardinalityType, HeatingAssumption DEF IInv, Typed
  <2>4. /\ Cardinality(Shorts(taken)) \in Nat
        /\ Cardinality(Shorts(taken')) <= Cardinality(Shorts(taken)) + 1
    BY <2>1, <2>2, <2>3, ShortsAppend, ShortsFinite
  <2>5. Cardinality(Shorts(taken')) \in Nat
    BY <2>1, <2>2, <2>3, <2>4, ShortsAppend
  <2> QED BY <2>2, <2>3, <2>4, <2>5 DEF ShortInv
<1>3. CASE CalInit
  <2>1. pc' = "heat" /\ taken' = << >> /\ samples' = SampleTemps /\ currPreset' = Short
    BY <1>3 DEF CalInit
  <2>2. Shorts(<< >>) = {}
    BY DEF Shorts
  <2>3. Cardinality(Shorts(taken')) = 0
    BY <2>1, <2>2, FS_EmptySet
  <2>4. Cardinality(SampleTemps) \in Nat
    BY FS_CardinalityType, HeatingAssumption
  <2> QED BY <2>1, <2>3, <2>4 DEF ShortInv
<1>4. ASSUME NEW gap \in Gaps, NEW rise \in Steps, Fail(NewFrame(gap, rise)) PROVE ShortInv'
  BY <1>4 DEF Fail, ShortInv
<1>5. CASE FailFinal \/ FinalCall
  BY <1>5 DEF FailFinal, FinalCall, ShortInv
<1>6. CASE UNCHANGED vars
  BY <1>6 DEF vars, caller, session, ShortInv
<1> QED BY <1>1, <1>2, <1>3, <1>4, <1>5, <1>6 DEF Next, Ended

\* No more short frames are taken than one for each sample temperature, the first
\* one and the last one, whatever the heating curve.
THEOREM ShortFramesStayBounded == Spec => []ShortFramesBounded
<1>1. Init => ShortInv
  BY DEF Init, ShortInv
<1>2. IInv /\ ShortInv => ShortFramesBounded
  <2> SUFFICES ASSUME IInv, ShortInv, pc # "idle"
               PROVE  Cardinality(Shorts(taken)) <= Cardinality(SampleTemps) + 2
    BY DEF ShortFramesBounded, Shorts
  <2>1. /\ Cardinality(Shorts(taken)) \in Nat /\ Cardinality(SampleTemps) \in Nat
        /\ Cardinality(samples) \in Nat
    BY ShortsFinite, FS_Subset, FS_CardinalityType, HeatingAssumption DEF IInv, Typed
  <2>2. pc \in {"heat", "lastShort", "final"}
    BY DEF IInv, Typed
  <2> QED BY <2>1, <2>2 DEF ShortInv
<1> QED BY <1>1, <1>2, StepShortInv, IInvHolds, PTL DEF Spec
=============================================================================
