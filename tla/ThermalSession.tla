--------------------------- MODULE ThermalSession ---------------------------
(***************************************************************************)
(* The heating stage of the thermal calibration of one unit after the      *)
(* other in one process: CompiledAPI/cal_init.m, TmptrDataFrame_Calc.m and *)
(* its TmptrDataFrame_Calc_int.m, called by the loop of                    *)
(* +Calibration/+thermal/AlgoThermalCalib.m.                               *)
(*                                                                         *)
(* A session is kept in a global array of frames (acc), a global count of  *)
(* calls (g_temp_count) and persistent variables that are reset by the     *)
(* first call, which is known by the count being 0.  Nothing resets them   *)
(* when a session ends by an error; the next unit begins with cal_init.    *)
(* Meanwhile the caller switches between the long (1) and the short (2)    *)
(* preset and counts on four short frames.                                 *)
(*                                                                         *)
(* Images, corners and the tables computed from the frames are left out; a *)
(* frame is its unit, preset, LDD temperature and time.  Calls give the    *)
(* unit's EEPROM as an image, so that the registers come from the first    *)
(* call.  Times and temperatures are small integers.                       *)
(***************************************************************************)
EXTENDS Integers, Sequences, FiniteSets

CONSTANTS
    NUnits,       \* bound: units calibrated by the process
    SampleTemps,  \* calibrateShortPreset.sampleLddTemps
    TempTh,       \* warmUpTh
    Period,       \* tempSamplePeriod
    MaxTime,      \* maxTime2WaitSec
    LddTKill,
    Gaps,         \* times between frames
    Steps,        \* rises of the LDD temperature between frames
    StartLdd      \* LDD temperature before the first frame

ASSUME UnitsAssumption == NUnits \in Nat \ {0}
ASSUME HeatingAssumption ==
    /\ SampleTemps \subseteq Nat /\ IsFiniteSet(SampleTemps)
    /\ TempTh \in Nat /\ Period \in Nat \ {0} /\ MaxTime \in Nat
    /\ LddTKill \in Nat /\ StartLdd \in Nat /\ Steps \subseteq Nat
    /\ Gaps \subseteq 1 .. MaxTime

Long == 1
Short == 2
Frame == [unit : 0 .. NUnits, preset : {Long, Short}, ldd : Nat, time : Nat]
\* prevTmp and prevTime are 0 when they are reset
NoFrame == [unit |-> 0, preset |-> Long, ldd |-> 0, time |-> 0]

VARIABLES
    pc,         \* of AlgoThermalCalib: "idle", "heat", "lastShort", "final"
    unit,       \* unit being calibrated, 0 before the first
    currPreset, \* currPresetMode
    samples,    \* sampleLddTempsShort
    frame,      \* framesData(i): the frame taken last
    finished,   \* finishedHeating of the caller
    acc,        \* global: the frames of the session
    tempCount,  \* global g_temp_count
    index,      \* persistent Index
    prev,       \* persistent prevTmp, prevTime: the frame they are taken from
    regsOf,     \* persistent internalEepromRegs: the unit they are from
    taken       \* history: the unit's frames that a call accepted

caller == <<pc, unit, currPreset, samples, frame, finished>>
session == <<acc, tempCount, index, prev, regsOf>>
vars == <<caller, session, taken>>

Init ==
    /\ pc = "idle" /\ unit = 0 /\ currPreset = Long /\ samples = {}
    /\ frame = NoFrame /\ finished = FALSE
    /\ acc = << >> /\ tempCount = 0 /\ index = 0 /\ prev = NoFrame /\ regsOf = 0
    /\ taken = << >>

\* Mutant: cal_init keeps the frames
AccAtInitKept == acc
\* cal_init clears the frames
AccAtInit == << >>

\* Calibration of the next unit: cal_init, then the heating stage is entered
CalInit ==
    /\ pc = "idle" /\ unit < NUnits
    /\ unit' = unit + 1 /\ pc' = "heat"
    /\ currPreset' = Short /\ samples' = SampleTemps /\ finished' = FALSE
    /\ frame' = [NoFrame EXCEPT !.ldd = StartLdd]
    /\ acc' = AccAtInit /\ tempCount' = 0
    /\ taken' = << >>
    /\ UNCHANGED <<index, prev, regsOf>>

-----------------------------------------------------------------------------
(* One call of TmptrDataFrame_Calc in the heating stage *)

FirstCall == tempCount = 0

\* Mutant: the registers are read once per process
RegsForCallOnce == IF regsOf = 0 THEN unit ELSE regsOf
RegsForCall == IF FirstCall THEN unit ELSE regsOf

IndexAtCall == IF FirstCall THEN 0 ELSE index

\* prevTmp and prevTime when convergence is checked: the first frame sets them
PrevAtCall(f) == IF IndexAtCall = 0 THEN f ELSE prev

\* The new frame is stored; Frames(f)[Index] is the one that is checked
Frames(f) == Append(acc, f)
Checked(f) == Frames(f)[IndexAtCall + 1]

Due(f) == Checked(f).time - PrevAtCall(f).time >= Period

\* Mutant: the time limit is not looked at
StopsHeatingTimeless(f) ==
    Checked(f).ldd - PrevAtCall(f).ldd < TempTh \/ Checked(f).ldd > LddTKill - 1
\* Stable temperature, time limit, or close to the temperature that kills
StopsHeating(f) ==
    \/ Checked(f).ldd - PrevAtCall(f).ldd < TempTh
    \/ Checked(f).time > MaxTime
    \/ Checked(f).ldd > LddTKill - 1

Finishes(f) == Due(f) /\ StopsHeating(f)

Store(f) ==
    /\ acc' = Frames(f)
    /\ index' = IndexAtCall + 1
    /\ prev' = IF Due(f) THEN Checked(f) ELSE PrevAtCall(f)
    /\ regsOf' = RegsForCall
    /\ taken' = Append(taken, f)

Accepts(f) == Store(f) /\ tempCount' = tempCount + 1

\* No checkerboard: the columns of an empty matrix are read, which throws
\* before the frame is stored
ThrowsEarly ==
    /\ index' = IndexAtCall /\ prev' = IF FirstCall THEN NoFrame ELSE prev
    /\ regsOf' = RegsForCall
    /\ UNCHANGED <<acc, tempCount, taken>>

\* A file cannot be saved: the frame is stored and the call is not counted
ThrowsLate(f) == Store(f) /\ UNCHANGED tempCount

-----------------------------------------------------------------------------
(* The loop of AlgoThermalCalib *)

NewFrame(gap, rise) ==
    [unit |-> unit, preset |-> currPreset,
     ldd |-> frame.ldd + rise, time |-> frame.time + gap]

Reached(f) == {s \in samples : s < f.ldd}
Coldest(S) == CHOOSE s \in S : \A r \in S : s <= r

\* Mutant: the long preset is not set again after a short frame
PresetAfterSticky(f) == IF Reached(f) # {} THEN Short ELSE currPreset
\* "We always only take 1 short preset image"; a long frame warmer than a sample
\* temperature asks for the next short one
PresetAfter(f) == IF currPreset = Long /\ Reached(f) # {} THEN Short ELSE Long

SamplesAfter(f) ==
    IF currPreset = Short THEN samples \ Reached(f)
    ELSE IF Reached(f) # {} THEN samples \ {Coldest(samples)} ELSE samples

\* The last short frame is only taken when the preset is the long one
AfterHeating(f) ==
    IF ~Finishes(f) THEN "heat" ELSE IF PresetAfter(f) = Long THEN "lastShort" ELSE "final"

HeatFrame(f) ==
    /\ pc = "heat"
    /\ Accepts(f)
    /\ frame' = f /\ finished' = Finishes(f)
    /\ samples' = SamplesAfter(f)
    /\ pc' = AfterHeating(f)
    /\ currPreset' = IF pc' = "lastShort" THEN Short ELSE PresetAfter(f)
    /\ UNCHANGED unit

\* The call is told that heating is not over, and its answer is not looked at
LastShortFrame(f) ==
    /\ pc = "lastShort"
    /\ Accepts(f) /\ frame' = f
    /\ pc' = "final"
    /\ UNCHANGED <<unit, currPreset, samples, finished>>

\* An error ends the calibration of the unit; the session stays as it is
Fail(f) ==
    /\ pc \in {"heat", "lastShort"}
    /\ ThrowsEarly \/ ThrowsLate(f) \/ UNCHANGED <<session, taken>>
    /\ pc' = "idle"
    /\ UNCHANGED <<unit, currPreset, samples, frame, finished>>

\* Delays that cannot be calibrated, or an error in the last calculation
FailFinal ==
    /\ pc = "final"
    /\ pc' = "idle"
    /\ UNCHANGED <<unit, currPreset, samples, frame, finished, session, taken>>

\* The last call computes the table from the frames, which it leaves in acc
FinalCall ==
    /\ pc = "final"
    /\ pc' = "idle" /\ tempCount' = 0
    /\ UNCHANGED <<unit, currPreset, samples, frame, finished, acc, index, prev, regsOf, taken>>

Ended == pc = "idle" /\ unit = NUnits /\ UNCHANGED vars

Next ==
    \/ \E gap \in Gaps, rise \in Steps :
          LET f == NewFrame(gap, rise) IN HeatFrame(f) \/ LastShortFrame(f) \/ Fail(f)
    \/ CalInit \/ FailFinal \/ FinalCall \/ Ended

Spec == Init /\ [][Next]_vars

-----------------------------------------------------------------------------
(* Properties *)

\* The state is well typed, and the loop runs until heating is finished.
TypeOK ==
    /\ pc \in {"idle", "heat", "lastShort", "final"}
    /\ unit \in 0 .. NUnits /\ currPreset \in {Long, Short}
    /\ samples \subseteq SampleTemps /\ frame \in Frame /\ finished \in BOOLEAN
    /\ acc \in Seq(Frame) /\ taken \in Seq(Frame)
    /\ tempCount \in Nat /\ index \in Nat /\ prev \in Frame /\ regsOf \in 0 .. NUnits
    /\ pc = "heat" => ~finished
    /\ pc \in {"lastShort", "final"} => finished

\* Whatever way the units before it ended, by an error in a call, between calls or
\* after the table, a unit's table is made of its own frames in the order they
\* were taken, the reference it converges against is one of them, and the
\* registers read by the first call are its own.
SessionOfUnit ==
    pc # "idle" =>
        /\ acc = taken
        /\ tempCount > 0 =>
              /\ regsOf = unit
              /\ \E j \in 1 .. Len(taken) : prev = taken[j]

\* The frame checked for convergence, framesData(Index), is the one just taken:
\* the count of calls, the persistent index and the global array stay in step.
CheckedIsLast ==
    pc # "idle" =>
        /\ tempCount = Len(acc)
        /\ tempCount > 0 => index = Len(acc) /\ acc[index] = frame

\* Heating ends within one sample period of the time limit, although the limit is
\* looked at only when a period is over (TmptrDataFrame_Calc_int.m line 105).
HeatingBounded == pc = "heat" => frame.time < MaxTime + Period

\* The caller takes no more short frames than the four the table needs, of two
\* sample temperatures: one at the start, one for each of them, one at the end
\* (finalCalcAfterHeating.m line 19).
ShortFramesBounded ==
    pc # "idle" =>
        Cardinality({j \in 1 .. Len(taken) : taken[j].preset = Short})
            <= Cardinality(SampleTemps) + 2
=============================================================================
