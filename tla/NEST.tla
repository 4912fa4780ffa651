-------------------------------- MODULE NEST --------------------------------
(***************************************************************************)
(* The noise estimate of the DIGG block: +Pipe/+DIGG/NEST.cpp, function    *)
(* computeNest.  While the laser is off, and some chunks after it went     *)
(* off, IR values are averaged in groups of NSamples; every chunk is given *)
(* the last average.  The CMAC takes an estimate of zero for "no chunk     *)
(* yet" (CMAC.cpp line 127), so that zero must never be given.             *)
(***************************************************************************)
EXTENDS Integers

CONSTANTS
    NSamples,   \* 1 << NestNumOfSamplesExp
    LdOnDelay,  \* NestLdOnDelay
    MaxIr,      \* largest IR value (4095)
    Irs         \* IR values of the input

ASSUME SamplesAssumption == NSamples \in Nat \ {0} /\ LdOnDelay \in Nat
ASSUME IrAssumption == MaxIr \in Nat \ {0} /\ Irs \subseteq 0 .. MaxIr

VARIABLES
    nest,       \* estimate given to the last chunk
    nestOut,    \* last average
    irAcc, counter,
    delayCount, \* laser-off chunks still to skip
    prevLdOn,
    offRun      \* history: laser-off chunks since the laser was on, up to LdOnDelay + 1

vars == <<nest, nestOut, irAcc, counter, delayCount, prevLdOn, offRun>>

Init ==
    /\ nest = 1 /\ nestOut = 0 /\ irAcc = 0 /\ counter = 0
    /\ delayCount = 0 /\ prevLdOn = TRUE /\ offRun = 0

\* Mutant: the average is given as it is
EstimateRaw == nestOut
Estimate == IF nestOut > 1 THEN nestOut ELSE 1

LaserOn ==
    /\ nest' = Estimate /\ prevLdOn' = TRUE /\ offRun' = 0
    /\ UNCHANGED <<nestOut, irAcc, counter, delayCount>>

\* Mutant: the delay is started only once
DelayOnce == IF prevLdOn /\ nestOut = 0 THEN LdOnDelay ELSE delayCount
\* The delay starts again whenever the laser goes off
Delay == IF prevLdOn THEN LdOnDelay ELSE delayCount

LaserOff ==
    /\ nest' = Estimate /\ prevLdOn' = FALSE
    /\ offRun' = IF offRun > LdOnDelay THEN offRun ELSE offRun + 1

Skip ==
    /\ LaserOff /\ Delay # 0
    /\ delayCount' = Delay - 1
    /\ UNCHANGED <<nestOut, irAcc, counter>>

AccAfterGroup(ir) == 0

Accumulate(ir) ==
    /\ LaserOff /\ Delay = 0 /\ counter + 1 < NSamples
    /\ delayCount' = 0
    /\ irAcc' = irAcc + ir /\ counter' = counter + 1
    /\ UNCHANGED nestOut

Average(ir) ==
    /\ LaserOff /\ Delay = 0 /\ counter + 1 = NSamples
    /\ delayCount' = 0
    /\ nestOut' = (irAcc + ir) \div NSamples
    /\ irAcc' = AccAfterGroup(ir) /\ counter' = 0

Next == LaserOn \/ Skip \/ \E ir \in Irs : Accumulate(ir) \/ Average(ir)

Spec == Init /\ [][Next]_vars

-----------------------------------------------------------------------------

TypeOK ==
    /\ nest \in Nat /\ nestOut \in Nat /\ irAcc \in Nat
    /\ counter \in 0 .. NSamples - 1 /\ delayCount \in 0 .. LdOnDelay
    /\ prevLdOn \in BOOLEAN /\ offRun \in 0 .. LdOnDelay + 1

\* DIGG.m asserts "NEST values are 12 bits"; the CMAC needs them not to be zero.
NestInRange == nest \in 1 .. MaxIr

\* The average is one of as many values as it is divided by.
AccBounded == irAcc <= counter * MaxIr

\* A chunk is averaged only if the laser was off for the whole delay before it.
DelayKept ==
    [][counter' # counter \/ nestOut' # nestOut => offRun >= LdOnDelay]_vars
=============================================================================
