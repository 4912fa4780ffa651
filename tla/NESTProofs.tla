----------------------------- MODULE NESTProofs -----------------------------
(***************************************************************************)
(* The invariants of the noise estimate, for every number of samples,      *)
(* every delay and every input.                                            *)
(***************************************************************************)
EXTENDS NEST, TLAPS

\* A running sum of at most n values is at most n times the largest value.
LEMMA AddOne ==
    ASSUME NEW a \in Nat, NEW c \in Nat, NEW m \in Nat, NEW v \in 0 .. m,
           a <= c * m
    PROVE  a + v <= (c + 1) * m
  <1>1. c * m \in Nat /\ (c + 1) * m = c * m + m
    OBVIOUS
  <1> QED BY <1>1

\* The average of n values is at most the largest value.
LEMMA AverageBounded ==
    ASSUME NEW a \in Nat, NEW n \in Nat \ {0}, NEW m \in Nat, a <= n * m
    PROVE  a \div n \in 0 .. m
  <1> DEFINE q == a \div n
  <1>1. q \in Nat /\ n * q <= a
    OBVIOUS
  <1>2. q <= m
    <2> SUFFICES ASSUME q >= m + 1 PROVE FALSE
      BY <1>1
    <2> HIDE DEF q
    <2>1. n * q >= n * (m + 1)
      BY <1>1
    <2>2. n * (m + 1) = n * m + n
      OBVIOUS
    <2>3. n * m \in Nat /\ n * q \in Nat
      BY <1>1
    <2> QED BY <1>1, <2>1, <2>2, <2>3
  <1> QED BY <1>1, <1>2

\* What the laser switch and the delay keep: while the laser is off, the chunks
\* skipped and those still to skip make up the delay.
DelayInv ==
    /\ prevLdOn => offRun = 0
    /\ ~prevLdOn => offRun > LdOnDelay \/ offRun + delayCount >= LdOnDelay

\* The strengthening: the last average is a value of the IR channel.
IInv == TypeOK /\ AccBounded /\ nestOut <= MaxIr /\ DelayInv

USE SamplesAssumption, IrAssumption

LEMMA EstimateInRange ==
    ASSUME IInv
    PROVE  Estimate \in 1 .. MaxIr
  BY DEF IInv, TypeOK, Estimate

LEMMA InitIInv == Init => IInv /\ NestInRange
  <1> SUFFICES ASSUME Init PROVE IInv /\ NestInRange
    OBVIOUS
  <1>1. TypeOK /\ NestInRange
    BY DEF Init, TypeOK, NestInRange
  <1>2. AccBounded
    BY DEF Init, AccBounded
  <1> QED BY <1>1, <1>2 DEF Init, IInv, DelayInv

\* The two disjuncts of a laser-off chunk that takes a sample
LEMMA StepAccumulate ==
    ASSUME IInv, NEW ir \in Irs, Accumulate(ir)
    PROVE  IInv'
  <1>1. ir \in 0 .. MaxIr /\ counter \in Nat /\ irAcc \in Nat /\ MaxIr \in Nat
    BY DEF IInv, TypeOK
  <1>2. irAcc + ir <= (counter + 1) * MaxIr
    BY <1>1, AddOne DEF IInv, AccBounded
  <1>3. AccBounded'
    BY <1>2 DEF Accumulate, AccBounded
  <1>4. Estimate \in 1 .. MaxIr
    BY EstimateInRange
  <1>5. TypeOK' /\ nestOut' <= MaxIr
    <2>1. irAcc' \in Nat /\ counter' \in 0 .. NSamples - 1 /\ delayCount' = 0
      BY <1>1 DEF Accumulate
    <2>2. nestOut' \in Nat /\ nestOut' <= MaxIr
      BY DEF Accumulate, IInv, TypeOK
    <2>3. nest' \in Nat /\ offRun' \in 0 .. LdOnDelay + 1
      BY <1>4 DEF Accumulate, LaserOff, IInv, TypeOK
    <2>4. prevLdOn' \in BOOLEAN
      BY DEF Accumulate, LaserOff
    <2> QED BY <2>1, <2>2, <2>3, <2>4 DEF TypeOK
  <1>6. DelayInv'
    BY DEF Accumulate, LaserOff, Delay, IInv, TypeOK, DelayInv
  <1> QED BY <1>3, <1>5, <1>6 DEF IInv

LEMMA StepAverage ==
    ASSUME IInv, NEW ir \in Irs, Average(ir)
    PROVE  IInv'
  <1>1. ir \in 0 .. MaxIr /\ counter \in Nat /\ irAcc \in Nat /\ MaxIr \in Nat
    BY DEF IInv, TypeOK
  <1>2. irAcc + ir <= (counter + 1) * MaxIr
    BY <1>1, AddOne DEF IInv, AccBounded
  <1>3. counter + 1 = NSamples
    BY DEF Average
  <1>4. irAcc + ir \in Nat /\ irAcc + ir <= NSamples * MaxIr
    BY <1>1, <1>2, <1>3
  <1>5. (irAcc + ir) \div NSamples \in 0 .. MaxIr
    BY <1>4, AverageBounded
  <1>6. irAcc' = 0 /\ counter' = 0
    BY DEF Average, AccAfterGroup
  <1>7. AccBounded'
    BY <1>6 DEF AccBounded
  <1>8. Estimate \in 1 .. MaxIr
    BY EstimateInRange
  <1>9. TypeOK' /\ nestOut' <= MaxIr
    <2>1. delayCount' = 0 /\ nestOut' \in 0 .. MaxIr
      BY <1>5 DEF Average
    <2>2. nest' \in Nat /\ offRun' \in 0 .. LdOnDelay + 1
      BY <1>8 DEF Average, LaserOff, IInv, TypeOK
    <2>3. prevLdOn' \in BOOLEAN
      BY DEF Average, LaserOff
    <2> QED BY <1>6, <2>1, <2>2, <2>3 DEF TypeOK
  <1>10. DelayInv'
    BY DEF Average, LaserOff, Delay, IInv, TypeOK, DelayInv
  <1> QED BY <1>7, <1>9, <1>10 DEF IInv

LEMMA StepIInv == IInv /\ [Next]_vars => IInv'
  <1> SUFFICES ASSUME IInv, [Next]_vars PROVE IInv'
    OBVIOUS
  <1>0. Estimate \in 1 .. MaxIr
    BY EstimateInRange
  <1>1. CASE LaserOn
    <2>0. prevLdOn' \in BOOLEAN
      BY <1>1 DEF LaserOn
    <2>1. TypeOK' /\ nestOut' <= MaxIr
      BY <1>0, <1>1, <2>0 DEF LaserOn, IInv, TypeOK
    <2>2. AccBounded' /\ DelayInv'
      BY <1>1 DEF LaserOn, IInv, AccBounded, DelayInv
    <2> QED BY <2>1, <2>2 DEF IInv
  <1>2. CASE Skip
    <2>0. prevLdOn' \in BOOLEAN
      BY <1>2 DEF Skip, LaserOff
    <2>d. Delay \in 0 .. LdOnDelay
      BY DEF Delay, IInv, TypeOK
    <2>1. TypeOK' /\ nestOut' <= MaxIr
      BY <1>0, <1>2, <2>0, <2>d DEF Skip, LaserOff, IInv, TypeOK
    <2>a. irAcc' = irAcc /\ counter' = counter
      BY <1>2 DEF Skip
    <2>2. AccBounded'
      BY <2>a DEF IInv, AccBounded
    <2>3. DelayInv'
      BY <1>2 DEF Skip, LaserOff, Delay, IInv, TypeOK, DelayInv
    <2> QED BY <2>1, <2>2, <2>3 DEF IInv
  <1>3. CASE UNCHANGED vars
    BY <1>3 DEF vars, IInv, TypeOK, AccBounded, DelayInv
  <1> QED BY <1>1, <1>2, <1>3, StepAccumulate, StepAverage DEF Next

LEMMA IInvHolds == Spec => []IInv
  BY InitIInv, StepIInv, PTL DEF Spec

\* The state of the estimator stays well typed.
THEOREM TypeCorrect == Spec => []TypeOK
  <1>1. IInv => TypeOK
    BY DEF IInv
  <1> QED BY <1>1, IInvHolds, PTL

\* The accumulator never exceeds the largest value times the samples in it, so
\* that the average never leaves the range of the IR channel.
THEOREM AccumulatorBounded == Spec => []AccBounded
  <1>1. IInv => AccBounded
    BY DEF IInv
  <1> QED BY <1>1, IInvHolds, PTL

\* The estimate given to a chunk is never zero and never larger than an IR
\* value: the CMAC may take zero for "no chunk yet".
THEOREM EstimateNeverZero == Spec => []NestInRange
  <1>1. IInv /\ NestInRange /\ [Next]_vars => NestInRange'
    <2> SUFFICES ASSUME IInv, NestInRange, [Next]_vars PROVE NestInRange'
      OBVIOUS
    <2>1. Estimate \in 1 .. MaxIr
      BY EstimateInRange
    <2>2. nest' = Estimate \/ nest' = nest
      BY DEF Next, LaserOn, Skip, Accumulate, Average, LaserOff, vars
    <2> QED BY <2>1, <2>2 DEF NestInRange
  <1>2. Init => NestInRange
    BY InitIInv
  <1> QED BY <1>1, <1>2, IInvHolds, PTL DEF Spec

\* A chunk is averaged only after the whole delay with the laser off, wherever
\* the laser was switched on and off before.
THEOREM DelayAlwaysKept == Spec => DelayKept
  <1>1. IInv /\ [Next]_vars
            => [counter' # counter \/ nestOut' # nestOut => offRun >= LdOnDelay]_vars
    <2> SUFFICES ASSUME IInv, [Next]_vars, counter' # counter \/ nestOut' # nestOut
                 PROVE  offRun >= LdOnDelay
      OBVIOUS
    <2>1. \E ir \in Irs : Accumulate(ir) \/ Average(ir)
      BY DEF Next, LaserOn, Skip, vars
    <2>2. Delay = 0
      BY <2>1 DEF Accumulate, Average
    <2> QED BY <2>2 DEF Delay, IInv, TypeOK, DelayInv
  <1> QED BY <1>1, IInvHolds, PTL DEF Spec, DelayKept
=============================================================================
