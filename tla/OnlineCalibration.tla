-------------------------- MODULE OnlineCalibration --------------------------
(***************************************************************************)
(* One online calibration of the colour camera against the depth camera:   *)
(* +OnlineCalibration/tests/runOnlineCalibrationOn.m with the optimiser    *)
(* +Opt/optimizeParametersP.m, its backtracking line search and            *)
(* +aux/validOutputParameters.m.                                           *)
(*                                                                         *)
(* The projection matrix is one number, the shift of the vertices along a  *)
(* row of the image before the lens (the last row of the matrix gets no    *)
(* gradient, so that there they move linearly).  The lens bends where they *)
(* land: they move differently, on curved paths, and may leave the image   *)
(* and come back.  Of the lens the first radial coefficient is kept, of    *)
(* interpolation the nearest pixel, of the Sobel filter the difference of  *)
(* the neighbours.  The direction of a step is the sign of the mean        *)
(* gradient, its length starts at MaxStep and is halved; all weights are   *)
(* 1.  Scores are multiples of the possible numbers of vertices, so that   *)
(* means are exact; movements are rounded down, to a Unit, and a clipped   *)
(* shift to a pixel.                                                       *)
(*                                                                         *)
(* NaN is what MATLAB computes from no vertex inside the image (nanmean of *)
(* nothing) and from a gradient of length 0 (0/0).  It propagates, and     *)
(* every comparison with it is false.                                      *)
(*                                                                         *)
(* The result of validScene is written to the metadata and stops nothing   *)
(* (its return is commented out), so it is left out.                       *)
(***************************************************************************)
EXTENDS Integers, FiniteSets, FiniteSetsExt

CONSTANTS
    NaN,
    HalfW, HalfH, \* pixels from the principal point to the borders of the image
    Vertices, Section,  \* the section of the depth image of each vertex
    Images,       \* frame.rgbIDT: score of every pixel
    Places,       \* where the start parameters project the vertices, before the lens
    Unit,         \* parts of a pixel in which positions after the lens are counted
    Coefficients, \* rgbDistort(1), in Units
    MaxStep, MinStep,   \* maxStepSize, minStepSize
    GainPerStep,  \* controlParam times the length of the normalised gradient
    MaxBackTrackIters, MaxOptimizationIters, MinCostDelta,
    MaxMovement,  \* maxXYMovementPerIteration(1), in Units
    MaxFromOrigin \* maxXYMovementFromOrigin, in Units

Pixels == (-HalfW .. HalfW) \X (-HalfH .. HalfH)

ASSUME NaNAssumption == NaN \notin Int
ASSUME FrameAssumption ==
    /\ HalfW \in Nat /\ HalfH \in Nat /\ IsFiniteSet(Vertices) /\ Vertices # {}
    /\ \A D \in Images : D \in [Pixels -> Nat]
    /\ \A at \in Places : at \in [Vertices -> Int \X Int]
ASSUME LensAssumption == Unit \in Nat \ {0} /\ Coefficients \subseteq Int
ASSUME ParamsAssumption ==
    /\ MaxStep \in Nat /\ MinStep \in Nat /\ GainPerStep \in Nat
    /\ MaxBackTrackIters \in Nat /\ MaxOptimizationIters \in Nat \ {0} /\ MinCostDelta \in Nat
    /\ MaxMovement \in Nat /\ MaxFromOrigin \in Nat

None == [rgbPmat |-> NaN, cost |-> NaN, iters |-> 0]
Start == 0
Matrix == Int \cup {NaN}

VARIABLES
    pc,        \* "gradient", "search", "validate", "done", "error"
    D, at, k1, \* the frame: rgbIDT, the projected vertices and the camera's lens
    rgbPmat,   \* params.rgbPmat of optimizeParametersP
    iterCount,
    paramsNew, \* paramsNew.rgbPmat: where the search looks
    stepSize, tries,  \* stepSize, BacktrackingLineIterCount
    newCost,
    calib,     \* the file new_calib, with n_iter of the metadata
    params,    \* the runner's parameters
    validParams

frame == <<D, at, k1>>
vars == <<pc, frame, rgbPmat, iterCount, paramsNew, stepSize, tries, newCost, calib, params, validParams>>

Init ==
    /\ pc = "gradient" /\ D \in Images /\ at \in Places /\ k1 \in Coefficients
    /\ rgbPmat = Start /\ iterCount = 0 /\ newCost = NaN
    /\ paramsNew = Start /\ stepSize = 0 /\ tries = 0
    /\ calib = None /\ params = Start /\ validParams = FALSE

-----------------------------------------------------------------------------
(* Projection and scores *)

Magnitude(n) == IF n < 0 THEN -n ELSE n

\* Where a vertex lands: the lens scales its distance from the principal point
Uv(v, m) ==
    LET x == at[v][1] + m
        y == at[v][2]
        rc == Unit + k1 * (x * x + y * y)
    IN <<x * rc, y * rc>>
\* How far that goes along the row, and across it, for a small change of m
XCoeff(v, m) == Unit + k1 * (3 * (at[v][1] + m) * (at[v][1] + m) + at[v][2] * at[v][2])
YCoeff(v, m) == 2 * k1 * (at[v][1] + m) * at[v][2]

\* The pixel that the interpolation takes the score from
Nearest(u) == (2 * u + Unit) \div (2 * Unit)
Pixel(v, m) == <<Nearest(Uv(v, m)[1]), Nearest(Uv(v, m)[2])>>

\* Vertices that are projected into the image: all others score NaN
Inside(m) == {v \in Vertices : m # NaN /\ Pixel(v, m) \in Pixels}

SumOver(f) == MapThenSumSet(LAMBDA v : f[v], DOMAIN f)
Total(S, m) == SumOver([v \in S |-> D[Pixel(v, m)]])
\* nanmean
Mean(S, m) == IF S = {} THEN NaN ELSE Total(S, m) \div Cardinality(S)
Cost(m) == Mean(Inside(m), m)

\* rgbIDTx and rgbIDTy, which are 0 at the borders
Dx(p) == D[<<p[1] + 1, p[2]>>] - D[<<p[1] - 1, p[2]>>]
Dy(p) == D[<<p[1], p[2] + 1>>] - D[<<p[1], p[2] - 1>>]
Interior == (1 - HalfW .. HalfW - 1) \X (1 - HalfH .. HalfH - 1)

\* The mean gradient, by the chain rule through the lens
Slope(m) ==
    SumOver([v \in {u \in Inside(m) : Pixel(u, m) \in Interior} |->
                 Dx(Pixel(v, m)) * XCoeff(v, m) + Dy(Pixel(v, m)) * YCoeff(v, m)])

\* A step along the gradient
Moved(step) ==
    LET slope == Slope(rgbPmat)
    IN  IF rgbPmat = NaN \/ slope = 0 THEN NaN
        ELSE IF slope > 0 THEN rgbPmat + step ELSE rgbPmat - step

Common == Inside(rgbPmat) \cap Inside(paramsNew)

\* The vertices measured at both ends gain less than the step must bring
TooLittle ==
    Common # {} /\ Mean(Common, paramsNew) - Mean(Common, rgbPmat) <= stepSize * GainPerStep

-----------------------------------------------------------------------------
(* optimizeParametersP *)

\* Mutant: iterations are not counted
CountUncounted == iterCount
CountAfter == iterCount + 1

Gradient ==
    /\ pc = "gradient"
    /\ iterCount' = CountAfter
    /\ stepSize' = MaxStep /\ paramsNew' = Moved(MaxStep) /\ tries' = 0
    /\ pc' = "search"
    /\ UNCHANGED <<frame, rgbPmat, newCost, calib, params, validParams>>

SearchGoesOn == stepSize > MinStep /\ tries < MaxBackTrackIters /\ TooLittle

\* One turn of the search, with the assertion that the cost is a number
Backtrack ==
    /\ pc = "search" /\ SearchGoesOn
    /\ tries' = tries + 1 /\ stepSize' = stepSize \div 2 /\ paramsNew' = Moved(stepSize')
    /\ pc' = IF Inside(paramsNew') = {} THEN "error" ELSE "search"
    /\ UNCHANGED <<frame, rgbPmat, iterCount, newCost, calib, params, validParams>>

\* Mutant: the cost of the last trial is reported although it was refused
CostFoundTrial(found) == Cost(paramsNew)
CostFound(found) == Cost(found)

\* A small movement or a small change of the cost; never so with NaN
Converged(found, cost) ==
    LET before == Cost(rgbPmat)
    IN  \/ found = rgbPmat /\ found # NaN
        \/ cost # NaN /\ before # NaN /\ Magnitude(cost - before) < MinCostDelta

\* The search ends: the trial is taken, or nothing moves
EndIteration ==
    /\ pc = "search" /\ ~SearchGoesOn
    /\ rgbPmat' = IF TooLittle THEN rgbPmat ELSE paramsNew
    /\ newCost' = CostFound(rgbPmat')
    /\ pc' = IF Converged(rgbPmat', newCost') \/ iterCount = MaxOptimizationIters
             THEN "validate" ELSE "gradient"
    /\ UNCHANGED <<frame, iterCount, paramsNew, stepSize, tries, calib, params, validParams>>

-----------------------------------------------------------------------------
(* validOutputParameters *)

\* The length of a vector, rounded down: its long side and what the short one adds
Length(x, y) ==
    LET a == Magnitude(x)
        b == Magnitude(y)
        long == IF a < b THEN b ELSE a
    IN long + Cardinality({n \in long + 1 .. a + b : n * n <= a * a + b * b})
\* xyMovement: the mean distance, after the lens, from where the vertices were
Movement(m) ==
    SumOver([v \in Vertices |-> Length(Uv(v, m)[1] - Uv(v, Start)[1],
                                       Uv(v, m)[2] - Uv(v, Start)[2])])
        \div Cardinality(Vertices)

\* The matrix is scaled by the excess of the mean movement, as if that were linear in it
Clipped ==
    IF rgbPmat = NaN \/ Movement(rgbPmat) <= MaxMovement THEN rgbPmat
    ELSE Start + ((rgbPmat - Start) * MaxMovement) \div Movement(rgbPmat)

\* Mutant: what has been clipped is trusted and not measured again
DriftedUnclipped(new) == new # NaN /\ new = rgbPmat /\ Movement(new) > MaxFromOrigin
\* The movement is measured anew
Drifted(new) == new # NaN /\ Movement(new) > MaxFromOrigin

Measured(m) == Inside(params) \cap Inside(m)

\* Mutant: the scores are those of the movement before it was clipped
HurtsUnclipped(new, s) ==
    LET S == {v \in Measured(rgbPmat) : Section[v] = s}
    IN  S # {} /\ Total(S, rgbPmat) < Total(S, params)
\* The mean score of a section's vertices goes down
Hurts(new, s) ==
    LET S == {v \in Measured(new) : Section[v] = s}
    IN  S # {} /\ Total(S, new) < Total(S, params)

\* The result is written before it is validated, and adopted if it is valid
Validate ==
    /\ pc = "validate"
    /\ calib' = [rgbPmat |-> rgbPmat, cost |-> newCost, iters |-> iterCount]
    /\ \E new \in {Clipped} :
        /\ validParams' = (~Drifted(new) /\ \A v \in Vertices : ~Hurts(new, Section[v]))
        /\ params' = IF validParams' THEN new ELSE params
    /\ pc' = "done"
    /\ UNCHANGED <<frame, rgbPmat, iterCount, paramsNew, stepSize, tries, newCost>>

Ended == pc \in {"done", "error"} /\ UNCHANGED vars

Next == Gradient \/ Backtrack \/ EndIteration \/ Validate \/ Ended

Spec == Init /\ [][Next]_vars
\* The runner is one thread that does nothing else
FairSpec == Spec /\ WF_vars(Gradient \/ Backtrack \/ EndIteration \/ Validate)

-----------------------------------------------------------------------------
(* Properties *)

\* The state is well typed, the search included.
TypeOK ==
    /\ pc \in {"gradient", "search", "validate", "done", "error"}
    /\ D \in Images /\ at \in Places /\ k1 \in Coefficients
    /\ rgbPmat \in Matrix /\ paramsNew \in Matrix /\ params \in Matrix /\ validParams \in BOOLEAN
    /\ iterCount \in 0 .. MaxOptimizationIters /\ stepSize \in 0 .. MaxStep
    /\ tries \in 0 .. MaxBackTrackIters
    /\ pc = "gradient" => iterCount < MaxOptimizationIters

\* What the search asserts of every shorter step (myBacktrackingLineSearchP.m line 52):
\* its cost is a number.  Not so: through a lens a path can leave the image between two
\* points that are inside, and the code ends with an error (README.md, section 4).
AssertHolds == pc # "error"

\* What new_calib pairs is a matrix and its own cost, whether the last search ended
\* with a step or refused it and whatever iteration it was.
CalibCostMatches == pc = "done" => calib.rgbPmat = rgbPmat /\ calib.cost = Cost(rgbPmat)

\* Adopted parameters that are numbers have been measured where they end up: through
\* the lens, after a clip that is not exact, their mean movement is within the drift.
\* Of NaN this says nothing, and the code does adopt it: see AdoptedIsNumber.
AdoptedNotDrifted ==
    params \notin {NaN, Start} => validParams /\ Movement(params) <= MaxFromOrigin

\* What is validated and adopted is a projection (runOnlineCalibrationOn.m line 124).
\* Not so: NaN passes all three checks, and the code adopts it (README.md, section 4).
AdoptedIsNumber == params # NaN

\* Parameters that are adopted score no worse than those before, over all vertices
\* that both can measure: the sections are compared after the clip.
ValidNotWorse ==
    pc = "done" /\ validParams => Total(Measured(params) \cap Inside(Start), params)
                                    >= Total(Measured(params) \cap Inside(Start), Start)

\* The calibration ends, with a result or at the assertion, also when a NaN keeps both
\* criteria of the optimiser from being met.
Termination == <>(pc \in {"done", "error"})
=============================================================================
