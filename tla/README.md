# The depth pipe and the calibration of IVCAM 2: a verification project

This directory holds TLA+ specifications of the stateful parts of the camera
software in `src/`, the TLC configurations that check them on small instances,
and theorems about them checked by TLAPS.

## 1. Inventory

The repository is the algorithm code of a scanning depth camera. A mirror
sweeps a laser over the scene column by column; the receiver delivers *chunks*
of 64 samples; the *pipe* (`src/+Pipe`) turns them into depth images. The rest
calibrates the camera (`+Calibration`, `CompiledAPI`, `+OnlineCalibration`),
drives it (`@HWinterface`, `@Firmware`) or simulates it.

| component | state it keeps | operations | what is hard |
|---|---|---|---|
| PCQ, `+Pipe/+RAST/PCQ.cpp` | chunk ring of 320 slots, FIFO of 30 pixels, window being copied, code offset, end-of-frame flag, output counters | one loop that runs a Writer and an Analyzer in turn | the ring never refuses a chunk; windows are pairs of slot numbers; two stages at different paces; limits of three output arrays |
| CMAC, `+Pipe/+RAST/CMAC.cpp` | open column of every row, accumulators of every pixel | take a chunk, flush | chunks arrive late and out of order; counters saturate; "new pixel" is read from a zero estimate |
| CMA filter, `+Pipe/+RAST/cmaFilter.cpp` | a FIFO of three pixels and three indices per row | take a pixel, smooth the one before, flush | rows interleave; the indices of a row move on different events |
| NEST, `+Pipe/+DIGG/NEST.cpp` | sum, counter, delay, last average | one chunk | the delay restarts; zero must never be given |
| CBUF, `+Pipe/+CBUF` | two column pointers that follow the scan | one pixel | the left pointer is limited in speed, the right one only rises |
| thermal calibration, `CompiledAPI` | globals and persistents kept over the calls of a unit | init, one frame, last frame | the session is reset in several places, a call may throw in the middle |
| online calibration, `+OnlineCalibration` | projection matrix, step length, cost | gradient steps with a line search, clip, accept or revert | NaN; a lens that bends the paths of vertices; the file is written before the result is checked; the movement is clipped after it was scored |
| calibration flow, `runAlgoThermalCalibration.m`, `runAlgoCameraCalibration.m`, `CompiledAPI` | tables in the unit's EEPROM, files of the session's folder, registers set for a capture | stages of two tools, each of which may fail, throw, or burn tables that are refused | the two tools share a table; burns come before the scores; tables are generated again from a folder that has changed |
| hardware interface, `@HWinterface`, `+Calibration/RegState.m` | registers held while a capture is taken | set, reset, burn | depends on a library that is not in the repository |
| other pipe blocks (DIGG samplers, DEST, DCOR, JFIL, PCKR, STAT, ASNC), the algorithms in `+Calibration`, `Tools`, `+Utils` (mostly vendored SystemC and Stratus) | none between calls | arithmetic on images | numerical, not stateful |

Chunks flow DIGG -> NEST -> PCQ -> CMAC -> CMA filter -> (DCOR, DEST, JFIL) ->
CBUF. There are no threads: what interleaves are the two stages of the PCQ, the
rows of the image (their chunks arrive in any order), the calls of the tester
that calibrates a unit, and the sessions of the two calibration tools, of which
each leaves its tables on the unit for the next. The frame of the thermal session
is taken within `Heat` of the flow; its result is there success or failure.

For each component, what makes it correct:

- **PCQ**: every pixel found in the image is copied whole, chunk after chunk, in
  the order of the scan; the chunks copied are the ones its window was meant to
  have, and when they are not the frame is reported as garbage; slot numbers and
  offsets wrap where they should; limits are reported before an array is
  overrun; the loop ends.
- **CMAC**: every pixel that got a chunk is output exactly once, a row's pixels
  in rising columns, and nothing is added to a pixel after it was output;
  counters saturate with their sums; a pixel made of two transmit modes is
  marked.
- **CMA filter**: every pixel is smoothed once, in order, with its own
  neighbours; nothing leaves a FIFO unsmoothed.
- **NEST**: the estimate is never zero (the CMAC relies on it), and light of the
  laser is never averaged.
- **CBUF**: the buffer is too wide only when the scan is too fast; the lagging
  pointer gives up no column early; the pixels discarded are those that
  underflow or overflow.
- **Thermal calibration**: the table of a unit is made of the unit's own frames,
  whatever happened to the units before; heating ends in time; the short frames
  the table needs are taken.
- **Online calibration**: parameters that are adopted are numbers (they need not be: section 4), moved no farther than
  allowed and score no worse; the file pairs a matrix with its own cost; the
  optimiser ends, whatever becomes NaN.
- **Calibration flow**: the tables on a unit belong together, whichever sessions
  it went through; no camera session damages the thermal calibration; a session that
  gives up leaves nothing behind; a unit that failed goes back to default tables.
- **Hardware interface**: a register set for a capture is back before the next one.

## 2. Modules

| module | models | state and actions |
|---|---|---|
| `PCQ` | `PCQ.cpp`, `pixelate` | `pc` is the place in the loop. Writer: `Finish`, `PopPixel`, `KeepPixel`, `WriteChunk`, `WriteFails`, `EndQuad`. Analyzer, one action per way a chunk is dealt with: `EndOfInput`, `WaitForChunk`, `IgnoreChunk`, `OutsideRoi`, `ContinuePixel`, `QueuePixel`, `QueueFails`, `DropPixel`. The ring keeps id and offset of each chunk; sequence numbers are history that no guard reads |
| `PixelDelivery` | what the PCQ promises | a queue of windows delivered whole, one after the other; `PCQ!DeliversPixels` is the refinement, by the sequence numbers |
| `CMAC` | `CMAC.cpp`, `buildCMAs` | `OpenColumn`, `AddToOpen`, `ThrowAway` for a chunk; `EndOfInput`, `FlushRow`, `Finish` |
| `CmaFilter` | `cmaFilter.cpp`, `smooth` | `TakeFirst`, `TakeAndSmooth` for a pixel; `EndOfInput`, `FlushPixel`, `FlushNextRow`, `Finish` |
| `NEST` | `NEST.cpp`, `computeNest` | `LaserOn`, `Skip`, `Accumulate` for a chunk |
| `CBUF` | `CBUF.m`, `maxrun.cpp`, `stepInc.cpp` | `TakePixel`, `Discard`: the code's vector operations, a pixel at a time |
| `OnlineCalibration` | `runOnlineCalibrationOn.m`, `optimizeParametersP.m`, `calcCostAndGrad.m`, `myBacktrackingLineSearchP.m`, `validOutputParameters.m` | `Gradient`, `Backtrack`, `EndIteration` of the optimiser, `Validate` of the runner. The matrix is a shift along a row, `Uv` takes it through the lens, scores are computed from an image; `NaN` is a value |
| `CalibrationFlow` | both `runAlgo*Calibration.m` with the burns, table generation and register states they call | a part of a table holds the number of the session that computed it. `Start`, `Throw` (an error anywhere); thermal: `AtcInit`, `Delays`, `Heat`, three burns; camera: one action per stage, `SetSpherical` and `ResetCamera` before captures, `Skip` for a switch that is off |
| `ThermalSession` | `cal_init.m`, `TmptrDataFrame_Calc.m`, `TmptrDataFrame_Calc_int.m`, `AlgoThermalCalib.m` | `CalInit`, `HeatFrame`, `LastShortFrame`, `Fail` (an error in a call, at each place it may happen, or between calls), `FailFinal`, `FinalCall` |

`MC<module>` extends each module for TLC, `<module>Proofs` for TLAPS. The modules
are connected by what one takes for granted and the other establishes:
`NEST!NestInRange` is `CMAC`'s assumption that an estimate is not zero;
`CMAC!RowsRise` is the guard `CmaFilter!Arrives`, and with the bound on columns
the guard of `CBUF!TakePixel`; `PixelDelivery` says in which order chunks reach
the CMAC (the CMAC run takes chunks in any order at all, which includes it).

`OnlineCalibration` and `CalibrationFlow` stand alone: the first runs in the field,
after both calibrations.

Definitions whose comment says *Mutant* are faulty variants of the definition
below them. Nothing uses them: they show, property by property, what error in the
code the property would find.

## 3. Runs

Deadlock is
checked in all runs: terminal states have a stuttering action of their own.

| run | instance | what it shows |
|---|---|---|
| `pcq_ring` | ring of 10, quads of 2, FIFO of 3, codes of 3 chunks, one chunk per iteration, 18 chunks; 147 000 states | `TypeOK`, `WindowsWrapRight`, `NotOverwritten`, `MainLobeFound`, `GarbageReported`, `MainLobeBounded`, and that the queue implements `PixelDelivery` (`DeliversPixels`) |
| `pcq_range_finder` | ring of 9, quads of 4, two iterations per chunk, mirror at least four chunks in a column, input that may begin within a code; 137 000 states | `DeliversPixels` in range-finder mode, offsets along a quad (`OffsetsAgree`), `AnalyzerStops`, `Termination` |
| `pcq_unwritten_slot` | ring of 12, quads of 4, FIFO of 6, codes of 4 chunks, 6 chunks, frame that begins outside the margin | **violation** of `GarbageReported` |
| `cmac` | 3 x 2 pixels, code of 3, chunks of 2 samples, 4 chunks in any order; 478 000 states | `RowsRise`, `OutputComplete`, `OutputFinal`, `IrInRange`, `MixedModesMarked` |
| `cmafilter` | 2 rows, 6 columns, 9 pixels; 38 000 states | `TypeOK`, `NoInvalidPop`, `SmoothedInOrder`, `NeighboursAdjacent`, `Termination` |
| `nest` | groups of 4, delay 2; 735 states | `NestInRange`, `DelayKept` |
| `cbuf` | 5 x 2 pixels, sections of 2 columns with release distances 2, 1, 2; 84 000 states | `TypeOK`, `OverflowMeansTooFast`, `ReleasedOnRequest` |
| `cbuf_discard` | the same | **violation** of `DiscardsUnderflow` |
| `thermal` | two units, two sample temperatures, errors everywhere; 214 000 states | `SessionOfUnit`, `CheckedIsLast`, `HeatingBounded`, `ShortFramesBounded` |
| `online_calibration` | 5 x 5 pixels, 485 images with 3 scores, 3 vertices in 2 sections that may start outside, lens with and without distortion, 3 iterations; 131 000 states | `CalibCostMatches`, `AdoptedNotDrifted`, `ValidNotWorse`, `Termination` |
| `calibration_flow` | 3 sessions, 5 choices of stages, any one table refused at each burn; 101 000 states | `AtcPassed`, `AtcKept`, `PassedAgree`, `EarlyFailClean`, `CapturesInMode` |
| `calibration_reburn` | the same | **violation** of `FailureReverted` |

Why the bounds are enough:

- *PCQ.* The hazards are wraps and limits. Eighteen chunks go nearly twice
  round a ring of 10; windows reach over both ends and take two quads; the FIFO of
  three fills up. Ten slots are what `PCQProofs!Proportions` asks for with these sizes,
  and with a ring of 9 `NotOverwritten` fails: the instance is the tightest one. (In the
  code a FIFO of 30 and a ring of 320 are in the same proportions.) With `MinDwell` 3
  instead of 4 the range-finder run fails in `DeliversPixels`: the code needs a mirror
  this slow (see the hazards at `PCQ.cpp:444`).
- *CMAC.* Counters saturate at 2 with four chunks; three columns are the fewest
  in which a chunk can be on time, late and too late.
- *CMA filter.* A row of three or more uses all FIFO slots, and nine pixels over two
  rows let a row wrap its four slots.
- *CBUF.* Three sections with a release distance that falls and rises, time steps
  slower than, equal to and faster than a column.
- *Thermal.* The second unit meets what the first left at every point where it may
  end; the bound of four short frames is reached.

- *Online calibration.* The first step is nearly as long as the image is wide, so that
  steps leave it and come back; two halvings reach the shortest step; a matrix may become
  NaN in any of the iterations. The drift limit is twice the limit of one iteration, as in
  `getParamsForAC.m`. The lens (coefficient -1, against 60 for a pixel) is strong for so
  small an image: it brings a point three rows above the centre into the image at the
  corners only, and folds back beyond the border. Clips take effect, some leave more
  movement than the limit of one iteration, and some more than the drift limit, which the
  drift check then rejects.
- *Calibration flow.* Three sessions: what a first one left, a second one that fails or
  loses a table, and a third that meets both.

Fairness is assumed for the three termination properties only
(`PCQ!FairSpec`, `CmaFilter!FairSpec`, `OnlineCalibration!FairSpec`): one weak fairness condition on the whole
loop. It stands for a thread that runs straight-line code and nothing more; the
input is finite in the code (an array) and in the model.

## 4. What the runs found

Three runs end in a violation: the code does something else than its comments and
messages say. The details are under `findings` in `PROJECT.json`.

- `pcq_unwritten_slot`: a window can reach back into a slot of the ring that was never
  written. Such a slot has id 0, so that with exactly one chunk left out before it the
  check for consecutive chunks accepts it, and garbage is not reported.
- `cbuf_discard`: the indicators of underflow and overflow are in the order of the
  scan, and index images in the layout of the image: other pixels are discarded.
- `calibration_reburn`: a camera calibration whose scores are bad announces that it burns
  the initial tables again. It generates them from the session's folder, whose registers
  and presets the session has replaced by then, so that the calibration that failed is
  burnt once more, without its undistortion table.

Two statements about the online calibration are false of the code as well. They stand in
`OnlineCalibration` and no listed run checks them: added to the INVARIANTS of
`online_calibration.cfg`, each makes TLC print a trace of at most three iterations.

- `AssertHolds` (`myBacktrackingLineSearchP.m` line 52): the line search asserts that a
  shortened step has a cost. Vertices move on curves through the lens. One above the upper border is in the image
  left and right of the middle, so that the long step keeps it, and half the step does not;
  when the other vertices leave the image, the assertion ends the calibration.
- `AdoptedIsNumber` (`runOnlineCalibrationOn.m` lines 124-126): without a gradient (no
  edge in the colour image, or no vertex in it) the matrix becomes NaN. The validation consists of comparisons that reject, none of
  which is true of NaN, so that a matrix of NaNs is declared valid and adopted.

## 5. Proofs

All theorems are of the form "for every value of the constants allowed by the
`ASSUME`s of the module". Each rests on an inductive invariant (`IInv`), proved
for `Init` and for every action separately.

- **`CmaFilterProofs`** (all five safety properties, type invariant included). The
  code addresses the pixel to smooth by a slot number and the properties are about
  the row's history. `SlotsMatch` says what the slots mean: `start` is the number
  of pixels that left the FIFO and `rowIndex` the number smoothed, both modulo 4.
  `Lag` (smoothing is two pixels behind while pixels arrive) makes the difference
  less than four, so that the modulo loses nothing (lemma `OrderIs`); from there
  the pixel smoothed, its neighbours and the absence of invalid pops follow.
  `WindowInv` adds that a pixel smoothed while pixels arrive already has its right
  neighbour, so that later arrivals do not change the neighbours.
  `EndsInBoundedSteps`: every step takes a pixel of the input or one of the row that is
  flushed, or goes to the next row; a row has at most three pixels left.
- **`CMACProofs`** (all properties, `OutputFinal` as an action property). The
  invariant says for each row that what was output lies left of the open column and
  that every pixel with a chunk is output or open (`OutBehind`, `OutCovers`), and
  for each pixel how counters, IR range and modes relate (`PixelsOK`).
  `MixedModesMarked` depends on estimates being non-zero (`InputAssumption`; proved
  for NEST).
- **`PCQProofs`**: `TypeOK` for both modes, that is, no slot number leaves the
  ring although each is wrapped once only; `LimitsTogether`, by counting chunks
  and quads against the iterations of the loop; `MainLobeBounded` outside
  range-finder mode (in range-finder mode it is false without a slow mirror);
  `AnalyzerStops`, because the flag that ended the frame is remembered as off unless
  the input is used up (`StopInv`).
  The second part of the module is about the windows, outside range-finder mode: `WindowsWrapRight`,
  `MainLobeFound` and the refinement `DeliversPixels`. First the slot arithmetic:
  chunks less than a ring apart have slots that follow each other with one wrap
  (`SlotFrom`), so that `next`, `mod` and `between` do what their names say
  (`NextChunkSlot`, `ShiftedSlot`, `BetweenChunks`). Then `WindowInv`: an open pixel
  has at least one chunk and no more than its count (`OpenInv`), every queued window
  fits in the ring (`Fits`) and so does what remains of the current one (`Remains`).
  A window fits because a pixel is filled up to a code if it is shorter and given
  nothing if it is longer, and the ring is larger than either
  (`CapacityAssumption`). In range-finder mode the properties fail when the mirror
  is too fast, so that they stay with the run `pcq_range_finder`.

  The other parts of the module:

  *Offsets* (`OffsetsAgree`, both modes). The Writer reads one template offset per quad
  and counts on; each chunk was stored with its own. `OffsetInv` says that chunks which
  are neighbours in the input have neighbouring offsets, the next chunk included; only
  the chunk that ends the frame is an exception (`ChunkOffset`). `IdInv` says that a
  slot without a chunk reads as chunk 0. `QuadInv` carries the count along a quad: the
  chunk copied next is the neighbour of the last one, because the pixel would have
  failed the comparison of input numbers otherwise. The ring is not assumed to be large
  enough.

  *Nothing is overwritten* (`NotOverwritten`, outside range-finder mode). The ring never
  refuses a chunk, so that this is a race the Writer wins by its speed. `WaitInv` adds
  up, for the j-th waiting pixel, its age, the turns the current window takes and those of
  the windows before it, and bounds the sum by the ring. A turn makes a pixel a chunk older at
  most and takes a turn off the sum if the Writer has something to copy. If it has not, it
  holds pixels back on purpose (`HeldInv`), and then these are few and lie next to each
  other on the scan (`CountInv`), so that they are young. Two hypotheses are
  named. `Proportions` relates the constants: the ring has room for a window and
  either the pixels held back or a full FIFO, and the longest window takes no longer to copy
  than the longest pixel takes to arrive. It is sufficient, and tight for the run. The
  code's sizes (ring 320, quads of 4, FIFO 30, pixels of 32 chunks, modes 0 to 3) satisfy
  it for codes of up to 36 chunks.
  `DrainsFirst` is about the mirror: when it leaves the image while pixels wait, the FIFO
  is drained before the mirror is back. The code does not check that: `toEmpty` is cleared
  by the next pixel, and also when the mirror goes beyond the margin; pixels that still wait
  are held back again, with a gap between them and the new ones. It is a
  property of steps that the theorem assumes of the behaviour (sufficient, not
  necessary); a mirror that never leaves the image has it (`InsideImage`), and
  `InsideNeverOverwritten` concludes from the constants alone, in whatever order the scan goes through the pixels.

  *Garbage is reported* (`GarbageReported`, outside range-finder mode). When a slot holds another
  chunk than the one meant, the comparison of input numbers fails in that step or has
  failed before (`ReportInv`). `ChunksInv` says what the ring holds: the latest chunks, each
  where it belongs, and nothing else but unwritten slots, with input numbers that grow with push
  numbers. The hypotheses are `NotOverwritten` and `FirstKept`: the first chunk kept is
  not the second of the input. The second hypothesis excludes just what
  `pcq_unwritten_slot` shows. `InsideGarbageReported` again needs the constants only:
  a scan that stays inside the image, and input that begins with a code.

  The constants of `pcq_ring` satisfy the hypotheses of both theorems `Inside...`: the run
  is an instance of them.

  *The loop ends* (`EndsInBoundedSteps`, both modes). `Remaining` counts what a turn of the
  loop uses up: turns of the input, the end of the frame, free quads, waiting pixels;
  then the place in the turn. After the end of the frame a turn is paid for by the
  Writer, since it takes a pixel, writes a quad or finishes; a window without chunks is
  paid for by the pixel it came from.
- **`NESTProofs`**: all properties; `DelayInv` relates the delay counter to the
  time since the laser went off.
- **`CBUFProofs`**: `TypeOK`, `ReleasedOnRequest` and `OverflowMeansTooFast`, for every
  release table and every timing. That no more pixels come than the image has is by counting:
  every pixel moves its row on, so that no more were taken than there are cells the rows
  have got past (`Passed`), and these are cells of the image. `PointersInv` orders the left pointer, the furthest
  request and the right pointer; `WidthInv` bounds the width while the scan is slow
  enough.
- **`ThermalSessionProofs`**: `TypeOK`, `SessionOfUnit`, `CheckedIsLast`,
  `HeatingBounded`, `ShortFramesBounded`, for any number of units and sample temperatures. `SessionInv` keeps the globals and
  persistents in step during a session; nothing is assumed of them between sessions.
  For the short frames `ShortInv` adds up the short frames taken, the temperatures left and
  the short frame asked for next: no step of the loop makes the sum larger.

- **`OnlineCalibrationProofs`**: `TypeOK`, `CalibCostMatches`, `AdoptedNotDrifted`,
  for every image, number of vertices, coefficient of the lens and step length. The type
  of a clipped matrix needs that the mean movement it is divided by is a number above the
  limit (`MovementTyped`). `AdoptedNotDrifted` speaks of numbers only: with NaN it is false
  (section 4, `AdoptedIsNumber`). No theorem bounds the movement by the limit of one iteration:
  the clip scales the matrix, and through a lens the movement does not follow in proportion.
  `ValidNotWorse` compares totals, and the check compares sections. The proof needs what
  a fold over a set computes, for every finite set: sums exist (`SumsExist`), the fold is one
  of them (`FoldIsSum`), any element may be taken first (`AnyFirst`), and sums of disjoint
  parts add up (`SumOfParts`). Each is an induction, made without the library's induction
  theorems: a counterexample of the smallest size is ruled out (`SubsetsByInduction`,
  `CountedByInduction`). Then `SectionsDecide`: sections that lose nothing make a whole that loses
  nothing. `EndsInBoundedSteps` counts iterations, and halvings within one; a NaN does not
  matter to either.
- **`CalibrationFlowProofs`**: `TypeOK` and all five properties of the run, for any number of
  sessions, any choice of stages and any tables refused. `IInv` says which tool a stage belongs
  to (`Placed`), where the spherical mode is off (`Mode`), that the thermal parts of the unit, and of
  the tables made to be burnt, are those of the last passed thermal session (`AtcWhole`,
  which is why the tables made from registers read much earlier do no harm: a session
  is alone with its unit), what a session
  that will return early cannot have written (`Clean`), and which parts must be the
  session's own from each stage on (`Agreed`).

The type invariants of `CMAC`, `NEST`, `ThermalSession`, `OnlineCalibration` and
`CalibrationFlow`, and `PCQ!LimitsTogether`, `CMAC!SamplesBounded`, `CmaFilter!SmoothsQueued` and
`NEST!AccBounded`, are theorems and are not repeated in the runs.

Model-checked only: `Termination` (of `PCQ`, `CmaFilter` and `OnlineCalibration`). It is
liveness under fairness, which is out of the prover's reach. What is proved of it is the
part that can fail for large constants only: `EndsInBoundedSteps` says that no behaviour
takes infinitely many steps, since each leaves a smaller natural number. Left to TLC is
that a step is possible until the end is reached (`ENABLED`), which the runs check
with the property and as absence of deadlock.

Proved with restrictions: the windows of the PCQ (`MainLobeBounded`, `WindowsWrapRight`,
`MainLobeFound`, `DeliversPixels`) outside range-finder mode only, because they need a slow
mirror in that mode; `DeliversPixels` is checked there by `pcq_range_finder`.
`NotOverwritten` and `GarbageReported` are false for some constants the `ASSUME`s allow,
the second in `pcq_unwritten_slot`, so that their theorems have the hypotheses named above.

## 6. What is not modelled

- Arithmetic on samples and images (DIGG samplers, smoothing weights, DEST, DCOR,
  JFIL, calibration algorithms): numbers without steps; a test compares them better.
- Payloads, time stamps, statistics, plots and traces of the modelled parts.
- The column neighbours that the CMA filter reads; the mode in which pixels pass
  it unsmoothed (the order does not depend on it).
- The mirror is an environment: it moves a bounded number of rows per chunk. The
  PCQ runs keep it such that `PCQ.cpp`'s own assumptions (one block of the
  region-of-interest flag, codes without gaps) hold; they are stated in `Frame`.
- The bypass of the CBUF.
- Window of depth images (`lastZFrames`), delay and DSM calibration of the thermal
  session: only that they may fail.
- Of the online calibration: the preparation of a frame, `validScene` (its result is
  written down and stops nothing in the runner), the callers that iterate over scenes,
  weights and every parameter but a shift; of the lens, all coefficients but the first
  radial one; the thermal correction of the projection (`projectVToRGB.m` lines 16-22,
  `rgbTfix`, which nothing in the repository sets).
- Of the calibration flow: replays, sessions without stages, the switches for scan
  direction and minimal range (on), a switch of its own for ROI (it follows DFZ), the
  thermal loop switched off, and the validation after calibration. A session is taken to
  begin with a reconnected unit, and the command `rst` to clear the registers: both are
  what the messages of the tools ask for, neither is in the repository's code.
- Safe register writes with retries (`HWinterface.m` line 310): no caller asks for them.
- The camera behind `@HWinterface` is a binary library; the firmware's tables
  (`@Firmware`) are a data model without steps.
- Vendored code (SystemC and Stratus in `+Utils`) is the bulk of the repository's lines.

## 7. Plan

The order was by how much a property is hard to test: the RAST chain first, then the
calibration that several calls and sessions share. What is left:

1. *Composition*: `CMAC` and `CmaFilter` in one module (chunks in, smoothed pixels
   out), instead of the guard `Arrives`; then the PCQ's output as the CMAC's input.
2. *Online calibration*: the scenes one after the other (`calcNewCameraParams.m`), where
   the origin of the drift check and the parameters of the last scene differ.
3. *Proofs*: the windows of the PCQ in range-finder mode, with a mirror that is slow
   enough.
