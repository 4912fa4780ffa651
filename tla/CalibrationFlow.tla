--------------------------- MODULE CalibrationFlow ---------------------------
(***************************************************************************)
(* The tables a unit carries through its calibration sessions: thermal     *)
(* (ATC, +Calibration/+thermal/runAlgoThermalCalibration.m) and camera     *)
(* (ACC, +Calibration/runAlgoCameraCalibration.m), in any order, with any  *)
(* stage failing, any error ending a session and burns that are refused.   *)
(*                                                                         *)
(* What a part of a table holds is the session that computed it, 0 for the *)
(* defaults.  acc stands for the registers of the camera calibration and   *)
(* the CBUF, gamma and power tables made from them; it shares the table    *)
(* "algo" with atc, the registers of the thermal calibration.  undist is   *)
(* the undistortion table, whose model stays outside the folder of the     *)
(* registers.                                                              *)
(*                                                                         *)
(* A session begins with a reconnected unit and a copy of the default      *)
(* files in its own folder.  spherical is the register DIGGsphericalEn,    *)
(* set for some captures through a RegState; a reset of the unit clears    *)
(* it.  Replays, sessions without any stage, and the switches for the scan *)
(* direction and the minimal range (taken to be on) are left out, ROI and  *)
(* DFZ share a switch, and so do the presets' comparison and its burn.     *)
(***************************************************************************)
EXTENDS Integers, FiniteSets

CONSTANTS
    NSessions, \* bound: sessions of the unit
    Runs,      \* runParams the sessions are started with
    Losses     \* sets of tables that a burn may fail to write

Tables == {"algo", "undist", "presets", "rtd", "rgb", "thermal", "extra"}
Switches == {"init", "burn", "DFZ", "rgb", "onlyRgb", "validate", "maxRange", "compare"}

ASSUME FlowAssumption == NSessions \in Nat /\ Runs \subseteq SUBSET Switches /\ Losses \subseteq SUBSET Tables

AtcParts == {"atc", "thermal", "extra"}
AccParts == {"acc", "undist", "presets", "rtd", "rgb"}
Parts == AtcParts \cup AccParts
TableOf(p) == IF p \in {"atc", "acc"} THEN "algo" ELSE p

VARIABLES
    pc,        \* stage of the session, "idle" between sessions
    session, tool, run,
    eeprom,    \* what each part of the unit's tables holds
    folder,    \* AlgoInternal: registers (calib.csv) and presets
    output,    \* tables made for burning: atc and camera registers
    spherical,
    outcome,   \* "none", "early", "error", "failed", "passed"
    calibPassed, \* of ATC: no burn after the heating has failed
    failed,    \* history: tables that could not be burnt in the session
    lastAtc    \* history: the session of an ATC that passed and burnt, or 0

vars == <<pc, session, tool, run, eeprom, folder, output, spherical, outcome,
          calibPassed, failed, lastAtc>>

Defaults == [acc |-> 0, presets |-> 0]
NoOutput == [atc |-> 0, acc |-> 0]

Init ==
    /\ pc = "idle" /\ session = 0 /\ tool = "none" /\ run = {}
    /\ eeprom = [p \in Parts |-> 0] /\ folder = Defaults /\ output = NoOutput
    /\ spherical = FALSE /\ outcome = "none" /\ calibPassed = TRUE /\ failed = {} /\ lastAtc = 0

-----------------------------------------------------------------------------
(* Burning and ending *)

\* burnCalibConfigFiles, WrCalibInfo: a table that cannot be written is skipped.
\* contents gives the parts of the tables that are burnt.
Burnt(contents, lost) ==
    [p \in Parts |-> IF p \in DOMAIN contents /\ TableOf(p) \notin lost
                    THEN contents[p] ELSE eeprom[p]]
Burn(contents, lost) ==
    /\ lost \subseteq {TableOf(p) : p \in DOMAIN contents}
    /\ eeprom' = Burnt(contents, lost) /\ failed' = failed \cup lost
\* A burn whose success is not looked at
BurnBlindly(contents) == UNCHANGED calibPassed /\ \E lost \in Losses : Burn(contents, lost)

\* Mutant: the undistortion table is not among the initial ones
InitTablesWithoutUndist ==
    [atc |-> eeprom["atc"], acc |-> folder.acc, presets |-> folder.presets, rtd |-> 0, rgb |-> 0]
\* GenInitCalibTables_Calc for ACC: from the folder, with the unit's ATC registers
InitTables ==
    [atc |-> eeprom["atc"], acc |-> folder.acc, undist |-> 0, presets |-> folder.presets,
     rtd |-> 0, rgb |-> 0]

\* "ACC has started, while ATC data is missing!"
AtcMissing == eeprom["atc"] = 0

End(how) ==
    /\ pc' = "idle" /\ outcome' = how
    /\ lastAtc' = IF tool = "ATC" /\ how = "passed" /\ "burn" \in run THEN session ELSE lastAtc
    /\ UNCHANGED <<session, tool, run>>
Goto(stage) == pc' = stage /\ UNCHANGED <<session, tool, run, outcome, lastAtc>>

tables == <<eeprom, calibPassed, failed>>
files == <<folder, output>>

\* Mutant: the files of the session before stay in the folder
FolderAtStartKept == folder
\* The default files are copied over those of the folder
FolderAtStart == Defaults

Start ==
    /\ pc = "idle" /\ session < NSessions
    /\ session' = session + 1 /\ pc' = "init"
    /\ \E t \in {"ATC", "ACC"}, r \in Runs :
          /\ tool' = t /\ run' = r
          /\ lastAtc' = IF t = "ATC" THEN 0 ELSE lastAtc
    /\ folder' = FolderAtStart /\ output' = NoOutput
    /\ spherical' = FALSE /\ outcome' = "none"
    /\ calibPassed' = TRUE /\ failed' = {}
    /\ UNCHANGED eeprom

\* An error, or the operator's abort, ends the session; nothing is burnt again
Throw == pc # "idle" /\ End("error") /\ UNCHANGED <<tables, files, spherical>>

-----------------------------------------------------------------------------
(* ATC *)

AtcInit ==
    /\ tool = "ATC" /\ pc = "init" /\ Goto("delays")
    /\ IF "init" \in run THEN BurnBlindly([p \in Parts |-> 0]) ELSE UNCHANGED tables
    /\ UNCHANGED <<files, spherical>>

Delays ==
    /\ pc = "delays" /\ (Goto("heat") \/ End("early"))
    /\ UNCHANGED <<tables, files, spherical>>

\* The heating; the table for burning keeps the camera registers read before it
Heat ==
    /\ pc = "heat"
    /\ output' = [atc |-> session, acc |-> eeprom["acc"]]
    /\ \/ End("failed")
       \/ IF "burn" \in run THEN Goto("burnThermal") ELSE End("passed")
    /\ UNCHANGED <<tables, folder, spherical>>

\* Mutant: the last burn decides alone
PassedAfterLast(lost) == lost = {}
PassedAfter(lost) == calibPassed /\ lost = {}
BurnChecked(contents) ==
    \E lost \in Losses : Burn(contents, lost) /\ calibPassed' = PassedAfter(lost)

\* Each table is burnt whether or not those before it could be
AtcBurnThermal ==
    /\ pc = "burnThermal" /\ BurnChecked([thermal |-> session]) /\ Goto("burnExtra")
    /\ UNCHANGED <<files, spherical>>
AtcBurnExtra ==
    /\ pc = "burnExtra" /\ BurnChecked([extra |-> session]) /\ Goto("burnAlgo")
    /\ UNCHANGED <<files, spherical>>
AtcBurnAlgo ==
    /\ pc = "burnAlgo" /\ BurnChecked(output)
    /\ End(IF calibPassed' THEN "passed" ELSE "failed") /\ UNCHANGED <<files, spherical>>

Atc == AtcInit \/ Delays \/ Heat \/ AtcBurnThermal \/ AtcBurnExtra \/ AtcBurnAlgo

-----------------------------------------------------------------------------
(* ACC *)

FirstStage == IF "onlyRgb" \in run THEN "rgb" ELSE "scanDir"

\* With init the unit gets default tables and is reset; without, nothing is checked
AccInit ==
    /\ tool = "ACC" /\ pc = "init" /\ Goto(FirstStage)
    /\ IF "init" \in run
       THEN ~AtcMissing /\ BurnBlindly(InitTables) /\ spherical' = FALSE
       ELSE UNCHANGED <<tables, spherical>>
    /\ UNCHANGED files

\* Stages with a switch, the stage after them, and their capture
SwitchOf == [dfz |-> "DFZ", roi |-> "DFZ", preReset |-> "validate", rtd |-> "DFZ",
             longRange |-> "maxRange", compare |-> "compare", rgb |-> "rgb"]
StageAfter == [dfz |-> "roi", roi |-> "end", preReset |-> "burn", rtd |-> "longRange",
               longRange |-> "presets", compare |-> "score", rgb |-> "idle"]
CaptureOf == [dfz |-> "dfzShot", roi |-> "roiShot", preReset |-> "preResetShot", rtd |-> "rtdShot",
              longRange |-> "longRangeShot", compare |-> "compareShot", rgb |-> "rgbShot"]

Skip ==
    /\ pc \in DOMAIN SwitchOf /\ SwitchOf[pc] \notin run
    /\ IF pc = "rgb" THEN End("passed") ELSE Goto(StageAfter[pc])
    /\ UNCHANGED <<tables, files, spherical>>

ScanDir ==
    /\ pc = "scanDir" /\ (Goto("minRange") \/ End("early"))
    /\ UNCHANGED <<tables, files, spherical>>

\* The preset is written when the search has converged
MinRange ==
    /\ pc = "minRange"
    /\ \/ Goto("dfz") /\ folder' = [folder EXCEPT !.presets = session]
       \/ End("early") /\ UNCHANGED folder
    /\ UNCHANGED <<tables, output, spherical>>

\* RegState.set before the captures of a stage
SetSpherical ==
    /\ pc \in {"dfz", "roi", "preReset"} /\ SwitchOf[pc] \in run
    /\ spherical' = TRUE /\ Goto(CaptureOf[pc])
    /\ UNCHANGED <<tables, files>>

\* RegState.reset after them, also when the stage has failed
Dfz ==
    /\ pc = "dfzShot" /\ spherical' = FALSE
    /\ Goto("roi") \/ End("early")
    /\ UNCHANGED <<tables, files>>
Roi ==
    /\ pc = "roiShot" /\ spherical' = FALSE /\ Goto("end")
    /\ UNCHANGED <<tables, files>>

\* END_calib_Calc writes its registers and presets over the initial ones
EndCalib ==
    /\ pc = "end" /\ Goto("preReset")
    /\ folder' = [acc |-> session, presets |-> session]
    /\ output' = [atc |-> eeprom["atc"], acc |-> session]
    /\ UNCHANGED <<tables, spherical>>

\* An error in the validation is caught, maybe one of the reset itself
PreReset ==
    /\ pc = "preResetShot" /\ spherical' \in BOOLEAN /\ Goto("burn")
    /\ UNCHANGED <<tables, files>>

\* Mutant: the table is made with the default registers of ATC
CalibOutputWithoutAtc == [atc |-> 0, acc |-> output.acc, undist |-> output.acc]
CalibOutput == [atc |-> output.atc, acc |-> output.acc, undist |-> output.acc]

\* burn2Device, whatever the score will be
BurnCalib ==
    /\ pc = "burn" /\ Goto("rtd")
    /\ IF "burn" \in run THEN BurnBlindly(CalibOutput) ELSE UNCHANGED tables
    /\ UNCHANGED <<files, spherical>>

\* Mutant: the unit is not reset, only its stream
SphericalAfterStop == spherical
\* The command rst clears the registers
SphericalAfterReset == FALSE
ResetCamera ==
    /\ pc \in {"rtd", "longRange", "compare", "rgb"} /\ SwitchOf[pc] \in run
    /\ spherical' = SphericalAfterReset /\ Goto(CaptureOf[pc])
    /\ UNCHANGED <<tables, files>>

\* These tables are burnt whatever the switch for burning says
Rtd ==
    /\ pc = "rtdShot" /\ BurnBlindly([rtd |-> session]) /\ Goto("longRange")
    /\ UNCHANGED <<files, spherical>>
LongRange ==
    /\ pc = "longRangeShot" /\ Goto("presets")
    /\ folder' = [folder EXCEPT !.presets = session]
    /\ UNCHANGED <<tables, output, spherical>>
BurnPresets ==
    /\ pc = "presets" /\ BurnBlindly([presets |-> folder.presets]) /\ Goto("compare")
    /\ UNCHANGED <<files, spherical>>
Compare ==
    /\ pc = "compareShot" /\ Goto("score")
    /\ folder' = [folder EXCEPT !.presets = session] /\ BurnBlindly([presets |-> session])
    /\ UNCHANGED <<output, spherical>>

\* "Reburning initial tables..." when the results are out of range
Score ==
    /\ pc = "score"
    /\ \/ Goto("rgb") /\ UNCHANGED <<tables, spherical>>
       \/ End("failed") /\ ~AtcMissing /\ BurnBlindly(InitTables) /\ spherical' = FALSE
    /\ UNCHANGED files

\* The table is burnt if it is valid; the score may be good or bad in both cases
Rgb ==
    /\ pc = "rgbShot"
    /\ BurnBlindly([rgb |-> session]) \/ UNCHANGED tables
    /\ End("passed") \/ End("failed")
    /\ UNCHANGED <<files, spherical>>

Acc ==
    \/ AccInit \/ Skip \/ ScanDir \/ MinRange \/ SetSpherical \/ Dfz \/ Roi \/ EndCalib \/ PreReset
    \/ BurnCalib \/ ResetCamera \/ Rtd \/ LongRange \/ BurnPresets \/ Compare \/ Score \/ Rgb

Ended == pc = "idle" /\ session = NSessions /\ UNCHANGED vars

Next == Start \/ Throw \/ Atc \/ Acc \/ Ended

Spec == Init /\ [][Next]_vars

-----------------------------------------------------------------------------
(* Properties *)

Stages == {"idle", "init", "delays", "heat", "burnThermal", "burnExtra", "burnAlgo",
           "scanDir", "minRange", "end", "burn", "presets", "score"}
          \cup DOMAIN SwitchOf \cup {CaptureOf[s] : s \in DOMAIN CaptureOf}
Sessions == 0 .. NSessions

\* The state is well typed; no table holds more than what sessions have computed.
TypeOK ==
    /\ pc \in Stages /\ session \in Sessions /\ tool \in {"none", "ATC", "ACC"} /\ run \in Runs \cup {{}}
    /\ eeprom \in [Parts -> 0 .. session] /\ folder \in [acc : {0, session}, presets : {0, session}]
    /\ output \in [atc : 0 .. session, acc : 0 .. session]
    /\ spherical \in BOOLEAN /\ outcome \in {"none", "early", "error", "failed", "passed"}
    /\ calibPassed \in BOOLEAN /\ failed \subseteq Tables /\ lastAtc \in Sessions

\* Thermal calibration that passed stays whole on the unit through all the camera
\* sessions after it, whichever stage ends them and whichever burns fail: the
\* registers in the shared table agree with the two thermal tables.
AtcPassed == lastAtc # 0 => \A p \in AtcParts : eeprom[p] = lastAtc

\* No step of a camera session changes what thermal calibration left, although it
\* writes the table both share, twice from registers it read before.
AtcKept == [][tool = "ACC" /\ pc # "idle" => \A p \in AtcParts : eeprom'[p] = eeprom[p]]_vars

\* After a camera session that passed, its tables are all of that session when no
\* burn failed, and with init nothing of an earlier session is left.
PassedAgree ==
    tool = "ACC" /\ outcome = "passed" /\ failed = {} /\ "onlyRgb" \notin run =>
        /\ eeprom["presets"] = session
        /\ "burn" \in run => eeprom["acc"] = session /\ eeprom["undist"] = session
        /\ "DFZ" \in run => eeprom["rtd"] = session
        /\ "init" \in run => \A p \in AccParts : eeprom[p] \in {0, session}

\* A camera session that returns early has put nothing of its own on the unit; with
\* init the unit has the defaults, whatever sessions before it left.
EarlyFailClean ==
    tool = "ACC" /\ outcome = "early" =>
        /\ \A p \in Parts : eeprom[p] # session
        /\ "init" \in run /\ failed = {} => \A p \in AccParts : eeprom[p] = 0

\* No picture is taken in the spherical mode that a stage before has left on: a
\* validation whose reset failed is followed by a reset of the unit.
CapturesInMode ==
    pc \in {"scanDir", "minRange", "preReset", "rtdShot", "longRangeShot", "compareShot", "rgbShot"}
        => ~spherical

\* "Reburning initial tables..." (runAlgoCameraCalibration.m line 232): a session
\* whose results are out of range leaves the unit with default camera tables.
FailureReverted ==
    tool = "ACC" /\ outcome = "failed" /\ failed = {} /\ "rgb" \notin run
        => \A p \in AccParts : eeprom[p] = 0
=============================================================================
