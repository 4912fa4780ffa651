------------------------ MODULE CalibrationFlowProofs ------------------------
(***************************************************************************)
(* Proofs about the tables of a unit, for any number of sessions, any      *)
(* switches and any burns that fail.                                       *)
(***************************************************************************)
EXTENDS CalibrationFlow, TLAPS

USE FlowAssumption

AtcBurns == {"burnThermal", "burnExtra", "burnAlgo"}
AtcStages == {"delays", "heat"} \cup AtcBurns
BeforeEnd == {"scanDir", "minRange", "dfz", "dfzShot", "roi", "roiShot", "end"}
BeforeBurn == {"preReset", "preResetShot", "burn"}
AfterBurn == {"rtd", "rtdShot", "longRange", "longRangeShot", "presets", "compare", "compareShot",
              "score", "rgb", "rgbShot"}
AccStages == BeforeEnd \cup BeforeBurn \cup AfterBurn

\* Typed without the stages, which are known by name.
Typed ==
    /\ pc \in {"idle", "init"} \cup AtcStages \cup AccStages
    /\ session \in Sessions /\ tool \in {"none", "ATC", "ACC"} /\ run \in Runs \cup {{}}
    /\ eeprom \in [Parts -> 0 .. session] /\ folder \in [acc : {0, session}, presets : {0, session}]
    /\ output \in [atc : 0 .. session, acc : 0 .. session]
    /\ spherical \in BOOLEAN /\ outcome \in {"none", "early", "error", "failed", "passed"}
    /\ calibPassed \in BOOLEAN /\ failed \subseteq Tables /\ lastAtc \in Sessions

LEMMA TypedStages == Typed <=> TypeOK
<1>1. DOMAIN SwitchOf = {"dfz", "roi", "preReset", "rtd", "longRange", "compare", "rgb"}
  BY DEF SwitchOf
<1>2. DOMAIN CaptureOf = {"dfz", "roi", "preReset", "rtd", "longRange", "compare", "rgb"}
  BY DEF CaptureOf
<1>3. {CaptureOf[s] : s \in DOMAIN CaptureOf}
        = {"dfzShot", "roiShot", "preResetShot", "rtdShot", "longRangeShot", "compareShot", "rgbShot"}
  BY <1>2 DEF CaptureOf
<1>4. Stages = {"idle", "init"} \cup AtcStages \cup AccStages
  BY <1>1, <1>3 DEF Stages, AtcStages, AtcBurns, AccStages, BeforeEnd, BeforeBurn, AfterBurn
<1> QED BY <1>4 DEF Typed, TypeOK

LEMMA BurnTyped ==
    ASSUME Typed, NEW lost, NEW contents, Burn(contents, lost), lost \in Losses,
           \A p \in Parts : p \in DOMAIN contents => contents[p] \in 0 .. session
    PROVE  /\ eeprom' \in [Parts -> 0 .. session] /\ failed' \subseteq Tables
           /\ \A p \in Parts : p \notin DOMAIN contents => eeprom'[p] = eeprom[p]
           /\ \A p \in Parts : p \in DOMAIN contents =>
                 eeprom'[p] = IF TableOf(p) \notin lost THEN contents[p] ELSE eeprom[p]
<1>1. failed' \subseteq Tables
  BY DEF Burn, Typed
<1>2. eeprom' = [p \in Parts |-> IF p \in DOMAIN contents /\ TableOf(p) \notin lost
                                 THEN contents[p] ELSE eeprom[p]]
  BY DEF Burn, Burnt
<1>3. \A p \in Parts : eeprom[p] \in 0 .. session
  BY DEF Typed
<1>4. \A p \in Parts : eeprom'[p] = IF p \in DOMAIN contents /\ TableOf(p) \notin lost
                                 THEN contents[p] ELSE eeprom[p]
  BY <1>2, Zenon
<1>5. eeprom' \in [Parts -> 0 .. session]
  BY <1>2, <1>3
<1>6. \A p \in Parts : p \notin DOMAIN contents => eeprom'[p] = eeprom[p]
  BY <1>4, Zenon
<1>7. \A p \in Parts : p \in DOMAIN contents =>
         eeprom'[p] = IF TableOf(p) \notin lost THEN contents[p] ELSE eeprom[p]
  BY <1>4, Zenon
<1> QED BY <1>1, <1>5, <1>6, <1>7

\* A burn that nothing looks at leaves in each part what it held or what is burnt, and
\* what is burnt when no burn of the session has failed.
LEMMA BlindBurnTyped ==
    ASSUME Typed, NEW contents, BurnBlindly(contents),
           \A p \in Parts : p \in DOMAIN contents => contents[p] \in 0 .. session
    PROVE  /\ eeprom' \in [Parts -> 0 .. session] /\ failed' \subseteq Tables
           /\ calibPassed' = calibPassed /\ failed \subseteq failed'
           /\ \A p \in Parts : p \notin DOMAIN contents => eeprom'[p] = eeprom[p]
           /\ \A p \in Parts : p \in DOMAIN contents => eeprom'[p] \in {contents[p], eeprom[p]}
           /\ failed' = {} => \A p \in Parts : p \in DOMAIN contents => eeprom'[p] = contents[p]
<1>1. PICK lost \in Losses : Burn(contents, lost)
  BY DEF BurnBlindly
<1>2. failed' = failed \cup lost
  BY <1>1 DEF Burn
<1>3. calibPassed' = calibPassed
  BY DEF BurnBlindly
<1>4. /\ eeprom' \in [Parts -> 0 .. session] /\ failed' \subseteq Tables
      /\ \A p \in Parts : p \notin DOMAIN contents => eeprom'[p] = eeprom[p]
      /\ \A p \in Parts : p \in DOMAIN contents =>
            eeprom'[p] = IF TableOf(p) \notin lost THEN contents[p] ELSE eeprom[p]
  BY <1>1, BurnTyped, Zenon
<1>5. \A p \in Parts : p \in DOMAIN contents => eeprom'[p] \in {contents[p], eeprom[p]}
  BY <1>4, Zenon
<1>6. failed' = {} => \A p \in Parts : p \in DOMAIN contents => eeprom'[p] = contents[p]
  BY <1>2, <1>4
<1> QED BY <1>2, <1>3, <1>4, <1>5, <1>6

\* What the stages' switches, successors and captures are, by name.
LEMMA Switched ==
    /\ DOMAIN SwitchOf = {"dfz", "roi", "preReset", "rtd", "longRange", "compare", "rgb"}
    /\ StageAfter["dfz"] = "roi" /\ StageAfter["roi"] = "end" /\ StageAfter["preReset"] = "burn"
    /\ StageAfter["rtd"] = "longRange" /\ StageAfter["longRange"] = "presets"
    /\ StageAfter["compare"] = "score"
    /\ CaptureOf["dfz"] = "dfzShot" /\ CaptureOf["roi"] = "roiShot"
    /\ CaptureOf["preReset"] = "preResetShot" /\ CaptureOf["rtd"] = "rtdShot"
    /\ CaptureOf["longRange"] = "longRangeShot" /\ CaptureOf["compare"] = "compareShot"
    /\ CaptureOf["rgb"] = "rgbShot"
  BY DEF SwitchOf, StageAfter, CaptureOf

\* The tables that are burnt hold what sessions have computed.
LEMMA InitTablesTyped ==
    ASSUME Typed
    PROVE  /\ DOMAIN InitTables = {"atc", "acc", "undist", "presets", "rtd", "rgb"}
           /\ InitTables["atc"] = eeprom["atc"]
           /\ InitTables["acc"] = folder.acc /\ InitTables["presets"] = folder.presets
           /\ InitTables["undist"] = 0 /\ InitTables["rtd"] = 0 /\ InitTables["rgb"] = 0
           /\ \A p \in Parts : p \in DOMAIN InitTables => InitTables[p] \in 0 .. session
<1>1. /\ DOMAIN InitTables = {"atc", "acc", "undist", "presets", "rtd", "rgb"}
      /\ InitTables["atc"] = eeprom["atc"]
      /\ InitTables["acc"] = folder.acc /\ InitTables["presets"] = folder.presets
      /\ InitTables["undist"] = 0 /\ InitTables["rtd"] = 0 /\ InitTables["rgb"] = 0
  BY DEF InitTables
<1>2. eeprom["atc"] \in 0 .. session
  BY DEF Typed, Parts, AtcParts
<1>3. folder.acc \in 0 .. session /\ folder.presets \in 0 .. session /\ 0 \in 0 .. session
  BY DEF Typed, Sessions
<1> QED BY <1>1, <1>2, <1>3

LEMMA CalibOutputTyped ==
    ASSUME Typed
    PROVE  /\ DOMAIN CalibOutput = {"atc", "acc", "undist"}
           /\ CalibOutput["atc"] = output.atc
           /\ CalibOutput["acc"] = output.acc /\ CalibOutput["undist"] = output.acc
           /\ \A p \in Parts : p \in DOMAIN CalibOutput => CalibOutput[p] \in 0 .. session
<1>1. /\ DOMAIN CalibOutput = {"atc", "acc", "undist"}
      /\ CalibOutput["atc"] = output.atc
      /\ CalibOutput["acc"] = output.acc /\ CalibOutput["undist"] = output.acc
  BY DEF CalibOutput
<1>2. output.atc \in 0 .. session /\ output.acc \in 0 .. session
  BY DEF Typed
<1> QED BY <1>1, <1>2

\* The table of one part, burnt alone.
LEMMA SingleTyped ==
    ASSUME Typed, NEW v \in 0 .. session
    PROVE  /\ \A p \in Parts : p \in DOMAIN [thermal |-> v] => [thermal |-> v][p] \in 0 .. session
           /\ \A p \in Parts : p \in DOMAIN [extra |-> v] => [extra |-> v][p] \in 0 .. session
           /\ \A p \in Parts : p \in DOMAIN [rtd |-> v] => [rtd |-> v][p] \in 0 .. session
           /\ \A p \in Parts : p \in DOMAIN [presets |-> v] => [presets |-> v][p] \in 0 .. session
           /\ \A p \in Parts : p \in DOMAIN [rgb |-> v] => [rgb |-> v][p] \in 0 .. session
  OBVIOUS

LEMMA BurnCheckedTyped ==
    ASSUME Typed, NEW contents, BurnChecked(contents),
           \A p \in Parts : p \in DOMAIN contents => contents[p] \in 0 .. session
    PROVE  /\ eeprom' \in [Parts -> 0 .. session] /\ failed' \subseteq Tables
           /\ calibPassed' \in BOOLEAN
           /\ \A p \in Parts : p \notin DOMAIN contents => eeprom'[p] = eeprom[p]
           /\ calibPassed' => calibPassed /\ \A p \in Parts : p \in DOMAIN contents => eeprom'[p] = contents[p]
<1>1. PICK lost \in Losses : Burn(contents, lost) /\ calibPassed' = PassedAfter(lost)
  BY DEF BurnChecked
<1>2. /\ eeprom' \in [Parts -> 0 .. session] /\ failed' \subseteq Tables
      /\ \A p \in Parts : p \notin DOMAIN contents => eeprom'[p] = eeprom[p]
      /\ \A p \in Parts : p \in DOMAIN contents =>
            eeprom'[p] = IF TableOf(p) \notin lost THEN contents[p] ELSE eeprom[p]
  BY <1>1, BurnTyped, Zenon
<1>3. calibPassed' \in BOOLEAN /\ (calibPassed' => calibPassed /\ lost = {})
  BY <1>1 DEF PassedAfter, Typed
<1> QED BY <1>2, <1>3

LEMMA NextTyped ==
    ASSUME Typed, [Next]_vars
    PROVE  Typed'
<1> USE DEF Goto, End, AtcStages, AtcBurns, AccStages, BeforeEnd, BeforeBurn, AfterBurn
<1>a. session \in 0 .. session /\ 0 \in 0 .. session
  BY DEF Typed, Sessions
<1>b. /\ output.atc \in 0 .. session /\ output.acc \in 0 .. session /\ folder.acc \in {0, session}
      /\ folder.presets \in {0, session} /\ folder.presets \in 0 .. session
  BY <1>a DEF Typed
<1>c. eeprom["atc"] \in 0 .. session /\ eeprom["acc"] \in 0 .. session
  BY DEF Typed, Parts, AtcParts, AccParts
<1>1. CASE Start
  <2>1. session + 1 \in Sessions /\ session' = session + 1 /\ \A k \in 0 .. session : k \in 0 .. session'
    BY <1>1, FlowAssumption DEF Start, Typed, Sessions
  <2>2. eeprom' \in [Parts -> 0 .. session']
    BY <1>1, <2>1 DEF Start, Typed
  <2>3. folder' \in [acc : {0, session'}, presets : {0, session'}]
        /\ output' \in [atc : 0 .. session', acc : 0 .. session']
    BY <1>1, <2>1, <1>a DEF Start, FolderAtStart, Defaults, NoOutput
  <2>4. PICK t \in {"ATC", "ACC"}, r \in Runs : /\ tool' = t /\ run' = r
                                               /\ lastAtc' = IF t = "ATC" THEN 0 ELSE lastAtc
    BY <1>1 DEF Start
  <2>5. tool' \in {"none", "ATC", "ACC"} /\ run' \in Runs \cup {{}} /\ lastAtc' \in Sessions
    BY <2>4, <1>a, FlowAssumption DEF Typed, Sessions
  <2>6. /\ pc' = "init" /\ spherical' = FALSE /\ outcome' = "none" /\ calibPassed' = TRUE /\ failed' = {}
    BY <1>1 DEF Start
  <2> QED BY <2>1, <2>2, <2>3, <2>5, <2>6 DEF Typed
<1>2. CASE Throw
  BY <1>2 DEF Throw, Typed, tables, files
<1>3. CASE AtcInit
  <2>1. \A p \in Parts : p \in DOMAIN [q \in Parts |-> 0] => [q \in Parts |-> 0][p] \in 0 .. session
    BY <1>a
  <2>2. /\ eeprom' \in [Parts -> 0 .. session] /\ failed' \subseteq Tables /\ calibPassed' \in BOOLEAN
    <3>1. CASE BurnBlindly([q \in Parts |-> 0])
      BY <3>1, <2>1, BlindBurnTyped DEF Typed
    <3>2. CASE UNCHANGED tables
      BY <3>2 DEF Typed, tables
    <3> QED BY <1>3, <3>1, <3>2 DEF AtcInit
  <2> QED BY <1>3, <2>2 DEF AtcInit, Typed, files
<1>4. CASE Delays
  BY <1>4 DEF Delays, Typed, tables, files
<1>5. CASE Heat
  BY <1>5, <1>a, <1>c DEF Heat, Typed, tables
<1>6. CASE AtcBurnThermal
  <2>1. /\ eeprom' \in [Parts -> 0 .. session] /\ failed' \subseteq Tables /\ calibPassed' \in BOOLEAN
    <3>1. BurnChecked([thermal |-> session])
      BY <1>6 DEF AtcBurnThermal
    <3>2. \A p \in Parts : p \in DOMAIN [thermal |-> session] => [thermal |-> session][p] \in 0 .. session
      BY <1>a, SingleTyped
    <3> HIDE DEF Goto, End
    <3> QED BY <3>1, <3>2, BurnCheckedTyped, Zenon
  <2> QED BY <1>6, <2>1 DEF AtcBurnThermal, Typed, files
<1>7. CASE AtcBurnExtra
  <2>1. /\ eeprom' \in [Parts -> 0 .. session] /\ failed' \subseteq Tables /\ calibPassed' \in BOOLEAN
    <3>1. BurnChecked([extra |-> session])
      BY <1>7 DEF AtcBurnExtra
    <3>2. \A p \in Parts : p \in DOMAIN [extra |-> session] => [extra |-> session][p] \in 0 .. session
      BY <1>a, SingleTyped
    <3> HIDE DEF Goto, End
    <3> QED BY <3>1, <3>2, BurnCheckedTyped, Zenon
  <2> QED BY <1>7, <2>1 DEF AtcBurnExtra, Typed, files
<1>8. CASE AtcBurnAlgo
  <2>1. /\ eeprom' \in [Parts -> 0 .. session] /\ failed' \subseteq Tables /\ calibPassed' \in BOOLEAN
    <3>1. \A p \in Parts : p \in DOMAIN output => output[p] \in 0 .. session
      BY <1>b DEF Typed
    <3> QED BY <1>8, <3>1, BurnCheckedTyped DEF AtcBurnAlgo
  <2> QED BY <1>8, <2>1 DEF AtcBurnAlgo, Typed, files
<1>9. CASE AccInit
  <2>1. /\ eeprom' \in [Parts -> 0 .. session] /\ failed' \subseteq Tables /\ calibPassed' \in BOOLEAN
    <3>1. CASE BurnBlindly(InitTables)
      BY <3>1, InitTablesTyped, BlindBurnTyped DEF Typed
    <3>2. CASE UNCHANGED tables
      BY <3>2 DEF Typed, tables
    <3> QED BY <1>9, <3>1, <3>2 DEF AccInit, tables
  <2> QED BY <1>9, <2>1 DEF AccInit, FirstStage, Typed, files
<1>10. CASE Skip
  BY <1>10, Switched DEF Skip, Typed, tables, files
<1>11. CASE ScanDir
  BY <1>11 DEF ScanDir, Typed, tables, files
<1>12. CASE MinRange
  BY <1>12, <1>b DEF MinRange, Typed, tables
<1>13. CASE SetSpherical
  BY <1>13, Switched DEF SetSpherical, Typed, tables, files
<1>14. CASE Dfz
  BY <1>14 DEF Dfz, Typed, tables, files
<1>15. CASE Roi
  BY <1>15 DEF Roi, Typed, tables, files
<1>16. CASE EndCalib
  BY <1>16, <1>a, <1>c DEF EndCalib, Typed, tables
<1>17. CASE PreReset
  BY <1>17 DEF PreReset, Typed, tables, files
<1>18. CASE BurnCalib
  <2>1. /\ eeprom' \in [Parts -> 0 .. session] /\ failed' \subseteq Tables /\ calibPassed' \in BOOLEAN
    <3>1. CASE BurnBlindly(CalibOutput)
      BY <3>1, CalibOutputTyped, BlindBurnTyped DEF Typed
    <3>2. CASE UNCHANGED tables
      BY <3>2 DEF Typed, tables
    <3> QED BY <1>18, <3>1, <3>2 DEF BurnCalib
  <2> QED BY <1>18, <2>1 DEF BurnCalib, Typed, files
<1>19. CASE ResetCamera
  BY <1>19, Switched DEF ResetCamera, SphericalAfterReset, Typed, tables, files
<1>20. CASE Rtd
  <2>1. /\ eeprom' \in [Parts -> 0 .. session] /\ failed' \subseteq Tables /\ calibPassed' \in BOOLEAN
    <3>1. \A p \in Parts : p \in DOMAIN [rtd |-> session] => [rtd |-> session][p] \in 0 .. session
      BY <1>a, <1>b, SingleTyped
    <3>2. CASE BurnBlindly([rtd |-> session])
      BY <3>1, <3>2, BlindBurnTyped DEF Typed
    <3> QED BY <1>20, <3>2 DEF Rtd
  <2> QED BY <1>20, <2>1 DEF Rtd, Typed, files
<1>21. CASE LongRange
  BY <1>21, <1>b DEF LongRange, Typed, tables
<1>22. CASE BurnPresets
  <2>1. /\ eeprom' \in [Parts -> 0 .. session] /\ failed' \subseteq Tables /\ calibPassed' \in BOOLEAN
    <3>1. \A p \in Parts : p \in DOMAIN [presets |-> folder.presets] => [presets |-> folder.presets][p] \in 0 .. session
      BY <1>a, <1>b, SingleTyped
    <3>2. CASE BurnBlindly([presets |-> folder.presets])
      BY <3>1, <3>2, BlindBurnTyped DEF Typed
    <3> QED BY <1>22, <3>2 DEF BurnPresets
  <2> QED BY <1>22, <2>1 DEF BurnPresets, Typed, files
<1>23. CASE Compare
  <2>1. /\ eeprom' \in [Parts -> 0 .. session] /\ failed' \subseteq Tables /\ calibPassed' \in BOOLEAN
    <3>1. \A p \in Parts : p \in DOMAIN [presets |-> session] => [presets |-> session][p] \in 0 .. session
      BY <1>a, <1>b, SingleTyped
    <3>2. CASE BurnBlindly([presets |-> session])
      BY <3>1, <3>2, BlindBurnTyped DEF Typed
    <3> QED BY <1>23, <3>2 DEF Compare
  <2> QED BY <1>23, <2>1, <1>b DEF Compare, Typed, files
<1>24. CASE Score
  <2>1. /\ eeprom' \in [Parts -> 0 .. session] /\ failed' \subseteq Tables /\ calibPassed' \in BOOLEAN
    <3>1. CASE BurnBlindly(InitTables)
      BY <3>1, InitTablesTyped, BlindBurnTyped DEF Typed
    <3>2. CASE UNCHANGED tables
      BY <3>2 DEF Typed, tables
    <3> QED BY <1>24, <3>1, <3>2 DEF Score, tables
  <2> QED BY <1>24, <2>1 DEF Score, Typed, tables, files
<1>25. CASE Rgb
  <2>1. /\ eeprom' \in [Parts -> 0 .. session] /\ failed' \subseteq Tables /\ calibPassed' \in BOOLEAN
    <3>1. \A p \in Parts : p \in DOMAIN [rgb |-> session] => [rgb |-> session][p] \in 0 .. session
      BY <1>a, <1>b, SingleTyped
    <3>2. CASE BurnBlindly([rgb |-> session])
      BY <3>1, <3>2, BlindBurnTyped DEF Typed
    <3>3. CASE UNCHANGED tables
      BY <3>3 DEF Typed, tables
    <3> QED BY <1>25, <3>2, <3>3 DEF Rgb
  <2> QED BY <1>25, <2>1 DEF Rgb, Typed, files
<1>26. CASE UNCHANGED vars
  BY <1>26 DEF vars, Typed
<1> QED
  BY <1>1, <1>2, <1>3, <1>4, <1>5, <1>6, <1>7, <1>8, <1>9, <1>10, <1>11, <1>12, <1>13, <1>14, <1>15, <1>16, <1>17, <1>18, <1>19, <1>20, <1>21, <1>22, <1>23, <1>24, <1>25, <1>26
  DEF Next, Atc, Acc, Ended

-----------------------------------------------------------------------------
(* The inductive invariant *)

\* A stage belongs to its tool, and only a session that has ended has an outcome.
Placed ==
    /\ pc \in AtcStages => tool = "ATC"
    /\ pc \in AccStages => tool = "ACC"
    /\ pc # "idle" => tool \in {"ATC", "ACC"} /\ session > 0 /\ outcome = "none"

\* The thermal tables: whole after a session that passed, in the making during one,
\* and what END has read of them is what the unit holds until it is burnt.
AtcWhole ==
    /\ AtcPassed
    /\ tool = "ATC" /\ pc # "idle" => lastAtc = 0
    /\ pc \in AtcBurns => output.atc = session
    /\ pc \in {"burnExtra", "burnAlgo"} /\ calibPassed => eeprom["thermal"] = session
    /\ pc = "burnAlgo" /\ calibPassed => eeprom["extra"] = session
    /\ pc \in BeforeBurn => output.atc = eeprom["atc"]

\* The spherical mode is off wherever a stage before could have left it on.
Mode ==
    pc \in {"init", "scanDir", "minRange", "dfz", "roi", "end", "preReset", "rtdShot", "longRangeShot",
           "compareShot", "rgbShot"} => ~spherical

\* Nothing of the session is on the unit before the first burn of its results.
Clean ==
    /\ pc = "init" => folder = Defaults
    /\ tool = "ACC" /\ (pc \in {"init"} \cup BeforeEnd \cup BeforeBurn \/ outcome = "early") =>
          /\ \A p \in Parts : eeprom[p] # session
          /\ pc # "init" /\ "init" \in run /\ failed = {} => \A p \in AccParts : eeprom[p] = 0

\* The tables of a camera session that no failed burn has mixed with older ones.
Agreed ==
    /\ PassedAgree
    /\ tool = "ACC" /\ pc \in AccStages /\ failed = {} /\ "init" \in run =>
          \A p \in AccParts : eeprom[p] \in {0, session}
    /\ pc \in BeforeBurn => output.acc = session
    /\ pc \in BeforeBurn \cup AfterBurn /\ "onlyRgb" \notin run => folder.presets = session
    /\ pc \in AfterBurn /\ "onlyRgb" \notin run /\ failed = {} =>
          /\ "burn" \in run => eeprom["acc"] = session /\ eeprom["undist"] = session
          /\ "DFZ" \in run /\ pc \notin {"rtd", "rtdShot"} => eeprom["rtd"] = session
          /\ pc \in {"compare", "compareShot", "score", "rgb", "rgbShot"} => eeprom["presets"] = session

IInv == Typed /\ Placed /\ AtcWhole /\ Mode /\ Clean /\ Agreed

LEMMA NextPlaced ==
    ASSUME Typed, Placed, [Next]_vars
    PROVE  Placed'
<1> USE DEF Goto, End, AtcStages, AtcBurns, AccStages, BeforeEnd, BeforeBurn, AfterBurn
<1>1. CASE Start
  <2>1. session' = session + 1 /\ session' > 0
    BY <1>1 DEF Start, Typed, Sessions
  <2>2. tool' \in {"ATC", "ACC"} /\ pc' = "init" /\ outcome' = "none"
    BY <1>1 DEF Start
  <2> QED BY <2>1, <2>2 DEF Placed
<1>2. CASE Throw
  BY <1>2 DEF Throw, Placed
<1>3. CASE Atc
  BY <1>3 DEF Atc, AtcInit, Delays, Heat, AtcBurnThermal, AtcBurnExtra, AtcBurnAlgo, Placed
<1>4. CASE AccInit
  BY <1>4 DEF AccInit, FirstStage, Placed
<1>5. CASE Skip \/ SetSpherical \/ ResetCamera
  BY <1>5, Switched DEF Skip, SetSpherical, ResetCamera, Placed
<1>6. CASE ScanDir \/ MinRange \/ Dfz \/ Roi \/ EndCalib \/ PreReset \/ BurnCalib
  BY <1>6 DEF ScanDir, MinRange, Dfz, Roi, EndCalib, PreReset, BurnCalib, Placed
<1>7. CASE Rtd \/ LongRange \/ BurnPresets \/ Compare \/ Score \/ Rgb
  BY <1>7 DEF Rtd, LongRange, BurnPresets, Compare, Score, Rgb, Placed
<1>8. CASE UNCHANGED vars
  BY <1>8 DEF vars, Placed
<1> QED
  BY <1>1, <1>2, <1>3, <1>4, <1>5, <1>6, <1>7, <1>8 DEF Next, Acc, Ended

LEMMA NextMode ==
    ASSUME Typed, Placed, Mode, [Next]_vars
    PROVE  Mode'
<1> USE DEF Goto, End, files
<1>1. CASE Start \/ Throw
  BY <1>1 DEF Start, Throw, Mode
<1>2. CASE Atc
  BY <1>2 DEF Atc, AtcInit, Delays, Heat, AtcBurnThermal, AtcBurnExtra, AtcBurnAlgo, Mode
<1>3. CASE AccInit
  BY <1>3 DEF AccInit, FirstStage, Mode
<1>4. CASE Skip \/ SetSpherical \/ ResetCamera
  BY <1>4, Switched DEF Skip, SetSpherical, ResetCamera, SphericalAfterReset, Mode
<1>5. CASE ScanDir \/ MinRange \/ Dfz \/ Roi \/ EndCalib \/ PreReset \/ BurnCalib
  BY <1>5 DEF ScanDir, MinRange, Dfz, Roi, EndCalib, PreReset, BurnCalib, Mode
<1>6. CASE Rtd \/ LongRange \/ BurnPresets \/ Compare \/ Score \/ Rgb
  BY <1>6 DEF Rtd, LongRange, BurnPresets, Compare, Score, Rgb, Mode
<1>7. CASE UNCHANGED vars
  BY <1>7 DEF vars, Mode
<1> QED
  BY <1>1, <1>2, <1>3, <1>4, <1>5, <1>6, <1>7 DEF Next, Acc, Ended

\* A camera session writes back the thermal registers it has read: from the unit when
\* tables are made from the folder, and those that END has read before the burn.
LEMMA AccKeepsAtc ==
    ASSUME Typed, AtcWhole, Acc
    PROVE  \A p \in AtcParts : eeprom'[p] = eeprom[p]
<1>a. AtcParts \subseteq Parts /\ \A p \in AtcParts : p \in {"atc", "thermal", "extra"}
  BY DEF Parts, AtcParts
<1>b. session \in 0 .. session /\ folder.presets \in 0 .. session
  BY DEF Typed, Sessions
<1>c. ASSUME UNCHANGED tables
      PROVE  \A p \in AtcParts : eeprom'[p] = eeprom[p]
  BY <1>c DEF tables
<1>d. ASSUME BurnBlindly(InitTables)
      PROVE  \A p \in AtcParts : eeprom'[p] = eeprom[p]
  <2>1. /\ \A p \in Parts : p \notin DOMAIN InitTables => eeprom'[p] = eeprom[p]
        /\ \A p \in Parts : p \in DOMAIN InitTables => eeprom'[p] \in {InitTables[p], eeprom[p]}
    BY <1>d, InitTablesTyped, BlindBurnTyped
  <2> QED BY <2>1, <1>a, InitTablesTyped
<1>1. CASE AccInit
  BY <1>1, <1>c, <1>d DEF AccInit, tables
<1>2. CASE BurnCalib
  <2>1. output.atc = eeprom["atc"]
    BY <1>2 DEF BurnCalib, AtcWhole, BeforeBurn
  <2>2. ASSUME BurnBlindly(CalibOutput)
        PROVE  \A p \in AtcParts : eeprom'[p] = eeprom[p]
    <3>1. /\ \A p \in Parts : p \notin DOMAIN CalibOutput => eeprom'[p] = eeprom[p]
          /\ \A p \in Parts : p \in DOMAIN CalibOutput => eeprom'[p] \in {CalibOutput[p], eeprom[p]}
      BY <2>2, CalibOutputTyped, BlindBurnTyped
    <3> QED BY <2>1, <3>1, <1>a, CalibOutputTyped
  <2> QED BY <1>2, <1>c, <2>2 DEF BurnCalib
<1>3. CASE Rtd
  <2>1. \A p \in Parts : p \notin DOMAIN [rtd |-> session] => eeprom'[p] = eeprom[p]
    BY <1>3, <1>b, SingleTyped, BlindBurnTyped DEF Rtd
  <2> QED BY <2>1, <1>a
<1>4. CASE BurnPresets
  <2>1. \A p \in Parts : p \notin DOMAIN [presets |-> folder.presets] => eeprom'[p] = eeprom[p]
    BY <1>4, <1>b, SingleTyped, BlindBurnTyped DEF BurnPresets
  <2> QED BY <2>1, <1>a
<1>5. CASE Compare
  <2>1. \A p \in Parts : p \notin DOMAIN [presets |-> session] => eeprom'[p] = eeprom[p]
    BY <1>5, <1>b, SingleTyped, BlindBurnTyped DEF Compare
  <2> QED BY <2>1, <1>a
<1>6. CASE Score
  BY <1>6, <1>c, <1>d DEF Score, tables
<1>7. CASE Rgb
  <2>1. ASSUME BurnBlindly([rgb |-> session])
        PROVE  \A p \in AtcParts : eeprom'[p] = eeprom[p]
    <3>1. \A p \in Parts : p \notin DOMAIN [rgb |-> session] => eeprom'[p] = eeprom[p]
      BY <2>1, <1>b, SingleTyped, BlindBurnTyped
    <3> QED BY <3>1, <1>a
  <2> QED BY <1>7, <1>c, <2>1 DEF Rgb
<1>8. CASE Skip \/ ScanDir \/ MinRange \/ SetSpherical \/ Dfz \/ Roi \/ EndCalib \/ PreReset
           \/ ResetCamera \/ LongRange
  BY <1>8, <1>c DEF Skip, ScanDir, MinRange, SetSpherical, Dfz, Roi, EndCalib, PreReset, ResetCamera, LongRange
<1> QED
  BY <1>1, <1>2, <1>3, <1>4, <1>5, <1>6, <1>7, <1>8 DEF Acc

LEMMA NextAtcWhole ==
    ASSUME Typed, Placed, AtcWhole, [Next]_vars
    PROVE  AtcWhole'
<1> USE DEF AtcStages, AtcBurns, AccStages, BeforeEnd, BeforeBurn, AfterBurn
<1>a. AtcParts = {"atc", "thermal", "extra"} /\ AtcParts \subseteq Parts
  BY DEF Parts, AtcParts
<1>b. session \in 0 .. session
  BY DEF Typed, Sessions
<1>1. CASE Start
  <2>1. /\ pc' = "init" /\ UNCHANGED eeprom
        /\ (tool' = "ATC" => lastAtc' = 0) /\ lastAtc' \in {0, lastAtc}
    BY <1>1 DEF Start
  <2>2. AtcPassed'
    BY <2>1 DEF AtcWhole, AtcPassed
  <2> QED BY <2>1, <2>2 DEF AtcWhole
<1>2. CASE Throw
  BY <1>2 DEF Throw, End, AtcWhole, AtcPassed, tables
<1>3. CASE Atc
  <2>0. tool = "ATC" /\ pc # "idle" /\ lastAtc = 0
    BY <1>3 DEF Atc, AtcInit, Delays, Heat, AtcBurnThermal, AtcBurnExtra, AtcBurnAlgo, Placed, AtcWhole
  <2>1. CASE AtcInit \/ Delays \/ Heat
    BY <2>0, <2>1 DEF AtcInit, Delays, Heat, Goto, End, AtcWhole, AtcPassed, tables
  <2>2. CASE AtcBurnThermal
    <3>1. pc' = "burnExtra" /\ lastAtc' = 0 /\ output' = output /\ session' = session
      BY <2>0, <2>2 DEF AtcBurnThermal, Goto, files
    <3>2. calibPassed' => eeprom'["thermal"] = session
      <4>1. \A p \in Parts : p \in DOMAIN [thermal |-> session] => [thermal |-> session][p] \in 0 .. session
        BY <1>b, SingleTyped
      <4>2. calibPassed' => \A p \in Parts : p \in DOMAIN [thermal |-> session] =>
                               eeprom'[p] = [thermal |-> session][p]
        BY <2>2, <4>1, BurnCheckedTyped DEF AtcBurnThermal
      <4> QED BY <4>2, <1>a
    <3>3. output.atc = session
      BY <2>2 DEF AtcBurnThermal, AtcWhole
    <3> QED BY <2>0, <3>1, <3>2, <3>3 DEF AtcWhole, AtcPassed
  <2>3. CASE AtcBurnExtra
    <3>1. pc' = "burnAlgo" /\ lastAtc' = 0 /\ output' = output /\ session' = session
      BY <2>0, <2>3 DEF AtcBurnExtra, Goto, files
    <3>2. calibPassed' => eeprom'["extra"] = session /\ eeprom'["thermal"] = session
      <4>1. \A p \in Parts : p \in DOMAIN [extra |-> session] => [extra |-> session][p] \in 0 .. session
        BY <1>b, SingleTyped
      <4>2. /\ \A p \in Parts : p \notin DOMAIN [extra |-> session] => eeprom'[p] = eeprom[p]
            /\ calibPassed' => calibPassed /\ \A p \in Parts : p \in DOMAIN [extra |-> session] =>
                                                eeprom'[p] = [extra |-> session][p]
        BY <2>3, <4>1, BurnCheckedTyped DEF AtcBurnExtra
      <4>3. calibPassed => eeprom["thermal"] = session
        BY <2>3 DEF AtcBurnExtra, AtcWhole
      <4> QED BY <4>2, <4>3, <1>a
    <3>3. output.atc = session
      BY <2>3 DEF AtcBurnExtra, AtcWhole
    <3> QED BY <2>0, <3>1, <3>2, <3>3 DEF AtcWhole, AtcPassed
  <2>4. CASE AtcBurnAlgo
    <3>1. /\ pc' = "idle" /\ session' = session
          /\ lastAtc' # 0 => calibPassed' /\ lastAtc' = session
      BY <2>0, <2>4 DEF AtcBurnAlgo, End
    <3>2. calibPassed' => \A p \in AtcParts : eeprom'[p] = session
      <4>1. \A p \in Parts : p \in DOMAIN output => output[p] \in 0 .. session
        BY DEF Typed
      <4>2. DOMAIN output = {"atc", "acc"} /\ output["atc"] = session
        BY <2>4 DEF AtcBurnAlgo, AtcWhole, Typed
      <4>3. /\ \A p \in Parts : p \notin DOMAIN output => eeprom'[p] = eeprom[p]
            /\ calibPassed' => calibPassed /\ \A p \in Parts : p \in DOMAIN output => eeprom'[p] = output[p]
        BY <2>4, <4>1, BurnCheckedTyped DEF AtcBurnAlgo
      <4>4. calibPassed => eeprom["thermal"] = session /\ eeprom["extra"] = session
        BY <2>4 DEF AtcBurnAlgo, AtcWhole
      <4> QED BY <4>2, <4>3, <4>4, <1>a
    <3> QED BY <3>1, <3>2 DEF AtcWhole, AtcPassed
  <2> QED BY <1>3, <2>1, <2>2, <2>3, <2>4 DEF Atc
<1>4. CASE Acc
  <2>1. \A p \in AtcParts : eeprom'[p] = eeprom[p]
    BY <1>4, AccKeepsAtc
  <2>2. tool = "ACC" /\ pc \in {"init"} \cup AccStages /\ tool' = "ACC"
    BY <1>4, Switched
    DEF Acc, AccInit, Skip, ScanDir, MinRange, SetSpherical, Dfz, Roi, EndCalib, PreReset, BurnCalib,
        ResetCamera, Rtd, LongRange, BurnPresets, Compare, Score, Rgb, Placed, Goto, End
  <2>3. lastAtc' = lastAtc /\ pc' \in {"idle"} \cup AccStages
    BY <1>4, <2>2, Switched
    DEF Acc, AccInit, FirstStage, Skip, ScanDir, MinRange, SetSpherical, Dfz, Roi, EndCalib, PreReset,
        BurnCalib, ResetCamera, Rtd, LongRange, BurnPresets, Compare, Score, Rgb, Goto, End
  <2>4. AtcPassed'
    BY <2>1, <2>3 DEF AtcWhole, AtcPassed
  <2>5. pc' \in BeforeBurn => output'.atc = eeprom'["atc"]
    <3>1. CASE EndCalib
      BY <3>1 DEF EndCalib, tables
    <3>2. CASE PreReset \/ pc = "preReset"
      <4>1. pc \in BeforeBurn => output.atc = eeprom["atc"]
        BY DEF AtcWhole
      <4>2. UNCHANGED <<output, eeprom>>
        BY <1>4, <3>2
        DEF Acc, AccInit, Skip, ScanDir, MinRange, SetSpherical, Dfz, Roi, EndCalib, PreReset, BurnCalib,
            ResetCamera, Rtd, LongRange, BurnPresets, Compare, Score, Rgb, tables, files
      <4>3. pc \in BeforeBurn
        BY <3>2 DEF PreReset
      <4> QED BY <4>1, <4>2, <4>3
    <3>3. CASE ~EndCalib /\ ~PreReset /\ pc # "preReset"
      <4>1. pc' \notin BeforeBurn
        BY <1>4, <3>3, Switched
        DEF Acc, AccInit, FirstStage, Skip, ScanDir, MinRange, SetSpherical, Dfz, Roi, BurnCalib,
            ResetCamera, Rtd, LongRange, BurnPresets, Compare, Score, Rgb, Goto, End
      <4> QED BY <4>1
    <3> QED BY <3>1, <3>2, <3>3
  <2> QED BY <2>2, <2>3, <2>4, <2>5 DEF AtcWhole
<1>5. CASE UNCHANGED vars
  BY <1>5 DEF vars, AtcWhole, AtcPassed
<1> QED
  BY <1>1, <1>2, <1>3, <1>4, <1>5 DEF Next, Ended

LEMMA NextClean ==
    ASSUME Typed, Placed, Clean, [Next]_vars
    PROVE  Clean'
<1> USE DEF AccStages, BeforeEnd, BeforeBurn, AfterBurn
<1>a. AccParts = {"acc", "undist", "presets", "rtd", "rgb"} /\ AccParts \subseteq Parts
  BY DEF Parts, AccParts
<1>1. CASE Start
  <2>1. \A p \in Parts : eeprom[p] \in 0 .. session /\ session \in Nat
    BY DEF Typed, Sessions
  <2>2. /\ pc' = "init" /\ folder' = Defaults /\ outcome' = "none"
        /\ session' = session + 1 /\ eeprom' = eeprom
    BY <1>1 DEF Start, FolderAtStart
  <2>3. \A p \in Parts : eeprom'[p] # session'
    BY <2>1, <2>2
  <2> QED BY <2>2, <2>3 DEF Clean
<1>2. CASE Throw
  BY <1>2 DEF Throw, End, Clean
<1>3. CASE Atc
  <2>1. tool = "ATC" /\ tool' = "ATC" /\ pc' # "init"
    BY <1>3 DEF Atc, AtcInit, Delays, Heat, AtcBurnThermal, AtcBurnExtra, AtcBurnAlgo, Placed, Goto, End,
                AtcStages, AtcBurns
  <2> QED BY <2>1 DEF Clean
<1>4. CASE AccInit
  <2>1. /\ tool = "ACC" /\ pc = "init" /\ session > 0 /\ session' = session /\ run' = run
        /\ pc' \in {"rgb", "scanDir"} /\ outcome' = "none" /\ folder = Defaults
    BY <1>4 DEF AccInit, FirstStage, Goto, Placed, Clean
  <2>2. \A p \in Parts : eeprom[p] # session
    BY <2>1 DEF Clean
  <2>3. CASE BurnBlindly(InitTables)
    <3>1. /\ \A p \in Parts : p \notin DOMAIN InitTables => eeprom'[p] = eeprom[p]
          /\ \A p \in Parts : p \in DOMAIN InitTables => eeprom'[p] \in {InitTables[p], eeprom[p]}
          /\ failed' = {} => \A p \in Parts : p \in DOMAIN InitTables => eeprom'[p] = InitTables[p]
      BY <2>3, InitTablesTyped, BlindBurnTyped
    <3>2. \A p \in Parts : p \in DOMAIN InitTables => InitTables[p] \in {0, eeprom[p]}
      BY <2>1, InitTablesTyped DEF Defaults
    <3>3. \A p \in AccParts : p \in DOMAIN InitTables /\ InitTables[p] = 0
      BY <2>1, <1>a, InitTablesTyped DEF Defaults
    <3>4. \A p \in Parts : eeprom'[p] # session
      BY <2>1, <2>2, <3>1, <3>2
    <3>5. failed' = {} => \A p \in AccParts : eeprom'[p] = 0
      BY <3>1, <3>3, <1>a
    <3> QED BY <2>1, <3>4, <3>5 DEF Clean
  <2>4. CASE "init" \notin run /\ UNCHANGED tables
    BY <2>1, <2>2, <2>4 DEF Clean, tables
  <2> QED BY <1>4, <2>3, <2>4 DEF AccInit
<1>5. CASE Skip \/ ScanDir \/ MinRange \/ SetSpherical \/ Dfz \/ Roi \/ EndCalib \/ PreReset
  <2>1. UNCHANGED <<session, tool, run, eeprom, failed>>
    BY <1>5 DEF Skip, ScanDir, MinRange, SetSpherical, Dfz, Roi, EndCalib, PreReset, Goto, End, tables
  <2>2. pc' # "init"
    BY <1>5, Switched DEF Skip, ScanDir, MinRange, SetSpherical, Dfz, Roi, EndCalib, PreReset, Goto, End
  <2>3. pc' \in BeforeEnd \cup BeforeBurn \/ outcome' = "early" => pc \in BeforeEnd \cup BeforeBurn
    BY <1>5, Switched DEF Skip, ScanDir, MinRange, SetSpherical, Dfz, Roi, EndCalib, PreReset, Goto, End, Placed
  <2> QED BY <2>1, <2>2, <2>3 DEF Clean
<1>6. CASE BurnCalib \/ ResetCamera \/ Rtd \/ LongRange \/ BurnPresets \/ Compare \/ Score \/ Rgb
  <2>1. pc' \notin {"init"} \cup BeforeEnd \cup BeforeBurn /\ outcome' # "early"
    BY <1>6, Switched DEF BurnCalib, ResetCamera, Rtd, LongRange, BurnPresets, Compare, Score, Rgb, Goto, End, Placed
  <2> QED BY <2>1 DEF Clean
<1>7. CASE UNCHANGED vars
  BY <1>7 DEF vars, Clean
<1> QED
  BY <1>1, <1>2, <1>3, <1>4, <1>5, <1>6, <1>7 DEF Next, Acc, Ended

LEMMA NextAgreed ==
    ASSUME Typed, Placed, Clean, Agreed, [Next]_vars
    PROVE  Agreed'
<1> USE DEF AccStages, BeforeEnd, BeforeBurn, AfterBurn
<1>a. AccParts = {"acc", "undist", "presets", "rtd", "rgb"} /\ AccParts \subseteq Parts
  BY DEF Parts, AccParts
<1>b. session \in 0 .. session /\ folder.presets \in 0 .. session
  BY DEF Typed, Sessions
<1>1. CASE Start
  <2>1. pc' = "init" /\ outcome' = "none"
    BY <1>1 DEF Start
  <2> QED BY <2>1 DEF Agreed, PassedAgree
<1>2. CASE Throw
  BY <1>2 DEF Throw, End, Agreed, PassedAgree
<1>3. CASE Atc
  <2>1. tool' = "ATC" /\ pc' \in {"idle"} \cup AtcStages
    BY <1>3 DEF Atc, AtcInit, Delays, Heat, AtcBurnThermal, AtcBurnExtra, AtcBurnAlgo, Placed, Goto, End,
                AtcStages, AtcBurns
  <2> QED BY <2>1 DEF Agreed, PassedAgree, AtcStages, AtcBurns
<1>4. CASE AccInit
  <2>1. /\ tool = "ACC" /\ session' = session /\ run' = run /\ folder = Defaults /\ outcome' = "none"
        /\ pc' = FirstStage /\ pc' \in {"rgb", "scanDir"} /\ (pc' = "rgb" => "onlyRgb" \in run)
    BY <1>4 DEF AccInit, FirstStage, Goto, Placed, Clean
  <2>2. ASSUME "init" \in run, failed' = {}
        PROVE  \A p \in AccParts : eeprom'[p] = 0
    <3>1. \A p \in Parts : p \in DOMAIN InitTables => eeprom'[p] = InitTables[p]
      BY <1>4, <2>2, InitTablesTyped, BlindBurnTyped DEF AccInit
    <3>2. \A p \in AccParts : p \in DOMAIN InitTables /\ InitTables[p] = 0
      BY <2>1, <1>a, InitTablesTyped DEF Defaults
    <3> QED BY <3>1, <3>2, <1>a
  <2> QED BY <2>1, <2>2 DEF Agreed, PassedAgree
<1>5. CASE Skip \/ ScanDir \/ MinRange \/ SetSpherical \/ Dfz \/ Roi \/ PreReset \/ ResetCamera
  <2>1. UNCHANGED <<session, tool, run, eeprom, failed, output>> /\ tool = "ACC" /\ pc \in AccStages
    BY <1>5, Switched DEF Skip, ScanDir, MinRange, SetSpherical, Dfz, Roi, PreReset, ResetCamera, Goto, End,
                          tables, files, Placed
  <2>2. pc' \in BeforeBurn \cup AfterBurn => pc \in BeforeBurn \cup AfterBurn /\ UNCHANGED folder
    BY <1>5, Switched DEF Skip, ScanDir, MinRange, SetSpherical, Dfz, Roi, PreReset, ResetCamera, Goto, End, files
  <2>3. pc' \in BeforeBurn => pc \in BeforeBurn
    BY <1>5, Switched DEF Skip, ScanDir, MinRange, SetSpherical, Dfz, Roi, PreReset, ResetCamera, Goto, End
  <2>4. CASE pc \in AfterBurn
    <3>1. CASE pc \in {"rtd", "longRange", "compare", "rgb"}
      <4>1. SwitchOf["rtd"] = "DFZ"
        BY DEF SwitchOf
      <4>2. pc' # "idle" => outcome' = "none"
        BY <1>5, Switched DEF Skip, ScanDir, MinRange, SetSpherical, Dfz, Roi, PreReset, ResetCamera, Goto, End, Placed
      <4>3. /\ pc = "rtd" => pc' = "rtdShot" \/ (pc' = "longRange" /\ "DFZ" \notin run)
            /\ pc = "longRange" => pc' \in {"longRangeShot", "presets"}
            /\ pc = "compare" => pc' \in {"compareShot", "score"}
            /\ pc = "rgb" => pc' \in {"rgbShot", "idle"}
        BY <1>5, <4>1, Switched
        DEF Skip, ScanDir, MinRange, SetSpherical, Dfz, Roi, PreReset, ResetCamera, Goto, End
      <4> QED BY <2>1, <2>2, <2>3, <3>1, <4>2, <4>3 DEF Agreed, PassedAgree
    <3>2. CASE pc \notin {"rtd", "longRange", "compare", "rgb"}
      BY <1>5, <2>4, <3>2, Switched
      DEF Skip, ScanDir, MinRange, SetSpherical, Dfz, Roi, PreReset, ResetCamera, SwitchOf
    <3> QED BY <3>1, <3>2
  <2>5. CASE pc \notin AfterBurn
    <3>1. pc' \notin AfterBurn /\ outcome' # "passed"
      BY <1>5, <2>5, Switched
      DEF Skip, ScanDir, MinRange, SetSpherical, Dfz, Roi, PreReset, ResetCamera, Goto, End, Placed
    <3> QED BY <2>1, <2>2, <2>3, <3>1 DEF Agreed, PassedAgree
  <2> QED BY <2>4, <2>5
<1>6. CASE EndCalib
  <2>1. /\ UNCHANGED <<session, tool, run, eeprom, failed>> /\ pc' = "preReset" /\ outcome' = "none"
        /\ tool = "ACC" /\ pc = "end"
        /\ folder'.presets = session /\ output'.acc = session
    BY <1>6 DEF EndCalib, Goto, tables, Placed
  <2> QED BY <2>1 DEF Agreed, PassedAgree
<1>7. CASE BurnCalib
  <2>1. /\ UNCHANGED <<session, tool, run, folder, output>> /\ pc' = "rtd" /\ outcome' = "none"
        /\ tool = "ACC" /\ pc = "burn" /\ output.acc = session
    BY <1>7 DEF BurnCalib, Goto, files, Placed, Agreed
  <2>2. CASE "burn" \in run
    <3>1. /\ failed \subseteq failed'
          /\ \A p \in Parts : p \notin DOMAIN CalibOutput => eeprom'[p] = eeprom[p]
          /\ failed' = {} => \A p \in Parts : p \in DOMAIN CalibOutput => eeprom'[p] = CalibOutput[p]
      BY <1>7, <2>2, CalibOutputTyped, BlindBurnTyped DEF BurnCalib
    <3>2. failed' = {} => eeprom'["acc"] = session /\ eeprom'["undist"] = session
      BY <2>1, <3>1, <1>a, CalibOutputTyped
    <3>3. failed' = {} /\ "init" \in run => \A p \in AccParts : eeprom'[p] \in {0, session}
      <4>1. failed' = {} /\ "init" \in run => \A p \in AccParts : eeprom[p] \in {0, session}
        BY <2>1, <3>1 DEF Agreed
      <4> QED BY <2>1, <3>1, <4>1, <1>a, CalibOutputTyped
    <3> QED BY <2>1, <3>2, <3>3 DEF Agreed, PassedAgree
  <2>3. CASE "burn" \notin run
    BY <1>7, <2>1, <2>3 DEF BurnCalib, Agreed, PassedAgree, tables
  <2> QED BY <2>2, <2>3
<1>8. CASE LongRange
  <2>1. /\ UNCHANGED <<session, tool, run, eeprom, failed>> /\ pc' = "presets" /\ outcome' = "none"
        /\ tool = "ACC" /\ pc = "longRangeShot" /\ folder'.presets = session
    BY <1>8 DEF LongRange, Goto, tables, Placed, Typed
  <2> QED BY <2>1 DEF Agreed, PassedAgree
\* The burn of one part, which is then of this session when it has not failed
<1>9. ASSUME NEW c, NEW q \in AccParts, BurnBlindly(c), DOMAIN c = {q}, c[q] \in 0 .. session,
             "onlyRgb" \notin run => c[q] = session
      PROVE  /\ failed \subseteq failed'
             /\ \A p \in Parts \ {q} : eeprom'[p] = eeprom[p]
             /\ failed' = {} /\ "onlyRgb" \notin run => eeprom'[q] = session
             /\ failed' = {} => eeprom'[q] = c[q]
  <2>1. \A p \in Parts : p \in DOMAIN c => c[p] \in 0 .. session
    BY <1>9
  <2> QED BY <1>9, <2>1, <1>a, BlindBurnTyped
<1>10. CASE Rtd
  <2>1. /\ UNCHANGED <<session, tool, run, folder, output>> /\ pc' = "longRange" /\ outcome' = "none"
        /\ tool = "ACC" /\ pc = "rtdShot" /\ BurnBlindly([rtd |-> session])
    BY <1>10 DEF Rtd, Goto, files, Placed
  <2>2. DOMAIN [rtd |-> session] = {"rtd"} /\ [rtd |-> session]["rtd"] = session
    OBVIOUS
  <2>3. /\ failed \subseteq failed' /\ \A p \in Parts \ {"rtd"} : eeprom'[p] = eeprom[p]
        /\ failed' = {} => eeprom'["rtd"] = session
    BY <2>1, <2>2, <1>9, <1>a, <1>b
  <2> QED BY <2>1, <2>3, <1>a DEF Agreed, PassedAgree
<1>11. CASE BurnPresets
  <2>1. /\ UNCHANGED <<session, tool, run, folder, output>> /\ pc' = "compare" /\ outcome' = "none"
        /\ tool = "ACC" /\ pc = "presets" /\ BurnBlindly([presets |-> folder.presets])
    BY <1>11 DEF BurnPresets, Goto, files, Placed
  <2>2. /\ DOMAIN [presets |-> folder.presets] = {"presets"}
        /\ [presets |-> folder.presets]["presets"] = folder.presets
    OBVIOUS
  <2>3. "onlyRgb" \notin run => folder.presets = session
    BY <2>1 DEF Agreed
  <2>4. /\ failed \subseteq failed' /\ \A p \in Parts \ {"presets"} : eeprom'[p] = eeprom[p]
        /\ failed' = {} => eeprom'["presets"] = folder.presets
    BY <2>1, <2>2, <2>3, <1>9, <1>a, <1>b
  <2>5. folder.presets \in {0, session}
    BY DEF Typed
  <2> QED BY <2>1, <2>3, <2>4, <2>5, <1>a DEF Agreed, PassedAgree
<1>12. CASE Compare
  <2>1. /\ UNCHANGED <<session, tool, run, output>> /\ pc' = "score" /\ outcome' = "none"
        /\ tool = "ACC" /\ pc = "compareShot" /\ BurnBlindly([presets |-> session])
        /\ folder'.presets = session
    BY <1>12 DEF Compare, Goto, Placed, Typed
  <2>2. DOMAIN [presets |-> session] = {"presets"} /\ [presets |-> session]["presets"] = session
    OBVIOUS
  <2>3. /\ failed \subseteq failed' /\ \A p \in Parts \ {"presets"} : eeprom'[p] = eeprom[p]
        /\ failed' = {} => eeprom'["presets"] = session
    BY <2>1, <2>2, <1>9, <1>a, <1>b
  <2> QED BY <2>1, <2>3, <1>a DEF Agreed, PassedAgree
<1>13. CASE Score
  <2>1. UNCHANGED <<session, tool, run, folder, output>> /\ tool = "ACC" /\ pc = "score"
    BY <1>13 DEF Score, Goto, End, files, Placed
  <2>2. CASE pc' = "rgb" /\ outcome' = "none" /\ UNCHANGED tables
    BY <2>1, <2>2 DEF Agreed, PassedAgree, tables
  <2>3. CASE pc' = "idle" /\ outcome' = "failed"
    BY <2>1, <2>3 DEF Agreed, PassedAgree
  <2>4. outcome = "none"
    BY <2>1 DEF Placed
  <2> QED BY <1>13, <2>2, <2>3, <2>4 DEF Score, Goto, End
<1>14. CASE Rgb
  <2>1. UNCHANGED <<session, tool, run, folder, output>> /\ tool = "ACC" /\ pc = "rgbShot" /\ pc' = "idle"
    BY <1>14 DEF Rgb, End, files, Placed
  <2>2. CASE BurnBlindly([rgb |-> session])
    <3>1. DOMAIN [rgb |-> session] = {"rgb"} /\ [rgb |-> session]["rgb"] = session
      OBVIOUS
    <3>2. /\ failed \subseteq failed' /\ \A p \in Parts \ {"rgb"} : eeprom'[p] = eeprom[p]
          /\ failed' = {} => eeprom'["rgb"] = session
      BY <2>2, <3>1, <1>9, <1>a, <1>b
    <3> QED BY <2>1, <3>2, <1>a DEF Agreed, PassedAgree
  <2>3. CASE UNCHANGED tables
    BY <2>1, <2>3 DEF Agreed, PassedAgree, tables
  <2> QED BY <1>14, <2>2, <2>3 DEF Rgb
<1>15. CASE UNCHANGED vars
  BY <1>15 DEF vars, Agreed, PassedAgree
<1> QED
  BY <1>1, <1>2, <1>3, <1>4, <1>5, <1>6, <1>7, <1>8, <1>10, <1>11, <1>12, <1>13, <1>14, <1>15
  DEF Next, Acc, Ended

LEMMA InitIInv == Init => IInv
<1> SUFFICES ASSUME Init PROVE IInv
  OBVIOUS
<1> USE DEF AtcStages, AtcBurns, AccStages, BeforeEnd, BeforeBurn, AfterBurn
<1>1. Typed
  <2>1. eeprom \in [Parts -> 0 .. session] /\ folder \in [acc : {0, session}, presets : {0, session}]
        /\ output \in [atc : 0 .. session, acc : 0 .. session]
    BY DEF Init, Defaults, NoOutput
  <2>2. session \in Sessions /\ lastAtc \in Sessions /\ run \in Runs \cup {{}}
    BY FlowAssumption DEF Init, Sessions
  <2>3. pc = "idle" /\ tool = "none" /\ spherical = FALSE /\ outcome = "none" /\ calibPassed = TRUE
        /\ failed = {}
    BY DEF Init
  <2> QED BY <2>1, <2>2, <2>3 DEF Typed
<1>2. Placed /\ Mode
  BY DEF Init, Placed, Mode
<1>3. AtcWhole /\ Clean /\ Agreed
  BY DEF Init, AtcWhole, AtcPassed, Clean, Agreed, PassedAgree
<1> QED BY <1>1, <1>2, <1>3 DEF IInv

LEMMA NextIInv == IInv /\ [Next]_vars => IInv'
  BY NextTyped, NextPlaced, NextAtcWhole, NextMode, NextClean, NextAgreed DEF IInv

THEOREM Inductive == Spec => []IInv
<1>1. Init => IInv
  BY InitIInv
<1>2. IInv /\ [Next]_vars => IInv'
  BY NextIInv
<1> QED BY <1>1, <1>2, PTL DEF Spec

-----------------------------------------------------------------------------
(* Theorems *)

\* Whatever sessions a unit goes through, its tables hold what sessions have computed,
\* and the files of a session nothing of another (TypeOK; Start, EndCalib, the burns).
THEOREM TypeCorrect == Spec => []TypeOK
<1>1. IInv => TypeOK
  BY TypedStages DEF IInv
<1> QED BY <1>1, Inductive, PTL

\* A thermal calibration that passed (runAlgoThermalCalibration.m lines 124-163) is whole
\* on the unit until the next one starts, for every number of camera sessions, every
\* stage that ends one and every set of burns that fail.
THEOREM ThermalWhole == Spec => []AtcPassed
<1>1. IInv => AtcPassed
  BY DEF IInv, AtcWhole
<1> QED BY <1>1, Inductive, PTL

\* No step of a camera session changes what the unit holds of the thermal calibration,
\* although the burns of lines 432, 614 and 237 write the table that both share.
THEOREM ThermalKept == Spec => AtcKept
<1>1. ASSUME IInv, [Next]_vars
      PROVE  [tool = "ACC" /\ pc # "idle" => \A p \in AtcParts : eeprom'[p] = eeprom[p]]_vars
  <2>1. CASE Acc
    BY <1>1, <2>1, AccKeepsAtc DEF IInv
  <2>2. CASE Atc
    BY <1>1, <2>2 DEF IInv, Placed, Atc, AtcInit, Delays, Heat, AtcBurnThermal, AtcBurnExtra, AtcBurnAlgo,
                      AtcStages, AtcBurns
  <2>3. CASE Throw
    BY <2>3 DEF Throw, tables
  <2>4. CASE Start \/ Ended
    BY <2>4 DEF Start, Ended
  <2> QED BY <1>1, <2>1, <2>2, <2>3, <2>4 DEF Next
<1> QED BY <1>1, Inductive, PTL DEF Spec, AtcKept

\* A camera session that returns early (lines 96, 109 and 119) has put nothing of its own on
\* the unit, and with init it leaves the defaults, whatever burnt before it.
THEOREM EarlyClean == Spec => []EarlyFailClean
<1>1. IInv => EarlyFailClean
  BY DEF IInv, Clean, Placed, EarlyFailClean
<1> QED BY <1>1, Inductive, PTL

\* After a camera session that passed and lost no burn, the presets, the registers and the
\* two tables made with them are all of that session (lines 152-240), and with init no
\* table of an earlier session is left.
THEOREM TablesAgree == Spec => []PassedAgree
<1>1. IInv => PassedAgree
  BY DEF IInv, Agreed
<1> QED BY <1>1, Inductive, PTL

\* The spherical mode that a stage has set (RegState) is never on in the captures of the
\* stages after it, although the validation before the reset may fail to reset it.
THEOREM ModeReset == Spec => []CapturesInMode
<1>1. IInv => CapturesInMode
  BY DEF IInv, Mode, CapturesInMode
<1> QED BY <1>1, Inductive, PTL
=============================================================================
