-------------------------- MODULE MCCalibrationFlow --------------------------
EXTENDS CalibrationFlow

\* A full session, one that keeps the unit's tables, one without DFZ, one that only
\* calibrates the colour camera, and one that burns nothing
McRuns ==
    { {"init", "burn", "DFZ", "rgb", "validate", "maxRange", "compare"},
      {"burn", "DFZ", "validate"},
      {"init", "burn", "validate", "compare"},
      {"rgb", "onlyRgb"},
      {"init", "DFZ", "rgb"} }

\* One table at a time cannot be written
McLosses == {{}} \cup {{t} : t \in Tables}
=============================================================================
