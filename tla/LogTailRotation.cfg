SPECIFICATION TailSpec
CONSTANTS
    Writers = {w1}
    MaxLines = 2
    MaxInodes = 2
    Rotations = {"rename"}
    MaxReadErrors = 0
PROPERTIES
    RotationDetected
