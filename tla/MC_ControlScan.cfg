CONSTANT Codes <- ScannedCodes
SPECIFICATION Spec
INVARIANTS ScanInv LandsAsStructured
PROPERTY ScanEnds
CHECK_DEADLOCK FALSE
