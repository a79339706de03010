SPECIFICATION Spec
INVARIANTS TextsDecrypt DataArrives
CHECK_DEADLOCK FALSE
