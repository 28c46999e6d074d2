SPECIFICATION Spec
CONSTANT RawCap = 4
INVARIANTS DeliversWhatWasSent TablesAgree NothingLeftBehind IndexValid
CHECK_DEADLOCK FALSE
