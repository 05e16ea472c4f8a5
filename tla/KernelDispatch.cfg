SPECIFICATION DispatchSpec
INVARIANT DotBackendIsUsed
CHECK_DEADLOCK FALSE
