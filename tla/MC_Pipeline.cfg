SPECIFICATION Spec
INVARIANTS NoEarlyAck LogTellsTruth DeadlineHeld RefusedOnlyWarned QueuesEmptyAtStop NothingLeftRunning
PROPERTIES SettlesAsPromised ManualBounded ShutdownEnds
CHECK_DEADLOCK FALSE
