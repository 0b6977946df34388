SPECIFICATION FairSpec
INVARIANT FinalArchiveIsIntact
PROPERTY CompletedIsLast
PROPERTY SendLogsEnds
CHECK_DEADLOCK FALSE
