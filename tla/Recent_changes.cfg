SPECIFICATION Spec
INVARIANT RecentChangesAreTold
CHECK_DEADLOCK FALSE
