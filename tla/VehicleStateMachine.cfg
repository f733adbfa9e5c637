SPECIFICATION Spec
INVARIANT TypeOK
INVARIANT ControlFollowsSystem
INVARIANT DegradedHasACause
INVARIANT BadReportsAreTracked
PROPERTY RecoversOnlyWhenAllClear
PROPERTY AwarenessNeverStops
PROPERTY ControlGrantedFromAuthenticated
