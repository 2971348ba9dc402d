\* Complete: one pin, one ULP, one main CPU.
SPECIFICATION Spec
INVARIANT TypeOK
PROPERTIES FollowsSlowInput ChangeWakes KeepsPolling
