\* Two retries, so that there is a first, a last and a refused one.  The access
\* point may answer, refuse or vanish at will.
CONSTANT MaxRetry = 2
SPECIFICATION Spec
INVARIANTS TypeOK VerdictTrue GroupLive
PROPERTIES GivesUpLate Returns
CHECK_DEADLOCK FALSE
