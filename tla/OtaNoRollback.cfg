\* Two good firmwares, one faulty and one corrupt, each two chunks long so that an
\* upload can stop half way, and room for two OTA handles so that a leak of
\* handles can use them up.
CONSTANTS
  Good = {v1, v2}
  Faulty = {faulty}
  Corrupt = {corrupt}
  Chunks = 2
  Rollback = FALSE
  HandlePool = 2
SPECIFICATION Spec
PROPERTY Recovers
