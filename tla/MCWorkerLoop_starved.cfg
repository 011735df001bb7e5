\* One worker that crashes once while requests keep coming for other slots.
CONSTANTS
  Workers = {w1}
  Listeners = {w1}
  Slots = {s1, s2, s3}
  Rows = {r1, r2, r3}
  MAX_ATTEMPTS = 2
  MaxRetries = 0
  MaxIncidents = 1
SPECIFICATION FairSpec
PROPERTIES
  OrphansRecovered
