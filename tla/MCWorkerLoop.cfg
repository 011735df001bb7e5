\* Two replicas over two slots, requests without end, crashes, overlapping retries and
\* reaps, lost notifications.
CONSTANTS
  Workers = {w1, w2}
  Listeners = {w1}
  Slots = {s1, s2}
  Rows = {r1, r2}
  MAX_ATTEMPTS = 2
  MaxRetries = 2
  MaxIncidents = 2
SPECIFICATION FairSpec
INVARIANTS
  TypeOK
PROPERTIES
  RequestsClaimed
  
