\* Two processes, one file, two faults (a request and its release can both fail):
\* 360 000 states or so.
SPECIFICATION FairSpec
CONSTANTS
  Processes = {p, q}
  Files = {a}
  Interval = 1
  Lease = 2
  MaxCall = 1
  MaxFaults = 2
  None = None
INVARIANT TypeOK
PROPERTY SingleFlightWhenKnown FilesImported
