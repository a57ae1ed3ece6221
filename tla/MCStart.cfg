\* Files of up to three adapters, with at most two arguments.
SPECIFICATION Spec
CONSTANTS
  eth = eth
  Lo = Lo
  Any = Any
  Nic <- OneNic
  Port <- Ports
  WordSize = 8
  PortSize = 4
  Refused <- InUse
  MaxArgs = 2
  MaxEntries = 3
INVARIANTS TypeOK NoSharedBinding RunsAsTold SoundFileRuns PortAsConfigured
