\* Files of up to two adapters.
SPECIFICATION Spec
CONSTANTS
  eth = eth
  Lo = Lo
  Any = Any
  Nic <- OneNic
  Port <- Ports
  WordSize = 8
  PortSize = 4
  Refused <- InUse
  MaxArgs = 2
  MaxEntries = 2
INVARIANTS CollisionsFound
