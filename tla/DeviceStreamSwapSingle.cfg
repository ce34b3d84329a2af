SPECIFICATION Spec
CONSTANTS
  dashboard = dashboard
  devices = devices
  s1 = s1
  s2 = s2
  s3 = s3
  s4 = s4
  Null = Null
  Consumers <- MCConsumers
  Streams <- MCStreams
  MaxRetries = 4
  MaxSwaps = 1
INVARIANT
  SingleStream
