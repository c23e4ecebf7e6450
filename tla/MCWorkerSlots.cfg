SPECIFICATION Spec
CONSTANTS
  Job = {1, 2, 3}
  NeedsGpu = {1, 2}
  Me = 2
  Other = {1, 3}
  Cpus = 2
  Gpus = 1
  MaxChanges = 2
  MaxStarts = 3
  Words <- SlotWords
CONSTRAINT NoDocker
INVARIANT GpusNotShared
PROPERTY ClaimsWithinCpus
