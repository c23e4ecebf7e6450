SPECIFICATION Spec
CONSTANTS
  Job = {1}
  NeedsGpu = {}
  Me = 2
  Other = {1, 3}
  Cpus = 1
  Gpus = 0
  MaxChanges = 2
  MaxStarts = 1
  Words <- RunWords
PROPERTY UploadKeepsSlot
