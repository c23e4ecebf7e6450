SPECIFICATION Spec
CONSTANTS
  Job = {1}
  NeedsGpu = {1}
  Me = 2
  Other = {1, 3}
  Cpus = 1
  Gpus = 1
  MaxChanges = 3
  MaxStarts = 2
  Words <- RunWords
INVARIANT TypeOK
PROPERTIES NeverReplaced NoDeadSlot SlotsComeBack
