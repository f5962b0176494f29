SPECIFICATION Spec
CONSTANTS
  PAGE_FRAME_MAX_COUNT = 3
  PAGE_ENTRY_COUNT = 4
  PAGE_FRAME_SIZE = 2
  KernelPage = 3
INVARIANTS
  ProcessorReadsFrame
