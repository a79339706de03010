SPECIFICATION Spec
CONSTANTS
  Ids <- MCIds
  Stock = "Stock"
  Bad = "Bad"
  None = "None"
  KernelSize <- MCKernelSize
  RamdiskSize <- MCRamdiskSize
  DtboSize <- MCDtboSize
  PlainDtb <- MCPlainDtb
  WrapSize = 1
  TagSize = 1
  PatchSize = 2
  RkHeader = 2
  RkCrc = 1
  Packages <- JustA
  Devices <- JustPlain
  MediaFaults = TRUE
  ToolFaults = FALSE
  MaxAttempts = 1
INVARIANT DoneMeansWritten
