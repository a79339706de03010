SPECIFICATION Spec
CONSTANTS
  Ids <- MCIds
  Stock = "Stock"
  Bad = "Bad"
  None = "None"
  KernelSize <- MCKernelSize
  RamdiskSize <- MCRamdiskSize
  DtboSize <- MCDtboSize
  PlainDtb <- MCPlainDtb
  WrapSize = 1
  TagSize = 1
  PatchSize = 2
  RkHeader = 2
  RkCrc = 1
  Packages <- AllZips
  Devices <- AllPhones
  MediaFaults = TRUE
  ToolFaults = TRUE
  MaxAttempts = 2
INVARIANTS TypeOK FitsPartition ImageSurvives DoneMeansInstalled AbortKeepsBoot DoneMeansDtbo MountsReleased
PROPERTIES SuitedPackageInstalls Flashes
