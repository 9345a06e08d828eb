SPECIFICATION Spec
CONSTANTS
  NoConfig = NoConfig
  NoEngine = NoEngine
  DimUnit = 64
  Specs <- MCSpecs
  Configs <- MCConfigs
  Hardware <- MCHardware
INVARIANTS KVCacheFits ContextWithinModel HeadsAreSplitEvenly EstimatesAgree
