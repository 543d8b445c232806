SPECIFICATION MCSpec
CONSTANTS
  FloodHere = FloodHere
  SlideHere = SlideHere
  FloodThere = FloodThere
  PotholeHere = PotholeHere
  Here = Here
  There = There
  NoSite = NoSite
  Sites = {FloodHere, SlideHere, FloodThere, PotholeHere}
  Layer <- MCLayer
  Rainy = {FloodHere, SlideHere, FloodThere}
  Pin <- MCPin
  MaxRuns = 3
  MaxFailures = 1
INVARIANT TypeOK
PROPERTIES
  HazardImplementsContext
  LookupEnds
  SettledTicketIsChecked
  RainfallImplementsContext
  LastValueKept
  SettledTicketHasRainfall
  RainfallRecovers
