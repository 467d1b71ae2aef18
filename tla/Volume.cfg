SPECIFICATION Spec
CONSTANTS
  Counts <- MCCounts
  Step = 4
  usb = usb ssd = ssd idA = idA
  i1 = i1 i2 = i2 m1 = m1 NoId = NoId Unnamed = Unnamed
  Vols <- MCVols
  Ids <- MCIds
  Removable <- MCVolatile
  Volatile <- MCVolatile
  Imprints <- MCImprints
  VolumeOf <- MCOneEach
  Mounts <- MCMounts
INVARIANTS RegistriesAgree BusyExact DiscoveryHonest
PROPERTIES ImprintEffective
