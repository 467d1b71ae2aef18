SPECIFICATION KnownSpec
CONSTANTS
  never = never laptop = laptop server = server ann = ann bob = bob
  disk = disk stick = stick
  Keys <- MCKeys
  Volumes <- MCVolumes
  MaxEvents = 3
PROPERTIES KnownCompared
