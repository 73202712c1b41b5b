SPECIFICATION AssetsSpec
CONSTANTS
  half1 = half1
  half2 = half2
  Cut = Cut
  Threads = {t1, t2}
  Halves = {half1, half2}
  Calls <- MCCalls
  Cartridges <- MCCartridges
  Loaders = {t1, t2}
  Types = {png, webp}
  NoThread = NoThread
INVARIANTS
  OnlyOverlapMisleads
  RacesHideNoFile
  
  NothingRemains
