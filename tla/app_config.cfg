\* two app files, two changes of the directory, a shutdown at any time
CONSTANTS
  fa = fa
  fb = fb
  m1 = m1
  m2 = m2
  m3 = m3
  FileList <- TwoFiles
  MapNames = {m1, m2, m3}
  MapsOf <- TwoApps
  MaxEdits = 2
SPECIFICATION FairSpec
PROPERTIES
  NoRollback
  
\* the process ends
CHECK_DEADLOCK FALSE
