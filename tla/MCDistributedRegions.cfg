SPECIFICATION Spec
CONSTANTS
  Hosts = 3
  Size <- MCSize
  Layouts <- MCLayouts
  Programs <- MCPrograms
  MaxTasks = 3
INVARIANTS SeesWhatItDependsOn NothingLost
PROPERTIES AllComplete
