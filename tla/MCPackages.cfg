\* The package side: one of its five parts per behaviour.
SPECIFICATION PackagesSpec
CHECK_DEADLOCK FALSE
CONSTANTS
  Repos <- MCRepos
  Local <- MCLocal
  NameOrder <- MCNames
  Worlds <- MCWorlds
  Commands <- MCCommands
  Nothing = Nothing
  Garbage = Garbage
  CutIndex = CutIndex
  MaxCommands = 2
  MaxDepth = 5
  RegularFile = RegularFile
  NoPath = NoPath
  Triplet = "triplet"
  PathNames <- LibFiles
  Targets <- MCTargets
  Trees <- MCTrees
  Units <- MCUnits
  Wants = {"boot.wants", "boot.requires", "sockets.wants"}
  Aliases = {"dbus", "nm"}
  NoUnit = NoUnit
  Installs <- MCInstalls
  MaxServices = 3
  Archives <- MCArchives
  Builds <- MCBuilds
  SETS <- MCSETS
  Sorted <- MCSorted
  Workers = {t1, t2}
  Attempts = 2
  Paths <- MCPaths
  AltPaths = {"alt/db"}
  Variants <- MCVariants
  ALTERNATIVES <- MCALTERNATIVES
  AbsLinks <- MCAbsLinks
  BuilderFiles = {"alt/db", "vim"}
  File = File
  Absent = Absent
  Cut = Cut
  NoFile = NoFile
  MaxRuns = 2
  MaxSkipped = 1
  Disks <- MCDisks
  Target = "sda"
  NoDisk = NoDisk
  InstallBuild <- MCInstallBuild
  KernelPath = "vmlinuz"
  Versions = 2
  Packages <- MCKernelPackages
  First <- MCFirst
  Bad <- MCBad
  RT = {2}
  Unpinned = 0
  NoKernel = NoKernel
  Torn = Torn
  MaxKernelCommands = 3
  MaxPowerCuts = 1
INVARIANTS
  PackagesTypeOK ClosedPrefix BytesAsIndexed RelayoutResolves EnabledAsAsked
  ResolvedIsClosure BuildsSound DoneBootable
PROPERTIES
  KernelEntriesKept ReplacedOnlyIfAsked NoFalseFailure EverythingEnds
