SPECIFICATION MCSpec
CONSTANTS
    Files = {"f", "g", "h"}
    BlockCells = 6
    MaxEntries = 3
    MinimumSize = 18
    BufferCells = 5
    BUFSIZ = 4
    Parts = {3}
    Width = 6
    Kilo = 2
    SizeStrings <- MCSizes
    MiBs = {1, 4}
    LocalContents <- MCContents
    KernelBinary <- MCKernel
    BootLoader <- MCBoot
    Modules <- MCModules
    LoaderCells = 8
    BSS = 6
    None = NONE
    ModuleAddress <- MCAddress
INVARIANTS
    FilesDisjoint
    FilesKept
    RoomIsFound
    SystemKept
    ModulesLoaded
CONSTRAINT Bounded
