-------------------------------- MODULE Image --------------------------------
(***************************************************************************)
(* How the system gets from its binaries to memory: the ModulePacker joins  *)
(* the kernel and the modules, bmfs puts the boot loader and the packed     *)
(* kernel on a disk, on which files come and go, the boot loader reads the  *)
(* packed kernel, and the kernel takes its modules out of it.               *)
(***************************************************************************)
EXTENDS BMFS

CONSTANTS KernelBinary,  \* the kernel, in cells
          BootLoader,    \* Pure64, in cells
          Modules,       \* the lists of modules that can be packed
          LoaderCells,   \* the sectors that the boot loader reads, itself included, in cells
          BSS,           \* the cells behind endOfKernelBinary that the kernel clears
          ModuleAddress  \* sampleCodeModuleAddress, sampleDataModuleAddress

\* The binaries are sequences of cells, one or two of them modules, and none of
\* them is among the files that are read from the disk.
ASSUME ImageAssumption ==
    /\ LoaderCells \in Nat /\ BSS \in Nat /\ ModuleAddress \in [1..2 -> Nat]
    /\ KernelBinary \in Seq(Range(KernelBinary)) /\ BootLoader \in Seq(Range(BootLoader))
    /\ \A modules \in Modules :
          /\ modules \in Seq(Range(modules)) /\ Len(modules) \in 1..2
          /\ \A i \in DOMAIN modules : modules[i] \in Seq(Range(modules[i]))
    /\ Files \cap Range(System) = {}

uint32(n) == <<"uint32", n>>
Number(cell) == cell[2]

\* buildImage: the kernel, the number of modules, and each with its size.
buildImage(modules) ==
    KernelBinary \o <<uint32(Len(modules))>>
        \o FlattenSeq([i \in 1..Len(modules) |-> <<uint32(Len(modules[i]))>> \o modules[i]])

\* mp.bin.
pack(modules) ==
    /\ job = Idle
    /\ local' = [local EXCEPT !["kernel"] = buildImage(modules)]
    /\ UNCHANGED <<diskSize, tagged, dir, cells, job, stored, torn, careless, built>>

-----------------------------------------------------------------------------

\* The master boot record reads 512 sectors, however long the packed kernel is, and
\* Pure64 moves what lies behind itself in them to address 0, where the kernel
\* begins.  (Behind them it moves the video memory, which is left out.)
LoadKernel ==
    LET sectors == Min({LoaderCells, diskSize - SysStart})
    IN  [a \in 0..(sectors - Len(BootLoader) - 1) |-> cells[SysStart + Len(BootLoader) + a]]

endOfKernelBinary == Len(KernelBinary)

\* loadModule: `at` is where the size of the module is.
loadModule(m, at, address) ==
    [a \in DOMAIN m \cup {address + i : i \in 0..(Number(m[at]) - 1)} |->
        IF a >= address /\ a < address + Number(m[at]) THEN m[at + 1 + a - address] ELSE m[a]]

\* loadModules.
loadModules(m) ==
    LET next(at) == at + 1 + Number(m[at])
        first == endOfKernelBinary + 1
    IN  CASE Number(m[endOfKernelBinary]) = 0 -> m
          [] Number(m[endOfKernelBinary]) = 1 -> loadModule(m, first, ModuleAddress[1])
          [] OTHER -> loadModule(loadModule(m, first, ModuleAddress[1]), next(first), ModuleAddress[2])

\* clearBSS: the packed modules lie where the BSS is.
clearBSS(m) ==
    [a \in DOMAIN m \cup {endOfKernelBinary + i : i \in 0..(BSS - 1)} |->
        IF a >= endOfKernelBinary /\ a < endOfKernelBinary + BSS THEN Zero ELSE m[a]]

\* Mutant: the BSS is cleared first.
clearedFirst(m) == loadModules(clearBSS(m))

initializeKernelBinary(m) == clearBSS(loadModules(m))

Init ==
    /\ bmfsInit
    /\ \E contents \in LocalContents :
          local = [f \in Files \cup Range(System) |->
                     CASE f \in Files -> contents[f]
                       [] f = "mbr"   -> <<Zero>>
                       [] f = "boot"  -> BootLoader
                       [] OTHER       -> None]

Next ==
    \/ bmfsNext
    \/ \E modules \in Modules : pack(modules)

Spec == Init /\ [][Next]_bmfsVars

-----------------------------------------------------------------------------
(* Properties.                                                              *)

TypeOK == bmfsTypeOK /\ DOMAIN local = Files \cup Range(System)

LiveSlots == {s \in Listed(dir) : IsFile(dir[s])}

BlocksOf(s) ==
    dir[s].StartingBlock..(dir[s].StartingBlock + dir[s].ReservedBlocks - 1)

\* The directory is well formed, files lie behind the system and in front of the
\* last block, and no block belongs to two of them, whatever was created and
\* deleted before (as long as the directory had an end and the disk had room
\* whenever create found some).
FilesDisjoint ==
    /\ TypeOK
    /\ ~careless =>
        /\ \A s \in LiveSlots : BlocksOf(s) \subseteq 1..(num_blocks - 2)
        /\ \A s, t \in LiveSlots : s # t => BlocksOf(s) \cap BlocksOf(t) = {}

\* A file holds what was written to it last, to the cell, until it is deleted:
\* no other command and no run that was killed changes it, but its own writing.
FilesKept ==
    ~careless => \A f \in Files :
        /\ findfile(dir, f) = {} <=> stored[f] = None
        /\ stored[f] # None /\ f \notin torn => Content(dir, SlotOf(dir, f)) = stored[f]

\* create finds the room there is: when it refuses, the directory is full or no
\* gap between the files is large enough.
RoomIsFound ==
    \A maxsize \in MiBs :
        LET blocks == (maxsize + 1) \div 2
        IN  ~careless /\ tagged /\ job = Idle /\ HasRoom(dir, blocks) =>
                \A order \in Sorted(dir) :
                    new_file_start(dir, order, blocks) # 0

\* The number that a string of digits and a letter stands for.
Value(string) ==
    FoldLeft(LAMBDA n, d : 10 * n + d, 0, string.digits) *
        (IF string.rest = <<>> THEN 1 ELSE Kilo ^ UnitPower[string.rest[1]])

\* A disk that was made has the size that was asked for, if that is a number of
\* the machine and the system is not larger;
SizeAsked ==
    built # None /\ Value(built.string) < 2^Width /\ ~careless =>
        diskSize = Max({Value(built.string), SysStart + Len(built.system)})

\* The system that was put on the disk is there.
SystemThere ==
    /\ SysStart + Len(built.system) <= diskSize
    /\ \A i \in DOMAIN built.system : cells[SysStart + i - 1] = built.system[i]

\* and the system stays on it whatever happens to the files, if it fits into the
\* block in front of them and every file could be read (bmfs.c does not notice
\* when one could not).
SystemStays ==
    built # None /\ built.read /\ SysStart + Len(built.system) <= BlockCells => SystemThere

SystemKept == SizeAsked /\ SystemStays

\* The linker script and the addresses of kernel.c: a packed kernel and its BSS
\* lie in front of the first module, and the first module in front of the second.
LayoutFits ==
    \A modules \in Modules :
        /\ Len(buildImage(modules)) <= ModuleAddress[1]
        /\ Len(KernelBinary) + BSS <= ModuleAddress[1]
        /\ Len(modules) = 2 => ModuleAddress[1] + Len(modules[1]) <= ModuleAddress[2]

\* What was put on the disk is as long as the boot loader reads: 256 KiB with the
\* boot loader, which nothing in the tools or the loader looks at.
LoaderReads == Len(built.system) <= LoaderCells

\* A machine that is started from a disk that still holds the system finds the
\* modules where they were packed for, if the loader reads them all: at their
\* addresses, whole and in order; and the BSS, which lies over the packed modules,
\* is clear.
ModulesLoaded ==
    built # None /\ Len(built.system) > Len(BootLoader) /\ LoaderReads /\ SystemThere =>
        LET memory == initializeKernelBinary(LoadKernel)
        IN  /\ \E modules \in Modules :
                  /\ built.system = BootLoader \o buildImage(modules)
                  /\ \A i \in DOMAIN modules : \A j \in DOMAIN modules[i] :
                        LET a == ModuleAddress[i] + j - 1
                        IN  a \in DOMAIN memory /\ memory[a] = modules[i][j]
            /\ \A a \in endOfKernelBinary..(endOfKernelBinary + BSS - 1) : memory[a] = Zero

=============================================================================
