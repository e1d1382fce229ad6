-------------------------------- MODULE BMFS --------------------------------
(***************************************************************************)
(* bmfs.c, the utility that makes the disk image of the system and keeps    *)
(* files on it.  A disk is a file of the host, a sequence of cells: the     *)
(* first holds the master boot record, the tag and the directory, the next  *)
(* ones the boot loader and the kernel, and from block 1 on come the files. *)
(*                                                                          *)
(* Every command is a run of the utility: it reads the directory, works,    *)
(* and writes it back.  A run can be killed between any two of its writes.  *)
(***************************************************************************)
EXTENDS Integers, FiniteSets, SequencesExt

CONSTANTS Files,        \* names of files on the disk
          BlockCells,   \* 2 MiB, in cells
          MaxEntries,   \* 64: entries of the directory
          MinimumSize,  \* minimumDiskSize, in cells
          BufferCells,  \* bufferSize, in cells
          BUFSIZ,       \* what stdio collects before it writes, in cells
          Width,        \* bits of an unsigned long long
          Kilo,         \* 1024
          SizeStrings,  \* the disk sizes that are asked for
          Parts,        \* how many files of the system are given to initialize
          MiBs,         \* the file sizes that are asked for
          LocalContents, \* what the files of the host can hold
          None          \* no content

ASSUME DiskAssumption == /\ BlockCells \in Nat \ {0, 1} /\ MaxEntries \in Nat \ {0}
                         /\ BufferCells \in Nat \ {0} /\ BUFSIZ \in Nat \ {0} /\ Width \in Nat
                         /\ Parts \subseteq 0..3 /\ Kilo \in Nat /\ MinimumSize \in Nat \ {0}
                         /\ MiBs \subseteq Nat \ {0}

\* What the files of the host hold is a sequence of cells, and they may be missing.
ASSUME ContentsAssumption ==
    \A contents \in LocalContents :
        /\ DOMAIN contents = Files
        /\ \A f \in Files : contents[f] = None \/ contents[f] \in Seq(Range(contents[f]))

VARIABLES diskSize,  \* the length of the disk
          tagged,    \* DiskInfo holds the tag
          dir,       \* the Directory
          cells,     \* what the disk holds, and nothing behind its end
          local,     \* the files of the host
          job,       \* what the utility is at
          stored,    \* what was last written to each file
          torn,      \* files whose last writing did not end
          careless,  \* create took room that was not free
          built      \* what the last initialize that succeeded was asked for

bmfsVars == <<diskSize, tagged, dir, cells, local, job, stored, torn, careless, built>>

SysStart == 1                    \* byte 8192
Zero == <<"zero", 0>>            \* a cell that was filled
End == "end"                     \* FileName[0] = 0
Deleted == "deleted"             \* FileName[0] = 1
System == <<"mbr", "boot", "kernel">>

\* A name does not begin with 0 or 1; a file that is empty is not a missing one.
ASSUME NamesAssumption == End \notin Files /\ Deleted \notin Files /\ None # <<>>

Slots == 0..(MaxEntries - 1)
Entries == [FileName : Files \cup {End, Deleted}, StartingBlock : Nat,
            ReservedBlocks : Nat, FileSize : Nat]
EmptyDirectory ==
    [s \in Slots |-> [FileName |-> End, StartingBlock |-> 0, ReservedBlocks |-> 0, FileSize |-> 0]]

Idle == [op |-> "none"]

\* What is written at `at`: the disk grows at its end.
WriteCells(at, content) ==
    LET end == Max({diskSize, at + Len(content)})
    IN  /\ cells' = [c \in 0..(end - 1) |->
                       IF c >= at /\ c < at + Len(content) THEN content[c - at + 1]
                       ELSE IF c < diskSize THEN cells[c] ELSE Zero]
        /\ diskSize' = end

\* The first `n` cells of a file, and what is left.
FirstCells(file, n) == SubSeq(file, 1, Min({n, Len(file)}))
OtherCells(file, n) == SubSeq(file, n + 1, Len(file))

-----------------------------------------------------------------------------
(* The directory.                                                           *)

IsFile(entry) == entry.FileName \in Files

\* The slots in front of the end of the directory.
Listed(d) == {s \in Slots : \A t \in 0..s : d[t].FileName # End}

\* findfile: the slots that hold `name`.
findfile(d, name) == {s \in Listed(d) : d[s].FileName = name}

SlotOf(d, name) == Min(findfile(d, name))

num_blocks == diskSize \div BlockCells

\* num_used_entries: 0 as well when the directory has no end.
num_used_entries(d) == IF Listed(d) = Slots THEN 0 ELSE Cardinality(Listed(d))

\* The slot that create takes: one of a deleted file, or the end; -1 if none.
first_free_entry(d) ==
    LET free == {s \in Listed(d) : d[s].FileName = Deleted} \cup
                (IF Listed(d) = Slots THEN {} ELSE {Cardinality(Listed(d))})
    IN  IF free = {} THEN -1 ELSE Min(free)

\* Mutant: the deleted entries come first.
StartingBlockCmpFirst(a, b) ==
    ~IsFile(a) \/ (IsFile(b) /\ a.StartingBlock <= b.StartingBlock)

\* StartingBlockCmp: `a` may stand before `b`.
StartingBlockCmp(a, b) ==
    ~IsFile(b) \/ (IsFile(a) /\ a.StartingBlock <= b.StartingBlock)

\* The orders that qsort can give the entries.
Sorted(d) ==
    {order \in SetToSeqs(0..(num_used_entries(d) - 1)) :
        \A i, j \in DOMAIN order : i < j => StartingBlockCmp(d[order[i]], d[order[j]])}

\* Where the room in front of the i-th file ends, and where it begins.
this_file_start(d, order, i) ==
    IF i > Len(order) \/ ~IsFile(d[order[i]]) THEN num_blocks - 1 ELSE d[order[i]].StartingBlock

prev_file_end(d, order, i) ==
    IF i = 1 THEN 1 ELSE d[order[i - 1]].StartingBlock + d[order[i - 1]].ReservedBlocks

\* Mutant: a block is left in front of the next file.
FitsMore(d, order, i, blocks) ==
    LET room == this_file_start(d, order, i) - prev_file_end(d, order, i)
    IN  room < 0 \/ room > blocks

\* The difference has no sign: what begins behind its end has room for anything.
Fits(d, order, i, blocks) ==
    LET room == this_file_start(d, order, i) - prev_file_end(d, order, i)
    IN  room < 0 \/ room >= blocks

\* Where the new file begins; 0 if it fits nowhere.
new_file_start(d, order, blocks) ==
    LET fits == {i \in 1..(Len(order) + 1) : Fits(d, order, i, blocks)}
    IN  IF fits = {} THEN 0 ELSE prev_file_end(d, order, Min(fits))

\* The record behind the one that was the end is the end now.
EndMoved(d, slot) ==
    IF slot = num_used_entries(dir) /\ slot + 1 < MaxEntries
    THEN [d EXCEPT ![slot + 1].FileName = End] ELSE d

-----------------------------------------------------------------------------
(* The runs that one write ends.                                            *)

\* The disk can be opened and is a BMFS disk.
Opened == job = Idle /\ diskSize > 0 /\ tagged

\* Blocks that belong to no file and lie in front of the last block.
FreeAt(d, block, blocks) ==
    /\ block >= 1 /\ block + blocks <= num_blocks - 1
    /\ \A s \in Listed(d) : IsFile(d[s]) =>
          \/ block + blocks <= d[s].StartingBlock
          \/ block >= d[s].StartingBlock + d[s].ReservedBlocks

\* The directory has an end, and the disk has room.
HasRoom(d, blocks) ==
    Listed(d) # Slots /\ \E block \in 1..num_blocks : FreeAt(d, block, blocks)

\* create.  With a directory that is full of files and deleted files, and when
\* only a deleted file would leave room, it takes blocks that are in use.
create(name, maxsize) ==
    LET blocks == (maxsize + 1) \div 2
        slot == first_free_entry(dir)
    IN  /\ Opened
        /\ findfile(dir, name) = {} /\ slot # -1
        /\ \E order \in Sorted(dir) :
             LET start == new_file_start(dir, order, blocks)
             IN  /\ start # 0
                 /\ dir' = EndMoved([dir EXCEPT ![slot] =
                              [FileName |-> name, StartingBlock |-> start,
                               ReservedBlocks |-> blocks, FileSize |-> 0]], slot)
                 /\ careless' = (careless \/ ~HasRoom(dir, blocks))
        /\ stored' = [stored EXCEPT ![name] = <<>>]
        /\ torn' = torn \ {name}
        /\ UNCHANGED <<diskSize, tagged, cells, local, job, built>>

delete(name) ==
    /\ Opened
    /\ findfile(dir, name) # {}
    /\ dir' = [dir EXCEPT ![SlotOf(dir, name)].FileName = Deleted]
    /\ stored' = [stored EXCEPT ![name] = None]
    /\ torn' = torn \ {name}
    /\ UNCHANGED <<diskSize, tagged, cells, local, job, careless, built>>

\* The cells of a file.
Content(d, s) ==
    [i \in 1..d[s].FileSize |-> cells[d[s].StartingBlock * BlockCells + i - 1]]

\* The file of the host is overwritten.
read(name) ==
    /\ Opened
    /\ findfile(dir, name) # {}
    /\ local' = [local EXCEPT ![name] = Content(dir, SlotOf(dir, name))]
    /\ UNCHANGED <<diskSize, tagged, dir, cells, job, stored, torn, careless, built>>

-----------------------------------------------------------------------------
(* write: the data, buffer by buffer, and then the directory.               *)

Reserved(name) == dir[SlotOf(dir, name)].ReservedBlocks * BlockCells

\* Mutant: whatever the size of the file.
writeAnySize(name) ==
    /\ Opened
    /\ findfile(dir, name) # {}
    /\ local[name] # None
    /\ job' = [op |-> "write", name |-> name, left |-> local[name],
               at |-> dir[SlotOf(dir, name)].StartingBlock * BlockCells]
    /\ torn' = torn \cup {name}
    /\ UNCHANGED <<diskSize, tagged, dir, cells, local, stored, careless, built>>

write(name) ==
    /\ Opened
    /\ findfile(dir, name) # {}
    /\ local[name] # None
    /\ Reserved(name) >= Len(local[name])
    /\ job' = [op |-> "write", name |-> name, left |-> local[name],
               at |-> dir[SlotOf(dir, name)].StartingBlock * BlockCells]
    /\ torn' = torn \cup {name}
    /\ UNCHANGED <<diskSize, tagged, dir, cells, local, stored, careless, built>>

WriteData ==
    /\ job.op = "write" /\ job.left # <<>>
    /\ WriteCells(job.at, FirstCells(job.left, BUFSIZ))
    /\ job' = [job EXCEPT !.left = OtherCells(@, BUFSIZ), !.at = @ + BUFSIZ]
    /\ UNCHANGED <<tagged, dir, local, stored, torn, careless, built>>

WriteEntry ==
    /\ job.op = "write" /\ job.left = <<>>
    /\ dir' = [dir EXCEPT ![SlotOf(dir, job.name)].FileSize = Len(local[job.name])]
    /\ stored' = [stored EXCEPT ![job.name] = local[job.name]]
    /\ torn' = torn \ {job.name}
    /\ job' = Idle
    /\ UNCHANGED <<diskSize, tagged, cells, local, careless, built>>

-----------------------------------------------------------------------------
(* initialize, and format.                                                  *)

\* The size with one digit more; -1 is an error.
AddDigit(size, n) ==
    LET ten == (size * 10) % 2^Width
    IN  CASE size = -1             -> -1
          [] size = 0              -> n
          [] size > 0 /\ ten > size  -> (ten + n) % 2^Width
          [] size > 0 /\ ten <= size -> -1

AddUnit(size) ==
    LET more == (size * Kilo) % 2^Width
    IN  IF more > size THEN more ELSE -1

\* The powers of Kilo that the letters stand for.
UnitPower == [K |-> 1, M |-> 2, G |-> 3, T |-> 4, P |-> 5]

\* The size that a string of digits, and what follows them, stands for.
parseSize(string) ==
    LET size == FoldLeft(AddDigit, 0, string.digits)
    IN  CASE string.rest = <<>> -> size
          [] string.digits # <<>> /\ Len(string.rest) = 1 /\ string.rest[1] \in DOMAIN UnitPower ->
               IF size <= 0 THEN size
               ELSE FoldLeft(LAMBDA z, i : IF z = -1 THEN -1 ELSE AddUnit(z), size,
                             [i \in 1..UnitPower[string.rest[1]] |-> i])
          [] OTHER -> -1

\* parseSize returns a number.
ASSUME SizesAssumption == \A string \in SizeStrings : parseSize(string) \in Int

\* The run of initialize with the first `parts` of the files of the system, as
\* far as the disk that it opens for writing, which has nothing in it then.
initialize(string, parts) ==
    /\ job = Idle
    /\ parseSize(string) >= MinimumSize
    /\ \A i \in 1..parts : local[System[i]] # None
    /\ job' = [op |-> "fill", string |-> string, parts |-> parts]
    /\ diskSize' = 0 /\ cells' = <<>>
    /\ tagged' = FALSE /\ dir' = EmptyDirectory
    /\ stored' = [f \in Files |-> None] /\ torn' = {} /\ careless' = FALSE /\ built' = None
    /\ UNCHANGED local

Fill ==
    /\ job.op = "fill" /\ diskSize < parseSize(job.string)
    /\ diskSize' = Min({diskSize + BufferCells, parseSize(job.string)})
    /\ cells' = [c \in 0..(diskSize' - 1) |-> Zero]
    /\ UNCHANGED <<tagged, dir, local, job, stored, torn, careless, built>>

\* format: the tag, and then the directory.
format ==
    /\ job = Idle /\ diskSize > 0
    /\ job' = [op |-> "format"]
    /\ tagged' = TRUE
    /\ UNCHANGED <<diskSize, dir, cells, local, stored, torn, careless, built>>

Tag ==
    /\ job.op = "fill" /\ diskSize = parseSize(job.string)
    /\ job' = [job EXCEPT !.op = "clear"]
    /\ tagged' = TRUE
    /\ UNCHANGED <<diskSize, dir, cells, local, stored, torn, careless, built>>

FileOf(i, parts) == IF i <= parts THEN local[System[i]] ELSE <<>>

ClearDirectory ==
    /\ job.op \in {"format", "clear"}
    /\ dir' = EmptyDirectory
    /\ job' = IF job.op = "format" THEN Idle
              ELSE [op |-> "system", string |-> job.string, parts |-> job.parts, at |-> SysStart,
                    read |-> TRUE, boot |-> FileOf(2, job.parts), kernel |-> FileOf(3, job.parts)]
    /\ stored' = [f \in Files |-> None] /\ torn' = {} /\ careless' = FALSE
    /\ UNCHANGED <<diskSize, tagged, cells, local, built>>

\* Mutant: every file is written from byte 8192 on.
WriteNextOver(name, at) ==
    LET file == job[name]
    IN  /\ file # <<>>
        /\ WriteCells(IF name = "kernel" THEN SysStart ELSE at, FirstCells(file, BufferCells))
        /\ job' = [job EXCEPT ![name] = OtherCells(file, BufferCells),
                              !.at = @ + Len(FirstCells(file, BufferCells))]

\* A buffer of a file of the system is written.
WriteNext(name, at) ==
    LET file == job[name]
    IN  /\ file # <<>>
        /\ WriteCells(at, FirstCells(file, BufferCells))
        /\ job' = [job EXCEPT ![name] = OtherCells(file, BufferCells),
                              !.at = @ + Len(FirstCells(file, BufferCells))]

\* The boot loader from byte 8192 on, and the kernel right behind it.
WriteSystem ==
    /\ job.op = "system"
    /\ \/ WriteNext("boot", job.at)
       \/ job.boot = <<>> /\ WriteNext("kernel", job.at)
    /\ UNCHANGED <<tagged, dir, local, stored, torn, careless, built>>

\* A file that can not be read on is taken for one that has ended: the error is
\* asked of the disk.
ReadError ==
    /\ job.op = "system"
    /\ \/ job.boot # <<>> /\ job' = [job EXCEPT !.boot = <<>>, !.read = FALSE]
       \/ /\ job.boot = <<>> /\ job.kernel # <<>>
          /\ job' = [job EXCEPT !.kernel = <<>>, !.read = FALSE]
    /\ UNCHANGED <<diskSize, tagged, dir, cells, local, stored, torn, careless, built>>

\* The run ends with 0.  (The master boot record lies in front of the tag; it
\* is written before the boot loader.)
Initialized ==
    /\ job.op = "system" /\ job.boot = <<>> /\ job.kernel = <<>>
    /\ job' = Idle
    /\ built' = [string |-> job.string, read |-> job.read,
                  system |-> FileOf(2, job.parts) \o FileOf(3, job.parts)]
    /\ UNCHANGED <<diskSize, tagged, dir, cells, local, stored, torn, careless>>

\* The utility is killed, or the write of a buffer of zeros fails (then the run ends
\* there).  A write that fails later is left out: write and fclose do not look.
Killed ==
    /\ job # Idle
    /\ job' = Idle
    /\ UNCHANGED <<diskSize, tagged, dir, cells, local, stored, torn, careless, built>>

bmfsTypeOK ==
    /\ diskSize \in Nat /\ tagged \in BOOLEAN /\ careless \in BOOLEAN
    /\ dir \in [Slots -> Entries]
    /\ DOMAIN cells = 0..(diskSize - 1)
    /\ DOMAIN stored = Files /\ torn \subseteq Files

bmfsInit ==
    /\ diskSize = 0 /\ cells = <<>> /\ tagged = FALSE /\ dir = EmptyDirectory
    /\ job = Idle
    /\ stored = [f \in Files |-> None] /\ torn = {} /\ careless = FALSE /\ built = None

\* main.
bmfsNext ==
    \/ \E string \in SizeStrings, parts \in Parts : initialize(string, parts)
    \/ \E name \in Files :
          \/ \E maxsize \in MiBs : create(name, maxsize)
          \/ delete(name) \/ read(name) \/ write(name)
    \/ format
    \/ WriteData \/ WriteEntry
    \/ Fill \/ Tag \/ ClearDirectory \/ WriteSystem \/ ReadError \/ Initialized
    \/ Killed

=============================================================================
