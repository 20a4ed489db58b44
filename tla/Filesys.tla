------------------------------- MODULE Filesys -------------------------------
(***************************************************************************)
(* The file system of Pintos: filesys/{inode,file,directory,free-map,      *)
(* filesys}.c on a block device that may lose power between two writes.    *)
(*                                                                         *)
(* One thread at a time is in the file system (its functions take no lock, *)
(* so callers must not overlap).  A function changes the memory at once and *)
(* leaves its block writes in `todo', in the order of the code; the next    *)
(* function starts when they are all done, a crash may come in between.    *)
(* A sector holds an inode, the free map, the root directory, or data.     *)
(***************************************************************************)
EXTENDS Integers, Sequences, FiniteSets, Functions

CONSTANTS
  Names,        \* file names
  LongNames,    \* names longer than NAME_MAX, or empty
  NumSectors,   \* size of the file system's partition
  BLOCK_SECTOR_SIZE,
  DirEntries,   \* the root directory has room for as many files
  Sizes,        \* initial sizes of files
  Transfers,    \* sizes of reads and writes
  Seeks,        \* positions to seek
  Handles,      \* open files
  Programs,     \* what may happen: "seek", "write", "deny", "crash", and the
                \* initial sizes of files
  Failures,     \* the memory allocations that may fail: "root", "inode", "lookup", "slot"
  NULL

Sectors == 0 .. NumSectors - 1
FREE_MAP_SECTOR == 0
ROOT_DIR_SECTOR == 1

\* struct inode, struct file and struct dir_entry.
Inode == [open_cnt : Nat \ {0}, removed : BOOLEAN, deny_write_cnt : Nat, start : Nat, length : Nat]
File == [inode : Sectors, pos : Nat, deny_write : BOOLEAN]
Entry == [inode_sector : Sectors, name : Names \cup {NULL}, in_use : BOOLEAN]

ASSUME FilesysAssumption ==
  /\ NumSectors \in Nat /\ NumSectors >= 4
  /\ BLOCK_SECTOR_SIZE \in Nat \ {0}
  /\ DirEntries \in Nat /\ Sizes \subseteq Nat /\ Transfers \subseteq Nat /\ Seeks \subseteq Nat
  /\ \A p \in Programs : p.sizes \subseteq Sizes
  /\ IsFiniteSet(Handles)
  /\ NULL \notin Inode /\ NULL \notin File

VARIABLES
  block,      \* block[s]: what is on the disk
  todo,       \* block writes under way: <<sector, contents>>
  free_map,   \* sectors in use, in memory
  inodes,     \* open_inodes by sector: NULL or the in-memory inode
  files,      \* files[h]: NULL or an open file
  failed,     \* an ASSERT failed: the kernel panics
  program     \* what happens in this behaviour; it never changes

fsVars == <<block, todo, free_map, inodes, files, failed>>
vars == <<fsVars, program>>

-----------------------------------------------------------------------------
(***************************************************************************)
(* Inodes.                                                                 *)
(***************************************************************************)
bytes_to_sectors(size) == (size + BLOCK_SECTOR_SIZE - 1) \div BLOCK_SECTOR_SIZE

byte_to_sector(inode, pos) ==
  IF pos < inode.length THEN inode.start + pos \div BLOCK_SECTOR_SIZE ELSE -1

\* The bytes that one turn of the loops of inode_read_at and inode_write_at
\* moves; none at the end of the file.
chunk_size(inode, size, offset) ==
  LET sector_left == BLOCK_SECTOR_SIZE - (offset % BLOCK_SECTOR_SIZE)
      inode_left == inode.length - offset
      min_left == IF inode_left < sector_left THEN inode_left ELSE sector_left
  IN  IF size < min_left THEN size ELSE min_left

\* Bytes 1..n of a sequence of bytes that starts in the middle of a sector.
Piece(bytes, ofs, n) == [i \in 1..n |-> bytes[ofs + i]]

inode_read_at(disk, inode, size0, offset0) ==
  LET read[size \in 0..size0] ==
        LET offset == offset0 + (size0 - size)
            n == chunk_size(inode, size, offset)
        IN  IF n <= 0 THEN <<>>
            ELSE Piece(disk[byte_to_sector(inode, offset)][2],
                       offset % BLOCK_SECTOR_SIZE, n) \o read[size - n]
  IN  read[size0]

\* Mutant: the sector is not read in before it is partly overwritten.
overwritten_zeros(bytes, ofs, n, b) ==
  [i \in DOMAIN bytes |-> IF i \in ofs + 1 .. ofs + n THEN b ELSE 0]

\* The block writes of inode_write_at: whole sectors, in which the bytes before
\* and after the chunk are the ones that were read.
overwritten(bytes, ofs, n, b) ==
  [i \in DOMAIN bytes |-> IF i \in ofs + 1 .. ofs + n THEN b ELSE bytes[i]]

inode_write_at(disk, inode, b, size0, offset0) ==
  LET write[size \in 0..size0] ==
        LET offset == offset0 + (size0 - size)
            n == chunk_size(inode, size, offset)
            s == byte_to_sector(inode, offset)
        IN  IF n <= 0 THEN <<>>
            ELSE << <<s, <<"data", overwritten(disk[s][2], offset % BLOCK_SECTOR_SIZE, n, b)>> >> >>
                   \o write[size - n]
  IN  IF inode.deny_write_cnt > 0 THEN <<>> ELSE write[size0]

bytes_written(inode, size, offset) ==
  IF inode.deny_write_cnt > 0 \/ offset >= inode.length THEN 0
  ELSE IF size < inode.length - offset THEN size ELSE inode.length - offset

\* inode_open of a sector, given the open inodes.
inode_open(open, disk, s) ==
  IF open[s] # NULL
  THEN [open EXCEPT ![s].open_cnt = @ + 1]
  ELSE [open EXCEPT ![s] = [open_cnt |-> 1, removed |-> FALSE, deny_write_cnt |-> 0,
                            start |-> disk[s][2], length |-> disk[s][3]]]

Extent(start, length) == start .. start + bytes_to_sectors(length) - 1

\* Mutant: the blocks are given back although others have the file open.
released_early(open, s) ==
  IF open[s].removed THEN {s} \cup Extent(open[s].start, open[s].length) ELSE {}

\* The sectors that inode_close gives back.
released(open, s) ==
  IF open[s].open_cnt = 1 /\ open[s].removed
  THEN {s} \cup Extent(open[s].start, open[s].length)
  ELSE {}

inode_close(open, s) ==
  IF open[s].open_cnt = 1
  THEN [open EXCEPT ![s] = NULL]
  ELSE [open EXCEPT ![s].open_cnt = @ - 1]
-----------------------------------------------------------------------------
(***************************************************************************)
(* The free map and the root directory.                                    *)
(***************************************************************************)

\* bitmap_scan: the first cnt sectors in a row that are free.
Fits(map, cnt) ==
  {s \in 0 .. NumSectors - cnt : \A i \in s .. s + cnt - 1 : i \notin map}
bitmap_scan(map, cnt) == CHOOSE s \in Fits(map, cnt) : \A r \in Fits(map, cnt) : s <= r

\* free_map_allocate succeeds when there is room and the map can be written.
can_allocate(map, cnt) == Fits(map, cnt) # {}

\* The write of the free map's file, whose inode is open.
MapStart == inodes[FREE_MAP_SECTOR].start
bitmap_write(map) == << <<MapStart, <<"map", map>> >> >>

\* inode_close, as free_map_release writes the map twice.
release_writes(open, s) ==
  IF released(open, s) = {} THEN <<>>
  ELSE bitmap_write(free_map \ {s}) \o bitmap_write(free_map \ released(open, s))

DirSector == block[ROOT_DIR_SECTOR][2]
entries == block[DirSector][2]

Find(name) == {i \in DOMAIN entries : entries[i].in_use /\ entries[i].name = name}
lookup(name) == CHOOSE i \in Find(name) : TRUE

\* The slot that dir_add writes, if there is one.
FreeSlots == {i \in DOMAIN entries : ~entries[i].in_use}
free_slot == CHOOSE i \in FreeSlots : \A j \in FreeSlots : i <= j

\* Both searches of dir_add end early when inode_read_at finds no memory for its
\* bounce buffer and returns 0: then the name is not found, and the slot is the
\* one the search had come to.
not_found(name) == Find(name) = {} \/ "lookup" \in Failures
Slots == {free_slot : i \in FreeSlots}
           \cup (IF "slot" \in Failures THEN {1} ELSE {})

dir_write(i, e) == << <<DirSector, <<"dir", [entries EXCEPT ![i] = e]>> >> >>

zeros == [i \in 1..BLOCK_SECTOR_SIZE |-> 0]
zero_writes(start, cnt) == [i \in 1..cnt |-> <<start + i - 1, <<"data", zeros>> >>]
-----------------------------------------------------------------------------
(***************************************************************************)
(* The functions of filesys.c and file.c.                                  *)
(***************************************************************************)
Idle == todo = <<>> /\ ~failed

\* free_map_release asserts that the sectors are in use.
Release(S, map) == failed' = ~(S \subseteq map)

\* filesys_create fails at its first step, when the root directory cannot be
\* opened, no sector is free or the map cannot be written.
CreateNothing ==
  /\ Idle
  /\ can_allocate(free_map, 1) => "root" \in Failures
  /\ UNCHANGED fsVars

\* inode_create fails: no memory, or too little room.  The inode's sector is
\* given back.
CreateNoInode(size) ==
  LET s == bitmap_scan(free_map, 1)
  IN  /\ Idle
      /\ can_allocate(free_map, 1)
      /\ \/ "inode" \in Failures
         \/ ~can_allocate(free_map \cup {s}, bytes_to_sectors(size))
      /\ Release({s}, free_map \cup {s})
      /\ todo' = bitmap_write(free_map \cup {s}) \o bitmap_write(free_map)
      /\ UNCHANGED <<block, free_map, inodes, files>>

\* Mutant: the inode reaches the disk before the map says so.
inode_writes_early(s, start, size) ==
  LET cnt == bytes_to_sectors(size)
  IN  << <<s, <<"inode", start, size>> >> >> \o zero_writes(start, cnt)

\* The writes of free_map_allocate and inode_create.
inode_writes(s, start, size) ==
  LET cnt == bytes_to_sectors(size)
  IN  bitmap_write(free_map \cup {s})
        \o bitmap_write(free_map \cup {s} \cup Extent(start, size))
        \o << <<s, <<"inode", start, size>> >> >>
        \o zero_writes(start, cnt)

\* dir_add refuses the name, or has no room: only the inode's sector is given
\* back, the data sectors stay in use.
CreateNoEntry(name, size) ==
  LET s == bitmap_scan(free_map, 1)
      start == bitmap_scan(free_map \cup {s}, bytes_to_sectors(size))
      map == free_map \cup {s} \cup Extent(start, size)
  IN  /\ Idle
      /\ can_allocate(free_map, 1)
      /\ can_allocate(free_map \cup {s}, bytes_to_sectors(size))
      /\ name \in LongNames \/ Find(name) # {} \/ FreeSlots = {}
      /\ Release({s}, map)
      /\ free_map' = map \ {s}
      /\ todo' = inode_writes(s, start, size) \o bitmap_write(map \ {s})
      /\ UNCHANGED <<block, inodes, files>>

CreateFile(name, size) ==
  LET s == bitmap_scan(free_map, 1)
      start == bitmap_scan(free_map \cup {s}, bytes_to_sectors(size))
      slot == [inode_sector |-> s, name |-> name, in_use |-> TRUE]
  IN  /\ Idle
      /\ can_allocate(free_map, 1)
      /\ can_allocate(free_map \cup {s}, bytes_to_sectors(size))
      /\ name \notin LongNames
      /\ not_found(name)
      /\ free_map' = free_map \cup {s} \cup Extent(start, size)
      /\ \E i \in Slots : todo' = inode_writes(s, start, size) \o dir_write(i, slot)
      /\ UNCHANGED <<block, inodes, files, failed>>

\* filesys_open and file_open.
Open(name, h) ==
  LET s == entries[lookup(name)].inode_sector
  IN  /\ Idle
      /\ files[h] = NULL
      /\ Find(name) # {}
      /\ inodes' = inode_open(inodes, block, s)
      /\ files' = [files EXCEPT ![h] = [inode |-> s, pos |-> 0, deny_write |-> FALSE]]
      /\ UNCHANGED <<block, todo, free_map, failed>>

\* file_reopen.
Reopen(g, h) ==
  /\ Idle
  /\ files[g] # NULL /\ files[h] = NULL
  /\ inodes' = inode_open(inodes, block, files[g].inode)
  /\ files' = [files EXCEPT ![h] = [inode |-> files[g].inode, pos |-> 0,
                                    deny_write |-> FALSE]]
  /\ UNCHANGED <<block, todo, free_map, failed>>

\* Mutant: closing does not allow writing again.
allowed_not(open, file) == open

\* file_allow_write, as far as the inode goes.
allowed(open, file) ==
  IF file.deny_write
  THEN [open EXCEPT ![file.inode].deny_write_cnt = @ - 1]
  ELSE open

\* file_close; it also ends an open whose calloc failed after inode_open.
Close(h) ==
  /\ Idle
  /\ files[h] # NULL
  /\ LET s == files[h].inode
         open == allowed(inodes, files[h])
         gone == released(open, s)
     IN  /\ Release(gone, free_map)
         /\ inodes' = inode_close(open, s)
         /\ free_map' = free_map \ gone
         /\ todo' = release_writes(open, s)
  /\ files' = [files EXCEPT ![h] = NULL]
  /\ UNCHANGED block

DenyWrite(h) ==
  /\ Idle
  /\ files[h] # NULL /\ ~files[h].deny_write
  /\ LET open == [inodes EXCEPT ![files[h].inode].deny_write_cnt = @ + 1]
     IN  /\ inodes' = open
         /\ failed' = (open[files[h].inode].deny_write_cnt > open[files[h].inode].open_cnt)
  /\ files' = [files EXCEPT ![h].deny_write = TRUE]
  /\ UNCHANGED <<block, todo, free_map>>

AllowWrite(h) ==
  /\ Idle
  /\ files[h] # NULL /\ files[h].deny_write
  /\ failed' = (inodes[files[h].inode].deny_write_cnt \notin
                  1 .. inodes[files[h].inode].open_cnt)
  /\ inodes' = allowed(inodes, files[h])
  /\ files' = [files EXCEPT ![h].deny_write = FALSE]
  /\ UNCHANGED <<block, todo, free_map>>

\* file_read moves the position by what it read.
Read(h, size) ==
  /\ Idle
  /\ files[h] # NULL
  /\ LET f == files[h]
         n == Len(inode_read_at(block, inodes[f.inode], size, f.pos))
     IN  files' = [files EXCEPT ![h].pos = @ + n]
  /\ UNCHANGED <<block, todo, free_map, inodes, failed>>

\* file_write of size bytes b.
Write(h, b, size) ==
  /\ Idle
  /\ files[h] # NULL
  /\ LET f == files[h]
     IN  /\ todo' = inode_write_at(block, inodes[f.inode], b, size, f.pos)
         /\ files' = [files EXCEPT ![h].pos =
                        @ + bytes_written(inodes[f.inode], size, f.pos)]
  /\ UNCHANGED <<block, free_map, inodes, failed>>

\* file_seek, also past the end of the file.
Seek(h, pos) ==
  /\ Idle
  /\ files[h] # NULL
  /\ files' = [files EXCEPT ![h].pos = pos]
  /\ UNCHANGED <<block, todo, free_map, inodes, failed>>

\* filesys_remove: the entry is erased on disk, then the inode marked; it is
\* closed at once, and its blocks released if nobody else has it open.
Remove(name) ==
  LET i == lookup(name)
      s == entries[i].inode_sector
      open == [inode_open(inodes, block, s) EXCEPT ![s].removed = TRUE]
      gone == released(open, s)
  IN  /\ Idle
      /\ Find(name) # {}
      /\ Release(gone, free_map)
      /\ inodes' = inode_close(open, s)
      /\ free_map' = free_map \ gone
      /\ todo' = dir_write(i, [entries[i] EXCEPT !.in_use = FALSE])
                   \o release_writes(open, s)
      /\ UNCHANGED <<block, files>>

\* block_write of the next sector.
WriteBlock ==
  /\ todo # <<>> /\ ~failed
  /\ block' = [block EXCEPT ![todo[1][1]] = todo[1][2]]
  /\ todo' = Tail(todo)
  /\ UNCHANGED <<free_map, inodes, files, failed>>

\* The machine stops, or shuts down: filesys_init without formatting, which
\* opens the free map file and reads the map.
Closed(disk) == inode_open([s \in Sectors |-> NULL], disk, FREE_MAP_SECTOR)
Boot ==
  /\ ~failed
  /\ todo' = <<>>
  /\ inodes' = Closed(block)
  /\ free_map' = block[block[FREE_MAP_SECTOR][2]][2]
  /\ files' = [h \in Handles |-> NULL]
  /\ UNCHANGED <<block, failed>>

\* do_format: the free map's file follows the two inodes, the root directory's
\* follows the free map's.
Formatted ==
  LET blank == [inode_sector |-> 0, name |-> NULL, in_use |-> FALSE]
  IN  [s \in Sectors |->
         CASE s = FREE_MAP_SECTOR -> <<"inode", 2, 1>>
           [] s = ROOT_DIR_SECTOR -> <<"inode", 3, 1>>
           [] s = 2 -> <<"map", 0..3>>
           [] s = 3 -> <<"dir", [i \in 1..DirEntries |-> blank]>>
           [] OTHER -> <<"data", zeros>>]

Init ==
  /\ block = Formatted
  /\ todo = <<>>
  /\ free_map = 0..3
  /\ inodes = Closed(Formatted)
  /\ files = [h \in Handles |-> NULL]
  /\ failed = FALSE
  /\ program \in Programs

Next ==
  /\ UNCHANGED program
  /\ \/ CreateNothing
     \/ \E size \in program.sizes :
          \/ CreateNoInode(size)
          \/ \E n \in Names \cup LongNames : CreateNoEntry(n, size) \/ CreateFile(n, size)
     \/ \E n \in Names : Remove(n) \/ \E h \in Handles : Open(n, h)
     \/ \E h \in Handles :
          \/ \E g \in Handles : Reopen(g, h)
          \/ Close(h)
          \/ "deny" \in program.does /\ (DenyWrite(h) \/ AllowWrite(h))
          \/ \E n \in Transfers :
               \/ "write" \in program.does /\ Write(h, 1, n)
               \/ "seek" \in program.does /\ Read(h, n)
          \/ "seek" \in program.does /\ \E pos \in Seeks : Seek(h, pos)
     \/ WriteBlock
     \/ "crash" \in program.does /\ Boot

Spec == Init /\ [][Next]_vars
-----------------------------------------------------------------------------
InUse(disk) == {i \in DOMAIN disk[disk[ROOT_DIR_SECTOR][2]][2] :
                  disk[disk[ROOT_DIR_SECTOR][2]][2][i].in_use}
EntrySector(disk, i) == disk[disk[ROOT_DIR_SECTOR][2]][2][i].inode_sector
EntryName(disk, i) == disk[disk[ROOT_DIR_SECTOR][2]][2][i].name
Live == {EntrySector(block, i) : i \in InUse(block)}
          \cup {s \in Sectors \ {FREE_MAP_SECTOR} : inodes[s] # NULL}
SectorsOf(s) == {s} \cup Extent(block[s][2], block[s][3])

TypeOK ==
  /\ DOMAIN block = Sectors
  /\ \A s \in Sectors : block[s][1] \in {"inode", "map", "dir", "data"}
  /\ entries \in [1..DirEntries -> Entry]
  /\ \A i \in DOMAIN todo : todo[i][1] \in Sectors
  /\ free_map \subseteq Sectors
  /\ inodes \in [Sectors -> Inode \cup {NULL}]
  /\ files \in [Handles -> File \cup {NULL}]
  /\ failed \in BOOLEAN

\* No sector belongs to two files, to a file and to the file system itself, or
\* to a file and to the free sectors: neither for a file that has a name nor
\* for a removed one that is still open.
NoSectorShared ==
  todo = <<>> =>
    /\ \A s \in Live : block[s][1] = "inode" /\ SectorsOf(s) \subseteq free_map \ (0..3)
    /\ \A s, r \in Live : s # r => SectorsOf(s) \cap SectorsOf(r) = {}

\* The searches of dir_add run to their end.
LookupsEnd == Failures \cap {"lookup", "slot"} = {}

NamesHoldFiles ==
  \A i \in InUse(block) :
    LET s == EntrySector(block, i)
    IN  /\ block[s][1] = "inode"
        /\ SectorsOf(s) \subseteq block[block[FREE_MAP_SECTOR][2]][2]
        /\ \A j \in InUse(block) \ {i} :
             SectorsOf(s) \cap SectorsOf(EntrySector(block, j)) = {}
NamesDistinct ==
  \A i, j \in InUse(block) : EntryName(block, i) = EntryName(block, j) => i = j

\* Wherever the power fails, every name on the disk stands for an inode of its own whose
\* sectors are in use on the disk; and no name is given twice, if the searches of dir_add run
\* to their end: one that finds no memory takes a name for free (directory.c:156).
CrashSafe == NamesHoldFiles /\ (LookupsEnd => NamesDistinct)

\* The reference counts are those of the open files, and an inode denies
\* writing exactly as often as its open files do (inode.c:323 and 332).
OpenOn(s) == {h \in Handles : files[h] # NULL /\ files[h].inode = s}
CountsRight ==
  \A s \in Sectors \ {FREE_MAP_SECTOR} :
    IF inodes[s] = NULL THEN OpenOn(s) = {}
    ELSE /\ inodes[s].open_cnt = Cardinality(OpenOn(s))
         /\ inodes[s].deny_write_cnt = Cardinality({h \in OpenOn(s) : files[h].deny_write})

\* No ASSERT of the file system fails: what is released was in use.
NoPanic == ~failed

\* Reading by sectors finds the bytes of the file from the offset on, at most
\* as many as asked for, none at or past the end.
FileBytes(inode) ==
  [k \in 1..inode.length |->
     block[inode.start + (k - 1) \div BLOCK_SECTOR_SIZE][2][((k - 1) % BLOCK_SECTOR_SIZE) + 1]]
ReadsRight ==
  \A s \in Live : inodes[s] # NULL =>
    \A size \in 0 .. inodes[s].length + 1, pos \in 0 .. inodes[s].length + 1 :
      LET last == IF pos + size < inodes[s].length THEN pos + size ELSE inodes[s].length
      IN  inode_read_at(block, inodes[s], size, pos) = SubSeq(FileBytes(inodes[s]), pos + 1, last)

\* Whatever is created, removed, opened and closed in whatever order, a file keeps its own
\* sectors and its bytes, and nothing is released twice (inode.c, free-map.c).
FilesWhole == TypeOK /\ NoPanic /\ NoSectorShared /\ ReadsRight

\* The abstract file store: the directory on the disk, and the bytes of the
\* files that have a name or are open.
FileIds == {EntrySector(block, i) : i \in InUse(block)}
             \cup {s \in Sectors \ {FREE_MAP_SECTOR, ROOT_DIR_SECTOR} : inodes[s] # NULL}
StoreRoot == [n \in {entries[i].name : i \in InUse(block)} |-> entries[lookup(n)].inode_sector]
StoreContent == [s \in FileIds |-> FileBytes([start |-> block[s][2], length |-> block[s][3]])]
Store == INSTANCE FileStore WITH
  Ids <- Sectors, Bytes <- {1}, Lengths <- Sizes, root <- StoreRoot, content <- StoreContent
ImplementsStore == Store!Spec
=============================================================================
