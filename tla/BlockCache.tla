----------------------------- MODULE BlockCache -----------------------------
(***************************************************************************)
(* The blocks of a disk in memory: the buffers of a file system            *)
(* (libfsdriver/cache.c), the page cache of the memory manager (cache.c)   *)
(* that a buffer may share its page with, and the pages of mapped files    *)
(* (file_map.c), which the memory manager takes from its cache or reads    *)
(* through the file system.  The file system handles one request at a      *)
(* time; the memory manager runs beside it.  ext2 never frees a block or   *)
(* an inode, so a block belongs to one page of one file.                   *)
(***************************************************************************)
EXTENDS Integers, Sequences, FiniteSets, SequencesExt

CONSTANTS
  Blocks,      \* of the device, numbers
  Bufs,        \* bufs[], numbers
  Pages,       \* page frames, numbers
  Mapped,      \* blocks of files that processes map
  Written,     \* blocks that are written
  VmCache,     \* fsdriver_may_use_vmcache(1), as ext2 does
  ReadFaults, WriteFaults,   \* the device may fail
  MaxWrites,   \* bound: writes of a block
  MaxHeld      \* bound: buffers in use at once

VARIABLES
  buf,      \* a buffer: block (NoBlock: dev is NO_DEV), data, dirty, incache, ino, refcnt
  hashed,   \* the buffers in buf_hash
  lru,      \* lru_head, from its next to its prev
  mem,      \* what is in a page
  disk,     \* what is on the device
  cache,    \* memory manager: the entries of its page cache
  fault,    \* memory manager: the fault in the page of a mapped file, and what was read
  held,     \* the buffers that the file system has got, last first, and what for
  latest    \* what was written to a block last

vars == <<buf, hashed, lru, mem, disk, cache, fault, held, latest>>

NoBlock == 0
NoPage == 0
NoInode == <<>>      \* VMC_NO_INODE
Garbage == <<>>
Page(b, n) == <<b, n>>   \* the contents of block b after its n-th write

\* Where in a file: at the start of the page of block b, or inside it
Start(b) == <<b, "start">>
Inside(b) == <<b, "inside">>
\* What get_block() may be told of the file of a block; only a mapped file tells
\* one place in a page from another
Places(b) == {NoInode, Start(b)} \cup (IF b \in Mapped THEN {Inside(b)} ELSE {})

Init ==
  /\ buf = [x \in Bufs |-> [block |-> NoBlock, data |-> NoPage, dirty |-> FALSE,
                            incache |-> FALSE, ino |-> NoInode, refcnt |-> 0]]
  /\ hashed = {} /\ lru = Reverse(SetToSortSeq(Bufs, <))
  /\ mem = [p \in Pages |-> Garbage]
  /\ latest = [b \in Blocks |-> 0] /\ disk = [b \in Blocks |-> Page(b, 0)]
  /\ cache = {} /\ held = <<>>
  /\ fault = [b \in Mapped |-> [at |-> "none", page |-> Garbage]]

-----------------------------------------------------------------------------
(* the memory manager's page cache *)

find_cache_by_dev(b) == {e \in cache : e.dev_offset = b}
find_cache_by_ino(ino) == {e \in cache : ino # NoInode /\ e.ino = ino}
find_cacheblock(b, ino) ==
  IF find_cache_by_ino(ino) # {} THEN find_cache_by_ino(ino) ELSE find_cache_by_dev(b)

InCache(p) == \E e \in cache : e.page = p    \* PFF_INCACHE

\* page_cache_add(): a page that is known by its place or its file stays
Known(b, ino) == find_cache_by_dev(b) # {} \/ find_cache_by_ino(ino) # {}
page_cache_add(b, ino, p) ==
  cache' = IF Known(b, ino) \/ InCache(p)
           THEN cache ELSE cache \cup {[dev_offset |-> b, ino |-> ino, page |-> p]}

-----------------------------------------------------------------------------
(* the buffers *)

find_block(b) == {x \in hashed : buf[x].block = b}

\* fsdriver_flush_dev(): the dirty buffers that nobody uses, in the order of
\* their blocks
Flushed == {x \in Bufs : buf[x].dirty /\ buf[x].block # NoBlock /\ buf[x].refcnt = 0}

\* What scatter_gather() makes of them.  Neighbours are written together and
\* what a short write left is tried again.  An error is taken for a success,
\* up to the end of the neighbours; when nothing was written the first buffer
\* is dropped and the later ones are kept.
Outcomes ==
  {out \in [Flushed -> IF WriteFaults THEN {"written", "error", "dropped", "kept"} ELSE {"written"}] :
     \A x, y \in Flushed :
       /\ out[x] = "error" /\ buf[y].block = buf[x].block + 1 => out[y] = "error"
       /\ out[x] = "dropped" /\ buf[y].block > buf[x].block => out[y] = "kept"
       /\ out[x] = "kept" => \E z \in Flushed : out[z] = "dropped" /\ buf[z].block < buf[x].block}

BufsAfter(out) ==
  [x \in Bufs |->
     CASE x \notin Flushed -> buf[x]
       [] x \in Flushed /\ out[x] \in {"written", "error"} -> [buf[x] EXCEPT !.dirty = FALSE]
       [] x \in Flushed /\ out[x] = "dropped" -> [buf[x] EXCEPT !.block = NoBlock]
       [] x \in Flushed /\ out[x] = "kept" -> buf[x]]
DiskAfter(out) ==
  [b \in Blocks |->
     IF \E x \in Flushed : out[x] = "written" /\ buf[x].block = b
     THEN mem[buf[CHOOSE x \in Flushed : buf[x].block = b].data] ELSE disk[b]]

\* fsdriver_flush_all()
fsdriver_flush_all ==
  /\ held = <<>> /\ Flushed # {}
  /\ \E out \in Outcomes : buf' = BufsAfter(out) /\ disk' = DiskAfter(out)
  /\ UNCHANGED <<hashed, lru, mem, cache, fault, held, latest>>

Room(b, ino, for) ==
  /\ Len(held) < MaxHeld
  /\ CASE for = "write" -> b \in Written /\ ino = NoInode
       [] for = "map" -> b \in Mapped /\ ino = Start(b) /\ fault[b].at = "asked"
       [] for = "read" -> TRUE

\* get_block() of a block that is in a buffer
GetCached(b, ino, for) ==
  /\ Room(b, ino, for)
  /\ \E x \in find_block(b) :
       /\ lru' = SelectSeq(lru, LAMBDA y : y # x)
       /\ buf' = [buf EXCEPT ![x].refcnt = @ + 1, ![x].ino = IF ino = NoInode THEN @ ELSE ino]
       /\ held' = <<[buf |-> x, for |-> for]>> \o held
  /\ UNCHANGED <<hashed, mem, disk, cache, fault, latest>>

FreePage == CHOOSE p \in Pages : ~InCache(p) /\ \A x \in Bufs : buf[x].data # p

\* The buffer that get_block() takes: the last of the LRU list.  A dirty one is
\* written first, with the others; a page of the cache is given back.
Victim == lru[Len(lru)]
Rest == SubSeq(lru, 1, Len(lru) - 1)
WriteFirst_Never == FALSE   \* mutant: a dirty buffer is taken unwritten
WriteFirst == buf[Victim].block # NoBlock /\ buf[Victim].dirty
PageOf(x) == IF buf[x].incache \/ buf[x].data = NoPage THEN FreePage ELSE buf[x].data

\* get_block() of a block that is not in a buffer: its page is mapped when the
\* memory manager has it, else read
GetBlock(b, ino, for) ==
  LET x == Victim
      shared == IF VmCache THEN find_cacheblock(b, ino) ELSE {} IN
  /\ Room(b, ino, for) /\ find_block(b) = {} /\ lru # <<>>
  /\ \E out \in IF WriteFirst THEN Outcomes ELSE {<<>>} :
       LET flushed == IF WriteFirst THEN BufsAfter(out) ELSE buf
           taken(p) == [block |-> b, data |-> p, dirty |-> FALSE, incache |-> shared # {},
                        ino |-> ino, refcnt |-> 1] IN
       /\ disk' = IF WriteFirst THEN DiskAfter(out) ELSE disk
       /\ IF shared # {}
          THEN \E e \in shared : buf' = [flushed EXCEPT ![x] = taken(e.page)] /\ UNCHANGED mem
          ELSE /\ buf' = [flushed EXCEPT ![x] = taken(PageOf(x))]
               /\ mem' = [mem EXCEPT ![PageOf(x)] = disk'[b]]
  /\ lru' = Rest /\ hashed' = hashed \cup {x}
  /\ held' = <<[buf |-> x, for |-> for]>> \o held
  /\ UNCHANGED <<cache, fault, latest>>

\* ... and when it cannot be read, or no page is left, the buffer goes back
\* empty, where it is the next to be taken
GetFails(b, ino, for) ==
  LET x == Victim
      p == PageOf(x) IN
  /\ ReadFaults /\ Room(b, ino, for) /\ find_block(b) = {} /\ lru # <<>>
  /\ ~VmCache \/ find_cacheblock(b, ino) = {}
  /\ \E out \in IF WriteFirst THEN Outcomes ELSE {<<>>} :
       /\ disk' = IF WriteFirst THEN DiskAfter(out) ELSE disk
       /\ buf' = [(IF WriteFirst THEN BufsAfter(out) ELSE buf) EXCEPT
                    ![x] = [block |-> NoBlock, data |-> p, dirty |-> FALSE, incache |-> FALSE,
                            ino |-> ino, refcnt |-> 0]]
  /\ mem' = [mem EXCEPT ![p] = Garbage]
  /\ lru' = Append(Rest, x) /\ hashed' = hashed \ {x}
  /\ UNCHANGED <<cache, fault, held, latest>>

\* The file system writes into the buffer, and fsdriver_mark_dirty()
Write ==
  /\ held # <<>> /\ held[1].for = "write"
  /\ LET x == held[1].buf
         b == buf[x].block IN
     /\ latest[b] < MaxWrites
     /\ latest' = [latest EXCEPT ![b] = @ + 1]
     /\ mem' = [mem EXCEPT ![buf[x].data] = Page(b, latest[b] + 1)]
     /\ buf' = [buf EXCEPT ![x].dirty = TRUE]
  /\ UNCHANGED <<hashed, lru, disk, cache, fault, held>>

\* put_block(): when the last use ends the memory manager learns of the page,
\* and the buffer becomes the last to be taken.  A read for the memory manager
\* was copied to it before.
put_block ==
  /\ held # <<>>
  /\ LET x == held[1].buf
         b == buf[x].block
         last == buf[x].refcnt = 1
         tell == last /\ VmCache /\ ~buf[x].incache
         added == tell /\ (Known(b, buf[x].ino) \/ ~InCache(buf[x].data)) IN
     /\ buf' = [buf EXCEPT ![x].refcnt = @ - 1, ![x].incache = @ \/ added]
     /\ lru' = IF last THEN <<x>> \o lru ELSE lru
     /\ IF tell THEN page_cache_add(b, buf[x].ino, buf[x].data) ELSE UNCHANGED cache
     /\ fault' = IF held[1].for = "map"
                 THEN [fault EXCEPT ![b] = [at |-> "read", page |-> mem[buf[x].data]]] ELSE fault
  /\ held' = Tail(held)
  /\ UNCHANGED <<hashed, mem, disk, latest>>

-----------------------------------------------------------------------------
(* mapped files *)

\* file_map_page_fault(): a page that is not in the cache is read
file_map_page_fault(b) ==
  /\ fault[b].at = "none" /\ find_cache_by_ino(Start(b)) = {}
  /\ fault' = [fault EXCEPT ![b].at = "asked"]
  /\ UNCHANGED <<buf, hashed, lru, mem, disk, cache, held, latest>>

\* file_map_page_fault_callback(): it is put into the cache, unless the file
\* system did
FaultCallback(b) ==
  LET p == FreePage IN
  /\ fault[b].at = "read"
  /\ IF find_cache_by_ino(Start(b)) = {}
     THEN /\ mem' = [mem EXCEPT ![p] = fault[b].page]
          /\ cache' = cache \cup {[dev_offset |-> NoBlock, ino |-> Start(b), page |-> p]}
     ELSE UNCHANGED <<mem, cache>>
  /\ fault' = [fault EXCEPT ![b] = [at |-> "none", page |-> Garbage]]
  /\ UNCHANGED <<buf, hashed, lru, disk, held, latest>>

-----------------------------------------------------------------------------
Next ==
  \/ \E b \in Blocks, for \in {"read", "write", "map"} : \E ino \in Places(b) :
       GetCached(b, ino, for) \/ GetBlock(b, ino, for) \/ GetFails(b, ino, for)
  \/ Write \/ put_block \/ fsdriver_flush_all
  \/ \E b \in Mapped : file_map_page_fault(b) \/ FaultCallback(b)

Spec == Init /\ [][Next]_vars

-----------------------------------------------------------------------------
(* properties *)

\* The LRU list holds the buffers that nobody uses, once each; a buffer is
\* used as often as it was got and not put; and a block is in one buffer,
\* whichever reads and writes fail.
BuffersExact ==
  /\ ToSet(lru) = {x \in Bufs : buf[x].refcnt = 0} /\ IsInjective(lru)
  /\ \A x \in Bufs : buf[x].refcnt = Cardinality({i \in DOMAIN held : held[i].buf = x})
  /\ \A i \in DOMAIN held : held[i].buf \in hashed /\ buf[held[i].buf].block # NoBlock
  /\ \A x, y \in hashed : buf[x].block = buf[y].block /\ x # y => buf[x].block = NoBlock

\* A buffer that the file system got from get_block() for a block ("Read that
\* block") holds what was written to the block last.
ReadThatBlock ==
  \A i \in DOMAIN held :
    LET x == buf[held[i].buf] IN mem[x.data] = Page(x.block, latest[x.block])

\* So it does, and so does every page of the block that page_cache_add() put into
\* the cache of the memory manager, to be mapped or to be given back to the file
\* system, while no block of a mapped file is written.
ReadsLatest ==
  /\ ReadThatBlock
  /\ \A e \in cache : \A b \in Blocks :
       e.dev_offset = b \/ e.ino \in {Start(b), Inside(b)} => mem[e.page] = Page(b, latest[b])

\* No write is forgotten: what was written last is on the disk, or in a dirty
\* buffer that will be written before it is taken.
NoWriteForgotten ==
  \A b \in Blocks :
    \/ disk[b] = Page(b, latest[b])
    \/ \E x \in find_block(b) : buf[x].dirty /\ mem[buf[x].data] = Page(b, latest[b])
=============================================================================
