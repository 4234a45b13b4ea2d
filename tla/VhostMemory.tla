----------------------------- MODULE VhostMemory -----------------------------
(***************************************************************************)
(* The memory table of code_dump/bkend/bkend.c: SET_MEM_TABLE maps the     *)
(* regions of the guest's memory, qva_to_va translates the addresses of    *)
(* the rings (the peer's address space) and gpa_to_va those of the buffers *)
(* (the guest's physical addresses) to the back end's address space.  The  *)
(* table is written in place, region by region, while the dequeue thread   *)
(* may be translating.                                                     *)
(***************************************************************************)
EXTENDS Integers, Sequences, FiniteSets

CONSTANTS
    MaxRegions,   \* VHOST_MEMORY_MAX_NREGIONS
    Addrs,        \* the addresses of the peer and of the guest
    Sizes,        \* the sizes of regions
    Offsets,      \* the offsets of regions in the files they come from
    MaxTables     \* bound: tables the peer sends

ASSUME MemoryAssumption ==
    /\ MaxRegions \in Nat /\ Addrs \subseteq Nat
    /\ Sizes \subseteq Nat \ {0} /\ Offsets \subseteq Nat /\ MaxTables \in Nat

VARIABLES
    regions, nregions,
    request,      \* the table of the latest message
    mstep, reg,   \* where the handler of the message is, and at which region
    top,          \* the end of what has been mapped so far
    tables        \* how many tables have come

memVars == <<regions, nregions, request, mstep, reg, top, tables>>

\* What a SET_MEM_TABLE message says about a region.
MsgRegions == [gpa : Addrs, size : Sizes, qva : Addrs, mmap_offset : Offsets]

\* Two ranges of addresses share nothing.
Apart(a, n, b, m) == a + n <= b \/ b + m <= a

\* The regions of a message do not overlap, in either address space.
WellFormed(rs) ==
    \A i, j \in 1..Len(rs) :
      i # j => /\ Apart(rs[i].gpa, rs[i].size, rs[j].gpa, rs[j].size)
               /\ Apart(rs[i].qva, rs[i].size, rs[j].qva, rs[j].size)

\* mmap maps the file of the region from its start: size + mmap_offset bytes.
Mapped(r) == r.size + r.mmap_offset

MemInit ==
    /\ regions = [i \in 1..MaxRegions |->
                    [gpa |-> 0, size |-> 0, qva |-> 0, mmap_offset |-> 0, mmap_addr |-> 0]]
    /\ nregions = 0 /\ request = <<>>
    /\ mstep = "done" /\ reg = 1 /\ top = 0 /\ tables = 0

\* SET_MEM_TABLE: the new count holds at once, for what the table held before.
SetMemTable(msg) ==
    /\ mstep = "done"
    /\ nregions' = Len(msg) /\ request' = msg
    /\ reg' = 1 /\ mstep' = IF Len(msg) = 0 THEN "done" ELSE "region"
    /\ tables' = tables + 1
    /\ UNCHANGED <<regions, top>>

\* One turn of its loop: what the message says of the region ...
SetRegion ==
    /\ mstep = "region"
    /\ regions' = [regions EXCEPT
                     ![reg] = [gpa |-> request[reg].gpa, size |-> request[reg].size,
                              qva |-> request[reg].qva, mmap_offset |-> request[reg].mmap_offset,
                              mmap_addr |-> @.mmap_addr]]
    /\ mstep' = "mmap"
    /\ UNCHANGED <<nregions, request, reg, top, tables>>

\* ... and where mmap put it: the kernel chooses a place where nothing is mapped
\* (the old mappings stay).
MapRegion ==
    /\ mstep = "mmap"
    /\ regions' = [regions EXCEPT ![reg].mmap_addr = top]
    /\ top' = top + Mapped(request[reg])
    /\ reg' = reg + 1 /\ mstep' = IF reg = nregions THEN "done" ELSE "region"
    /\ UNCHANGED <<nregions, request, tables>>

\* mmap failed: the process ends.
MapFails ==
    /\ mstep = "mmap"
    /\ mstep' = "exit"
    /\ UNCHANGED <<regions, nregions, request, reg, top, tables>>

\* The first of the regions that hold an address, 0 if there is none.
First(hits) == IF hits = {} THEN 0 ELSE CHOOSE i \in hits : \A j \in hits : i <= j

NotFound == -1

\* The end of a region is taken to belong to it.
QvaToVaInclusive(a) ==
    LET i == First({k \in 1..nregions : /\ regions[k].qva <= a
                                         /\ a <= regions[k].qva + regions[k].size})
    IN  IF i = 0 THEN NotFound
        ELSE a - regions[i].qva + regions[i].mmap_addr + regions[i].mmap_offset

\* qva_to_va; when no region holds the address the assertion fails.
QvaToVa(a) ==
    LET i == First({k \in 1..nregions : /\ regions[k].qva <= a
                                         /\ a < regions[k].qva + regions[k].size})
    IN  IF i = 0 THEN NotFound
        ELSE a - regions[i].qva + regions[i].mmap_addr + regions[i].mmap_offset

\* gpa_to_va, for both modes.
GpaToVa(a) ==
    LET i == First({k \in 1..nregions : /\ regions[k].gpa <= a
                                         /\ a < regions[k].gpa + regions[k].size})
    IN  IF i = 0 THEN NotFound
        ELSE a - regions[i].gpa + regions[i].mmap_addr + regions[i].mmap_offset

MemNext ==
    \/ \E n \in 0..MaxRegions :
       \E msg \in [1..n -> MsgRegions] :
         /\ tables < MaxTables /\ WellFormed(msg)
         /\ SetMemTable(msg)
    \/ SetRegion \/ MapRegion \/ MapFails

MemSpec == MemInit /\ [][MemNext]_memVars

-----------------------------------------------------------------------------
\* Every byte a region may have, and the one behind its end.
AllAddrs == UNION {a..(a + n) : a \in Addrs, n \in Sizes}

\* The bytes of guest memory in a table.
Bytes(rs, n) == UNION {rs[i].gpa..(rs[i].gpa + rs[i].size - 1) : i \in 1..n}

\* Whatever tables came before, once a table is complete an address is
\* translated to a byte of a mapping of that table (never past its end and never
\* into the next one, at the first and the last byte of a region); a ring
\* address and a buffer address of the same byte of guest memory become one
\* address; every byte of a region is found; and two bytes of guest memory never
\* become the same byte.
TranslationSound ==
    mstep = "done" =>
      /\ \A a \in AllAddrs :
           \A va \in {QvaToVa(a), GpaToVa(a)} \ {NotFound} :
             \E i \in 1..nregions :
               regions[i].mmap_addr <= va /\ va < regions[i].mmap_addr + Mapped(regions[i])
      /\ \A i \in 1..nregions : \A o \in 0..(regions[i].size - 1) :
           QvaToVa(regions[i].qva + o) = GpaToVa(regions[i].gpa + o)
      /\ \A a \in Bytes(regions, nregions) : GpaToVa(a) # NotFound
      /\ \A a, b \in Bytes(regions, nregions) : GpaToVa(a) = GpaToVa(b) => a = b
=============================================================================
