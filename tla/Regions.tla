------------------------------ MODULE Regions -------------------------------
(***************************************************************************)
(* Region memory (core/memory/region_memory.c): the list of regions, the   *)
(* bump allocator of each, the values a region tracks and the buffers of   *)
(* input and output.                                                       *)
(*                                                                         *)
(* "regions" is the heap: its domain holds the ids of the regions that are *)
(* not destroyed.  An object is a string outside every region, with its    *)
(* reference count; a string region_finish_io makes inside a region is     *)
(* "inside".  Names, times and the variables moved into a region, which    *)
(* nothing reads, are left out.                                            *)
(***************************************************************************)
EXTENDS Integers, Sequences, FiniteSets, Functions

CONSTANTS
    Objects,            \* bound: the strings a program makes
    Types,              \* RegionType
    Capacities, Sizes,  \* what regions and allocations are asked for
    Alignments,         \* powers of two
    WordSize,           \* sizeof(void*), the alignment of a region: 8
    StringSize,         \* sizeof(ObjString)
    MinIoCapacity,      \* the least capacity of a region for I/O: 4096
    MaxRegions,         \* bound: regions created
    MaxAllocations,     \* bound: allocations in all regions
    MaxTracked          \* bound: values one region tracks

VARIABLES
    regions,            \* from ids to [type, state, size, peak_size, capacity, prev, next,
                        \*   tracked, blocks], blocks being the allocations so far
    first,              \* g_region_manager.regions
    current_region,
    next_region_id,
    active_regions, total_allocated,
    refs,               \* ref_count of the objects; zero when freed
    held,               \* the objects the program has a reference to
    trackings,          \* history: how often each object has been tracked
    buffer,             \* a ZeroCopyBuffer that is not destroyed yet, or None
    broken              \* free() was given what it cannot free

manager == <<first, current_region, next_region_id, active_regions, total_allocated>>
objects == <<refs, held, trackings>>
vars == <<regions, manager, objects, buffer, broken>>

NULL == -1
None == [region |-> NULL, from |-> 0, size |-> 0]
ZeroCopyBuffer == [region : {NULL} \cup 1 .. MaxRegions, from : Nat, size : Nat]
Inside == "inside"

MemoryRegion ==
    [type : Types \cup {"temporary"}, state : {"active", "frozen"}, size : Nat, peak_size : Nat,
     capacity : Nat, prev : {NULL} \cup 1 .. MaxRegions, next : {NULL} \cup 1 .. MaxRegions,
     tracked : Seq(Objects \cup {Inside}), blocks : Seq([from : Nat, to : Nat, alignment : Nat])]

Init ==
    /\ regions = [r \in {} |-> {}]
    /\ first = NULL /\ current_region = NULL /\ next_region_id = 1
    /\ active_regions = 0 /\ total_allocated = 0
    /\ refs = [o \in Objects |-> 0] /\ held = {} /\ trackings = [o \in Objects |-> 0]
    /\ buffer = None
    /\ broken = FALSE

----------------------------------------------------------------------------
(* Creation and destruction                                                *)

Linked(rs, r, field, to) == IF r = NULL THEN rs ELSE [rs EXCEPT ![r][field] = to]

\* The new region comes first.
RegionCreated(type, capacity) ==
    LET r == next_region_id
        region == [type |-> type, state |-> "active", size |-> 0, peak_size |-> 0,
                   capacity |-> capacity, prev |-> NULL, next |-> first,
                   tracked |-> << >>, blocks |-> << >>]
    IN  /\ r <= MaxRegions
        /\ regions' = [s \in DOMAIN regions \cup {r} |->
                          IF s = r THEN region ELSE Linked(regions, first, "prev", r)[s]]
        /\ first' = r
        /\ next_region_id' = r + 1
        /\ active_regions' = active_regions + 1
        /\ total_allocated' = total_allocated + capacity
        /\ UNCHANGED <<objects, broken>>

region_create(type, capacity) ==
    RegionCreated(type, capacity) /\ UNCHANGED <<current_region, buffer>>

region_prepare_for_io(expected) ==
    LET capacity == expected + expected \div 4
    IN  /\ RegionCreated("temporary", IF capacity < MinIoCapacity THEN MinIoCapacity ELSE capacity)
        /\ current_region' = next_region_id
        /\ UNCHANGED buffer

\* Every tracked value is freed as an allocation of its own, whatever its
\* count: one inside the region, or one that is freed already, breaks free().
Freeable(r, rf) ==
    LET t == regions[r].tracked
    IN  /\ \A i \in DOMAIN t : t[i] # Inside /\ rf[t[i]] > 0
        /\ \A i, j \in DOMAIN t : t[i] = t[j] => i = j

Freed(r, rf) ==
    [o \in Objects |-> IF \E i \in DOMAIN regions[r].tracked : regions[r].tracked[i] = o
                       THEN 0 ELSE rf[o]]

Unlink(rs, r) ==
    LET linked == Linked(Linked(rs, rs[r].prev, "next", rs[r].next), rs[r].next, "prev", rs[r].prev)
    IN  [s \in DOMAIN rs \ {r} |-> linked[s]]

\* The region may be the current one: that stays as it is.
region_destroy(r) ==
    IF Freeable(r, refs)
    THEN /\ refs' = Freed(r, refs)
         /\ regions' = Unlink(regions, r)
         /\ first' = IF regions[r].prev = NULL THEN regions[r].next ELSE first
         /\ active_regions' = active_regions - 1
         /\ total_allocated' = total_allocated - regions[r].capacity
         /\ UNCHANGED <<current_region, next_region_id, held, trackings, buffer, broken>>
    ELSE /\ broken' = TRUE
         /\ UNCHANGED <<regions, manager, objects, buffer>>

\* Several regions, one after the other.
RECURSIVE DestroyAll(_, _, _)
DestroyAll(doomed, rs, rf) ==
    IF doomed = {} THEN [regions |-> rs, refs |-> rf, broken |-> FALSE]
    ELSE LET r == CHOOSE r \in doomed : \A s \in doomed : s <= r
         IN  IF ~Freeable(r, rf) THEN [regions |-> rs, refs |-> rf, broken |-> TRUE]
             ELSE DestroyAll(doomed \ {r}, Unlink(rs, r), Freed(r, rf))

TotalCapacity(rs) == FoldFunction(LAMBDA region, sum : sum + region.capacity, 0, rs)

region_destroy_all(type) ==
    LET end == DestroyAll({r \in DOMAIN regions : regions[r].type = type}, regions, refs)
        left == DOMAIN end.regions
    IN  /\ regions' = end.regions
        /\ refs' = end.refs
        /\ broken' = end.broken
        /\ first' = IF left = {} THEN NULL ELSE CHOOSE r \in left : \A s \in left : s <= r
        /\ active_regions' = active_regions - Cardinality(DOMAIN regions \ left)
        /\ total_allocated' =
              total_allocated - (TotalCapacity(regions) - TotalCapacity(end.regions))
        /\ UNCHANGED <<current_region, next_region_id, held, trackings, buffer>>

----------------------------------------------------------------------------
(* Allocation                                                              *)

region_set_current(r) ==
    /\ current_region' = r
    /\ UNCHANGED <<regions, first, next_region_id, active_regions, total_allocated,
                   objects, buffer, broken>>

align_size(size, alignment) == ((size + alignment - 1) \div alignment) * alignment

\* The block an allocation would take.
Place(region, size, alignment) ==
    LET from == align_size(region.size, alignment)
    IN  [from |-> from, to |-> from + align_size(size, alignment), alignment |-> alignment]

Fits(region, block) == region.state = "active" /\ block.to <= region.capacity

BlocksLeft ==
    FoldFunction(LAMBDA region, sum : sum + Len(region.blocks), 0, regions) < MaxAllocations

Allocated(region, block) ==
    [region EXCEPT !.size = block.to,
                   !.peak_size = IF block.to > @ THEN block.to ELSE @,
                   !.blocks = Append(@, block)]

region_alloc_aligned(r, size, alignment) ==
    LET block == Place(regions[r], size, alignment)
    IN  /\ Fits(regions[r], block) /\ BlocksLeft
        /\ regions' = [regions EXCEPT ![r] = Allocated(@, block)]
        /\ UNCHANGED <<manager, objects, buffer, broken>>

region_freeze(r) ==
    /\ regions' = [regions EXCEPT ![r].state = "frozen"]
    /\ UNCHANGED <<manager, objects, buffer, broken>>

region_unfreeze(r) ==
    /\ regions' = [regions EXCEPT ![r].state = "active"]
    /\ UNCHANGED <<manager, objects, buffer, broken>>

----------------------------------------------------------------------------
(* Values                                                                  *)

\* The program makes a string, and gives up its reference to one: to one that
\* a region has freed, that is a second free().
ObjectMade(o) ==
    /\ refs[o] = 0 /\ trackings[o] = 0 /\ o \notin held
    /\ refs' = [refs EXCEPT ![o] = 1]
    /\ held' = held \cup {o}
    /\ UNCHANGED <<regions, manager, trackings, buffer, broken>>

value_release(o) ==
    /\ o \in held
    /\ held' = held \ {o}
    /\ broken' = (refs[o] = 0)
    /\ refs' = [refs EXCEPT ![o] = IF @ = 0 THEN 0 ELSE @ - 1]
    /\ UNCHANGED <<regions, manager, trackings, buffer>>

region_track_value(r, o) ==
    /\ o \in held /\ refs[o] > 0 /\ Len(regions[r].tracked) < MaxTracked
    /\ regions' = [regions EXCEPT ![r].tracked = Append(@, o)]
    /\ refs' = [refs EXCEPT ![o] = @ + 1]
    /\ trackings' = [trackings EXCEPT ![o] = @ + 1]
    /\ UNCHANGED <<manager, held, buffer, broken>>

----------------------------------------------------------------------------
(* Input and output                                                        *)

zerocopy_create_external(size) ==
    /\ buffer = None
    /\ buffer' = [region |-> NULL, from |-> 0, size |-> size]
    /\ UNCHANGED <<regions, manager, objects, broken>>

zerocopy_create_for_read(r, size) ==
    LET block == Place(regions[r], size, WordSize)
    IN  /\ buffer = None
        /\ Fits(regions[r], block) /\ BlocksLeft
        /\ regions' = [regions EXCEPT ![r] = Allocated(@, block)]
        /\ buffer' = [region |-> r, from |-> block.from, size |-> size]
        /\ UNCHANGED <<manager, objects, broken>>

zerocopy_destroy ==
    /\ buffer # None
    /\ buffer' = None
    /\ UNCHANGED <<regions, manager, objects, broken>>

\* The string and its characters are one block of the region, if there is room
\* for them; the buffer is gone in either case.  Its data are in a region that
\* is still there.
region_finish_io(r) ==
    LET block == Place(regions[r], StringSize + buffer.size + 1, WordSize)
    IN  /\ buffer # None /\ buffer.region \in DOMAIN regions \cup {NULL}
        /\ BlocksLeft /\ Len(regions[r].tracked) < MaxTracked
        /\ regions' = IF ~Fits(regions[r], block) THEN regions
                      ELSE [regions EXCEPT ![r] =
                              [Allocated(@, block) EXCEPT !.tracked = Append(@, Inside)]]
        /\ buffer' = None
        /\ UNCHANGED <<manager, objects, broken>>

Next ==
    /\ ~broken
    /\ \/ \E type \in Types, capacity \in Capacities : region_create(type, capacity)
       \/ \E size \in Sizes : region_prepare_for_io(size) \/ zerocopy_create_external(size)
       \/ \E r \in DOMAIN regions :
             \/ region_destroy(r) \/ region_set_current(r)
             \/ region_freeze(r)
             \/ regions[r].state = "frozen" /\ region_unfreeze(r)
             \/ region_finish_io(r)
             \/ \E size \in Sizes : zerocopy_create_for_read(r, size)
             \/ \E size \in Sizes, a \in Alignments : region_alloc_aligned(r, size, a)
             \/ \E o \in Objects : region_track_value(r, o)
       \/ \E type \in Types \cup {"temporary"} : region_destroy_all(type)
       \/ zerocopy_destroy
       \/ \E o \in Objects : ObjectMade(o) \/ value_release(o)

Spec == Init /\ [][Next]_vars

----------------------------------------------------------------------------
(* Properties                                                              *)

\* Regions, counts and statistics are of their types.
TypeOK ==
    /\ DOMAIN regions \subseteq 1 .. MaxRegions
    /\ \A r \in DOMAIN regions :
          /\ regions[r] \in MemoryRegion
          /\ regions[r].size <= regions[r].peak_size
    /\ refs \in [Objects -> Nat] /\ held \subseteq Objects
    /\ buffer \in ZeroCopyBuffer /\ broken \in BOOLEAN

\* The blocks of a region lie behind one another, aligned as they were asked
\* for and inside its capacity: no two callers are given the same memory.
BlocksAreDisjoint ==
    \A r \in DOMAIN regions :
        LET blocks == regions[r].blocks
        IN  \A i \in DOMAIN blocks :
               /\ blocks[i].from % blocks[i].alignment = 0
               /\ blocks[i].to <= regions[r].capacity
               /\ i > 1 => blocks[i - 1].to <= blocks[i].from

\* The list holds the regions that are not destroyed, newest first, linked
\* both ways, and the manager's counts are theirs, in whatever order regions
\* come and go.
RegionListIsSound ==
    /\ first = NULL <=> DOMAIN regions = {}
    /\ first # NULL => first \in DOMAIN regions /\ regions[first].prev = NULL
    /\ \A r \in DOMAIN regions :
          /\ regions[r].next = IF \E s \in DOMAIN regions : s < r
                               THEN CHOOSE s \in DOMAIN regions :
                                      s < r /\ \A q \in DOMAIN regions : q < r => q <= s
                               ELSE NULL
          /\ regions[r].next # NULL => regions[regions[r].next].prev = r
    /\ active_regions = Cardinality(DOMAIN regions)
    /\ total_allocated = TotalCapacity(regions)

\* A region keeps the values it tracks alive, whatever the program does with
\* its own references, as long as no value is tracked twice.  (A value two
\* regions track, or one region twice, is freed by each of them; and whatever
\* reference the program still has when the region goes is left dangling.)
TrackedIsAlive ==
    \A r \in DOMAIN regions :
        \A i \in DOMAIN regions[r].tracked :
            LET o == regions[r].tracked[i]
            IN  o # Inside /\ trackings[o] = 1 => refs[o] > 0

=============================================================================
