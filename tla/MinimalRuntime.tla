--------------------------- MODULE MinimalRuntime ---------------------------
(***************************************************************************)
(* The runtime for programs without libc (sys/runtime.c): its heap, which  *)
(* only ever grows, the arena for temporaries, and the strings and vectors *)
(* that are kept on the heap.  Memory is counted in cells, and a cell of   *)
(* the heap holds a character.  A page comes from the kernel whenever one  *)
(* is asked for; statistics are left out.                                  *)
(***************************************************************************)
EXTENDS Integers, Sequences, SequencesExt, FiniteSetsExt

CONSTANTS
    HeapInitial,    \* config.heap_initial, in cells
    BlockSize,      \* of the temporary arena: 64 K
    ArenaHeader,    \* sizeof(Arena)
    BlockHeader,    \* sizeof(ArenaBlock)
    Alignment,      \* what rt_alloc aligns to: 8
    StringInitial,  \* the first capacity of a string: 16
    VecInitial,     \* the first capacity of a vector: 8
    ElemSize,       \* of the vector
    Chars,          \* what a cell may hold besides Nul
    Temporaries,    \* the sizes of temporary allocations asked for
    MaxBlocks       \* bound: blocks of the arena

VARIABLES
    status,         \* "off", "running", "panicked", or "fault": a write where nothing is
    panic_on_oom,
    offset, cells,  \* of the heap; address n is cell n, and NULL is 0
    string, vec,    \* a String and a Vec, [ptr, len, cap]
    str,            \* a Str, [ptr, len], that was taken of the string
    text, elems, borrowed,  \* history: what the three should hold
    blocks,         \* of the arena: [size, used, taken], taken being what was given out
    mapped          \* cells the process has from the kernel

heapVars  == <<offset, cells>>
valueVars == <<string, vec, str, text, elems, borrowed>>
arenaVars == <<blocks, mapped>>
vars == <<status, panic_on_oom, heapVars, valueVars, arenaVars>>

NULL  == 0
Nul   == "nul"
Fresh == "fresh"        \* a cell that was never allocated
Empty == [ptr |-> NULL, len |-> 0, cap |-> 0]
Slice == [ptr |-> NULL, len |-> 0]
NewBlock(size) == [size |-> size - BlockHeader, used |-> 0, taken |-> << >>]

----------------------------------------------------------------------------
(* The heap.                                                               *)

align_up(n, align) == ((n + align - 1) \div align) * align

bump_alloc(size) ==
    LET from == align_up(offset, Alignment) IN
    IF from + size > HeapInitial THEN [ptr |-> NULL, offset |-> offset, cells |-> cells]
    ELSE [ptr |-> from + 1, offset |-> from + size,
          cells |-> [a \in DOMAIN cells |->
                        IF a \in from + 1 .. from + size THEN Nul ELSE cells[a]]]

\* memcpy of a sequence of cells; at NULL or past the heap nothing is there.
Fits(ptr, data)       == data = << >> \/ (ptr # NULL /\ ptr + Len(data) - 1 <= HeapInitial)
Copied(mem, ptr, data) ==
    [a \in DOMAIN mem |-> IF a \in ptr .. ptr + Len(data) - 1 THEN data[a - ptr + 1] ELSE mem[a]]
Read(mem, ptr, len)   == [k \in 1 .. len |-> mem[ptr + k - 1]]

\* What happens when `got` is the allocation and `data` is written to it from
\* the address `at` on.
Write(got, at, data) ==
    /\ offset' = got.offset
    /\ IF got.ptr = NULL /\ panic_on_oom THEN status' = "panicked" /\ cells' = got.cells
       ELSE IF ~Fits(at, data) THEN status' = "fault" /\ cells' = got.cells
       ELSE status' = status /\ cells' = Copied(got.cells, at, data)

\* Nothing is allocated when the memory there is does.
Kept(ptr) == [ptr |-> ptr, offset |-> offset, cells |-> cells]

----------------------------------------------------------------------------
(* Strings.                                                                *)

Unchanging == <<panic_on_oom, arenaVars>>

NewString(s, t) == string' = s /\ text' = t /\ UNCHANGED <<vec, str, elems, borrowed, Unchanging>>

string_from(s) ==
    LET got == bump_alloc(Len(s) + 1) IN
    /\ Write(got, got.ptr, Append(s, Nul))
    /\ NewString([ptr |-> got.ptr, len |-> Len(s), cap |-> Len(s) + 1], s)

\* Of capacity 0 it writes its NUL where the next allocation will be, or past
\* the heap if that is used up.
string_with_capacity(cap) ==
    LET got == bump_alloc(cap) IN
    /\ Write(got, got.ptr, IF got.ptr = NULL THEN << >> ELSE <<Nul>>)
    /\ NewString([ptr |-> got.ptr, len |-> 0, cap |-> cap], << >>)

string_drop == NewString(Empty, << >>) /\ UNCHANGED <<status, heapVars>>

string_as_str ==
    /\ str' = [ptr |-> string.ptr, len |-> string.len] /\ borrowed' = text
    /\ UNCHANGED <<status, string, vec, text, elems, heapVars, Unchanging>>

\* The string with the cells of `data` behind its own, in its memory or, when
\* that is too small, in memory of a new capacity.
Extended(data, cap) ==
    LET grown == cap > string.cap
        got   == IF grown THEN bump_alloc(cap) ELSE Kept(string.ptr)
        old   == IF string.ptr = NULL THEN << >> ELSE Read(cells, string.ptr, string.len)
        all   == old \o data
    IN  /\ IF grown THEN Write(got, got.ptr, Append(all, Nul))
           ELSE Write(got, string.ptr + string.len, Append(data, Nul))
        /\ NewString([ptr |-> got.ptr, len |-> string.len + Len(data), cap |-> cap], text \o data)

StrCapacity(extra) ==
    IF string.len + extra + 1 <= string.cap THEN string.cap
    ELSE Max({2 * string.cap, string.len + extra + 1})

\* Of a literal, or of a Str, which may be one of the string itself.
string_push_str(other) == Extended(other, StrCapacity(Len(other)))

PushCapacity ==
    IF string.len + 2 <= string.cap THEN string.cap
    ELSE IF string.cap # 0 THEN 2 * string.cap ELSE StringInitial

string_push(c) == Extended(<<c>>, PushCapacity)

----------------------------------------------------------------------------
(* Vectors.                                                                *)

NewVec(v, e) == vec' = v /\ elems' = e /\ UNCHANGED <<string, str, text, borrowed, Unchanging>>

vec_with_capacity(cap) ==
    LET got == bump_alloc(ElemSize * cap) IN
    /\ Write(got, got.ptr, << >>)
    /\ NewVec([ptr |-> got.ptr, len |-> 0, cap |-> cap], << >>)

Element(e) == [k \in 1 .. ElemSize |-> e]

vec_push(e) ==
    LET grown == vec.len >= vec.cap
        cap   == IF ~grown THEN vec.cap ELSE IF vec.cap # 0 THEN 2 * vec.cap ELSE VecInitial
        got   == IF grown THEN bump_alloc(ElemSize * cap) ELSE Kept(vec.ptr)
        old   == IF grown /\ vec.ptr # NULL THEN Read(cells, vec.ptr, ElemSize * vec.len) ELSE << >>
    IN  /\ IF grown THEN Write(got, got.ptr, old \o Element(e))
           ELSE Write(got, IF vec.ptr = NULL THEN NULL ELSE vec.ptr + ElemSize * vec.len,
                      Element(e))
        /\ NewVec([ptr |-> got.ptr, len |-> vec.len + 1, cap |-> cap], Append(elems, e))

vec_pop ==
    /\ vec.len # 0
    /\ NewVec([vec EXCEPT !.len = @ - 1], Front(elems)) /\ UNCHANGED <<status, heapVars>>

vec_clear == NewVec([vec EXCEPT !.len = 0], << >>) /\ UNCHANGED <<status, heapVars>>
vec_drop  == NewVec(Empty, << >>) /\ UNCHANGED <<status, heapVars>>

----------------------------------------------------------------------------
(* The arena.  The current block is the last.                              *)

Current == Len(blocks)
Given(block, from, size) ==
    [block EXCEPT !.used = from + size, !.taken = Append(@, [from |-> from, to |-> from + size])]

SizeFor(size) == Max({BlockSize, size + BlockHeader})

\* A new block starts with the allocation, whatever alignment it wants.
rt_arena_alloc(size, align) ==
    LET from == align_up(blocks[Current].used, align) IN
    /\ IF from + size <= blocks[Current].size
       THEN blocks' = [blocks EXCEPT ![Current] = Given(@, from, size)] /\ UNCHANGED mapped
       ELSE /\ Current < MaxBlocks
            /\ blocks' = Append(blocks, Given(NewBlock(SizeFor(size)), 0, size))
            /\ mapped' = mapped + SizeFor(size)
    /\ UNCHANGED <<status, panic_on_oom, heapVars, valueVars>>

\* free_pages of every block but the first.
Freed == MapThenSumSet(LAMBDA b : blocks[b].size + BlockHeader, 2 .. Len(blocks))

rt_arena_reset ==
    /\ blocks' = <<[blocks[1] EXCEPT !.used = 0, !.taken = << >>]>>
    /\ mapped' = mapped - Freed
    /\ UNCHANGED <<status, panic_on_oom, heapVars, valueVars>>

----------------------------------------------------------------------------
(* The runtime.                                                            *)

Values0 ==
    /\ string = Empty /\ vec = Empty /\ str = Slice
    /\ text = << >> /\ elems = << >> /\ borrowed = << >>

Init ==
    /\ status = "off" /\ panic_on_oom = TRUE
    /\ offset = 0 /\ cells = [a \in 1 .. HeapInitial |-> Fresh]
    /\ Values0 /\ blocks = << >> /\ mapped = 0

rt_init(panics) ==
    /\ status = "off"
    /\ status' = "running" /\ panic_on_oom' = panics
    /\ blocks' = <<NewBlock(BlockSize)>>
    /\ mapped' = mapped + HeapInitial + ArenaHeader + BlockSize
    /\ offset' = 0 /\ cells' = [a \in 1 .. HeapInitial |-> Fresh]
    /\ UNCHANGED valueVars

\* What the program still holds is of no use any more.
rt_shutdown ==
    /\ mapped' = mapped - Freed - (ArenaHeader + BlockSize) - HeapInitial
    /\ status' = "off" /\ blocks' = << >>
    /\ string' = Empty /\ vec' = Empty /\ str' = Slice
    /\ text' = << >> /\ elems' = << >> /\ borrowed' = << >>
    /\ UNCHANGED <<panic_on_oom, heapVars>>

OnStrings ==
    \/ \E c \in Chars : string_from(<<c>>) \/ string_push(c)
    \/ \E cap \in 0 .. StringInitial : string_with_capacity(cap)
    \/ string_drop \/ string_as_str
    \/ string_push_str(Read(cells, str.ptr, str.len))

OnVectors ==
    \/ vec_with_capacity(1) \/ vec_pop \/ vec_clear \/ vec_drop
    \/ \E e \in Chars : vec_push(e)

OnArena ==
    \/ \E size \in Temporaries, align \in {1, Alignment} : rt_arena_alloc(size, align)
    \/ rt_arena_reset

Next ==
    \/ \E panics \in BOOLEAN : rt_init(panics)
    \/ status = "running" /\ (OnStrings \/ OnVectors \/ OnArena \/ rt_shutdown)

Spec == Init /\ [][Next]_vars

----------------------------------------------------------------------------
(* Properties.                                                             *)

\* Every variable holds a value of its C type.
TypeOK ==
    /\ status \in {"off", "running", "panicked", "fault"} /\ panic_on_oom \in BOOLEAN
    /\ offset \in 0 .. HeapInitial /\ cells \in [1 .. HeapInitial -> Chars \cup {Nul, Fresh}]
    /\ {string.ptr, vec.ptr, str.ptr} \subseteq 0 .. HeapInitial + 1
    /\ Len(blocks) <= MaxBlocks /\ mapped \in Nat

\* A string, a vector and a Str hold what was put into them, also after the
\* memory of one has moved or another was written: a Str survives the growth
\* and the end of the string it was taken of (sys/runtime.c:229-350).
ContentsAreKept ==
    status = "running" =>
        /\ string.len = Len(text) /\ Read(cells, string.ptr, string.len) = text
        /\ str.len = Len(borrowed) /\ Read(cells, str.ptr, str.len) = borrowed
        /\ vec.len = Len(elems)
        /\ Read(cells, vec.ptr, ElemSize * vec.len)
             = FlattenSeq([k \in DOMAIN elems |-> Element(elems[k])])

\* A string has room for its NUL, unless it was asked for with none, and its
\* memory, that of the vector and the free part of the heap do not overlap
\* (sys/runtime.c:88-109, 242-249, 270-344).
Extent(v, size) == IF v.ptr = NULL THEN {} ELSE v.ptr .. v.ptr + v.cap * size - 1

CapacitiesAreKept ==
    status = "running" =>
        /\ string.ptr # NULL => string.len < Max({string.cap, 1})
        /\ vec.len <= vec.cap
        /\ Extent(string, 1) \cap Extent(vec, ElemSize) = {}
        /\ Extent(string, 1) \cup Extent(vec, ElemSize) \subseteq 1 .. offset

\* The program writes where nothing is only when it is told to go on without
\* memory, or for the NUL of a string of capacity 0 when the heap is used up to
\* its last cell (sys/runtime.c:91-96, 247).
FaultsNeedPermission ==
    status = "fault" => ~panic_on_oom \/ (string.cap = 0 /\ offset = HeapInitial)

\* What the arena has given out since its last reset lies in its blocks and
\* overlaps nowhere (sys/runtime.c:140-183).
TemporariesAreDisjoint ==
    \A b \in DOMAIN blocks : LET taken == blocks[b].taken IN
        /\ \A k \in DOMAIN taken : taken[k].to <= blocks[b].used
        /\ \A k, l \in DOMAIN taken : k < l => taken[k].to <= taken[l].from
        /\ blocks[b].used <= blocks[b].size

\* The memory the process has is that of the heap and of the blocks of the
\* arena; a shutdown gives back all of it (sys/runtime.c:43-55, 185-215).
PagesAreGivenBack ==
    mapped = IF blocks = << >> THEN 0
             ELSE HeapInitial + ArenaHeader
                    + MapThenSumSet(LAMBDA b : blocks[b].size + BlockHeader, DOMAIN blocks)
=============================================================================
