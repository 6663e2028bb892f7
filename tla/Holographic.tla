----------------------------- MODULE Holographic -----------------------------
(***************************************************************************)
(* core/memory/holographic.c: the distributed machine (DVM), a table per   *)
(* node of the objects the node has registered, and the manager of         *)
(* persistent memory (PMEM), which keeps reactive variables and the ids of *)
(* snapshots of the snapshot manager (core/vm/snapshot.c; the module       *)
(* Snapshots has what a snapshot holds, this one the list of them).        *)
(* Each node is a process of its own, so that its addresses are counted    *)
(* from 1.  The network is the callbacks of an embedder, none of which is  *)
(* set in the repository: a request for a loan stays pending, no object is *)
(* ever lent or borrowed, and the cache of remote objects and the versions *)
(* of objects stay as they began.                                          *)
(***************************************************************************)
EXTENDS Integers, Sequences, SequencesExt, FiniteSets

CONSTANTS
    Nodes, NoNode,
    Variables,      \* the reactive nodes that may be made persistent
    max_snapshots,  \* of the snapshot manager, 100 in the code
    MaxObjects, MaxRequests, MaxRegistered, MaxSnapshots, MaxSaves      \* bounds

VARIABLES
    running,            \* the nodes that have their DistributedVM
    next_local_addr,    \* of each node: static, it outlives the machines
    ownership_table,    \* of each node: a sequence of DistributedOwnershipInfo
    pending_requests,   \* of each node: a sequence of BorrowRequest
    transfers,          \* of each node: ownership_transfers
    status,             \* "none" without a manager, else config.is_mapped: "mapped", "unmapped"
    mappings,           \* external: what the process has mapped of the device
    persistent_vars,    \* a sequence of [node, saved, is_dirty], saved: last_saved_ns # 0
    persistent_snapshots,
    counts,             \* [saves, restores]
    snapshot_mgr        \* the list of the snapshot manager, its current and next_id

dvmVars  == <<running, next_local_addr, ownership_table, pending_requests, transfers>>
pmemVars == <<status, mappings, persistent_vars, persistent_snapshots, counts, snapshot_mgr>>
holographicVars == <<dvmVars, pmemVars>>

\* The global id is a hash of the two and tells no more.
GlobalAddress == [node_id : Nodes, local_addr : 1 .. MaxObjects]
States == {"local", "remote", "borrowed_remote", "borrowed_from", "persistent"}

Init ==
    /\ running = {} /\ next_local_addr = [n \in Nodes |-> 1]
    /\ ownership_table = [n \in Nodes |-> << >>]
    /\ pending_requests = [n \in Nodes |-> << >>]
    /\ transfers = [n \in Nodes |-> 0]
    /\ status = "none" /\ mappings = 0
    /\ persistent_vars = << >> /\ persistent_snapshots = << >>
    /\ counts = [saves |-> 0, restores |-> 0]
    /\ snapshot_mgr = [list |-> << >>, current |-> 0, next_id |-> 1]

----------------------------------------------------------------------------
(* The distributed machine of node n.                                      *)

dvm_init(n) ==
    /\ n \notin running
    /\ running' = running \cup {n}
    /\ UNCHANGED <<next_local_addr, ownership_table, pending_requests, transfers, pmemVars>>

\* What the table knew is forgotten, and nobody is told.
dvm_destroy(n) ==
    /\ n \in running
    /\ running' = running \ {n}
    /\ ownership_table' = [ownership_table EXCEPT ![n] = << >>]
    /\ pending_requests' = [pending_requests EXCEPT ![n] = << >>]
    /\ transfers' = [transfers EXCEPT ![n] = 0]
    /\ UNCHANGED <<next_local_addr, pmemVars>>

dvm_register_object(n) ==
    LET info == [address |-> [node_id |-> n, local_addr |-> next_local_addr[n]],
                 state |-> "local", owner_node_id |-> n, borrower_node_id |-> NoNode,
                 is_mutable |-> TRUE]
    IN  /\ n \in running /\ next_local_addr[n] <= MaxObjects
        /\ next_local_addr' = [next_local_addr EXCEPT ![n] = @ + 1]
        /\ ownership_table' = [ownership_table EXCEPT ![n] = Append(@, info)]
        /\ UNCHANGED <<running, pending_requests, transfers, pmemVars>>

\* Of an object of another node; nobody takes the request off the list, so that
\* borrow_requests_sent is its length.
dvm_borrow_remote(n, address, type) ==
    /\ n \in running /\ address.node_id # n
    /\ Len(pending_requests[n]) < MaxRequests
    /\ pending_requests' = [pending_requests EXCEPT ![n] = Append(@,
           [address |-> address, type |-> type, requester_node_id |-> n,
            request_id |-> Len(@), granted |-> FALSE])]
    /\ UNCHANGED <<running, next_local_addr, ownership_table, transfers, pmemVars>>

Entries(n, address, state) ==
    {i \in DOMAIN ownership_table[n] :
        ownership_table[n][i].address = address /\ ownership_table[n][i].state = state}
IsFirst(i, entries) == i \in entries /\ \A j \in entries : i <= j

\* The first entry that is local.  The target is not told.
dvm_move_to_remote(n, address, target) ==
    \E i \in DOMAIN ownership_table[n] :
        /\ IsFirst(i, Entries(n, address, "local"))
        /\ ownership_table' = [ownership_table EXCEPT
               ![n][i].owner_node_id = target, ![n][i].state = "remote",
               ![n][i].is_mutable = FALSE]
        /\ transfers' = [transfers EXCEPT ![n] = @ + 1]
        /\ UNCHANGED <<running, next_local_addr, pending_requests, pmemVars>>

\* The first entry that is borrowed counts as the node's own afterwards; the
\* call fails when there is none.
dvm_return_borrowed(n, address) ==
    LET borrowed == Entries(n, address, "borrowed_from")
    IN  /\ n \in running
        /\ ownership_table' = [ownership_table EXCEPT ![n] =
               [i \in DOMAIN @ |->
                   IF IsFirst(i, borrowed) THEN [@[i] EXCEPT !.state = "local"] ELSE @[i]]]
        /\ UNCHANGED <<running, next_local_addr, pending_requests, transfers, pmemVars>>

\* The first entry of the address, whatever its state.
dvm_get_ownership(n, address) ==
    {ownership_table[n][i] : i \in {i \in DOMAIN ownership_table[n] :
        IsFirst(i, {j \in DOMAIN ownership_table[n] : ownership_table[n][j].address = address})}}

dvm_can_modify(n, address) ==
    \E info \in dvm_get_ownership(n, address) :
        info.state \in {"local", "borrowed_from"} /\ info.is_mutable /\ info.borrower_node_id = NoNode

----------------------------------------------------------------------------
(* The persistent memory.                                                  *)

pmem_init ==
    /\ status = "none"
    /\ status' = "unmapped"
    /\ UNCHANGED <<dvmVars, mappings, persistent_vars, persistent_snapshots, counts, snapshot_mgr>>

\* The snapshot manager lives on, for the next one.
pmem_destroy ==
    /\ status # "none"
    /\ status' = "none"
    /\ mappings' = IF status = "mapped" THEN mappings - 1 ELSE mappings
    /\ persistent_vars' = << >> /\ persistent_snapshots' = << >>
    /\ counts' = [saves |-> 0, restores |-> 0]
    /\ UNCHANGED <<dvmVars, snapshot_mgr>>

\* Mapping what is mapped already takes a second mapping and forgets the first.
\* A call that cannot open or map the device leaves everything as it is.
pmem_map ==
    /\ status # "none" /\ mappings < 2
    /\ \/ status' = "mapped" /\ mappings' = mappings + 1
       \/ UNCHANGED <<status, mappings>>
    /\ UNCHANGED <<dvmVars, persistent_vars, persistent_snapshots, counts, snapshot_mgr>>

pmem_unmap ==
    /\ status = "mapped"
    /\ status' = "unmapped" /\ mappings' = mappings - 1
    /\ UNCHANGED <<dvmVars, persistent_vars, persistent_snapshots, counts, snapshot_mgr>>

\* A variable may be registered again: nobody looks whether it is there.
pmem_register_reactive(x) ==
    /\ status # "none" /\ Len(persistent_vars) < MaxRegistered
    /\ persistent_vars' = Append(persistent_vars, [node |-> x, saved |-> FALSE, is_dirty |-> TRUE])
    /\ UNCHANGED <<dvmVars, status, mappings, persistent_snapshots, counts, snapshot_mgr>>

First(i) == \A j \in 1 .. i - 1 : persistent_vars[j].node # persistent_vars[i].node

\* Saving a variable saves its first entry.
Saved(nodes) ==
    [i \in DOMAIN persistent_vars |->
        IF First(i) /\ persistent_vars[i].node \in nodes
        THEN [persistent_vars[i] EXCEPT !.saved = TRUE, !.is_dirty = FALSE] ELSE persistent_vars[i]]

pmem_save_reactive(x) ==
    /\ status = "mapped" /\ counts.saves < MaxSaves
    /\ \E i \in DOMAIN persistent_vars : persistent_vars[i].node = x
    /\ persistent_vars' = Saved({x})
    /\ counts' = [counts EXCEPT !.saves = @ + 1]
    /\ UNCHANGED <<dvmVars, status, mappings, persistent_snapshots, snapshot_mgr>>

\* Every entry that is dirty or was saved too long ago saves its variable; as
\* long as nothing is mapped, none is.
pmem_process_auto_save ==
    \E due \in SUBSET DOMAIN persistent_vars :
        LET saving == due \cup {i \in DOMAIN persistent_vars : persistent_vars[i].is_dirty}
        IN  /\ status = "mapped" /\ counts.saves + Cardinality(saving) <= MaxSaves
            /\ persistent_vars' = Saved({persistent_vars[i].node : i \in saving})
            /\ counts' = [counts EXCEPT !.saves = @ + Cardinality(saving)]
            /\ UNCHANGED <<dvmVars, status, mappings, persistent_snapshots, snapshot_mgr>>

\* Nothing is read back yet, of a variable that may not even be there.
pmem_restore_reactive ==
    /\ status = "mapped" /\ counts.restores < MaxSaves
    /\ counts' = [counts EXCEPT !.restores = @ + 1]
    /\ UNCHANGED <<dvmVars, status, mappings, persistent_vars, persistent_snapshots, snapshot_mgr>>

pmem_save_snapshot(id) ==
    /\ status = "mapped" /\ id \in ToSet(snapshot_mgr.list) /\ counts.saves < MaxSaves
    /\ persistent_snapshots' = Append(persistent_snapshots, id)
    /\ counts' = [counts EXCEPT !.saves = @ + 1]
    /\ UNCHANGED <<dvmVars, status, mappings, persistent_vars, snapshot_mgr>>

\* From the snapshot manager, which need not have what was saved any more.
pmem_restore_snapshot(id) ==
    /\ status = "mapped" /\ id \in ToSet(snapshot_mgr.list) /\ counts.restores < MaxSaves
    /\ snapshot_mgr' = [snapshot_mgr EXCEPT !.current = id]
    /\ counts' = [counts EXCEPT !.restores = @ + 1]
    /\ UNCHANGED <<dvmVars, status, mappings, persistent_vars, persistent_snapshots>>

----------------------------------------------------------------------------
(* The snapshot manager, called by others as well.                         *)

\* Behind the current snapshot, whatever followed that; out of the list when the
\* current one is; and the oldest goes when there are too many.
snapshot_create ==
    LET id     == snapshot_mgr.next_id
        behind == {p \in DOMAIN snapshot_mgr.list : snapshot_mgr.list[p] = snapshot_mgr.current}
        list   == IF snapshot_mgr.list = << >> THEN <<id>>
                  ELSE IF behind = {} THEN snapshot_mgr.list
                  ELSE Append(SubSeq(snapshot_mgr.list, 1, CHOOSE p \in behind : TRUE), id)
    IN  /\ id <= MaxSnapshots
        /\ snapshot_mgr' = [list |-> IF Len(list) > max_snapshots THEN Tail(list) ELSE list,
                            current |-> id, next_id |-> id + 1]
        /\ UNCHANGED <<dvmVars, status, mappings, persistent_vars, persistent_snapshots, counts>>

snapshot_destroy ==
    \E p \in DOMAIN snapshot_mgr.list :
        /\ snapshot_mgr' = [snapshot_mgr EXCEPT
               !.list = RemoveAt(@, p),
               !.current = IF @ # snapshot_mgr.list[p] THEN @
                           ELSE IF p = 1 THEN 0 ELSE snapshot_mgr.list[p - 1]]
        /\ UNCHANGED <<dvmVars, status, mappings, persistent_vars, persistent_snapshots, counts>>

Next ==
    \/ \E n \in Nodes : dvm_init(n) \/ dvm_destroy(n) \/ dvm_register_object(n)
    \/ \E n \in Nodes, a \in GlobalAddress, type \in {"read", "write", "move"} :
          dvm_borrow_remote(n, a, type)
    \/ \E n, target \in Nodes, a \in GlobalAddress : dvm_move_to_remote(n, a, target)
    \/ \E n \in Nodes, a \in GlobalAddress : dvm_return_borrowed(n, a)
    \/ pmem_init \/ pmem_destroy \/ pmem_map \/ pmem_unmap
    \/ \E x \in Variables : pmem_register_reactive(x) \/ pmem_save_reactive(x)
    \/ pmem_process_auto_save \/ pmem_restore_reactive
    \/ \E id \in 1 .. MaxSnapshots : pmem_save_snapshot(id) \/ pmem_restore_snapshot(id)
    \/ snapshot_create \/ snapshot_destroy

Spec == Init /\ [][Next]_holographicVars

----------------------------------------------------------------------------
TypeOK ==
    /\ \A n \in Nodes : \A i \in DOMAIN ownership_table[n] :
          /\ ownership_table[n][i].address.node_id = n
          /\ ownership_table[n][i].address.local_addr \in 1 .. next_local_addr[n] - 1
          /\ ownership_table[n][i].state \in States
    /\ status \in {"none", "mapped", "unmapped"} /\ mappings \in Nat
    /\ ToSet(persistent_snapshots) \cup ToSet(snapshot_mgr.list) \subseteq 1 .. snapshot_mgr.next_id - 1
    /\ Len(snapshot_mgr.list) <= max_snapshots

\* An object that is moved away can be modified neither where it was, whatever
\* is called afterwards, nor anywhere else twice: of one object there is at most
\* one node that may modify it, and that is its owner.
WritersAreOwners ==
    \A a \in GlobalAddress :
        LET writers == {n \in Nodes : dvm_can_modify(n, a)}
        IN  /\ Cardinality(writers) <= 1
            /\ \A n \in writers : \A i \in DOMAIN ownership_table[n] :
                  ownership_table[n][i].address = a =>
                      ownership_table[n][i].owner_node_id = n /\ ownership_table[n][i].is_mutable
            /\ \A n \in Nodes : Entries(n, a, "remote") # {} => writers = {}

\* The transfers a node has counted are the objects it no longer has.
TransfersAreCounted ==
    \A n \in Nodes :
        transfers[n] = Cardinality({i \in DOMAIN ownership_table[n] : ownership_table[n][i].state = "remote"})

\* A variable is clean when it has been saved, but only its first entry ever is:
\* the others stay dirty, and every automatic save writes it again.
OnlyFirstEntriesAreSaved ==
    \A i \in DOMAIN persistent_vars :
        /\ persistent_vars[i].is_dirty <=> ~persistent_vars[i].saved
        /\ persistent_vars[i].saved => First(i)

\* What counts as mapped is.
MappedIsMapped == status = "mapped" => mappings > 0
=============================================================================
