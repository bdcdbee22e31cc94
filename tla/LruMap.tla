------------------------------- MODULE LruMap -------------------------------
(***************************************************************************)
(* A BPF_MAP_TYPE_LRU_HASH map as the hooks and the agent use it.          *)
(*                                                                         *)
(* The map is a total function from Keys to entries; an absent key maps to *)
(* None.  Keys are numbered in the order in which the kernel's iteration   *)
(* visits them.  The kernel's hash table and the map iterator of the       *)
(* cilium/ebpf library are not part of this repository: what is written    *)
(* here is the behaviour that bpf/networkdoctor.bpf.c and                  *)
(* internal/bpf/gc.go rely on.                                             *)
(***************************************************************************)
EXTENDS Naturals, FiniteSets

CONSTANTS
  Keys,        \* the keys that can occur, in iteration order
  None,        \* marks an absent key
  MaxEntries   \* max_entries of the map: 131072 in the source

ASSUME KeysAssumption == Keys \subseteq Nat \ {0}
ASSUME MaxEntriesAssumption == MaxEntries \in Nat \ {0}

EmptyMap == [k \in Keys |-> None]

Present(m) == {k \in Keys : m[k] # None}

(***************************************************************************)
(* bpf_map_update_elem(m, k, v, BPF_ANY): the possible results.  A key     *)
(* that is already there is overwritten; a new key in a full map costs     *)
(* some other entry its place, and which one is the kernel's choice; an    *)
(* update that finds no free node or a busy bucket lock changes nothing.   *)
(***************************************************************************)
LruUpdate(m, k, v) ==
  {m} \cup IF m[k] # None \/ Cardinality(Present(m)) < MaxEntries
             THEN {[m EXCEPT ![k] = v]}
             ELSE {[m EXCEPT ![k] = v, ![e] = None] : e \in Present(m)}

LruWithout(m, k) == [m EXCEPT ![k] = None]

(* bpf_map_delete_elem(m, k), whose result the hooks ignore: the entry     *)
(* goes, or stays because its bucket's lock was busy.                      *)
LruDelete(m, k) == {m, LruWithout(m, k)}

(***************************************************************************)
(* What is still ahead of an iterator standing on `cursor' (0: not begun). *)
(* A cursor whose key has been deleted makes the kernel start over.        *)
(***************************************************************************)
Ahead(m, cursor) ==
  IF cursor \in Present(m) THEN {k \in Present(m) : k > cursor} ELSE Present(m)

IsNextKey(m, cursor, k) ==
  k \in Ahead(m, cursor) /\ \A j \in Ahead(m, cursor) : k <= j
=============================================================================
