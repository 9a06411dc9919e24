----------------------------- MODULE Containers -----------------------------
(***************************************************************************)
(* The list and the dictionary of the API (drmaa2-list.c, drmaa2-dict.c),   *)
(* as the cells and pointers they are made of: one list and one dictionary  *)
(* that take their cells from the same heap.  A value is a string its       *)
(* caller hands over; a container created with a callback releases it.      *)
(***************************************************************************)
EXTENDS Integers, Sequences, FiniteSets

CONSTANTS Key, Value,
          Cell,  \* addresses malloc has for cells
          None   \* the NULL pointer

ASSUME ContainersAssumption == /\ Cell \subseteq Nat /\ IsFiniteSet(Cell)
                               /\ None \notin Cell \union Key \union Value
                               /\ Key \intersect Value = {}
\* The NULL pointer is not a container either.
ASSUME NoneIsNoContainer ==
    /\ None \notin [head : Cell \union {None}, size : Nat, frees : BOOLEAN]
    /\ None \notin [head : Cell \union {None}, frees : BOOLEAN]
    /\ \A n \in 0 .. Cardinality(Cell) : None \notin [1 .. n -> Key \union Value]
    /\ \A keys \in SUBSET Key : None \notin [keys -> Value]

VARIABLES
    next, key, value,  \* the members of each cell (a list's cell has no key)
    live,              \* the cells that are allocated
    list,              \* the list: head, size, and whether it has a callback
    dict,              \* the dictionary: head, and whether it has a callback
    released,          \* values that were given to free
    running            \* FALSE once the program has done something undefined

cells == <<next, key, value, live>>
vars  == <<cells, list, dict, released, running>>

\* The cells from a head on along the pointers nx, in order.  One step more than there
\* are cells shows a cycle.
Chain(nx, head) ==
    LET at[k \in 0 .. Cardinality(Cell)] ==
            IF k = 0 THEN head ELSE IF at[k - 1] = None THEN None ELSE nx[at[k - 1]]
    IN  [k \in 1 .. Cardinality({j \in DOMAIN at : at[j] # None}) |-> at[k - 1]]

ListCells == IF list = None THEN <<>> ELSE Chain(next, list.head)
DictCells == IF dict = None THEN <<>> ELSE Chain(next, dict.head)
CellsOf(chain) == {chain[i] : i \in DOMAIN chain}
ValuesOf(chain) == {value[n] : n \in CellsOf(chain)}
Held == ValuesOf(ListCells) \union ValuesOf(DictCells)

\* The cell of a key, or None.
Find(k) ==
    LET at == {i \in DOMAIN DictCells : key[DictCells[i]] = k}
    IN  IF at = {} THEN None ELSE DictCells[CHOOSE i \in at : \A j \in at : i <= j]

\* The cell before n in the dictionary: prev of the loops.
Before(n) == CHOOSE m \in CellsOf(DictCells) : next[m] = n

\* malloc of the next cell.
Fresh == CHOOSE n \in Cell \ live : \A m \in Cell \ live : n <= m

Init ==
    /\ next = [n \in Cell |-> None]
    /\ key = [n \in Cell |-> None]
    /\ value = [n \in Cell |-> None]
    /\ live = {}
    /\ list = None /\ dict = None
    /\ released = {}
    /\ running = TRUE

\* The cell n is given its members and joins the chain after prev, or as its head.
Link(n, k, v, prev) ==
    /\ live' = live \union {n}
    /\ key' = [key EXCEPT ![n] = k]
    /\ value' = [value EXCEPT ![n] = v]
    /\ next' = [m \in Cell |-> IF m = n THEN None ELSE IF m = prev THEN n ELSE next[m]]

---------------------------------------------------------------------------
(* The list.                                                                *)

ListCreate(frees) ==
    /\ list = None
    /\ list' = [head |-> None, size |-> 0, frees |-> frees]
    /\ UNCHANGED <<cells, dict, released, running>>

\* Faulty variant: the walk to the end is left out, and the new cell put in front.
ListAddFirst(v) ==
    /\ list # None /\ live # Cell /\ v \notin Held \union released
    /\ live' = live \union {Fresh}
    /\ key' = key /\ value' = [value EXCEPT ![Fresh] = v]
    /\ next' = [next EXCEPT ![Fresh] = list.head]
    /\ list' = [list EXCEPT !.head = Fresh, !.size = @ + 1]
    /\ UNCHANGED <<dict, released, running>>

\* A value is handed over by its owner, so it is in no container, and not freed.
ListAdd(v) ==
    /\ list # None /\ live # Cell /\ v \notin Held \union released
    /\ LET n == Fresh
       IN  IF list.head = None
           THEN /\ Link(n, None, v, None)
                /\ list' = [list EXCEPT !.head = n, !.size = @ + 1]
           ELSE /\ Link(n, None, v, ListCells[Len(ListCells)])
                /\ list' = [list EXCEPT !.size = @ + 1]
    /\ UNCHANGED <<dict, released, running>>

\* free of cells.  What they held is gone: nothing may be read from them.
Free(gone) ==
    /\ live' = live \ gone
    /\ key' = [n \in Cell |-> IF n \in gone THEN None ELSE key[n]]
    /\ value' = [n \in Cell |-> IF n \in gone THEN None ELSE value[n]]

\* The next pointers, with prev's (if there is a prev) led past the cell n.
Bypass(n, prev) == [m \in Cell |-> IF m = n THEN None ELSE IF m = prev THEN next[n] ELSE next[m]]
Cleared(gone) == [m \in Cell |-> IF m \in gone THEN None ELSE next[m]]

\* The cell goes.  free_entry is given the value where it expects the address of
\* the value: it frees whatever the value's own bytes point to.
Unlink(n, prev) ==
    /\ Free({n})
    /\ next' = Bypass(n, prev)
    /\ running' = ~list.frees
    /\ UNCHANGED <<dict, released>>

\* Faulty variant: the predecessor is looked for one step too far.
ListDelNextOne(pos) ==
    /\ list # None /\ pos \in 0 .. list.size - 1
    /\ IF pos = 0
       THEN /\ list' = [list EXCEPT !.head = next[list.head], !.size = @ - 1]
            /\ Unlink(list.head, None)
       ELSE LET prev == ListCells[IF pos + 1 < list.size THEN pos + 1 ELSE pos]
            IN  /\ list' = [list EXCEPT !.size = @ - 1]
                /\ Unlink(next[prev], prev)

\* Faulty variant: the size is left when the first entry goes.
ListDelSizeKept(pos) ==
    /\ list # None /\ pos \in 0 .. list.size - 1
    /\ IF pos = 0
       THEN list' = [list EXCEPT !.head = next[list.head]] /\ Unlink(list.head, None)
       ELSE LET prev == ListCells[pos]
            IN  list' = [list EXCEPT !.size = @ - 1] /\ Unlink(next[prev], prev)

\* list_del finds the predecessor by walking pos - 1 steps from the head; a position
\* outside 0 .. size - 1 is refused.
ListDel(pos) ==
    /\ list # None /\ pos \in 0 .. list.size - 1
    /\ IF pos = 0
       THEN /\ list' = [list EXCEPT !.head = next[list.head], !.size = @ - 1]
            /\ Unlink(list.head, None)
       ELSE LET prev == ListCells[pos]
            IN  /\ list' = [list EXCEPT !.size = @ - 1]
                /\ Unlink(next[prev], prev)

\* Every cell, and every value if there is a callback; a copy of a key
\* (drmaa2_dict_list) is not one of the values that are followed.
FreeList(gone) ==
    /\ list # None
    /\ Free(gone)
    /\ next' = Cleared(gone)
    /\ released' = released \union
          IF list.frees THEN {value[n] : n \in gone} \intersect Value ELSE {}
    /\ list' = None
    /\ UNCHANGED <<dict, running>>

\* Faulty variant: the walk stops at the last cell instead of behind it.
ListFreeButLast == FreeList({n \in CellsOf(ListCells) : next[n] # None})

ListFree == FreeList(CellsOf(ListCells))

ListGet(pos) == IF pos < 0 \/ pos >= list.size THEN None ELSE value[ListCells[pos + 1]]

---------------------------------------------------------------------------
(* The dictionary.                                                          *)

DictCreate(frees) ==
    /\ dict = None
    /\ dict' = [head |-> None, frees |-> frees]
    /\ UNCHANGED <<cells, list, released, running>>

\* A new key is appended, behind the cell the walk ended with.
Extend(k, v) ==
    /\ live # Cell
    /\ IF dict.head = None
       THEN Link(Fresh, k, v, None) /\ dict' = [dict EXCEPT !.head = Fresh]
       ELSE Link(Fresh, k, v, DictCells[Len(DictCells)]) /\ UNCHANGED dict
    /\ UNCHANGED released

\* Faulty variant: the new value takes its place before the old one is freed.
DictSetReleasingNew(k, v) ==
    /\ dict # None /\ v \notin Held \union released
    /\ IF Find(k) = None
       THEN Extend(k, v)
       ELSE /\ value' = [value EXCEPT ![Find(k)] = v]
            /\ released' = IF dict.frees THEN released \union {v} ELSE released
            /\ UNCHANGED <<next, key, live, dict>>
    /\ UNCHANGED <<list, running>>

DictSet(k, v) ==
    /\ dict # None /\ v \notin Held \union released
    /\ IF Find(k) = None
       THEN Extend(k, v)
       ELSE /\ value' = [value EXCEPT ![Find(k)] = v]
            /\ released' = IF dict.frees THEN released \union {value[Find(k)]} ELSE released
            /\ UNCHANGED <<next, key, live, dict>>
    /\ UNCHANGED <<list, running>>

\* Faulty variant: the head is not moved on.
DictDelHeadKept(k) ==
    /\ dict # None /\ Find(k) # None
    /\ Free({Find(k)})
    /\ next' = Bypass(Find(k), IF Find(k) = dict.head THEN None ELSE Before(Find(k)))
    /\ released' = IF dict.frees THEN released \union {value[Find(k)]} ELSE released
    /\ UNCHANGED <<dict, list, running>>

\* Faulty variant: the callback is given the value for the key and the key for the value.
DictDelSwapped(k) ==
    /\ dict # None /\ Find(k) # None
    /\ LET n == Find(k)
       IN  /\ Free({n})
           /\ IF n = dict.head
              THEN next' = Bypass(n, None) /\ dict' = [dict EXCEPT !.head = next[n]]
              ELSE next' = Bypass(n, Before(n)) /\ UNCHANGED dict
           /\ released' = IF dict.frees THEN released \union {key[n]} ELSE released
    /\ UNCHANGED <<list, running>>

\* The cell is taken out behind prev, or at the head; both its strings are released.
DictDel(k) ==
    /\ dict # None /\ Find(k) # None
    /\ LET n == Find(k)
       IN  /\ Free({n})
           /\ IF n = dict.head
              THEN next' = Bypass(n, None) /\ dict' = [dict EXCEPT !.head = next[n]]
              ELSE next' = Bypass(n, Before(n)) /\ UNCHANGED dict
           /\ released' = IF dict.frees THEN released \union {value[n]} ELSE released
    /\ UNCHANGED <<list, running>>

DictFree ==
    /\ dict # None
    /\ Free(CellsOf(DictCells))
    /\ next' = Cleared(CellsOf(DictCells))
    /\ released' = released \union IF dict.frees THEN ValuesOf(DictCells) ELSE {}
    /\ dict' = None
    /\ UNCHANGED <<list, running>>

DictGet(k) == IF Find(k) = None THEN None ELSE value[Find(k)]

\* A list of copies of the keys, with the string callback: one list_add per cell.
DictList ==
    /\ dict # None /\ list = None
    /\ Cardinality(Cell \ live) >= Len(DictCells)
    /\ \E new \in [1 .. Len(DictCells) -> Cell \ live] :
          /\ \A i, j \in DOMAIN new : i < j => new[i] < new[j]
          /\ live' = live \union CellsOf(new)
          /\ next' = [n \in Cell |->
                IF \E i \in DOMAIN new : new[i] = n
                THEN LET i == CHOOSE i \in DOMAIN new : new[i] = n
                     IN  IF i = Len(new) THEN None ELSE new[i + 1]
                ELSE next[n]]
          /\ value' = [n \in Cell |->
                IF n \in CellsOf(new) THEN key[DictCells[CHOOSE i \in DOMAIN new : new[i] = n]]
                ELSE value[n]]
          /\ key' = [n \in Cell |-> IF n \in CellsOf(new) THEN None ELSE key[n]]
          /\ list' = [head |-> IF new = <<>> THEN None ELSE new[1],
                      size |-> Len(new), frees |-> TRUE]
    /\ UNCHANGED <<dict, released, running>>

Next ==
    /\ running
    /\ \/ \E frees \in BOOLEAN : ListCreate(frees) \/ DictCreate(frees)
       \/ \E v \in Value : ListAdd(v) \/ \E k \in Key : DictSet(k, v)
       \/ \E pos \in 0 .. Cardinality(Cell) : ListDel(pos)
       \/ \E k \in Key : DictDel(k)
       \/ ListFree \/ DictFree \/ DictList

Spec == Init /\ [][Next]_vars

---------------------------------------------------------------------------
(* Properties.                                                              *)

TypeOK ==
    /\ next \in [Cell -> Cell \union {None}]
    /\ key \in [Cell -> Key \union {None}]
    /\ value \in [Cell -> Value \union Key \union {None}]
    /\ live \subseteq Cell
    /\ list # None => list.head \in Cell \union {None} /\ list.size \in Nat
    /\ dict # None => dict.head \in Cell \union {None}
    /\ released \subseteq Value

\* No cell is lost, shared or used after free: the allocated cells are exactly
\* those the two chains run through, each once.
CellsAccounted ==
    /\ live = CellsOf(ListCells) \union CellsOf(DictCells)
    /\ Cardinality(live) = Len(ListCells) + Len(DictCells)

\* drmaa2_list_size and the bounds of list_get and list_del: size is the number of
\* cells there are to walk, so that list_get answers for its positions and no other.
SizeIsLength ==
    list # None =>
        /\ list.size = Len(ListCells)
        /\ \A pos \in -1 .. Cardinality(Cell) :
              (ListGet(pos) # None) <=> (pos \in 0 .. Len(ListCells) - 1)

\* A value the callback was given is in no container any more, so that no later
\* list_get or dict_get returns freed memory and no later free releases it again.
NoReleasedEntry == Held \intersect released = {}

\* The pair is a sequence and a partial function.
Items == IF list = None THEN None ELSE [i \in DOMAIN ListCells |-> value[ListCells[i]]]
Entries == IF dict = None THEN None
           ELSE [k \in {key[n] : n \in CellsOf(DictCells)} |-> DictGet(k)]
Contract == INSTANCE ContainersContract WITH items <- Items, entries <- Entries
MeetsContract == Contract!Spec

\* drmaa2_list_del takes out the entry of the position it was given: those before
\* and after it stay, in their order.
DelTakesItsPosition == [][
    \A pos \in 0 .. Cardinality(Cell) : ListDel(pos) =>
        Items' = SubSeq(Items, 1, pos) \o SubSeq(Items, pos + 2, Len(Items)) ]_vars

\* The callback is declared to take the address of the value (drmaa2.h:132): a value
\* taken out of a list that has one is released.
DelReleases == [][
    list # None /\ list.frees =>
        \A v \in ValuesOf(ListCells) \intersect Value :
            v \in ValuesOf(ListCells)' \union released' ]_vars
=============================================================================
