------------------------- MODULE ContainersContract -------------------------
(* What drmaa2.h promises of a list and of a dictionary: a sequence that    *)
(* grows at its end and shrinks anywhere, and a partial function from keys  *)
(* to values.  None stands for a container that does not exist.             *)
EXTENDS Naturals, Sequences, SequencesExt

CONSTANTS Key, Value, None

VARIABLES items,   \* the list's entries in order, or None
          entries  \* the dictionary's values by key, or None

Init == items = None /\ entries = None

ListStep ==
    /\ \/ items = None /\ items' = <<>>
       \/ /\ items # None
          /\ \/ \E v \in Value : items' = Append(items, v)
             \/ \E i \in DOMAIN items : items' = RemoveAt(items, i)
             \/ items' = None
    /\ UNCHANGED entries

\* The keys in any order.
DictList ==
    /\ items = None /\ entries # None
    /\ items' \in SetToSeqs(DOMAIN entries)
    /\ UNCHANGED entries

DictStep ==
    /\ \/ entries = None /\ entries' = [k \in {} |-> None]
       \/ /\ entries # None
          /\ \/ \E k \in Key, v \in Value :
                   entries' = [j \in DOMAIN entries \union {k} |-> IF j = k THEN v ELSE entries[j]]
             \/ \E k \in DOMAIN entries :
                   entries' = [j \in DOMAIN entries \ {k} |-> entries[j]]
             \/ entries' = None
    /\ UNCHANGED items

Spec == Init /\ [][ListStep \/ DictList \/ DictStep]_<<items, entries>>
=============================================================================
