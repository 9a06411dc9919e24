---------------------------- MODULE StringLists ----------------------------
(***************************************************************************)
(* The string lists of templates and job arrays as they are kept in a       *)
(* column: string_join puts a separator between the items, string_split     *)
(* takes a column apart again.  A text is a sequence of characters; Null is *)
(* the NULL pointer, of a text as well as of a list (DRMAA2_UNSET_LIST).    *)
(***************************************************************************)
EXTENDS Integers, SequencesExt

CONSTANTS Sep,   \* the character '|'
          Null   \* NULL

\* strchr: the first separator behind a position, or else the place of the '\0'.
NextCut(text, position) ==
    Min({i \in position + 1 .. Len(text) : text[i] = Sep} \cup {Len(text) + 1})

\* string_split: the cuts are where items end, and an item is added for every cut
\* that was not behind the text, so that the empty text is a list with one empty item.
Split(text) ==
    IF text = Null THEN Null
    ELSE LET cut[k \in 0 .. Len(text) + 1] == IF k = 0 THEN 0 ELSE NextCut(text, cut[k - 1])
         IN  [k \in {i \in 1 .. Len(text) + 1 : cut[i - 1] <= Len(text)} |->
                SubSeq(text, cut[k - 1] + 1, cut[k] - 1)]

\* string_join: every item is copied with a separator behind it, and the last
\* separator is overwritten by the terminating '\0'.
Join(list) ==
    IF list \in {Null, <<>>} THEN Null
    ELSE Front(FlattenSeq([i \in DOMAIN list |-> Append(list[i], Sep)]))
=============================================================================
