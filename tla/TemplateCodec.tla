--------------------------- MODULE TemplateCodec ---------------------------
(***************************************************************************)
(* What becomes of a template between save_jtemplate or save_rtemplate and  *)
(* the callbacks that read it back.  The members of a template of one kind  *)
(* are converted alike, so that one member stands for each kind:            *)
(*                                                                          *)
(*   text    %Q and strdup (remoteCommand, the paths, reservationName, ...) *)
(*   number  %lld and atoi (minSlots, maxSlots, priority, minPhysMemory)    *)
(*   small   %d and atoi (the flags and the enumerations)                   *)
(*   list    string_join and string_split (args, email, usersACL, ...)      *)
(*   dict    stored as NULL (jobEnvironment, the stage files, limits)       *)
(*   time    %d and strptime (startTime, deadlineTime, duration)            *)
(*   end     endTime of a reservation template, tested under another name   *)
(*                                                                          *)
(* A reader that exits the program is the result Exit.                      *)
(***************************************************************************)
EXTENDS StringLists

CONSTANTS Exit,    \* the outcome of a read that ends in exit(1)
          Text,    \* texts of a template's members, and of the items of its lists
          Number,  \* values of a long long
          Int32,   \* number of values of an int
          Time,    \* values of a time_t
          Dict     \* dictionaries a template may have

UnsetNum  == -1
UnsetTime == -3

Char == UNION {ToSet(t) : t \in Text}

List == {Null, <<>>} \cup {<<t>> : t \in Text} \cup {<<t, u>> : t, u \in Text}

VARIABLES
    kept,    \* a template
    stored,  \* its row, when it has one
    back     \* what the row was read back as, when it was

codecVars == <<kept, stored, back>>

Template == [text : Text \cup {Null}, number : Number, small : {-1, 1}, list : List,
             dict : Dict \cup {Null}, time : Time, end : Time]

ASSUME CodecAssumption ==
    /\ Number \subseteq Int /\ Time \subseteq Int
    /\ Int32 \in Nat /\ Int32 % 2 = 0 /\ Int32 > 6
    /\ UnsetNum \in Number /\ UnsetTime \in Time
    /\ Text \subseteq Seq(Char)
    /\ Null \notin Seq(Char \cup {Sep}) /\ Null \notin Seq(Seq(Char))
    /\ Exit \notin Template

\* The int that "%d" prints, and atoi returns, of a wider number.
ToInt(n) == ((n + Int32 \div 2) % Int32) - Int32 \div 2

\* save_jtemplate and save_rtemplate: the columns.  A time is printed with %d.
Save(t) ==
    [text |-> t.text, number |-> t.number, small |-> t.small, list |-> Join(t.list),
     dict |-> Null, time |-> ToInt(t.time), end |-> ToInt(t.end)]

\* A time column is a decimal number, and no decimal number is a date of the form
\* that strptime is given; only the unset time is known before.
TimeReads(column) == column = UnsetTime

\* Faulty variant: the members are left as drmaa2_jtemplate_create set them if the
\* column of the list is empty.
ReadSkippingEmpty(row) ==
    IF ~TimeReads(row.time) \/ ~TimeReads(row.end) THEN Exit
    ELSE [text |-> row.text, number |-> ToInt(row.number), small |-> row.small,
          list |-> IF row.list = <<>> THEN Null ELSE Split(row.list), dict |-> Null,
          time |-> UnsetTime, end |-> UnsetTime]

\* get_job_template_callback and get_rtemplate_callback, applied to a template as
\* its create function left it.  end_time is looked at, and never assigned.
Read(row) ==
    IF ~TimeReads(row.time) \/ ~TimeReads(row.end) THEN Exit
    ELSE [text |-> row.text, number |-> ToInt(row.number), small |-> row.small,
          list |-> Split(row.list), dict |-> Null, time |-> UnsetTime, end |-> UnsetTime]

---------------------------------------------------------------------------
CodecInit ==
    /\ kept \in Template
    /\ stored = Null /\ back = Null

\* save_jtemplate or save_rtemplate, in the process that submits.
Store ==
    /\ kept # Null /\ stored = Null
    /\ stored' = Save(kept)
    /\ UNCHANGED <<kept, back>>

\* get_job_template or get_rtemplate, in any process.
Load ==
    /\ stored # Null /\ back = Null
    /\ back' = Read(stored)
    /\ UNCHANGED <<kept, stored>>

CodecNext == Store \/ Load

CodecSpec == CodecInit /\ [][CodecNext]_codecVars

---------------------------------------------------------------------------
(* Properties.                                                              *)

\* What the formats of the columns can carry.
Clean(list) == list # <<>> /\ (list # Null => \A i \in DOMAIN list : Sep \notin ToSet(list[i]))

Storable(t) ==
    /\ Clean(t.list)
    /\ t.dict = Null
    /\ t.number \in -(Int32 \div 2) .. Int32 \div 2 - 1
    /\ t.time = UnsetTime /\ t.end = UnsetTime

\* A template is read back as it was stored exactly if its lists are unset or not
\* empty and none of their items has a separator in it, its numbers fit into an
\* int, and its times and dictionaries are unset.
ReadBack == back # Null => (back = kept <=> Storable(kept))
=============================================================================
