----------------------------- MODULE MCRecords -----------------------------
(* One of three programs: a bulk call, a template that is stored and read   *)
(* back, or a query.  Words have three bits, paths each of the              *)
(* placeholders, and texts up to two characters, one of them the separator. *)
EXTENDS BulkArrays, TemplateCodec, JobFilter

CONSTANTS a, d

NoBulk == /\ pc = "none" /\ range = Null /\ index = Null /\ jt = Null /\ saved = Null
          /\ ids = Null /\ jobs = Null /\ array = Null
NoCodec == kept = Null /\ stored = Null /\ back = Null
NoQuery == job = NULL /\ query = NULL /\ found = NULL

RecordsInit ==
    \/ Init /\ NoCodec /\ NoQuery
    \/ CodecInit /\ NoBulk /\ NoQuery
    \/ FilterInit /\ NoBulk /\ NoCodec

RecordsNext ==
    \/ Next /\ UNCHANGED <<codecVars, filterVars>>
    \/ CodecNext /\ UNCHANGED <<vars, filterVars>>
    \/ FilterNext /\ UNCHANGED <<vars, codecVars>>

RecordsSpec ==
    RecordsInit /\ [][RecordsNext]_<<vars, codecVars, filterVars>> /\ WF_vars(Next)

MCPath == {Null, <<Home, Working, 1, Index>>}
MCOthers == {0, 1}

MCText == {<<>>, <<a>>, <<Sep>>, <<a, Sep>>}
MCNumber == {-9, -8, -1, 7, 8}
MCOffset == {-1, 0, 2}
MCTime == {-3, -2, 5, 13}
=============================================================================
