------------------------------- MODULE Table -------------------------------
(***************************************************************************)
(* An eosio::multi_index table of one code account: a function from the    *)
(* primary keys of the rows it holds to the rows.  The contracts reach it  *)
(* through find, get, emplace, modify and erase, and through dbc's set and *)
(* del; a find is a test on DOMAIN.                                        *)
(***************************************************************************)

EmptyTable == [k \in {} |-> {}]

\* emplace, or modify when the key is already there.
Put(table, key, row) ==
    [k \in DOMAIN table \cup {key} |-> IF k = key THEN row ELSE table[k]]

\* erase of every row whose key is in keys.
Drop(table, keys) == [k \in DOMAIN table \ keys |-> table[k]]
=============================================================================
