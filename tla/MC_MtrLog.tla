------------------------------ MODULE MC_MtrLog ------------------------------
(* MtrLog with a data page and three B-tree pages: a clustered index of    *)
(* compact format (three system-like fixed columns, a nullable column and  *)
(* a long nullable column), a secondary index of thirteen nullable columns *)
(* (a two-byte null bitmap, and more field lengths than one dyn block can  *)
(* hold), and the clustered index in the old format.  The tablespace id    *)
(* and page numbers take several compressed bytes; the dyn blocks hold 32  *)
(* bytes, so that writes fill them and open new ones.                      *)
EXTENDS MtrLog, TLC

CONSTANTS pd, pa, pb, po

MC_Page == {pd, pa, pb, po}
MC_IndexPage == {pa, pb, po}
MC_PageNo == [p \in MC_Page |-> CASE p = pd -> 5 [] p = pa -> 300
                                  [] p = pb -> 70000 [] OTHER -> 3000000]

F(fl, nn, big) == [fixed_len |-> fl, not_null |-> nn, big |-> big]
D(len) == [null |-> FALSE, len |-> len, ext |-> FALSE]
DX(len) == [null |-> FALSE, len |-> len, ext |-> TRUE]
SqlNull == [null |-> TRUE, len |-> UNIV_SQL_NULL, ext |-> FALSE]

IdxA == [comp |-> TRUE, clust |-> TRUE, n_uniq |-> 1,
         fields |-> <<F(4, TRUE, FALSE), F(6, TRUE, FALSE), F(7, TRUE, FALSE),
                      F(0, FALSE, FALSE), F(0, FALSE, TRUE)>>]
IdxB == [comp |-> TRUE, clust |-> FALSE, n_uniq |-> 13,
         fields |-> [i \in 1..13 |-> F(0, FALSE, FALSE)]]
IdxO == [IdxA EXCEPT !.comp = FALSE]

MC_Write ==
  { [op |-> "ulint", page |-> pd, off |-> 100, type |-> 2, val |-> 40000],
    [op |-> "uint64", page |-> pd, off |-> 100, val |-> [high |-> 7, low |-> 300000]],
    [op |-> "string", page |-> pd, off |-> 104, str |-> <<1, 2, 3>>],
    [op |-> "create", page |-> pa, type |-> MLOG_COMP_PAGE_CREATE],
    [op |-> "insert", page |-> pa, index |-> IdxA,
     tuple |-> [status |-> "ORDINARY", fields |-> <<D(4), D(6), D(7), SqlNull, DX(20)>>]],
    [op |-> "insert", page |-> pa, index |-> IdxA,
     tuple |-> [status |-> "ORDINARY", fields |-> <<D(4), D(6), D(7), D(127), D(128)>>]],
    [op |-> "insert", page |-> pa, index |-> IdxA,
     tuple |-> [status |-> "NODE_PTR", fields |-> <<D(4), D(4)>>]],
    [op |-> "insert", page |-> pb, index |-> IdxB,
     tuple |-> [status |-> "ORDINARY",
                fields |-> [i \in 1..13 |-> IF i \in {2, 9} THEN SqlNull ELSE D(1)]]],
    [op |-> "insert", page |-> po, index |-> IdxO,
     tuple |-> [status |-> "ORDINARY", fields |-> <<D(4), D(6), D(7), SqlNull, D(100)>>]],
    [op |-> "insert", page |-> po, index |-> IdxO,
     tuple |-> [status |-> "ORDINARY", fields |-> <<D(4), D(6), D(7), D(3), DX(20)>>]] }
==============================================================================
