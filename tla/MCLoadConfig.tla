---------------------------- MODULE MCLoadConfig ----------------------------
(***************************************************************************)
(* Values for LoadConfig: two plugins; two providers, one of them from a      *)
(* plugin, the other of a built-in type; a query on each and a rule; every     *)
(* file that is wrong in at most MaxFaults places.                          *)
(***************************************************************************)
EXTENDS LoadConfig, FiniteSetsExt

CONSTANTS http, csv, sql, pages, tables, qp, qt, report, MaxFaults

MCProviderBlocks == <<pages, tables>>
MCTypeOf == [n \in {pages, tables} |-> IF n = pages THEN http ELSE sql]
MCProviderOf == [q \in {qp, qt} |-> IF q = qp THEN pages ELSE tables]
MCFiles == UNION {kSubset(k, Places) : k \in 0 .. MaxFaults}

=============================================================================
