--------------------------------- MODULE Tables ---------------------------------
(***************************************************************************)
(* Two views of a table, side by side: where its values live (ApexTable)   *)
(* and how a loop and the inline caches hold pointers into its hash part   *)
(* (TableIteration).  A behaviour uses one of them: their states share     *)
(* nothing, so that the product would show no more than the two alone.     *)
(***************************************************************************)
EXTENDS ApexTable, TableIteration

tables_vars == <<vars, iter_vars>>

TablesTypeOK == TypeOK /\ IterTypeOK

TablesInit == Init /\ IterInit

StoredTable == IterInit /\ Next /\ UNCHANGED iter_vars
LoopedTable == Init /\ IterNext /\ UNCHANGED vars

TablesSpec == TablesInit /\ [][StoredTable \/ LoopedTable]_tables_vars
=============================================================================
