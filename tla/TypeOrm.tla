------------------------------- MODULE TypeOrm -------------------------------
(***************************************************************************)
(* What Repository.save(entity) of TypeORM 0.3 does to one table row, as    *)
(* the services use it on an entity they loaded with findOne.  The library  *)
(* is not under src/: this module is the contract the services rely on.     *)
(*                                                                         *)
(* save() is two statements with an await between them.  The first SELECTs  *)
(* the row again and compares every column of the entity with it; the       *)
(* second is an UPDATE of exactly the columns that differed.  A column the  *)
(* handler never touched is therefore still written when some other request *)
(* changed it after the entity was loaded.                                  *)
(*                                                                         *)
(* Rows and entities are records over the same columns.                     *)
(***************************************************************************)

\* The columns the UPDATE will name, decided when the row is read again.
DirtyColumns(entity, row) == {col \in DOMAIN row : entity[col] # row[col]}

\* The row after UPDATE ... SET <dirty columns of the entity>.
SavedRow(row, entity, dirty) ==
    [col \in DOMAIN row |-> IF col \in dirty THEN entity[col] ELSE row[col]]

=============================================================================
