------------------------------ MODULE TypeOrm ------------------------------
(***************************************************************************)
(* What TypeORM's Repository.save and Repository.remove do, as the         *)
(* services of src/apps/api use them.  TypeORM is a library: this module   *)
(* states the behaviour the services rely on.                              *)
(*                                                                         *)
(* save(entity), for an entity that carries a primary key, is TWO database *)
(* operations and not one: a SELECT of the row by its key, and then an     *)
(* UPDATE of the columns in which the entity differs from the row just     *)
(* selected (no column differs: no UPDATE at all; no row: an INSERT of the *)
(* whole entity).  The entity itself was read earlier, by the service, so  *)
(* a column somebody else has changed since then differs too and is        *)
(* written back with its old value.                                        *)
(***************************************************************************)

\* The columns the UPDATE of save(entity) sets, `fresh` being the row that
\* save selected.
DiffColumns(entity, fresh) == {c \in DOMAIN fresh : entity[c] # fresh[c]}

\* The row after an UPDATE that sets the columns `cols` from the entity.
Assign(row, entity, cols) ==
    [c \in DOMAIN row |-> IF c \in cols THEN entity[c] ELSE row[c]]
=============================================================================
