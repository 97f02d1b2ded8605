------------------------------- MODULE UnitOfWork -------------------------------
(* What the sessions of SQLAlchemy write, as far as the routes depend on it. *)

(* An object loaded as "loaded" and set to "set" updates only the columns whose
   value differs from the loaded one; the others keep what the row has by then. *)
Flushed(row, loaded, set) ==
  [column \in DOMAIN row |-> IF set[column] = loaded[column] THEN row[column] ELSE set[column]]
===============================================================================
