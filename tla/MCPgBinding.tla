---------------------------- MODULE MCPgBinding ----------------------------
(* Model-checking instance of PgBinding: two binding objects, indexes 0..2, *)
(* two overloads with different Oid categories, two payloads.              *)
EXTENDS PgBinding, TLC

MCKinds == {"int", "string"}

(* sql_values bound through bindable: a 32-bit NUMBER (dispatched to the  *)
(* int overload) and a complex value that is not a sql_time, which throws *)
(* binding_error after the values before it are bound.                    *)
MCSqlTypes ==
  {[type |-> "NUMBER",  size |-> 4, time |-> FALSE],
   [type |-> "COMPLEX", size |-> 0, time |-> FALSE]}

(* The lists passed: two values, the first a NUMBER, the second another  *)
(* NUMBER payload or the complex value, so that a list is either bound    *)
(* whole or stops after its first value.  A one-value list is a plain     *)
(* bind.                                                                   *)
MCItems ==
  {l \in {<<[type |-> n, data |-> v], [type |-> t, data |-> w]>> :
             n \in {u \in MCSqlTypes : u.type = "NUMBER"}, t \in MCSqlTypes,
             v, w \in Vals} : l[1].data # l[2].data}

(* Addr (in the cfg) has enough addresses for both objects to fill every  *)
(* slot at once; a leaked string makes the heap run out earlier, which     *)
(* only disables further allocation in that behaviour.                     *)
(* Addresses, objects and payloads are interchangeable: nothing compares   *)
(* or orders them, Init treats them alike, and the properties quantify    *)
(* over all of them.                                                       *)
Interchangeable == Permutations(Addr) \cup Permutations(Obj) \cup Permutations(Vals)
=============================================================================
