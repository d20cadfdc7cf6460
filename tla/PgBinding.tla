------------------------------ MODULE PgBinding ------------------------------
(***************************************************************************)
(* The PostgreSQL parameter array, class postgres::binding                 *)
(* (src/src/postgres/binding.cpp).  An object owns four parallel C arrays  *)
(* of size_ entries; values_[i] is a heap string made by strdup, or null.  *)
(* bind(index, x) is 1-based: reallocate_value frees the slot's old string *)
(* or grows the arrays, and the overload stores a fresh strdup and a type  *)
(* Oid.  The model keeps, per object, the slot sequence (values_ pointer   *)
(* and types_ Oid; lengths_ and formats_ are functions of these), and the  *)
(* heap of strings, so that frees, leaks and shared ownership are visible. *)
(* The string contents are abstracted to a payload (what was rendered).    *)
(***************************************************************************)
EXTENDS Naturals, Sequences, FiniteSets, Functions

CONSTANTS
  Obj,        \* storage for binding objects
  MaxIndex,   \* largest index passed to bind (index 0 is passed too)
  Addr,       \* heap addresses strdup can return (bounds the heap)
  Vals,       \* payloads of the strings the overloads render
  Kinds,      \* bind overloads exercised (names of the C++ parameter types)
  Aliasing,   \* TRUE: an object may be copy-assigned from itself
  SqlTypes,   \* sql_value shapes bound through bindable: [type, size, time]
  MaxList,    \* longest value list passed to bind(list, start) or bind_all
  NIL, FREE, NullValue,
  Rejected    \* what op records for a list argument bind_value refuses

ASSUME MaxIndex \in Nat \ {0}
ASSUME Aliasing \in BOOLEAN
ASSUME MaxList \in Nat \ {0}

VARIABLES
  alive,      \* constructed objects
  slots,      \* slots[o][i] = [ptr, oid]: values_[i-1] and types_[i-1]; Len = size_
  mem,        \* mem[a]: the string at address a, or FREE
  op          \* the last call and its arguments (history, for refinement)

vars == <<alive, slots, mem, op>>

(* Oid stored by each bind overload (lines 242-389), on an LP64 build.     *)
OidOf == [int |-> "INT4OID", unsigned |-> "INT4OID", llong |-> "INT8OID",
          ullong |-> "INT8OID", float |-> "FLOAT4OID", double |-> "FLOAT8OID",
          string |-> "TEXTOID", wstring |-> "TEXTOID", blob |-> "BYTEAOID",
          time |-> "TEXTOID"]

ASSUME Kinds \subseteq DOMAIN OidOf

(* bindable::bind_value(index, value): the overload a sql_value of type t  *)
(* is dispatched to (size() is the byte size of its case), "null" for     *)
(* bind(index, sql_null), "throw" for the binding_error of a complex value *)
(* that is not a sql_time.  UNUMBER goes to to_llong whatever its size.   *)
bind_value(t) ==
  CASE t.type = "NULLTYPE"                             -> "null"
    [] t.type \in {"CHAR", "WCHAR", "BOOL", "NUMBER"} ->
         IF t.size <= 4 THEN "int" ELSE "llong"
    [] t.type = "UNUMBER"                              -> "llong"
    [] t.type = "REAL"    -> IF t.size <= 4 THEN "float" ELSE "double"
    [] t.type = "STRING"  -> "string"
    [] t.type = "WSTRING" -> "wstring"
    [] t.type = "BINARY"  -> "blob"
    [] t.type = "COMPLEX" -> IF t.time THEN "time" ELSE "throw"

\* Overloads reached directly or through bind_value.
Reached == Kinds \cup ({bind_value(t) : t \in SqlTypes} \ {"null", "throw"})

Oids == {OidOf[k] : k \in Reached} \cup {"UNKNOWNOID", "InvalidOid"}

(* data_mapper::to_value: the sql_value case an Oid's text is parsed to.   *)
Category(oid) ==
  CASE oid = "BYTEAOID"                          -> "binary"
    [] oid \in {"INT2OID", "INT4OID", "INT8OID"} -> "number"
    [] oid \in {"FLOAT4OID", "FLOAT8OID"}        -> "real"
    [] OTHER                                     -> "text"

Values == [type : {Category(OidOf[k]) : k \in Reached}, data : Vals]

\* A slot after clear_value(i): no string, all fields zeroed.
Cleared == [ptr |-> NIL, oid |-> "InvalidOid"]

Slot == [ptr : Addr \cup {NIL}, oid : Oids]

Owned(s) == {s[j].ptr : j \in {j \in DOMAIN s : s[j].ptr # NIL}}

(* free() of every string a slot sequence owns.                            *)
FreeAll(m, s) == [a \in Addr |-> IF a \in Owned(s) THEN FREE ELSE m[a]]

(* The address strdup returns on heap m: a free one, none when the heap   *)
(* is exhausted.  Free addresses hold nothing and nothing points to them, *)
(* so which one is returned is immaterial up to renaming addresses (the   *)
(* MC module declares Addr symmetric); one stands for all.                *)
strdup(m) ==
  LET free == {x \in Addr : m[x] = FREE} IN
  IF free = {} THEN {} ELSE {CHOOSE x \in free : TRUE}

(* strdup of each of the strings at the indexes used: distinct free      *)
(* addresses, one assignment standing for all as above.                    *)
strdup_each(m, used) ==
  LET maps == {f \in [used -> {x \in Addr : m[x] = FREE}] : IsInjective(f)} IN
  IF maps = {} THEN {} ELSE {CHOOSE f \in maps : TRUE}

(* reallocate_value(index) followed by the overload's stores: index 0 is   *)
(* refused (the caller only logs); an index within size_ clears that slot  *)
(* (freeing its string); a larger one grows the arrays to index zeroed     *)
(* entries.  Then slot index-1 takes the new pointer and Oid.              *)
\* Mutant: grows the arrays to index + 1 entries.
reallocate_value_overgrow(s, index) ==
  IF index <= Len(s) THEN [s EXCEPT ![index] = Cleared]
  ELSE s \o [j \in 1..(index + 1 - Len(s)) |-> Cleared]

reallocate_value(s, index) ==
  IF index <= Len(s) THEN [s EXCEPT ![index] = Cleared]
  ELSE s \o [j \in 1..(index - Len(s)) |-> Cleared]

(* binding::to_value(index), 0-based; a null pointer or an index past      *)
(* size_ reads as sql_null.                                                *)
to_value(o, index) ==
  IF index >= Len(slots[o]) \/ slots[o][index + 1].ptr = NIL THEN NullValue
  ELSE [type |-> Category(slots[o][index + 1].oid),
        data |-> mem[slots[o][index + 1].ptr]]

-----------------------------------------------------------------------------
(* Constructors, assignment, destructor                                    *)

\* binding::binding(): null arrays, size_ 0.
Construct(o) ==
  /\ op' = <<"Construct", o>>
  /\ o \notin alive
  /\ alive' = alive \cup {o}
  /\ slots' = [slots EXCEPT ![o] = <<>>]
  /\ UNCHANGED mem

\* binding::binding(size): size zeroed entries (c_alloc clears).
ConstructSized(o, size) ==
  /\ op' = <<"Construct", o>>
  /\ o \notin alive
  /\ alive' = alive \cup {o}
  /\ slots' = [slots EXCEPT ![o] = [j \in 1..size |-> Cleared]]
  /\ UNCHANGED mem

(* copy_value(other): clear_value() on this, then read other's size_ and   *)
(* strdup each of other's strings.  On a self-copy the clear has already   *)
(* emptied other.                                                          *)
\* Mutant: copy_value without the types_[i] = value.types_[i] copy.
copy_value_noTypes(dst, src) ==
  LET m0  == FreeAll(mem, slots[dst])
      s0  == [slots EXCEPT ![dst] = <<>>]
      from == s0[src]
      used == {j \in DOMAIN from : from[j].ptr # NIL}
  IN \E new \in strdup_each(m0, used) :
       /\ slots' = [s0 EXCEPT ![dst] =
                      [j \in DOMAIN from |->
                         [ptr |-> IF j \in used THEN new[j] ELSE NIL,
                          oid |-> "InvalidOid"]]]
       /\ mem' = [a \in Addr |->
                    IF \E j \in used : new[j] = a
                    THEN m0[from[CHOOSE j \in used : new[j] = a].ptr]
                    ELSE m0[a]]

copy_value(dst, src) ==
  LET m0  == FreeAll(mem, slots[dst])
      s0  == [slots EXCEPT ![dst] = <<>>]
      from == s0[src]
      used == {j \in DOMAIN from : from[j].ptr # NIL}
  IN \E new \in strdup_each(m0, used) :
       /\ slots' = [s0 EXCEPT ![dst] =
                      [j \in DOMAIN from |->
                         [ptr |-> IF j \in used THEN new[j] ELSE NIL,
                          oid |-> from[j].oid]]]
       /\ mem' = [a \in Addr |->
                    IF \E j \in used : new[j] = a
                    THEN m0[from[CHOOSE j \in used : new[j] = a].ptr]
                    ELSE m0[a]]

CopyConstruct(dst, src) ==
  /\ op' = <<"CopyConstruct", dst, src>>
  /\ dst \notin alive /\ src \in alive
  /\ alive' = alive \cup {dst}
  /\ copy_value(dst, src)

CopyAssign(dst, src) ==
  /\ op' = <<"CopyAssign", dst, src>>
  /\ {dst, src} \subseteq alive
  /\ Aliasing \/ dst # src
  /\ copy_value(dst, src)
  /\ UNCHANGED alive

\* Mutant: the move constructor does not null other's arrays.
MoveConstruct_keepsSource(dst, src) ==
  /\ op' = <<"MoveConstruct", dst, src>>
  /\ dst \notin alive /\ src \in alive
  /\ alive' = alive \cup {dst}
  /\ slots' = [slots EXCEPT ![dst] = slots[src]]
  /\ UNCHANGED mem

\* binding(binding&&): take other's arrays, null other's.
MoveConstruct(dst, src) ==
  /\ op' = <<"MoveConstruct", dst, src>>
  /\ dst \notin alive /\ src \in alive
  /\ alive' = alive \cup {dst}
  /\ slots' = [slots EXCEPT ![dst] = slots[src], ![src] = <<>>]
  /\ UNCHANGED mem

(* operator=(binding&&): overwrite this's array pointers with other's,     *)
(* then null other's; this's own arrays are not freed first.               *)
MoveAssign(dst, src) ==
  /\ op' = <<"MoveAssign", dst, src>>
  /\ {dst, src} \subseteq alive
  /\ dst # src
  /\ slots' = [[slots EXCEPT ![dst] = slots[src]] EXCEPT ![src] = <<>>]
  /\ UNCHANGED <<alive, mem>>

\* ~binding() and reset(): clear_value() frees every string and the arrays.
Destroy(o) ==
  /\ op' = <<"Destroy", o>>
  /\ o \in alive
  /\ alive' = alive \ {o}
  /\ slots' = [slots EXCEPT ![o] = <<>>]
  /\ mem' = FreeAll(mem, slots[o])

Reset(o) ==
  /\ op' = <<"Reset", o>>
  /\ o \in alive
  /\ slots' = [slots EXCEPT ![o] = <<>>]
  /\ mem' = FreeAll(mem, slots[o])
  /\ UNCHANGED alive

-----------------------------------------------------------------------------
(* bind overloads                                                          *)

(* binding::bind(index, x) of overload k ("null": sql_null) on the slot    *)
(* sequence sq and heap heap: the set of [s, m] it can leave (empty when   *)
(* the heap is exhausted).  Index 0 is refused by reallocate_value and changes  *)
(* nothing; otherwise the slot's old string is freed (or the arrays grow)  *)
(* and the slot takes strdup of the rendered value and the Oid, or null    *)
(* and UNKNOWNOID.                                                         *)
bind_at(sq, heap, index, k, v) ==
  IF index = 0 THEN {[s |-> sq, m |-> heap]}
  ELSE LET s0 == reallocate_value(sq, index)
           m0 == IF index <= Len(sq) THEN FreeAll(heap, <<sq[index]>>) ELSE heap
       IN IF k = "null"
          THEN {[s |-> [s0 EXCEPT ![index] = [ptr |-> NIL, oid |-> "UNKNOWNOID"]],
                 m |-> m0]}
          ELSE {[s |-> [s0 EXCEPT ![index] = [ptr |-> new, oid |-> OidOf[k]]],
                 m |-> [x \in Addr |-> IF x = new THEN v ELSE m0[x]]] : new \in strdup(m0)}

\* What to_value reads back at an index bound by overload k with payload v.
Bound(k, v) == IF k = "null" THEN NullValue ELSE [type |-> Category(OidOf[k]), data |-> v]

\* bind(index, value) of overload k: strdup of the rendered value.
Bind(o, index, k, v) ==
  /\ op' = <<"Bind", o, index, Bound(k, v)>>
  /\ o \in alive
  /\ \E r \in bind_at(slots[o], mem, index, k, v) :
       slots' = [slots EXCEPT ![o] = r.s] /\ mem' = r.m
  /\ UNCHANGED alive

\* bind(index, sql_null): no string, Oid UNKNOWNOID.
BindNull(o, index) ==
  /\ op' = <<"Bind", o, index, NullValue>>
  /\ o \in alive
  /\ \E r \in bind_at(slots[o], mem, index, "null", NullValue) :
       slots' = [slots EXCEPT ![o] = r.s] /\ mem' = r.m
  /\ UNCHANGED alive

(* bind_value(index++, value) for each [type, data] item in order, from    *)
(* index: the set of [s, m] it can leave.  A binding_error leaves the      *)
(* items before it bound and propagates.                                   *)
\* Mutant: the recursion ends one item early, without an error.
RECURSIVE bind_list_dropLast(_, _, _, _)
bind_list_dropLast(sq, heap, index, items) ==
  IF Len(items) <= 1 THEN {[s |-> sq, m |-> heap]}
  ELSE LET k == bind_value(Head(items).type) IN
  IF k = "throw" THEN {[s |-> sq, m |-> heap]}
  ELSE UNION {bind_list_dropLast(r1.s, r1.m, index + 1, Tail(items)) :
                r1 \in bind_at(sq, heap, index, k, Head(items).data)}

RECURSIVE bind_list(_, _, _, _)
bind_list(sq, heap, index, items) ==
  IF items = <<>> THEN {[s |-> sq, m |-> heap]}
  ELSE LET k == bind_value(Head(items).type) IN
  IF k = "throw" THEN {[s |-> sq, m |-> heap]}
  ELSE UNION {bind_list(r1.s, r1.m, index + 1, Tail(items)) :
                r1 \in bind_at(sq, heap, index, k, Head(items).data)}

(* A list item as the call passes it: the value to_value would read back, *)
(* or Rejected when bind_value throws on it.                              *)
Arg(item) ==
  LET k == bind_value(item.type) IN
  IF k = "throw" THEN Rejected ELSE Bound(k, item.data)

(* The values bound one by one from start; call names the call made, and *)
(* op records it with its arguments.                                       *)
BindFrom(o, start, items, call) ==
  /\ o \in alive
  /\ \E r \in bind_list(slots[o], mem, start, items) :
       /\ op' = Append(call, [j \in DOMAIN items |-> Arg(items[j])])
       /\ slots' = [slots EXCEPT ![o] = r.s]
       /\ mem' = r.m
  /\ UNCHANGED alive

\* bindable::bind(values, start_index).
BindList(o, start, items) == BindFrom(o, start, items, <<"BindList", o, start>>)

\* bindable::bind_all(value, argv...): bind_list(1, value, argv...).
BindAll(o, items) == BindFrom(o, 1, items, <<"BindAll", o>>)

\* The value lists passed: non-empty, at most MaxList [type, data] items.
Items == UNION {[1..n -> [type : SqlTypes, data : Vals]] : n \in 1..MaxList}

-----------------------------------------------------------------------------
Init ==
  /\ alive = {}
  /\ slots = [o \in Obj |-> <<>>]
  /\ mem = [a \in Addr |-> FREE]
  /\ op = <<"none">>

Next ==
  \/ \E o \in Obj : Construct(o) \/ Destroy(o) \/ Reset(o)
  \/ \E o \in Obj, i \in 0..MaxIndex :
       \/ BindNull(o, i)
       \/ i > 0 /\ ConstructSized(o, i)
       \/ \E k \in Kinds, v \in Vals : Bind(o, i, k, v)
       \/ \E items \in Items :
            \* start 1 has the effect of bind_all's call, enumerated below
            i # 1 /\ i + Len(items) - 1 <= MaxIndex /\ BindList(o, i, items)
  \/ \E o \in Obj, items \in Items : Len(items) <= MaxIndex /\ BindAll(o, items)
  \/ \E d, s \in Obj :
       \/ CopyConstruct(d, s) \/ MoveConstruct(d, s)
       \/ CopyAssign(d, s) \/ MoveAssign(d, s)

Spec == Init /\ [][Next]_vars

-----------------------------------------------------------------------------
(* Properties                                                              *)

TypeOK ==
  /\ alive \subseteq Obj
  /\ \A o \in Obj : slots[o] \in Seq(Slot) /\ Len(slots[o]) <= MaxIndex
  /\ mem \in [Addr -> Vals \cup {FREE}]

Positions == {<<o, j>> : o \in Obj, j \in 1..MaxIndex}

PtrAt(p) == IF p[2] \in DOMAIN slots[p[1]] THEN slots[p[1]][p[2]].ptr ELSE NIL

(* Every string a slot points to is allocated, and no two slots of any     *)
(* objects point to the same string: the destructors of two objects (or    *)
(* clear_value of two slots) can never free one string twice, and no slot  *)
(* reads a freed string.  Breaks if a move leaves its source owning the    *)
(* arrays or a clear forgets to null the pointer it freed.                 *)
OwnershipUnique ==
  \A p, q \in Positions :
    /\ PtrAt(p) # NIL => mem[PtrAt(p)] # FREE
    /\ (p # q /\ PtrAt(p) # NIL) => PtrAt(p) # PtrAt(q)

(* Every allocated string is owned by some slot: no sequence of binds,     *)
(* copies, moves, resets and destructions leaks a string.                  *)
NoLeak ==
  \A a \in Addr : mem[a] # FREE => \E p \in Positions : PtrAt(p) = a

(* The binding implements the abstract parameter map: what to_value(i-1)   *)
(* reads is the value last bound at index i, through every bind, copy,     *)
(* move, reset and destruction.                                            *)
Params == INSTANCE AbstractParams WITH
  live <- alive,
  params <- [o \in Obj |-> [i \in 1..MaxIndex |-> to_value(o, i - 1)]]

ParamsSpec == Params!Spec

=============================================================================
