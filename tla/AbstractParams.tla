--------------------------- MODULE AbstractParams ---------------------------
(***************************************************************************)
(* What a parameter store of the Bindable surface promises (spec 4.3/4.4): *)
(* each object holds a 1-based map from parameter index to the value last  *)
(* bound there; an index never bound, or bound to null, reads as null.     *)
(* Rebinding an index replaces the value.  Copying an object copies its    *)
(* map, moving it transfers the map and leaves the source empty, and a     *)
(* reset or a destruction empties it.  An index 0 is refused and changes   *)
(* nothing.  A list of values is bound one by one at consecutive indexes  *)
(* from a start index (1 for bind_all); a value that cannot be bound      *)
(* raises an error: the values before it stay bound and it and the      *)
(* values after it are not.  op records the last call and its arguments, *)
(* so that a call is told apart from another with the same effect.        *)
(***************************************************************************)
EXTENDS Naturals, Sequences

CONSTANTS
  Obj,        \* storage for parameter stores (objects of one class)
  MaxIndex,   \* largest 1-based parameter index the model binds
  Values,     \* typed values that can be bound
  NullValue,  \* what an unbound or null-bound index reads as
  Rejected    \* an argument of a list that cannot be bound (binding_error)

VARIABLES
  live,       \* the objects currently constructed
  params,     \* params[o][i]: the value index i of o reads as
  op          \* the last call: <<name, arguments...>>

vars == <<live, params, op>>

Indexes == 1..MaxIndex

Empty == [i \in Indexes |-> NullValue]

Init ==
  /\ live = {}
  /\ params = [o \in Obj |-> Empty]
  /\ op = <<"none">>

Construct(o) ==
  /\ op' = <<"Construct", o>>
  /\ o \notin live
  /\ live' = live \cup {o}
  /\ UNCHANGED params

CopyConstruct(dst, src) ==
  /\ op' = <<"CopyConstruct", dst, src>>
  /\ dst \notin live /\ src \in live
  /\ live' = live \cup {dst}
  /\ params' = [params EXCEPT ![dst] = params[src]]

MoveConstruct(dst, src) ==
  /\ op' = <<"MoveConstruct", dst, src>>
  /\ dst \notin live /\ src \in live
  /\ live' = live \cup {dst}
  /\ params' = [params EXCEPT ![dst] = params[src], ![src] = Empty]

\* Assignment to itself leaves a store as it was.
CopyAssign(dst, src) ==
  /\ op' = <<"CopyAssign", dst, src>>
  /\ {dst, src} \subseteq live
  /\ params' = [params EXCEPT ![dst] = params[src]]
  /\ UNCHANGED live

MoveAssign(dst, src) ==
  /\ op' = <<"MoveAssign", dst, src>>
  /\ {dst, src} \subseteq live
  /\ dst # src
  /\ params' = [params EXCEPT ![dst] = params[src], ![src] = Empty]
  /\ UNCHANGED live

Destroy(o) ==
  /\ op' = <<"Destroy", o>>
  /\ o \in live
  /\ live' = live \ {o}
  /\ params' = [params EXCEPT ![o] = Empty]

Reset(o) ==
  /\ op' = <<"Reset", o>>
  /\ o \in live
  /\ params' = [params EXCEPT ![o] = Empty]
  /\ UNCHANGED live

\* Binding at index 0 is refused and changes nothing.
Bind(o, i, v) ==
  /\ op' = <<"Bind", o, i, v>>
  /\ o \in live
  /\ params' = IF i \in Indexes THEN [params EXCEPT ![o][i] = v] ELSE params
  /\ UNCHANGED live

(* The arguments of a list up to the first one that cannot be bound.    *)
Accepted(args) ==
  LET stops == {j \in DOMAIN args : args[j] = Rejected}
      n     == IF stops = {} THEN Len(args)
               ELSE (CHOOSE j \in stops : \A k \in stops : j <= k) - 1
  IN [j \in 1..n |-> args[j]]

(* A list of arguments bound from index start: the accepted ones, one per *)
(* consecutive index; an index outside 1..MaxIndex is refused as for one  *)
(* bind.                                                                   *)
BoundFrom(o, start, args) ==
  LET vals == Accepted(args) IN
  [params EXCEPT ![o] =
     [i \in Indexes |-> IF i - start + 1 \in DOMAIN vals
                        THEN vals[i - start + 1] ELSE params[o][i]]]

BindList(o, start, args) ==
  /\ op' = <<"BindList", o, start, args>>
  /\ o \in live
  /\ params' = BoundFrom(o, start, args)
  /\ UNCHANGED live

\* bind_all binds its arguments from index 1.
BindAll(o, args) ==
  /\ op' = <<"BindAll", o, args>>
  /\ o \in live
  /\ params' = BoundFrom(o, 1, args)
  /\ UNCHANGED live

ValueLists == UNION {[1..n -> Values \cup {NullValue, Rejected}] : n \in 0..MaxIndex}

Next ==
  \/ \E o \in Obj : Construct(o) \/ Destroy(o) \/ Reset(o)
  \/ \E o \in Obj, i \in 0..MaxIndex, v \in Values \cup {NullValue} : Bind(o, i, v)
  \/ \E d, s \in Obj :
       \/ CopyConstruct(d, s) \/ MoveConstruct(d, s)
       \/ CopyAssign(d, s) \/ MoveAssign(d, s)
  \/ \E o \in Obj, vals \in ValueLists : BindAll(o, vals)
  \/ \E o \in Obj, i \in 0..MaxIndex, vals \in ValueLists : BindList(o, i, vals)

Spec == Init /\ [][Next]_vars

=============================================================================
