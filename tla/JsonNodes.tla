----------------------------- MODULE JsonNodes -----------------------------
(***************************************************************************)
(* JSON nodes and statuses, shared by the parsers of tokenizer.json,       *)
(* config.json and the safetensors headers.  A node is a record with its   *)
(* type t and value v; an object's value is a function from its keys.      *)
(***************************************************************************)
Null == [t |-> "null"]
Bool(b) == [t |-> "bool", v |-> b]
Num(n) == [t |-> "int", v |-> n]
Float(n) == [t |-> "float", v |-> n]
Str(s) == [t |-> "str", v |-> s]
Arr(s) == [t |-> "arr", v |-> s]
Obj(f) == [t |-> "obj", v |-> f]

\* A step's status: Ok, or the code it returns; a && b goes on to b only after Ok.
Ok == "Ok"
Invalid == "InvalidArgument"
Unimplemented == "Unimplemented"
a && b == IF a # Ok THEN a ELSE b
Require(p, code) == IF p THEN Ok ELSE code
\* Results are <<status>> or <<Ok, value>>: a checked value, and ASSIGN_OR_RETURN.
Checked(status, value) == IF status # Ok THEN <<status>> ELSE <<Ok, value>>
AssignOrReturn(result, Rest(_)) == IF result[1] # Ok THEN result ELSE Rest(result[2])

Has(obj, key) == key \in DOMAIN obj.v
AbsentOrNull(obj, key) == ~Has(obj, key) \/ obj.v[key].t = "null"
Is(obj, key, type) == Has(obj, key) /\ obj.v[key].t = type
=============================================================================
