------------------------------ MODULE Manifest ------------------------------
(***************************************************************************)
(* The manifest of a package (class Manifest of src/taskport/protocol.py)  *)
(* and the arguments of a call.  A manifest is reduced to the names that   *)
(* its input schema and its command mention, and arguments to the names    *)
(* that they give a value.                                                 *)
(***************************************************************************)
EXTENDS Naturals, FiniteSets

CONSTANT InputNames     \* the names that schemas, commands and arguments use

\* The placeholders that the worker fills in itself.
RESERVED == {"python", "output", "inputs", "result"}

\* `properties`, `required` and `open` (additionalProperties) are the JSON Schema's.
Manifests == [properties : SUBSET InputNames,
              required : SUBSET InputNames,
              open : BOOLEAN,
              placeholders : SUBSET InputNames,
              executable : BOOLEAN]

check_schema(m) == m.properties \cap RESERVED = {}

\* Mutant: the placeholders are left to the check of the arguments.
check_executable(m) == m.executable

check_command(m) ==
    /\ m.executable
    /\ m.placeholders \subseteq m.properties \cup RESERVED

model_validate(m) == check_schema(m) /\ check_command(m)

\* Draft202012Validator.validate, as far as names go.
Conforms(m, arguments) ==
    /\ m.required \subseteq arguments
    /\ m.open \/ arguments \subseteq m.properties

\* Mutant: the schema's word is taken for it.
SchemaOnly(m, arguments) == Conforms(m, arguments)

validate_arguments(m, arguments) ==
    /\ Conforms(m, arguments)
    /\ m.placeholders \ RESERVED \subseteq arguments

\* {**inputs, "python": ..., "inputs": ..., "output": ..., "result": ...}: whose value it is.
Values(arguments) ==
    [n \in arguments \cup RESERVED |-> IF n \in RESERVED THEN "worker" ELSE "user"]

=============================================================================
