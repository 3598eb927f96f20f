------------------------------ MODULE IdlTypes ------------------------------
(***************************************************************************)
(* The IDL types of the DDS topics and the signal configuration, as the    *)
(* two programs that read them see them: the repacker, which writes        *)
(* modelDescription.xml through SignalDistributor, and the FMU, whose      *)
(* DataMapper answers the value references that file promises.             *)
(*                                                                         *)
(* A type is the sequence of nodes that DynamicData::for_each visits; a    *)
(* node is its kind, and whether it comes from an @key member.             *)
(***************************************************************************)
EXTENDS Integers, Sequences

CONSTANTS
  Types,      \* names of the structures the IDL files define
  Topics,     \* topic names
  Nodes,      \* Nodes[t]: the nodes for_each visits in a value of type t
  Missing,    \* an attribute or a type that is not there
  Mappings    \* the contents ddsfmu_mapping.xml may have

PrimitiveKinds ==
  {"BOOLEAN", "INT_8", "UINT_8", "INT_16", "UINT_16", "INT_32", "UINT_32",
   "INT_64", "UINT_64", "FLOAT_32", "FLOAT_64", "FLOAT_128", "CHAR_8",
   "CHAR_16", "WIDE_CHAR"}

Kinds == PrimitiveKinds \union
  {"ENUMERATION", "STRING", "WSTRING", "STRUCTURE", "ARRAY", "SEQUENCE",
   "MAP", "UNION", "BITSET", "ALIAS"}

Node == [kind : Kinds, key : BOOLEAN]

(***************************************************************************)
(* One <fmu_out> or <fmu_in> element of ddsfmu_mapping.xml.  An attribute  *)
(* may be missing and the type may be one the IDL files do not define.     *)
(* key_filter is read for <fmu_out> alone.                                 *)
(***************************************************************************)
Element == [topic      : Topics \union {Missing},
            type       : Types \union {Missing},
            key_filter : BOOLEAN]

Mapping == [fmu_out : Seq(Element), fmu_in : Seq(Element)]

ASSUME IdlAssumption ==
  /\ Nodes \in [Types -> Seq(Node)]
  /\ Missing \notin Types \union Topics
  /\ Mappings # {} /\ Mappings \subseteq Mapping

\* The element has its attributes and has_structure(type).
Readable(e) == e.topic # Missing /\ e.type # Missing

-----------------------------------------------------------------------------
FmiTypes == {"Real", "Integer", "Boolean", "String"}

\* SignalDistributor::resolve_type
resolve_type(kind) ==
  CASE kind = "BOOLEAN" -> "Boolean"
    [] kind \in {"INT_8", "UINT_8", "INT_16", "UINT_16", "INT_32",
                 "ENUMERATION"} -> "Integer"
    [] kind \in {"FLOAT_32", "FLOAT_64", "UINT_32", "INT_64", "UINT_64"}
         -> "Real"
    [] kind \in {"STRING", "CHAR_8"} -> "String"
    [] OTHER -> "Unknown"

\* The condition both for_each callbacks start with.
Selected(node, parameter) ==
  /\ node.kind \in PrimitiveKinds \union {"ENUMERATION", "STRING"}
  /\ parameter => node.key

\* Every selected leaf has an FMI type: no long double and no wide character.
AllSupported(m) ==
  \A e \in {m.fmu_out[i] : i \in DOMAIN m.fmu_out} :
    Readable(e) => \A i \in DOMAIN Nodes[e.type] :
      Selected(Nodes[e.type][i], FALSE) =>
        resolve_type(Nodes[e.type][i].kind) # "Unknown"
=============================================================================
