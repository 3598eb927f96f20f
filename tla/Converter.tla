------------------------------ MODULE Converter ------------------------------
(***************************************************************************)
(* Converter: values travel between the DynamicData of xtypes, which the   *)
(* FMU keeps, and the DynamicData of Fast DDS, which it writes and takes.  *)
(* The two keep an array of arrays, a structure and a union in different   *)
(* ways, and both objects live as long as the connection: each conversion  *)
(* goes over what an earlier one left there.                               *)
(*                                                                         *)
(* A type is a record: its kind with the content, dimension or members.    *)
(*   xtypes:   a structure and a union go by member name, an array of      *)
(*             arrays is a sequence of sequences, a map is its pairs.      *)
(*   Fast DDS: members go by id, the position; an array of arrays is one   *)
(*             flat array with several bounds; a union keeps the values of *)
(*             all its members and the id of the active one.               *)
(* Aliases are resolved; enumerations and strings count as primitive.      *)
(*                                                                         *)
(* Functions that call themselves for the parts of a type are parameters:  *)
(* f stands for the function, the operator f_body for what it does, and    *)
(* Recursion says that the one is the other.                               *)
(***************************************************************************)
EXTENDS Integers, Sequences, SequencesExt

CONSTANTS
  RootTypes, \* the types of the topics
  AllTypes,  \* these and the types of their parts
  Depth,     \* Depth[t]: how deep the parts of t are nested
  Values,    \* Values[t]: the values of type t the simulator may set
  MaxTakes,  \* bound: samples taken in a run
  \* The code:
  get_array_specs(_), create_data(_), DynamicData(_),
  set_value(_, _, _), set_array_data(_, _, _, _),
  get_value(_, _, _), get_array_data(_, _, _),
  \* What its results are compared with:
  IsValue(_, _), IsData(_, _), Size(_), Holds(_, _, _),
  HoldsArray(_, _, _, _), Shows(_, _, _)

VARIABLES
  type,       \* type of the topic
  write_data, \* DynamicData of Fast DDS in m_write_data, used for each write
  written,    \* history: the value write_data was last made from
  output,     \* DynamicData of the DataMapper, used for each sample
  latest,     \* history: the value behind the sample taken last
  takes       \* samples taken so far

converterVars == <<type, write_data, written, output, latest, takes>>

\* Types that have a switch case of their own in every function.
Complex == {"ARRAY", "SEQUENCE", "MAP", "STRUCTURE", "UNION"}

Parts(t) ==
  CASE t.kind \in {"STRUCTURE", "UNION"} ->
         {t.members[i].type : i \in DOMAIN t.members}
    [] t.kind \in {"ARRAY", "SEQUENCE"} -> {t.content}
    [] t.kind = "MAP" -> {t.first, t.second}
    [] t.kind \notin Complex -> {}

\* What IDL takes for members, and for bounds.
WellFormed(t) ==
  /\ t.kind \in {"STRUCTURE", "UNION"} =>
       /\ Len(t.members) \in Nat \ {0}
       /\ DOMAIN t.members = 1 .. Len(t.members)
       /\ \A i, j \in DOMAIN t.members :
            t.members[i].name = t.members[j].name => i = j
  /\ t.kind = "ARRAY" => t.dimension \in Nat \ {0}

\* A type has no part of its own type; xtypes_to_fastdds and its counterpart
\* convert nothing but structures and unions.
ASSUME ConverterAssumption ==
  /\ Depth \in [AllTypes -> Nat]
  /\ \A t \in AllTypes :
       /\ WellFormed(t)
       /\ \A p \in Parts(t) : p \in AllTypes /\ Depth[p] < Depth[t]
  /\ RootTypes \subseteq AllTypes
  /\ \A t \in RootTypes : /\ t.kind \in {"STRUCTURE", "UNION"}
                          /\ \A v \in Values[t] : IsValue(t, v)
  /\ MaxTakes \in Nat

get_member_id_by_name(t, name) ==
  (CHOOSE i \in DOMAIN t.members : t.members[i].name = name) - 1

-----------------------------------------------------------------------------
(* Types and fresh values. *)

\* The bounds of an array, the inner arrays' included, and what it holds in
\* the end.
get_array_specs_body(t) ==
  IF t.content.kind = "ARRAY"
  THEN LET inner == get_array_specs(t.content)
       IN  [bounds  |-> <<t.dimension>> \o inner.bounds,
            content |-> inner.content]
  ELSE [bounds |-> <<t.dimension>>, content |-> t.content]

\* The product of the bounds, from the last dimension on.
Places(bounds) ==
  LET places[d \in Nat] ==
        IF d = 0 THEN 1 ELSE bounds[Len(bounds) - d + 1] * places[d - 1]
  IN  places[Len(bounds)]

\* DynamicData of Fast DDS for the type get_builder makes of t.
create_data_body(t) ==
  CASE t.kind = "STRUCTURE" ->
         [id \in 0 .. Len(t.members) - 1 |->
            create_data(t.members[id + 1].type)]
    [] t.kind = "UNION" ->
         [id |-> 0,
          values |-> [id \in 0 .. Len(t.members) - 1 |->
                        create_data(t.members[id + 1].type)]]
    [] t.kind = "ARRAY" ->
         LET specs == get_array_specs(t)
         IN  [bounds |-> specs.bounds,
              values |-> [k \in 0 .. Places(specs.bounds) - 1 |->
                            create_data(specs.content)]]
    [] t.kind \in {"SEQUENCE", "MAP"} -> <<>>
    [] t.kind \notin Complex -> 0

\* A new DynamicData of xtypes.
DynamicData_body(t) ==
  CASE t.kind = "STRUCTURE" ->
         [n \in {t.members[i].name : i \in DOMAIN t.members} |->
            DynamicData(t.members[get_member_id_by_name(t, n) + 1].type)]
    [] t.kind = "UNION" -> [case  |-> t.members[1].name,
                            value |-> DynamicData(t.members[1].type)]
    [] t.kind = "ARRAY" -> [i \in 1 .. t.dimension |-> DynamicData(t.content)]
    [] t.kind \in {"SEQUENCE", "MAP"} -> <<>>
    [] t.kind \notin Complex -> 0

\* get_array_index: row by row.
get_array_index(array, indexes) ==
  LET index[d \in Nat] ==
        IF d = 0 THEN 0 ELSE index[d - 1] * array.bounds[d] + indexes[d]
  IN  index[Len(indexes)]

\* new_indexes of both set_array_data.
new_indexes(indexes, idx) == Append(indexes, idx)

-----------------------------------------------------------------------------
(* From xtypes to Fast DDS. *)

\* get_builder makes a byte of an INT_8: its value is an octet there.
set_primitive_data(t, v) == IF t.kind = "INT_8" THEN v % 256 ELSE v

\* Mutant: a sequence or map is not emptied.
KeepValues(to) == to

\* What is left of a sequence or map before its elements are inserted.
clear_all_values(to) == <<>>

\* set_sequence_data: complex elements are made anew.
set_sequence_data(t, from, to) ==
  clear_all_values(to) \o
    [i \in 1 .. Len(from) |->
       set_value(t.content, from[i], create_data(t.content))]

\* set_map_data
set_map_data(t, from, to) ==
  clear_all_values(to) \o
    [i \in 1 .. Len(from) |->
       <<set_value(t.first, from[i][1], create_data(t.first)),
         set_value(t.second, from[i][2], create_data(t.second))>>]

\* set_array_data, one round of its loop: an inner array goes into the same
\* flat one.
set_element(t, from, array, indexes, i) ==
  LET at == new_indexes(indexes, i - 1)
  IN  IF t.content.kind = "ARRAY"
      THEN set_array_data(t.content, from[i], array, at)
      ELSE [array EXCEPT !.values[get_array_index(array, at)] =
              set_value(t.content, from[i], create_data(t.content))]

set_array_data_body(t, from, to, indexes) ==
  LET array[i \in Nat] ==
        IF i = 0 THEN to ELSE set_element(t, from, array[i - 1], indexes, i)
  IN  array[Len(from)]

set_struct_data(t, input, out) ==
  [id \in DOMAIN out |->
     set_value(t.members[id + 1].type, input[t.members[id + 1].name], out[id])]

\* set_union_data: the member is loaned as an earlier value left it.
set_union_data(t, input, out) ==
  LET id == get_member_id_by_name(t, input.case)
  IN  [id |-> id,
       values |-> [out.values EXCEPT ![id] =
                     set_value(t.members[id + 1].type, input.value, @)]]

\* The switch on the kind that every function has.
set_value_body(t, from, to) ==
  CASE t.kind = "STRUCTURE" -> set_struct_data(t, from, to)
    [] t.kind = "UNION"     -> set_union_data(t, from, to)
    [] t.kind = "ARRAY"     -> set_array_data(t, from, to, <<>>)
    [] t.kind = "SEQUENCE"  -> set_sequence_data(t, from, to)
    [] t.kind = "MAP"       -> set_map_data(t, from, to)
    [] t.kind \notin Complex -> set_primitive_data(t, from)

xtypes_to_fastdds(t, input, out) == set_value(t, input, out)

-----------------------------------------------------------------------------
(* From Fast DDS to xtypes. *)

\* TK_BYTE: the octet is cast to the kind of the member.
get_primitive_data(t, d) == IF t.kind = "INT_8" /\ d > 127 THEN d - 256 ELSE d

\* Mutant: a key that is there already gets a second pair.
AddPair(map, key, value) == Append(map, <<key, value>>)

\* to[key] = value
assign(map, key, value) ==
  IF \E i \in DOMAIN map : map[i][1] = key
  THEN [i \in DOMAIN map |-> IF map[i][1] = key THEN <<key, value>>
                                                ELSE map[i]]
  ELSE Append(map, <<key, value>>)

\* Mutant: what is there already is taken for current.
PushBeyond(t, from, to) ==
  to \o [i \in 1 .. Len(from) - Len(to) |->
           get_value(t.content, from[Len(to) + i], DynamicData(t.content))]

\* set_sequence_data: every element is pushed behind what is there.
get_sequence_data(t, from, to) ==
  to \o [i \in 1 .. Len(from) |->
           get_value(t.content, from[i], DynamicData(t.content))]

\* set_map_data
get_map_data(t, from, to) ==
  LET map[i \in Nat] ==
        IF i = 0
        THEN to
        ELSE assign(map[i - 1],
                    get_value(t.first, from[i][1], DynamicData(t.first)),
                    get_value(t.second, from[i][2], DynamicData(t.second)))
  IN  map[Len(from)]

\* set_array_data: every element is replaced.
get_array_data_body(t, from, indexes) ==
  [i \in 1 .. t.dimension |->
     LET at == new_indexes(indexes, i - 1)
     IN  IF t.content.kind = "ARRAY"
         THEN get_array_data(t.content, from, at)
         ELSE get_value(t.content, from.values[get_array_index(from, at)],
                        DynamicData(t.content))]

\* set_struct_data: the loop over the ids ends behind the last.
get_struct_data(t, input, out) ==
  [n \in DOMAIN out |->
     LET id == get_member_id_by_name(t, n)
     IN  get_value(t.members[id + 1].type, input[id], out[n])]

\* set_union_data: operator[] selects the case; another one than before
\* starts anew.  An octet is stored as uint8_t here, with no switch on
\* the kind of the case: the byte is the same, and read as INT_8 its value too.
get_union_data(t, input, out) ==
  LET member == t.members[input.id + 1]
  IN  [case  |-> member.name,
       value |-> get_value(member.type, input.values[input.id],
                           IF out.case = member.name
                           THEN out.value ELSE DynamicData(member.type))]

get_value_body(t, from, to) ==
  CASE t.kind = "STRUCTURE" -> get_struct_data(t, from, to)
    [] t.kind = "UNION"     -> get_union_data(t, from, to)
    [] t.kind = "ARRAY"     -> get_array_data(t, from, <<>>)
    [] t.kind = "SEQUENCE"  -> get_sequence_data(t, from, to)
    [] t.kind = "MAP"       -> get_map_data(t, from, to)
    [] t.kind \notin Complex -> get_primitive_data(t, from)

fastdds_to_xtypes(t, input, out) == get_value(t, input, out)

-----------------------------------------------------------------------------
ConverterInit ==
  /\ type \in RootTypes
  /\ write_data = create_data(type)
  /\ written = DynamicData(type)
  /\ output = DynamicData(type)
  /\ latest = output
  /\ takes = 0

\* The simulator has set v; write converts it.
Write(v) ==
  /\ write_data' = xtypes_to_fastdds(type, v, write_data)
  /\ written' = v
  /\ UNCHANGED <<type, output, latest, takes>>

\* take: the sample, deserialized, is converted.
Take ==
  /\ takes < MaxTakes
  /\ output' = fastdds_to_xtypes(type, write_data, output)
  /\ latest' = written
  /\ takes' = takes + 1
  /\ UNCHANGED <<type, write_data, written>>

ConverterNext == (\E v \in Values[type] : Write(v)) \/ Take

ConverterSpec == ConverterInit /\ [][ConverterNext]_converterVars

-----------------------------------------------------------------------------
(* Reference definitions for the properties. *)

IsSequence(v) == Len(v) \in Nat /\ v = [i \in 1 .. Len(v) |-> v[i]]

\* v is a DynamicData of xtypes of type t; a map has each key once.
IsValue_body(t, v) ==
  CASE t.kind = "STRUCTURE" ->
         /\ v = [n \in {t.members[i].name : i \in DOMAIN t.members} |-> v[n]]
         /\ \A i \in DOMAIN t.members :
              IsValue(t.members[i].type, v[t.members[i].name])
    [] t.kind = "UNION" ->
         /\ v = [case |-> v.case, value |-> v.value]
         /\ \E i \in DOMAIN t.members :
              v.case = t.members[i].name /\ IsValue(t.members[i].type, v.value)
    [] t.kind = "ARRAY" -> /\ IsSequence(v) /\ Len(v) = t.dimension
                           /\ \A i \in DOMAIN v : IsValue(t.content, v[i])
    [] t.kind = "SEQUENCE" -> /\ IsSequence(v)
                              /\ \A i \in DOMAIN v : IsValue(t.content, v[i])
    [] t.kind = "MAP" ->
         /\ IsSequence(v)
         /\ \A i \in DOMAIN v : /\ v[i] = <<v[i][1], v[i][2]>>
                                /\ IsValue(t.first, v[i][1])
                                /\ IsValue(t.second, v[i][2])
         /\ \A i, j \in DOMAIN v : v[i][1] = v[j][1] => i = j
    [] t.kind = "INT_8" -> v \in -128 .. 127
    [] t.kind \notin Complex \union {"INT_8"} -> v \in Int

\* d is a DynamicData of Fast DDS of type t.
IsData_body(t, d) ==
  CASE t.kind = "STRUCTURE" ->
         /\ DOMAIN d = 0 .. Len(t.members) - 1
         /\ \A id \in DOMAIN d : IsData(t.members[id + 1].type, d[id])
    [] t.kind = "UNION" ->
         /\ DOMAIN d.values = 0 .. Len(t.members) - 1
         /\ d.id \in DOMAIN d.values
         /\ \A id \in DOMAIN d.values :
              IsData(t.members[id + 1].type, d.values[id])
    [] t.kind = "ARRAY" ->
         LET specs == get_array_specs(t)
         IN  /\ d = [bounds |-> specs.bounds, values |-> d.values]
             /\ DOMAIN d.values = 0 .. Places(specs.bounds) - 1
             /\ \A k \in DOMAIN d.values : IsData(specs.content, d.values[k])
    [] t.kind = "SEQUENCE" -> /\ IsSequence(d)
                              /\ \A i \in DOMAIN d : IsData(t.content, d[i])
    [] t.kind = "MAP" -> /\ IsSequence(d)
                         /\ \A i \in DOMAIN d : /\ IsData(t.first, d[i][1])
                                                /\ IsData(t.second, d[i][2])
    [] t.kind = "INT_8" -> d \in 0 .. 255
    [] t.kind \notin Complex \union {"INT_8"} -> d \in Int

\* How many values a value is made of that is no array or an array of arrays.
Size_body(t) == IF t.kind = "ARRAY" THEN t.dimension * Size(t.content) ELSE 1

\* d, a DynamicData of Fast DDS, holds v: each member under its id, an octet
\* for a signed byte, the active member of a union.
Holds_body(t, d, v) ==
  CASE t.kind = "STRUCTURE" ->
         \A i \in DOMAIN t.members :
           Holds(t.members[i].type, d[i - 1], v[t.members[i].name])
    [] t.kind = "UNION" ->
         LET member == t.members[d.id + 1]
         IN  v.case = member.name /\ Holds(member.type, d.values[d.id], v.value)
    [] t.kind = "ARRAY" -> HoldsArray(t, d, v, 0)
    [] t.kind = "SEQUENCE" ->
         Len(d) = Len(v) /\ \A i \in DOMAIN v : Holds(t.content, d[i], v[i])
    [] t.kind = "MAP" ->
         /\ Len(d) = Len(v)
         /\ \A i \in DOMAIN v : /\ Holds(t.first, d[i][1], v[i][1])
                                /\ Holds(t.second, d[i][2], v[i][2])
    [] t.kind = "INT_8" -> d = IF v < 0 THEN v + 256 ELSE v
    [] t.kind \notin Complex \union {"INT_8"} -> d = v

\* The flat array d has the elements of v, an array of arrays, one behind the
\* other from a place on.
HoldsArray_body(t, d, v, place) ==
  \A i \in DOMAIN v :
    LET next == place + (i - 1) * Size(t.content)
    IN  IF t.content.kind = "ARRAY"
        THEN HoldsArray(t.content, d, v[i], next)
        ELSE Holds(t.content, d.values[next], v[i])

\* out shows v, where its sequences may begin, and its maps may go on, with
\* what earlier samples have left; not so inside what is made anew.
Shows_body(t, out, v) ==
  CASE t.kind = "STRUCTURE" ->
         \A i \in DOMAIN t.members :
           LET n == t.members[i].name
           IN  Shows(t.members[i].type, out[n], v[n])
    [] t.kind = "UNION" ->
         /\ out.case = v.case
         /\ Shows(t.members[get_member_id_by_name(t, v.case) + 1].type,
                  out.value, v.value)
    [] t.kind = "SEQUENCE" -> IsSuffix(v, out)
    [] t.kind = "MAP" -> \A i \in DOMAIN v : \E j \in DOMAIN out : out[j] = v[i]
    [] t.kind \notin {"STRUCTURE", "UNION", "SEQUENCE", "MAP"} -> out = v

\* Each function is what it does.
Recursion ==
  \A t \in AllTypes :
    /\ create_data(t) = create_data_body(t)
    /\ DynamicData(t) = DynamicData_body(t)
    /\ Size(t) = Size_body(t)
    /\ \A v, d : /\ set_value(t, v, d) = set_value_body(t, v, d)
                 /\ get_value(t, d, v) = get_value_body(t, d, v)
                 /\ IsValue(t, v) <=> IsValue_body(t, v)
                 /\ IsData(t, d) <=> IsData_body(t, d)
                 /\ Holds(t, d, v) <=> Holds_body(t, d, v)
    /\ \A out, v : Shows(t, out, v) <=> Shows_body(t, out, v)
    /\ t.kind = "ARRAY" =>
         /\ get_array_specs(t) = get_array_specs_body(t)
         /\ \A v, d, indexes :
              /\ set_array_data(t, v, d, indexes)
                   = set_array_data_body(t, v, d, indexes)
              /\ get_array_data(t, d, indexes)
                   = get_array_data_body(t, d, indexes)
         /\ \A v, d, place :
              HoldsArray(t, d, v, place) <=> HoldsArray_body(t, d, v, place)

(***************************************************************************)
(* The objects of both libraries keep to the type of the topic, whatever   *)
(* earlier conversions have left in them; no key comes twice in a map.     *)
(***************************************************************************)
ConverterTypeOK ==
  /\ type \in RootTypes
  /\ IsValue(type, written) /\ IsValue(type, output) /\ IsValue(type, latest)
  /\ IsData(type, write_data)
  /\ takes \in 0 .. MaxTakes

(***************************************************************************)
(* write() converts into a DynamicData that still holds the last sample.   *)
(* What is published is the value that is written, nothing of an earlier   *)
(* one, each element of nested arrays at its place and each structure's    *)
(* member under its own id, whatever was written before.                   *)
(***************************************************************************)
PublishesWhatIsSet == Holds(type, write_data, written)

(***************************************************************************)
(* docs/index.md, Data flow: "all data is fetched, but only the latest     *)
(* sample is kept".  take() converts sample after sample into one object.  *)
(* It shows the latest sample exactly for types without sequences and      *)
(* maps, the ones the documentation supports; a sequence ends with the     *)
(* latest sample's elements and a map has its pairs.                       *)
(***************************************************************************)
OutputShowsLatest == takes > 0 => Shows(type, output, latest)
=============================================================================
