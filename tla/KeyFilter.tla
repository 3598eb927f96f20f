------------------------------ MODULE KeyFilter ------------------------------
(***************************************************************************)
(* Key filtering: the readers of outputs with key_filter get a             *)
(* CustomKeyFilter each.  The filter learns its key values when the        *)
(* simulator leaves initialization mode (init_key_filters, on the thread   *)
(* of the simulator) and is asked about every sample that arrives          *)
(* (evaluate, on the receiving thread of Fast DDS).  Nothing orders the    *)
(* two: add_type first puts its entry into the map that evaluate looks up, *)
(* then fills in the key values one by one, then sets key_count.           *)
(*                                                                         *)
(* The readers are independent but for init_key_filters, which visits them *)
(* one after the other and ends with the first exception.                  *)
(*                                                                         *)
(* init_key_filters finds the parameters of a reader in m_filter_data,     *)
(* under the address of the reader's ContentFilteredTopic.  clear() leaves *)
(* m_filter_data as it is, and emplace keeps an entry that is there: a     *)
(* filter at the address of one before the reset has its data, which       *)
(* DataMapper::reset has destroyed.                                        *)
(***************************************************************************)
EXTENDS Integers, Sequences

CONSTANTS
  Readers,       \* the filtered data readers
  KeyFiles,      \* kinds of the @key leaves of every reader's type, in
                 \* for_each order, as the IDL files may define them
  Domain,        \* Domain[kind]: the values of a key of that kind, as numbers
                 \* (FALSE is 0, TRUE is 1, a float is in units of 10^-7, a
                 \* string is its rank)
  Default,       \* Default[kind]: the value of a new DynamicData
  Addresses,     \* where a ContentFilteredTopic may be allocated
  None           \* no entry, no sample

ASSUME KeyAssumption ==
  /\ KeyFiles # {}
  /\ KeyFiles \subseteq [Readers -> Seq(DOMAIN Domain) \ {<<>>}]
  /\ DOMAIN Default = DOMAIN Domain
  /\ \A k \in DOMAIN Domain : Domain[k] \subseteq Int
  /\ \A k \in DOMAIN Domain : Default[k] \in Domain[k]
  /\ None \notin Readers
  /\ None \notin [key_data : Seq(Int), filled : Nat, key_count : Nat]

VARIABLES
  KeyKinds,    \* the IDL files as the last reset read them
  mode,        \* the FMI mode, "registering" inside init_key_filters
  parameter,   \* per reader: the key values in the DataMapper
  given,       \* per reader: the key values when initialization mode ended
  todo,        \* readers init_key_filters has still to visit
  adding,      \* the reader add_type is at work for, or None
  new_params,  \* the texts of the keys it is called with
  member_type, \* per reader: the entry of member_types for its GUID
  registered,  \* readers whose type is known to the static Converter
  filter,      \* per reader: the address of its ContentFilteredTopic
  m_filter_data, \* per address: None, or whether its data is still there
  history,     \* per reader: the sample kept for take, KEEP_LAST 1
  output       \* per reader: the keys of the sample the FMU output holds

filters == <<filter, m_filter_data>>

samples == <<history, output>>

vars == <<KeyKinds, mode, parameter, given, todo, adding, new_params,
          member_type, registered, filters, samples>>

\* The key values a sample may have when the @key leaves are of these kinds.
KeysOf(kinds) ==
  {s \in [DOMAIN kinds -> UNION {Domain[k] : k \in DOMAIN Domain}] :
     \A i \in DOMAIN s : s[i] \in Domain[kinds[i]]}

Keys(r) == KeysOf(KeyKinds[r])

DefaultKeys(r) == [i \in DOMAIN KeyKinds[r] |-> Default[KeyKinds[r][i]]]

\* init_key_filters turns a value into text: the numeral, but std::to_string
\* prints six decimals of a float and a bool goes through boolalpha.
to_text(kind, v) ==
  IF kind = "BOOLEAN" THEN (IF v = 1 THEN "true" ELSE "false")
  ELSE IF kind = "FLOAT_64" THEN 10 * ((v + 5) \div 10)
  ELSE v

\* add_type reads the text.  Its stream is not boolalpha: of the texts for a
\* bool "1" alone is TRUE.
from_text(kind, text) ==
  IF kind = "BOOLEAN" THEN (IF text = "1" THEN 1 ELSE 0) ELSE text

\* The texts of key values of these kinds.
texts(kinds, keys) == [i \in DOMAIN keys |-> to_text(kinds[i], keys[i])]

\* The kinds init_key_filters has a case for.
Printable(kind) == kind # "FLOAT_128"

\* std::map::emplace at an address: an entry that is there stays as it is.
Emplace(entry) == IF entry = None THEN "current" ELSE entry

\* Mutants: a reader without a filter lets everything through; the last key
\* is not compared.
evaluateUnknown(r, sample) ==
  \/ member_type[r] = None
  \/ \A i \in 1 .. member_type[r].key_count :
       sample[i] = member_type[r].key_data[i]

evaluateButLast(r, sample) ==
  /\ member_type[r] # None
  /\ \A i \in 1 .. member_type[r].key_count - 1 :
       sample[i] = member_type[r].key_data[i]

\* evaluate.  compare_keys stops when as many keys as key_count are compared,
\* at the first node already if that is none.
evaluate(r, sample) ==
  /\ member_type[r] # None
  /\ \A i \in 1 .. member_type[r].key_count :
       sample[i] = member_type[r].key_data[i]

-----------------------------------------------------------------------------
\* Addresses for the filters of all readers.
Allocations ==
  {f \in [Readers -> Addresses] : \A q, r \in Readers : f[q] = f[r] => q = r}

Init ==
  /\ KeyKinds \in KeyFiles
  /\ mode = "setup"
  /\ parameter = [r \in Readers |-> DefaultKeys(r)]
  /\ given = parameter
  /\ todo = {}
  /\ adding = None
  /\ new_params = <<>>
  /\ member_type = [r \in Readers |-> None]
  /\ registered = Readers
  /\ filter \in Allocations
  /\ m_filter_data = [a \in Addresses |-> IF \E r \in Readers : filter[r] = a
                                          THEN "current" ELSE None]
  /\ history = [r \in Readers |-> None]
  /\ output = [r \in Readers |-> None]

\* fmi2SetXXX on a key parameter.  Nothing keeps the simulator from setting
\* it again while stepping.
SetParameter(r, i, v) ==
  /\ mode \in {"setup", "stepping"}
  /\ parameter' = [parameter EXCEPT ![r][i] = v]
  /\ UNCHANGED <<KeyKinds, mode, given, todo, adding, new_params, member_type,
                 registered, filters, samples>>

ExitInitializationMode ==
  /\ mode = "setup"
  /\ mode' = "registering"
  /\ given' = parameter
  /\ todo' = Readers
  /\ UNCHANGED <<KeyKinds, parameter, adding, new_params, member_type,
                 registered, filters, samples>>

\* The data of r's parameters is that of an earlier reset.
Destroyed(r) == m_filter_data[filter[r]] = "destroyed"

\* The key values for_each comes to in the parameters of r.  Of destroyed
\* data nothing is sure: any values, and not all of them.
KeysRead(r) ==
  IF Destroyed(r)
  THEN {SubSeq(keys, 1, n) : keys \in Keys(r), n \in 0 .. Len(KeyKinds[r])}
  ELSE {given[r]}

\* The text of a key cannot be made: init_key_filters throws.  Destroyed data
\* may have nodes of any kind.
Unprintable(r) ==
  /\ mode = "registering"
  /\ adding = None
  /\ r \in todo
  /\ \/ Destroyed(r)
     \/ \E i \in DOMAIN KeyKinds[r] : ~Printable(KeyKinds[r][i])
  /\ mode' = "failed"
  /\ UNCHANGED <<KeyKinds, parameter, given, todo, adding, new_params,
                 member_type, registered, filters, samples>>

\* set_expression_parameters, up to the entry in member_types.  Without the
\* type in the Converter the factory answers BAD_PARAMETER, which nobody
\* reads; a GUID it has already keeps its entry.
Register(r) ==
  /\ mode = "registering"
  /\ adding = None
  /\ r \in todo
  /\ \A i \in DOMAIN KeyKinds[r] : Printable(KeyKinds[r][i])
  /\ IF r \in registered /\ member_type[r] = None
     THEN /\ adding' = r
          /\ \E keys \in KeysRead(r) : new_params' = texts(KeyKinds[r], keys)
          /\ member_type' = [member_type EXCEPT ![r] =
               [key_data |-> DefaultKeys(r), filled |-> 0, key_count |-> 0]]
          /\ UNCHANGED todo
     ELSE /\ todo' = todo \ {r}
          /\ UNCHANGED <<adding, new_params, member_type>>
  /\ UNCHANGED <<KeyKinds, mode, parameter, given, registered, filters,
                 samples>>

\* The for_each of add_type, one key value a step.
FillKey(r) ==
  LET entry == member_type[r]
      i == entry.filled + 1
  IN  /\ adding = r
      /\ i <= Len(KeyKinds[r])
      /\ i <= Len(new_params)
      /\ member_type' = [member_type EXCEPT ![r] =
           [key_data  |-> [entry.key_data EXCEPT
                             ![i] = from_text(KeyKinds[r][i], new_params[i])],
            filled    |-> i,
            key_count |-> entry.key_count]]
      /\ UNCHANGED <<KeyKinds, mode, parameter, given, todo, adding,
                     new_params, registered, filters, samples>>

\* add_type is done with r.
AddTypeEnds(r) ==
  /\ adding' = None
  /\ new_params' = <<>>
  /\ todo' = todo \ {r}
  /\ UNCHANGED <<KeyKinds, mode, parameter, given, registered, filters,
                 samples>>

\* add_type throws: "has more @key members than parameter data provided".
\* The factory catches it; the entry stays, with a key_count of zero.
TooFewParameters(r) ==
  /\ adding = r
  /\ member_type[r].filled < Len(KeyKinds[r])
  /\ member_type[r].filled = Len(new_params)
  /\ AddTypeEnds(r)
  /\ UNCHANGED member_type

\* Mutant: the count is set before all keys are there.
SetKeyCountEarly(r) ==
  /\ adding = r
  /\ member_type' = [member_type EXCEPT ![r].key_count = member_type[r].filled]
  /\ AddTypeEnds(r)

SetKeyCount(r) ==
  /\ adding = r
  /\ member_type[r].filled = Len(KeyKinds[r])
  /\ member_type' = [member_type EXCEPT ![r].key_count = member_type[r].filled]
  /\ AddTypeEnds(r)

\* Mutant: the loop over the filters is left early.
ExitDoneEarly ==
  /\ mode = "registering"
  /\ adding = None
  /\ mode' = "stepping"
  /\ UNCHANGED <<KeyKinds, parameter, given, todo, adding, new_params,
                 member_type, registered, filters, samples>>

ExitDone ==
  /\ mode = "registering"
  /\ todo = {}
  /\ mode' = "stepping"
  /\ UNCHANGED <<KeyKinds, parameter, given, todo, adding, new_params,
                 member_type, registered, filters, samples>>

\* A sample arrives on the receiving thread and is kept if the filter says
\* so.
Arrive(r, sample) ==
  /\ evaluate(r, sample)
  /\ history' = [history EXCEPT ![r] = sample]
  /\ UNCHANGED <<KeyKinds, mode, parameter, given, todo, adding, new_params,
                 member_type, registered, filters, output>>

\* DoStep: take moves what has been kept into the outputs.
DoStep ==
  /\ mode = "stepping"
  /\ output' = [r \in Readers |-> IF history[r] # None THEN history[r]
                                                      ELSE output[r]]
  /\ history' = [r \in Readers |-> None]
  /\ UNCHANGED <<KeyKinds, mode, parameter, given, todo, adding, new_params,
                 member_type, registered, filters>>

\* fmi2Reset: new data, new readers with new GUIDs, new filters, and the
\* types are registered again.  The data m_filter_data refers to is gone, its
\* entries are not.
Reset ==
  /\ mode \in {"setup", "stepping", "failed"}
  /\ KeyKinds' \in KeyFiles
  /\ mode' = "setup"
  /\ parameter' = [r \in Readers |-> DefaultKeys(r)']
  /\ given' = parameter'
  /\ todo' = {}
  /\ adding' = None
  /\ new_params' = <<>>
  /\ member_type' = [r \in Readers |-> None]
  /\ registered' = Readers
  /\ filter' \in Allocations
  /\ m_filter_data' =
       [a \in Addresses |->
          LET entry == IF m_filter_data[a] = None THEN None ELSE "destroyed"
          IN  IF \E r \in Readers : filter'[r] = a THEN Emplace(entry)
                                                   ELSE entry]
  /\ history' = [r \in Readers |-> None]
  /\ output' = [r \in Readers |-> None]

\* Another FMU instance of the process is reset or freed: its clear() empties
\* the static Converter.
OtherInstanceClears ==
  /\ registered # {}
  /\ registered' = {}
  /\ UNCHANGED <<KeyKinds, mode, parameter, given, todo, adding, new_params,
                 member_type, filters, samples>>

Simulator ==
  \/ \E r \in Readers : \E i \in DOMAIN KeyKinds[r] :
       \E v \in Domain[KeyKinds[r][i]] : SetParameter(r, i, v)
  \/ ExitInitializationMode
  \/ \E r \in Readers :
       \/ Unprintable(r) \/ Register(r) \/ FillKey(r) \/ TooFewParameters(r)
       \/ SetKeyCount(r)
  \/ ExitDone
  \/ DoStep
  \/ Reset

Next ==
  \/ Simulator
  \/ \E r \in Readers : \E sample \in Keys(r) : Arrive(r, sample)
  \/ OtherInstanceClears

Spec == Init /\ [][Next]_vars

-----------------------------------------------------------------------------
\* An entry for n keys; and what TypeOK says of the one of r.
EntryOf(n) == [key_data : [1 .. n -> Int], filled : 0 .. n, key_count : {0, n}]

Entry(r) == EntryOf(Len(KeyKinds[r]))

TypeOK ==
  /\ KeyKinds \in KeyFiles
  /\ mode \in {"setup", "registering", "stepping", "failed"}
  /\ adding \in Readers \union {None}
  /\ todo \subseteq Readers /\ registered \subseteq Readers
  /\ filter \in Allocations
  /\ m_filter_data \in [Addresses -> {None, "current", "destroyed"}]
  /\ \A D \in {DOMAIN parameter, DOMAIN given, DOMAIN member_type,
               DOMAIN history, DOMAIN output} : D = Readers
  /\ \A r \in Readers :
       /\ {parameter[r], given[r]} \subseteq Keys(r)
       /\ member_type[r] = None \/ member_type[r] \in Entry(r)
       /\ {history[r], output[r]} \subseteq Keys(r) \union {None}

\* add_type has finished for r.
Settled(r) == member_type[r] # None /\ member_type[r].key_count > 0

\* The values of a sample's key that pass the filter of a user who has given
\* g: no boolean but FALSE, whatever g is, since "true" is not read back; of
\* the floats the one with six decimals that is nearest to g, and g itself
\* only if it has no more.
Passes(kind, g, v) ==
  CASE kind = "BOOLEAN"  -> v = 0
    [] kind = "FLOAT_64" -> v % 10 = 0 /\ g - v \in -5 .. 4
    [] OTHER             -> v = g

(***************************************************************************)
(* A filtered reader exists from fmi2Instantiate on, its key values are    *)
(* known when initialization mode ends.  Whatever arrives in between, no   *)
(* sample is kept for the output until the reader's own filter exists.     *)
(***************************************************************************)
NothingUnfiltered ==
  \A r \in Readers :
    member_type[r] = None => history[r] = None /\ output[r] = None

(***************************************************************************)
(* Once add_type is through, the filter is exactly that of the keys given  *)
(* when initialization mode ended: all keys are compared, a parameter set  *)
(* later changes nothing, nor does another reader or an earlier reset.     *)
(* For keys whose text loses nothing these are the samples with the given  *)
(* keys; for a boolean or a float key the filter is that of another value  *)
(* (Passes), against docs/index.md:185.  A filter that has found destroyed *)
(* data in m_filter_data has keys nobody gave, and is left out.            *)
(***************************************************************************)
FilterIsExact ==
  \A r \in Readers : Settled(r) /\ ~Destroyed(r) =>
    \A sample \in Keys(r) :
      evaluate(r, sample) <=>
        \A i \in DOMAIN KeyKinds[r] :
          Passes(KeyKinds[r][i], given[r][i], sample[i])

(***************************************************************************)
(* When init_key_filters has returned, every reader whose parameters are   *)
(* there has its filter, so that no output stays silent, or unfiltered,    *)
(* for the rest of the simulation; unless another instance of the process  *)
(* has emptied the static Converter meanwhile, which docs/index.md:178     *)
(* warns of ("Several FMU instances").                                     *)
(***************************************************************************)
SteppingMeansFiltering ==
  (mode = "stepping" /\ registered = Readers) =>
    \A r \in Readers : Destroyed(r) \/ Settled(r)

(***************************************************************************)
(* CustomKeyFilterFactory.hpp: "a sample is dropped unless the key members *)
(* match the user-provided values".                                        *)
(***************************************************************************)
OutputHasGivenKeys ==
  \A r \in Readers : output[r] # None => output[r] = given[r]
=============================================================================
