# Verification of dds-fmu

dds-fmu is an FMI 2.0 co-simulation slave that bridges a simulator and DDS.
Its signals are not fixed: IDL files give the data types, `ddsfmu_mapping.xml`
says which topics are outputs (`<fmu_out>`, optionally with `key_filter`) and
inputs (`<fmu_in>`), and `dds_profile.xml` gives the quality of service. One
program, the repacker, turns these files into `modelDescription.xml`; another,
the FMU, reads the same files when it is instantiated or reset. This directory
holds TLA+ modules for the parts of that system that keep state, the TLC
configurations that check them, and TLAPS proofs about every state machine
among them.

All paths below are relative to `src/` of the repository, `src/detail/X` for
example being `src/src/detail/X` from the root of this project.

## 1. Inventory

### The parts and how they interact

| part | state | operations | used by |
|---|---|---|---|
| repacker (`src/repacker/repacker.cpp`) | the files of the FMU's directory, the archive | commands `generate`, `zip`, `create` | the user, before the simulation |
| its `generate_xml` with `SignalDistributor` | next value reference per FMI type, list of signals, queue of key parameters, number of outputs | `add`, `queue_for_key_parameter`, `process_key_queue`; `generate_xml` walks the mapping file | the repacker |
| `DataMapper` (`src/detail/DataMapper.*`) | one xtypes `DynamicData` per topic and direction, one vector of reader and of writer visitors per FMI type, queue of key parameters, offsets | `reset`, `clear`, `add`, `data_ref`, the visitors | `FmuInstance`, `DynamicPubSub` (references into the data) |
| `FmuInstance` (`src/detail/FmuInstance.hpp`) | a `DataMapper` and a `DynamicPubSub` | `SetXXX`, `GetXXX`, `ExitInitializationMode`, `DoStep`, `Reset` | the simulator, one thread |
| `DynamicPubSub` (`src/detail/DynamicPubSub.*`) | DDS participant, publisher, subscriber, topics, readers, writers, content filters, and maps from them to the data | `reset`, `clear`, `init_key_filters`, `write`, `take` | `FmuInstance` |
| `CustomKeyFilter`, `CustomKeyFilterFactory` | per filtered reader: key values, count, scratch data | `create_content_filter`, `add_type`, `evaluate`, `compare_keys` | `init_key_filters` (simulator's thread) and Fast DDS (its receiving threads) |
| `Converter` (`src/detail/Converter.*`) | static registry of types and builders, shared by all instances of the process | `xtypes_to_fastdds`, `fastdds_to_xtypes`, `create_builder`, `clear_data_structures` | all of the above |
| `visitors.hpp` | none | casts between FMI and IDL types | `DataMapper`, for the accessors of `FmuInstance` |
| `model-descriptor`, `auxiliaries` (`src/configuration/`) | none | XML, structured names, GUID, loading of IDL and mapping | both programs |
| `dds-fmu.cpp` | none | `CppfmuInstantiateSlave`: GUID check, construction | the simulator |
| `LoggerAdapters.hpp` | the static list of log consumers of Fast DDS | forwards the log to the instance's logger, on a thread of Fast DDS | `DynamicPubSub` |

The simulator calls the FMU; `DoStep` is `write` then `take`. `DataMapper` and
`DynamicPubSub` share the `DynamicData` objects: the latter keeps C++
references that dangle as soon as `DataMapper::reset` has cleared its store.
Fast DDS calls back: it evaluates filters and fills the readers' histories on
threads of its own while the simulator's thread is anywhere in its calls.

### What is hard

* *Two numberings.* The repacker and the FMU number the scalars in two
  separate programs, with two switches over the type kinds. Nothing but their
  agreement makes a value reference mean the same leaf in both.
* *Failed resets.* `reset` of each part throws at many points and leaves its
  members half changed; FMI allows another reset afterwards. Members that
  `clear` forgets live on: `m_potential_keys`, `m_offsets`, `m_filter_data`.
* *Foreign threads.* Samples arrive between any two steps of
  `init_key_filters`, of `add_type`, and of the loop in `take`.
* *Order of deletion.* Fast DDS refuses to delete what is in use; `clear` has
  to succeed whatever a failed `reset` left.
* *Files that change.* The GUID is compared once; `fmi2Reset` reads the files
  as they are then, and `DataMapper` and `DynamicPubSub` read the mapping one
  after the other.
* *Reused objects.* Conversions go into `DynamicData` that holds an earlier
  sample.
* *Statics.* Instances of one process share the maps of the `Converter` and the
  consumers of the log; each empties them for all.
* *Widths.* A value goes from an IDL kind to an FMI type, to the simulator and
  back into another kind.
* *Failures nobody notices.* The repacker does not look at the results of
  writing files, and goes on.

The complete list, with the line where each bites and the properties that
cover it, is `hazards` in `PROJECT.json`.

### What makes each part correct

* Repacker: references unique, dense and ordered per type; `ModelStructure`
  lists exactly the outputs; what `create` packs is accepted and describes the
  files packed with it; an archive that is there survives unless `-f` is given.
* DataMapper: each visitor refers to a living leaf of the type of its vector,
  also after a failure; a reset leaves nothing of an earlier file.
* Both together: every reference of the description reaches the leaf its
  variable names.
* DynamicPubSub: the participant can always be deleted; the entities and the
  data a ready instance writes, takes and reads are those of its last reset.
  That does not go for the data of its key parameters, which it may find
  destroyed.
* Key filters: no unfiltered sample reaches an output, the filter is that of
  the keys given, and no reader is left without one; as far as the data of
  the parameters is there and the text of a key is read back as it was.
* Accessors: a number both sides can represent arrives unchanged; a call that
  throws has done what came before.
* Process: the static maps never have a pointer or a builder of another
  instance that is gone or was reset; an instance that nobody disturbs has its
  own definitions of types, its filters and its log, and listens alone. The
  log consumer of an instance that is being destroyed does refer to what is
  gone (section 3).
* FmuInstance: sample and hold, no step back, no own sample ahead of its
  input, a step returns, the last sample is not left behind.
* Converter: what is published holds the value set, whatever it held before;
  the output shows the latest sample; objects keep to their type.

## 2. Modules

| module | models | kind |
|---|---|---|
| `IdlTypes` | type kinds, mapping files, `resolve_type` | definitions, constants |
| `SignalDistributor` | `generate_xml` and `SignalDistributor` | state machine |
| `DataMapper` | `DataMapper::reset` | state machine |
| `Repacker` | the commands of the repacker around the walk of `generate_xml`, files that change, accesses that fail | state machine, extends `SignalDistributor` |
| `SignalMapping` | both walks, the simulator's import, instantiation, reset, files that change | composition: extends `DataMapper`, with an instance of `SignalDistributor` |
| `Accessors` | `SetXXX`, `GetXXX` and the visitors | state machine over operators with widths |
| `Process` | several instances in one process and what is static | state machine |
| `KeyFilter` | key filters, `init_key_filters`, arrival of samples | state machine |
| `DynamicPubSub` | entities and maps of `DynamicPubSub` | state machine |
| `SampleHold` | what `docs/index.md`, "Data flow", promises | abstract specification |
| `FmuInstance` | `SetXXX`, `DoStep`, `write`, `take`, `Reset` against DDS | state machine, implements `SampleHold` |
| `Converter` | both directions of the conversion, on reused data | operators, the functions among them that call themselves being parameters, and a small state machine |
| `SignalDistributorProofs`, `RepackerProofs`, `SignalMappingProofs`, `AccessorsProofs`, `ConverterProofs` (also of `Process`), `KeyFilterProofs`, `DynamicPubSubProofs`, `FmuInstanceProofs` | | proofs |
| `MCSignals`, `MC*` | values of the constants | instances |

### IdlTypes, SignalDistributor, DataMapper

A type is the sequence of nodes `for_each` visits, each a kind and whether it
comes from an `@key` member. A mapping file is a pair of sequences of
elements; an element may lack an attribute or name a type nobody defines.
`SignalDistributor` takes one step per element and per visited node.
`pc` is the loop that runs; `Generate` starts a run on any file, `Reject` is
the exception on a broken element, `BeginAdd`, `Visit` and `EndAdd` are the
call of `add` and its callback, `NextLoop` the end of a loop including
`process_key_queue`. `m_idx`, `m_outputs`, `m_potential_keys` and
`m_signal_mapping` are the members of the class. An output leaf of an
unsupported kind is counted in `m_outputs` before the early return, as in
`SignalDistributor.cpp:53`.

`DataMapper` has the same shape and keeps the members of its class.
`m_visitors` stands for reader and writer vector of a type, which `add`
extends together. `Reset` is `clear` with exactly the members it clears,
`Duplicate` the exception on an existing key, after which everything done so
far stays. Bound: `MaxStaleKeys` entries may survive failed resets in the
queue, without it the queue grows for ever.

### Repacker

The walk of `generate_xml` is that of `SignalDistributor`, whose actions
`StartWalk` and `Walk` take; around it a command goes through the stages `load`,
`template`, `generate`, `walk`, `guid` and `write` of `generate_xml` and `open`
and `zip` of `zip_fmu`. The user edits the configuration between any two of
them but in the walk, which reads no file. `Fail` is an exception at an access
to a file or a broken one, `WalkFails` one of the walk. `Written` has the three
things an unchecked `ofstream` may leave: the file, a part of it, the old one.
`Open` truncates the archive, `AddEntry` reads a file as it is by then,
`Abandon` returns without closing, `Close` may fail unnoticed.

`Digest` is the GUID of a configuration, a constant function of which nothing is
assumed: configurations may collide, and in the run two do, which differ by a
blank. The description keeps what it was made from (`source`) and whether
anything was edited or failed meanwhile (`clean`), the archive whether an
undisturbed `create` made it: history, which no action looks at.

### SignalMapping

The module extends `DataMapper` and takes the repacker as the instance `SD`.
`Import` copies what the repacker wrote, together with the file it wrote it
from (the GUID, here without collisions); `Instantiate` requires that GUID,
`fmi2Reset` does not. `stale` remembers that a reset began with queued keys: the
known defect below is kept out of the premise so that the property speaks about
everything else.

### Accessors

A leaf is addressed directly; that the value reference finds it is the business
of `SignalMapping`. Every kind has a range of its width (`Size8` to `Size64`,
powers of two in the run, any even numbers in the proofs) or a significand of
its precision; `Wrap`, `Round` and `Truncate` are what `static_cast` does, and a
real out of the range of the integer, which C++ leaves undefined, becomes any
value of the kind. A real rounds to the nearest number with the least unit in
its last place that its size allows, and becomes infinite above the largest, as
IEEE 754 has it; `Units` bounds the exponents, the same for float and double.
Reals are counted in halves, so that there is a fraction to lose; NaN, negative
zero and subnormal numbers are left out. The simulator keeps a value per variable (`variable`), may connect an
output to an input, and sets and gets with calls over several references, one
reference a step. `origin` is history: the leaf value a variable goes back to.

### Process

`at[i]` is where a call has come in instance `i`; the simulator makes one call
at a time, so that between two steps of one reset nothing else happens, but
between two calls everything does. The order inside `clear` is that of the
code: consumers, entities, static maps. In the destructor, and in a constructor
that throws, `m_logger` goes first, being the last member: in that state
(`unwind`) the consumer is still registered and what it refers to is gone, until
`ClearConsumers`. A definition of a type is named by the instance whose
IDL files gave it. That `delete_participant` succeeds, after which `clear` does
not throw, is `ParticipantIsDeleted` of `DynamicPubSub`.

### KeyFilter

`member_type[r]` is the entry of `member_types` for the GUID of `r`; it is
visible to `evaluate` from `Register` on, its keys come in with `FillKey` and
`key_count` with `SetKeyCount`. `Arrive` may happen between any two of them.
`to_text` and `from_text` are what `std::to_string`, `boolalpha` and the
`sto*` functions do to the values: a float loses what is beyond six decimals
(the model counts in units of 10^-7) and "true" read without `boolalpha` is
`false`. A kind without a case in the switch throws (`Unprintable`).
`OtherInstanceClears` is another FMU instance of the process emptying the
static registry of the `Converter`: registration then silently does nothing.

`filter[r]` is the address of the reader's `ContentFilteredTopic` and
`m_filter_data` says, per address, whether the data the entry refers to is
still there. `Reset` takes new addresses, any that are different from each
other, and puts entries under those that have none (`Emplace`); all entries from
before the reset are destroyed and stay, as `clear` leaves them. At an address
that has one `init_key_filters` reads destroyed data, of which the model assumes
nothing (`KeysRead`): it throws (`Unprintable`), or comes to any keys, all of
them or fewer, after which `add_type` throws in its turn (`TooFewParameters`),
which the factory catches. The file of a reset may be another than before, with
other key kinds.

### DynamicPubSub

`MapperReset` is the first half of `FmuInstance::Reset`: the data dies, the
references in the maps dangle, and it may throw. Both halves read the mapping
file: `mapped` is what the DataMapper has read, `listed` what `DynamicPubSub` has,
and the user may have saved another file in between. What `DynamicPubSub` gets
from the DataMapper it gets by topic and direction: `InStore` says whether
`data_ref` has it or throws, `StoreType` of which type it is, `need_filter`
whether there are key parameters. All three look at `mapped`. A file that changes
so that only `DynamicPubSub` meets a topic twice in a direction is left out. `Clear` deletes in the order
of the code, against the refusal rules of Fast DDS (external definitions,
from the documented return codes and from how `clear` uses them). `Create`,
`SignalFails`, `AddWriter` and `Subscribe` are `reset`, each with the points
at which it throws. A `ContentFilteredTopic` is its address, and an address
may be allocated again once it is free: `m_filter_data` is keyed by address
and is not cleared.

### FmuInstance and SampleHold

Each `write` of a topic, each `take_next_sample` and each arrival is a step.
Readers keep the last `Depth` samples. A write to a topic the FMU also
subscribes to either reaches the reader before it returns (intraprocess
delivery) or travels and may be lost; which one is fixed per behaviour.
Samples are numbered per writer, so that going back can be seen.
`SampleHold` has no readers and no loops: one publication per writer, then one
moment per output at which it takes over the latest sample. The refinement
maps `hold` to what the output was before the loop came to the reader as long
as it is there (the simulator, which is inside `DoStep`, cannot look), and
`pending` to the newest sample not yet shown.

### Converter

xtypes and Fast DDS keep values differently: members by name against members
by id, sequences of sequences against a flat array with several bounds, the
case of a union against a union that keeps all its members' values. The model
has both representations and both directions of the conversion, operator by
function (`set_*` to Fast DDS, `get_*` for the overloads to xtypes). `Write`
and `Take` use one object each, over and over, as the connections do.

A function that calls itself for the parts of a type is a parameter of the
module (`set_value`), and what it does an operator (`set_value_body`), which
calls the parameter. `MCConverter` makes the one the other: `MCset_value` is
`set_value_body` of its arguments, and the `.cfg` has `set_value <- MCset_value`,
so that TLC evaluates the recursion. The theorems have it as their hypothesis
`Recursion`. The loops of the code are
recursive functions on `Nat` inside a `LET`.

What the results are compared with is defined apart from the code: `IsValue` and
`IsData` are the objects of a type in xtypes and in Fast DDS, `Holds` says that
a Fast DDS object has a value (member under its id, signed byte as an octet,
active member of a union), and for arrays of arrays that the elements lie one
behind the other, counted by `Size`, not by the indexes and bounds the code
uses.

`Converter.cpp` is code of eProsima, taken over without functional changes
according to its header; it is modelled because every sample goes through it.
Elements of primitive kinds are numbers, INT_8 is an octet on the Fast DDS side.
Aliases are taken as resolved: an array of a typedef'd array, where
`get_array_specs` stops at the alias and `set_array_data` does not, is not in
the model, because the outcome is decided inside Fast DDS.

## 3. Runs

Bounds are in the `.cfg` files and the `MC` modules. All runs check for
deadlock.

| run | instance | checks |
|---|---|---|
| `Repacker` | four files: two outputs with filters in an order of their own and an input, one that is rejected behind an unsupported leaf, two that collide; two edits | `TypeOK`, `DenseReferences`, `StructureListsOutputs`, `RepackerTypeOK`, `AcceptedMeansDescribed`, `CreateDelivers`, `ArchivesSurvive` |
| `SignalMapping` | six files that differ in order, filters, inputs, one duplicate topic, one unknown type; both programs, a reset to any of the files at any time | `TypeOK`, `VisitorsAreBound`, `OneReferencePerLeaf`, `ReferencesAgree`, `PartialResetAnswersAlike` |
| `Accessors` | an output and an input over each pair of kinds of an FMI type, a second input; widths of 1, 2, 3 and 5 bits, significands of 2 and 4, exponents from 0 to 6, so that a double can be too large for a float | `TypeOK`, `CallsArePrefixes`, `RelayIsExact` |
| `Process` | three instances, two type names they all use | `TypeOK`, `SoleListener`, `PointersAreValid`, `OwnDefinitions`, `AloneIsComplete` |
| `KeyFilter` | two readers, three addresses, three files: an integer and a string key against an integer, one with an unprintable kind, a float against a boolean | `TypeOK`, `NothingUnfiltered`, `FilterIsExact`, `SteppingMeansFiltering` |
| `DynamicPubSub` | six files over two topics and types, in the last a topic of two types, any two of them for the two reads; two filter addresses | `TypeOK`, `ParticipantIsDeleted`, `ConnectionsAreCurrent`, `ConnectionsAgreeOnType`, `FiltersHaveData` |
| `FmuInstance` | an input nobody looks at, whose value therefore stays, a topic written and read by the FMU alone, one it shares with a peer; depth 2, two peer samples, one in flight | `TypeOK`, `OwnSampleLags`, `SampleAndHold`, `NeverBack`, `StepReturns`, `LatestIsHeld` |
| `Converter` | five types, 3 takes, any number of writes | `ConverterTypeOK`, `PublishesWhatIsSet`, `OutputShowsLatest` |

Two outputs and an input are enough for the signal modules: an error in a
numbering shows with the second leaf of a type, an error in an order with two
topics, and the key parameters of two outputs already come in an order of
their own. Three instances are enough for one to come
between two that share a type name. The scaled widths keep the order of the
real ones, in which a double holds every 32-bit integer and not every 64-bit
one. Two filters are enough for one to be visited and the other not when
an exception ends `init_key_filters`; three addresses for a reset to find old
ones for both, for one or, the first time, for one of them only. The run
`KeyFilterWindow` leaves out the float and boolean keys. Of the floats of the
model 2 * 10^-7 is lost in its text and 10^-6 is not.
Depth 2 is the least at which a history holds samples and can overflow. Three
takes into one object are enough for a sequence to show what two earlier
samples left.

### Divergences the runs show

Each of these runs checks one statement of the repository and ends with a
counterexample.

* `DataMapperStaleKeys`: `DataMapper.hpp:61` says `reset` "Clears and
  repopulates internal data structures". `clear` leaves `m_potential_keys`
  alone. When a reset fails behind a queued output, the next reset of a
  different file adds parameters of the first one; when it is the same file,
  it fails on the duplicate, and so does every later one.
* `KeyFilterWindow`: `CustomKeyFilterFactory.hpp:28` says "a sample is dropped
  unless the key members match the user-provided values". The entry is visible
  before `key_count` is set, and with a count of 0 `compare_keys` answers true
  at the first node. A sample that arrives in that window passes.
* `AccessorsString`: `docs/index.md:147` maps string and char8 to `fmiString`.
  `GetString` (`FmuInstance.hpp:81`) answers with `c_str()` of a local string,
  which is destroyed before the simulator can look.
* `ProcessSeveral`: `docs/index.md:178` allows several instances as long as
  they are on different domains. The maps of the `Converter` are static: an
  instance that is reset or freed between the reset and the first step of
  another leaves it without the types of its filters, or with its own
  definitions under their names. `create_content_filter` then answers
  `BAD_PARAMETER`, nobody reads it, and the filtered outputs stay silent.

Found while modelling and without a run of their own:

* Keys of kind bool are printed as "true" (`DynamicPubSub.cpp:114`) and read
  without `boolalpha` (`CustomKeyFilter.cpp:44`): every filter, that for `true`
  too, keeps the samples with `false`. Floats are compared after their trip
  through six decimals, so that a value with more never passes its own filter.
  `docs/index.md:185` has `@key` "partially supported: primitive types, string
  and enumerations". Integers, strings and the others are exact.
  `FilterIsExact` says, kind by kind, which samples pass (`Passes`).
* `m_filter_data` is not cleared (`DynamicPubSub.cpp:232`), though
  `DynamicPubSub.hpp:106` says "Resets all members": `emplace` (`:528`) keeps the
  entry of an earlier filter when a new one has its address, with a reference
  to destroyed data, and `init_key_filters` (`:103`) reads it. Whether it throws
  or registers keys nobody gave is chance. `FiltersHaveData` says that the
  entry is destroyed or of the filter's own topic; `FilterIsExact` and
  `SteppingMeansFiltering` are about the readers whose entry is not destroyed.
* `DynamicPubSub` asks for the data of a connection by topic only
  (`DynamicPubSub.cpp:464`, `:533`) and registers a topic once. The data of Fast
  DDS and that of the DataMapper, between which the Converter copies, are of
  different types when an output is also an input of another type, and when the
  file is saved with another type between the two reads. `docs/index.md:88` says
  "Each topic is associated with a data *type*"; nothing checks it.
  `ConnectionsAgreeOnType` says that these are the cases, and the only ones.
* `m_logger` is the last member of `FmuInstance` (`FmuInstance.hpp:125`) and is
  destroyed first, in the destructor and when the constructor throws behind the
  registration of the log consumer. Until `~DynamicPubSub` has removed it the
  thread of the Fast DDS log may call a consumer that refers to a logger that
  is gone. `Converter.hpp:150` shows that "invalid reads of deleted log
  resources" were met and meant to be avoided. `Process` has the state
  (`unwind`); `SoleListener` and `AloneIsComplete` are not about it.
* `docs/index.md:176` says of a FMU that sends to itself: "write occurs before
  read; there will be a sample lag". Within the process Fast DDS may deliver
  before `write` returns, and then the input set before a step is the output
  after that same step: the only lag is the step. Over a transport it is any
  number of steps. `OwnSampleLags` states both. The test of a FMU-like loop,
  `tests/dynamic_pubsub.cpp:33`, waits 100 ms between write and take.
* A reader created with the profile of its topic is dropped by the code
  (`DynamicPubSub.cpp:508`), so that a second one with the default QoS is used
  while the first stays attached and fills up unread; `index.md:161` says a
  profile can be given for each `DataReader`.
* `prepare_for_zip` stops at the first thing it finds wrong, a missing
  `binaries` directory for example, and its result is ignored: `-o` then has no
  effect, and `main` returns 0 whatever a command returned
  (`repacker.cpp:275`, `:352`).
* `generate_uuid` strips white space inside values too: `key_filter="tr ue"`
  and `"true"` have the same GUID and different meanings.
* `SignalDistributor.hpp:116` calls `m_outputs` the number of scalar outputs;
  an output of an unsupported kind is counted and not emitted, and
  `ModelStructure` then lists an input or parameter, or an index that is not
  there. `StructureListsOutputs` has the premise that all are supported.
* `m_offsets` of the DataMapper is not cleared and keeps the offsets of an
  earlier file (`DataMapper.hpp:49`); nothing reads them today.
* A file with one topic twice in a direction passes the repacker and is
  refused by the FMU (`DataMapper.cpp:120`), although the description is said
  to be consistent with the configuration (`docs/index.md:16`).
* A sequence or map in a topic type accumulates: `fastdds_to_xtypes` pushes
  behind what earlier samples left. `docs/index.md` lists sequences among the
  missing features; `OutputShowsLatest` states what does hold.

### Fairness

Only `FmuInstance` assumes fairness. The commands of the repacker are loops over
finite lists, of files and of elements, with no retry: that they end needs no
model.

In `FmuInstance`, `InDoStep` is weakly fair, since `DoStep` is
sequential code that waits for nobody: `take_next_sample` does not block. So is
`DoStep`, since a simulation is a simulator that goes on stepping; `LatestIsHeld`
is about such a simulator and excuses one that has stopped on an error. Nothing is
assumed of the peers, of the transport or of delivery: samples may stay in
flight for ever. `StepReturns` depends on the bound `MaxSamples`: a peer that
publishes faster than `take` takes keeps `DoStep` from returning, and the code
has nothing against it.

## 4. Proofs

The proof modules are checked by `tlapm` with no assumption but the named ones
on the constants and, for the conversions, `Recursion`, which says what the
functions that are parameters do.

`SignalDistributorProofs`, for every set of types, nodes, topics and mapping
files (`IdlAssumption`: the nodes are sequences of nodes, `Missing` is neither
type nor topic, the files are mapping files):

* `TypeCorrect`: `Spec => []TypeOK`.
* `References`: `Spec => []DenseReferences`.
* `ModelStructure`: `Spec => []StructureListsOutputs`.
* `WholeFile`: `Spec => []DescribesTheFile`. A description that has been
  written has a variable for every leaf of its file with an FMI type, in the
  order of outputs, inputs and key parameters, and no other.

For the first three the inductive invariant is `TypeOK /\ AddingOK /\ DenseReferences /\
OutputsFirst`. `AddingOK` says that while `add` is at work its element is in
the file and readable, or the queue is not empty; without it nothing bounds
the type of the nodes `Visit` looks at. `DenseReferences` is inductive once
the types are known: a visit appends the next reference of one type.
`StructureListsOutputs` is not: it needs to know that while outputs are added
all signals are outputs, that their number is `m_outputs`, and that later
loops append no output. That is `OutputsFirst`.

For `WholeFile` the module defines the walk apart from the program. A
`Place` is a loop, an element and a node; `Leaves(m)` are the places of file
`m` that become variables; `Before` is their order. The queue of key parameters
is known by the elements it stands for: `QueueOK` says that they are the
elements with `key_filter` seen so far, in the order of the file, and in the
last loop those that are still to come. `Passed` are the places a walk has
been at, which in the last loop are those before the front of the queue.
`NodeWalked`, `ElementWalked`, `ParameterWalked` and `LoopWalked` say what a
step of a walk passes: the node it visits, or nothing. The invariant `WInv`
says that the variables so far are about the leaves passed so far, in their
order (`Walked`), and that the next reference of a type is the number of
variables that have it (`Counts`).

`SignalMappingProofs`, from the same assumption and `MaxStaleKeysAssumption`, a
natural number, and for any sequence of resets, complete or failed:

* `TypeCorrect`: `Spec => []TypeOK`.
* `Bound`: `Spec => []VisitorsAreBound`.
* `References`: `Spec => []OneReferencePerLeaf`.

The inductive invariant adds `AddingOK`, as above, `AddingIsStored` and
`BoundBefore`. `AddingIsStored`: while `add` is at work the value of its key is
in the store, under the type whose nodes it visits; hence the new visitor is
bound to a leaf of that value. `BoundBefore`: the visitors bound to that value
so far are bound to nodes before the one visited next; hence the new one
differs from all others. That nothing refers to the value when `add` begins
follows from `VisitorsAreBound`, since `add` throws on a key that is stored,
and from `clear()`, which removes the visitors together with the values.

The same module is about the system of both programs (`SystemSpec`), with what
is proved of the repacker's walk as the instance `SDP`:

* `Agreement`: `SystemSpec => []ReferencesAgree`.
* `PartialAgreement`: `SystemSpec => []PartialResetAnswersAlike`.
* `InstanceIsBound`: `TypeOK`, `VisitorsAreBound` and `OneReferencePerLeaf` in
  the system, where the instance comes and goes.

`ReferencesAgree` speaks of the end of both walks only. The invariant `SInv`
has what holds in their course. What the simulator imported is a complete
description of the file it names (`Lists`, from `WInv`) whose references are,
type by type, 0 and up in the order of the walk (`Numbered`, from
`DenseReferences` and `Counts`). An instance that reads the same file, with the
queue empty at the start, makes the same walk, and the references its vectors
answer so far are exactly those of the leaves it has passed (`Follows`), with
the right leaf (`Agree`). The step that matters is `LeafFollowed`: the node
`add` comes to is a leaf of the description because the two switches agree
(`SwitchesAgree`); its variable has the next free index of its type because
all variables of the type before it have been passed and none behind it; so
the visitor `add` appends is at the index the description gave the leaf. That
a description is overwritten, or that files change, while the instance lives
makes no difference, since it compares with what it imported. A duplicate
topic, at which `reset` throws, and an element it cannot read leave `Agree`
standing: hence `PartialAgreement`.

`RepackerProofs`, for every set of mapping files and templates, every `Digest`
and any number of edits (`IdlAssumption`, `RepackerAssumption`):

* `WalkIsSound`: `TypeOK`, `DenseReferences` and `StructureListsOutputs` hold in
  the course of the commands, from the lemmas of `SignalDistributorProofs`, as
  leaving `generate_xml` is going back to its initial state.
* `RepackerTypes` (`RepackerTypeOK`), `Described` (`AcceptedMeansDescribed`),
  `Delivered` (`CreateDelivers`) and `Survival` (`ArchivesSurvive`).

The argument of `Described` and `Delivered` is a chain, `LoadedFromDisk`,
`DescribesDisk`, `AddedFromDisk` and `AllHonest`: as long as `clean` is true what
has been loaded is on disk, so is the digest, so is what the description was
made from, so are the entries added so far; and what was written stays honest
when the disk changes, because `source` and the digest do not.

`AccessorsProofs`, for all widths that are ordered as C++ orders them,
precisions such that a double holds every 32-bit integer, units each of which
divides the larger ones, and values and arrays of references that the simulator
and the DDS types can produce (`AccessorsAssumption`, `DoubleAssumption`):

* `Typed` (`TypeOK`): `WriterInKind` and `ReaderInType` say for each kind that a
  cast ends in it and that the FMI type takes every value of it. The invariant
  adds that a setter is only called with values the simulator has, that its
  inputs stay inputs and that the position stays within the array. For the
  floating-point kinds, `RoundExact` shows that a number is its own rounding:
  there is a least unit with which it fits (`LeastUnit`, by the well-founded
  order of the naturals), and that divides the unit it is written with.
* `Relay` (`RelayIsExact`): a variable with an origin holds what
  `reader_visitor` makes of that leaf value, whichever outputs and inputs it
  went through (the invariant), and the setter applies `writer_visitor` to
  it; the rest is arithmetic: `Wrap` is the identity on the range of the
  kind and undoes itself between ranges of the same size (an enumerator that is
  negative as an FMI integer comes back), `Round` is the identity on what the
  precision holds (`RoundExact`), and integers of 32 bits are such.
* `Prefixes` (`CallsArePrefixes`), by induction over the calls' positions, which
  the invariant carries.

`ConverterProofs` has two parts. The first is about the conversions, for every
set of types, of any nesting, and any values (`ConverterAssumption`: a type has
no part of its own type, members have different names, bounds are not zero):

* `RoundTrip`: what `fastdds_to_xtypes` makes, in a new value, of what
  `xtypes_to_fastdds` stored, in an object that held anything, is the value.
* `ConversionsKeepTypes`: `ConverterSpec => []ConverterTypeOK`.
* `PublishedIsWritten`: `ConverterSpec => []PublishesWhatIsSet`.
* `LatestIsShown`: `ConverterSpec => []OutputShowsLatest`.

`RECURSIVE` operators are out of the prover's reach, and so is an induction
theorem over operators. Hence the hypothesis `Recursion`: each function equals
its body, on `AllTypes`. There are such functions, because `Depth` falls from
a type to its parts (it is how TLC computes them in `MCConverter`), and no more
is said of them. The induction over `Depth` is one over the set of the types
for which a statement holds (`TypeInduction`).
The statements are, of every type: fresh objects of both libraries have their
type and hold the same value (`Fresh`); a conversion to Fast DDS stores the
value whatever was there (`Stores`); a conversion to a fresh object of xtypes
gives it back (`Reads`); one to an object in use keeps that of its type and
shows the value (`Refreshes`). Each has a lemma per kind of type. `Refreshes`
rests on `Reads`, for what is inside a sequence or a map is made anew.

Arrays take the most. An index with one number per bound is a place, row by row
(`IndexAppend`); an index with fewer begins a region of places, as many as
the bounds left over multiply to. Within the array the regions of two elements
have nothing in common (`RegionsApart`), an inner array's being part of its
element's (`RegionOfElement`), so that a round of the loop of `set_array_data`
keeps what earlier rounds stored (`FrameLemma`, `OneRound`). `ElementAt` and
`FlatIndex` relate them to the places `Holds` counts. That the loops' functions
exist at all is `LoopExists`, for one function of a round that does for all
four loops.

The inductive invariant (`ConverterInvariant`) is the three properties
together: a take shows the latest sample only if `write_data` holds what was
written, and both conversions need objects of the topic's type. That a map of
xtypes has each key once is in `IsValue`: `assign` keeps it, and a map
that was converted from one has it.

The second part is about the static members, for any instances, type names and
filters (`ProcessAssumption`): `TypesAreKept` (`TypeOK`), `Consumers`
(`SoleListener`), `Pointers` (`PointersAreValid`), `Definitions`
(`OwnDefinitions`) and `Alone` (`AloneIsComplete`). The invariant says that at
most one instance is inside a call, that what the static maps have under a name
agrees with the `own_types` of the instance that put it there, and that an
undisturbed instance finds in them what it has registered.

`KeyFilterProofs`, for every set of readers, kinds and values (`KeyAssumption`):

* `TypeCorrect`, `NeverUnfiltered` (`NothingUnfiltered`), `ExactFilter`
  (`FilterIsExact`) and `AllReadersFilter` (`SteppingMeansFiltering`).

The invariant is `TypeOK /\ ProgressOK /\ NothingUnfiltered`, and `EntryOK` and
`ParamsOK` of every reader. `ParamsOK` says that what `add_type` is called with
are the texts of keys that `init_key_filters` may have come to, which for data
that is there are the given ones. `EntryOK` says that the keys filled in so
far are those texts read back, unless the data was destroyed, and that an entry
is the one `add_type` works on, with a `key_count` of 0, or complete, with all
keys filled and all of them compared, or, only if its data was destroyed, left
with a `key_count` of 0. `given` does not change as long as the entry exists,
since it is taken over when initialization mode ends and a reset removes the
entries; nor does the filter's address. What `Passes` says of each kind is
then arithmetic on the text (`ExactFilter`).
`ProgressOK` relates `mode`, `todo` and `adding`: no entries before
initialization mode ends; `adding` is in `todo` and has an entry; stepping
begins with an empty `todo`; and, unless the registry was emptied, a reader
that is not in `todo` any more has an entry.

`DynamicPubSubProofs`, for any mapping files in which a topic comes once in a
direction, any profiles and addresses (`PubSubAssumption`):

* `TypeCorrect`, `Deleted` (`ParticipantIsDeleted`), `Current`
  (`ConnectionsAreCurrent`), `FilterEntries` (`FiltersHaveData`) and `OneType`
  (`ConnectionsAgreeOnType`).

The invariant follows a reset. `Forgotten`: between the reset of the DataMapper
and the new participant every reference in `m_filter_data` is dead, and the
other maps are empty after `clear`. `InStep`: from then on each signal adds an
entity and the reference that goes with it, filters have distinct addresses,
and an entry of `m_filter_data` that is alive belongs to a filter of this
reset; a new filter never has the address of a living one, so that the entry
it may find is dead. `OneType` needs to know where the two types of a connection come from.
`InFile`: while signals are set up, the type a topic is registered with is that
of `<fmu_in>` in the file `DynamicPubSub` has read or, if the topic is not
there, that of `<fmu_out>`, because the list starts with `<fmu_in>` and a topic is
registered once. `TypesFromFiles`: the type of a connection in Fast DDS is that
of its topic, the one in the DataMapper is that of the file the DataMapper has
read, for the direction. Each of these sets of types has one member, so the
types agree exactly if the sets do (`SameMember`).

`FmuInstanceProofs`, for any topics, peers and history depth
(`InstanceAssumption`: the peers publish subscribed topics, the FMU is none of
them, the depth is not zero):

* `TypeCorrect`: `Spec => []TypeOK`.
* `OutputsGoForward`: `Spec => NeverBack`.
* `OwnWritesLag`: `Spec => []OwnSampleLags`.
* `IsSampleAndHold`: `Spec => SampleAndHold`, the refinement of `SampleHold`.

All four start from `LoopsOK`: the types, and that the inner loop of `take` is
at a reader only while `take` runs, with an output made from a sample.
`OutputsGoForward` needs `InOrder`: of one writer, the sample an output shows,
those in the history and those in flight are in order, and none is newer than
the last one the writer made. It is what carries the order over `Keep`, which
drops the oldest sample, and over a delivery within the process: that overtakes
nothing, since no sample of the FMU is in flight then. Its last part is that no
output is ahead of its input, one half of `OwnWritesLag`; the other half needs
`Newest` (the sample received last is the last one unread, or shown) and
`QuietTopics` (of a topic only the FMU publishes nothing is in flight, and
once `take` is past its reader the history is empty). For the refinement,
`DoStep`, `Write`, `NoData`, `Reset` and `Arrive` are the steps of
`SampleHold`; taking a sample is none of its steps, for what is pending is the
last sample of the history or, after the last one was taken, the output.

Only model-checked: liveness (`StepReturns`, `LatestIsHeld`), which with fairness and `ENABLED` is out of the prover's
reach, and the existence of the Converter's functions, on the types of
`MCConverter`. Every other property of a passing run is a theorem.

## 5. What is not modelled

* XML and zip as formats, the options of the command line, the text of
  structured names (`name_generator`), the parser of IDL: libraries and
  formatting. Whether a file is readable, what it says, whether it could be
  written and whether the GUID is the same, is in the models.
* `FmiLogger::Consume`, which forwards an entry; its lifetime is in `Process`.
* Data races as such: a look-up in `member_types` is one step.
* The Converter's `resolve_discriminator_type` and `access_member_data`, which
  nothing in dds-fmu calls, and discriminator labels (a case stands for its
  labels).

## 6. Plan

1. Done: `IdlTypes`, `SignalDistributor`, `DataMapper`, `SignalMapping`: the
   promise everything else rests on.
2. Done: `KeyFilter`, `DynamicPubSub`, `SampleHold`, `FmuInstance`,
   `Converter`.
3. Done: `Repacker`, `Accessors`, `Process`.
4. Done: `SignalDistributorProofs`, `RepackerProofs`, `SignalMappingProofs`,
   `AccessorsProofs`, `ConverterProofs`, `KeyFilterProofs`,
   `DynamicPubSubProofs`, `FmuInstanceProofs`.
5. Done: the walk of a mapping file (`SignalDistributorProofs`) and, from it,
   that both programs number alike (`SignalMappingProofs`).
6. `name_generator` of `model-descriptor.cpp`: names are unique.
