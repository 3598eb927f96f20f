--------------------------- MODULE KeyFilterProofs ---------------------------
(***************************************************************************)
(* Proofs about KeyFilter for any readers, any key kinds and any values.   *)
(*                                                                         *)
(* FilterIsExact and SteppingMeansFiltering are not inductive: they need   *)
(* to know how far add_type has got.  Inv adds that an entry without its   *)
(* key_count is the one being added, or has met destroyed data; that the   *)
(* keys filled in so far are the given ones after their trip through text, *)
(* unless their data was destroyed; and that nothing is registered before  *)
(* initialization mode ends, when given is fixed.                          *)
(***************************************************************************)
EXTENDS KeyFilter, SequenceTheorems, TLAPS

\* The value the filter ends up with for the i-th key of r.
Expected(r, i) ==
  from_text(KeyKinds[r][i], to_text(KeyKinds[r][i], given[r][i]))

\* What add_type has put into an entry so far; its parameters are texts of
\* key values found in m_filter_data.
FilledOK(r) ==
  ~Destroyed(r) =>
    \A i \in 1 .. member_type[r].filled :
      member_type[r].key_data[i] = Expected(r, i)

ParamsOK(r) ==
  adding = r =>
    \E keys \in KeysRead(r) : new_params = texts(KeyKinds[r], keys)

\* An entry is complete, or add_type is at work for it, or it was left with
\* no key to compare because the data had too few.
EntryOK(r) ==
  member_type[r] # None =>
    /\ FilledOK(r)
    /\ \/ /\ adding = r
          /\ member_type[r].key_count = 0
       \/ /\ adding # r
          /\ member_type[r].key_count = Len(KeyKinds[r])
          /\ member_type[r].filled = Len(KeyKinds[r])
       \/ /\ adding # r
          /\ member_type[r].key_count = 0
          /\ Destroyed(r)

\* Where init_key_filters is.
ProgressOK ==
  /\ mode = "setup" => \A r \in Readers : member_type[r] = None
  /\ adding # None => /\ mode = "registering"
                      /\ adding \in todo
                      /\ member_type[adding] # None
  /\ mode = "stepping" => todo = {}
  /\ (mode \in {"registering", "stepping"} /\ registered = Readers)
       => \A r \in Readers \ todo : member_type[r] # None

Inv ==
  /\ TypeOK
  /\ ProgressOK
  /\ \A r \in Readers : EntryOK(r) /\ ParamsOK(r)
  /\ NothingUnfiltered

-----------------------------------------------------------------------------
(***************************************************************************)
(* The keys of a reader's type are a non-empty sequence of known kinds.    *)
(***************************************************************************)
LEMMA KindsOfReader ==
  ASSUME NEW K \in KeyFiles, NEW r \in Readers
  PROVE  /\ K[r] \in Seq(DOMAIN Domain)
         /\ Len(K[r]) \in Nat \ {0}
         /\ DOMAIN K[r] = 1 .. Len(K[r])
         /\ \A i \in DOMAIN K[r] : K[r][i] \in DOMAIN Domain
  BY KeyAssumption

\* The key values of a new DynamicData are key values.
LEMMA DefaultsAreKeys ==
  ASSUME NEW K \in KeyFiles, NEW r \in Readers
  PROVE  [i \in DOMAIN K[r] |-> Default[K[r][i]]] \in KeysOf(K[r])
  BY KindsOfReader, KeyAssumption DEF KeysOf

\* Key values are numbers.
LEMMA KeysAreNumbers ==
  ASSUME NEW K \in KeyFiles, NEW r \in Readers, NEW s \in KeysOf(K[r])
  PROVE  /\ s \in [1 .. Len(K[r]) -> Int]
         /\ DOMAIN s = 1 .. Len(K[r])
  BY KindsOfReader, KeyAssumption DEF KeysOf

\* A parameter set to a value of its kind leaves key values.
LEMMA SetKey ==
  ASSUME NEW K \in KeyFiles, NEW r \in Readers, NEW s \in KeysOf(K[r]),
         NEW i \in DOMAIN K[r], NEW v \in Domain[K[r][i]]
  PROVE  [s EXCEPT ![i] = v] \in KeysOf(K[r])
  BY KindsOfReader, KeyAssumption DEF KeysOf

\* What add_type reads is a number again, whatever init_key_filters printed.
LEMMA TextIsNumber ==
  ASSUME NEW kind, NEW v \in Int
  PROVE  from_text(kind, to_text(kind, v)) \in Int
  BY DEF from_text, to_text

\* The value that comes back from the text of g is the one that passes.
LEMMA PassesText ==
  ASSUME NEW kind, NEW g \in Int, NEW v \in Int
  PROVE  Passes(kind, g, v) <=> v = from_text(kind, to_text(kind, g))
  <1>1. CASE kind = "BOOLEAN"
    <2>1. to_text(kind, g) \in {"true", "false"}
      BY <1>1 DEF to_text
    <2>2. from_text(kind, to_text(kind, g)) = 0
      BY <1>1, <2>1 DEF from_text
    <2>. QED  BY <1>1, <2>2 DEF Passes
  <1>2. CASE kind = "FLOAT_64"
    <2>1. from_text(kind, to_text(kind, g)) = 10 * ((g + 5) \div 10)
      BY <1>2 DEF from_text, to_text
    <2>2. (v % 10 = 0 /\ g - v \in -5 .. 4) <=> v = 10 * ((g + 5) \div 10)
      OBVIOUS
    <2>3. Passes(kind, g, v) <=> (v % 10 = 0 /\ g - v \in -5 .. 4)
      BY <1>2 DEF Passes
    <2>. QED  BY <2>1, <2>2, <2>3
  <1>3. CASE kind \notin {"BOOLEAN", "FLOAT_64"}
    BY <1>3 DEF Passes, from_text, to_text
  <1>. QED  BY <1>1, <1>2, <1>3

\* An entry is not None.
LEMMA EntryIsNotNone ==
  ASSUME NEW n \in Nat \ {0}, NEW e \in EntryOf(n)
  PROVE  e # None
  <1>1. e = [key_data |-> e.key_data, filled |-> e.filled,
             key_count |-> e.key_count]
    BY DEF EntryOf
  <1>2. /\ e.key_data \in [1 .. n -> Int]
        /\ e.filled \in Nat
        /\ e.key_count \in Nat
    BY DEF EntryOf
  <1>3. e.key_data \in Seq(Int)
    BY <1>2
  <1>. QED  BY <1>1, <1>2, <1>3, KeyAssumption

(***************************************************************************)
(* What for_each finds in the parameters, destroyed or not, is a sequence  *)
(* of numbers with at most as many as there are keys; the data of this     *)
(* reset has all of them, as given.                                        *)
(***************************************************************************)
LEMMA KeysReadFacts ==
  ASSUME TypeOK, NEW r \in Readers, NEW keys \in KeysRead(r)
  PROVE  /\ keys \in Seq(Int)
         /\ Len(keys) <= Len(KeyKinds[r])
         /\ ~Destroyed(r) => keys = given[r] /\ Len(keys) = Len(KeyKinds[r])
  <1>. DEFINE n == Len(KeyKinds[r])
  <1>1. n \in Nat \ {0}
    BY KindsOfReader DEF TypeOK
  <1>2. CASE Destroyed(r)
    <2>1. PICK s \in Keys(r), m \in 0 .. n : keys = SubSeq(s, 1, m)
      BY <1>2 DEF KeysRead
    <2>2. s \in [1 .. n -> Int]
      BY KeysAreNumbers DEF TypeOK, Keys
    <2>3. s \in Seq(Int) /\ Len(s) = n
      BY <1>1, <2>2
    <2>4. keys \in Seq(Int) /\ Len(keys) = m
      BY <1>1, <2>1, <2>3
    <2>. QED  BY <1>1, <1>2, <2>4
  <1>3. CASE ~Destroyed(r)
    <2>1. keys = given[r]
      BY <1>3 DEF KeysRead
    <2>2. given[r] \in [1 .. n -> Int]
      BY KeysAreNumbers DEF TypeOK, Keys
    <2>. QED  BY <1>1, <2>1, <2>2
  <1>. QED  BY <1>2, <1>3

-----------------------------------------------------------------------------
\* A new instance has no entry and no key to compare.
LEMMA InitInv == Init => Inv
  <1>. SUFFICES ASSUME Init PROVE Inv
    OBVIOUS
  <1>. USE DEF Init
  <1>1. \A r \in Readers : DefaultKeys(r) \in Keys(r)
    BY DefaultsAreKeys DEF DefaultKeys, Keys
  <1>2. TypeOK
    BY <1>1 DEF TypeOK, Allocations
  <1>. QED
    BY <1>2, KeyAssumption
       DEF Inv, ProgressOK, EntryOK, ParamsOK, NothingUnfiltered

-----------------------------------------------------------------------------
(***************************************************************************)
(* A step that leaves the entries, the given keys and the place in         *)
(* init_key_filters alone keeps what Inv says about them.                  *)
(***************************************************************************)
LEMMA EntriesUntouched ==
  ASSUME Inv, UNCHANGED <<KeyKinds, given, adding, new_params, member_type,
                          filters>>
  PROVE  \A r \in Readers : EntryOK(r)' /\ ParamsOK(r)'
  <1>. SUFFICES ASSUME NEW r \in Readers PROVE EntryOK(r)' /\ ParamsOK(r)'
    OBVIOUS
  <1>1. Destroyed(r)' = Destroyed(r)
    BY DEF Destroyed, filters
  <1>2. EntryOK(r)'
    BY <1>1 DEF Inv, EntryOK, FilledOK, Expected
  <1>3. KeysRead(r)' = KeysRead(r)
    BY <1>1 DEF KeysRead, Keys
  <1>4. ParamsOK(r)'
    BY <1>3 DEF Inv, ParamsOK
  <1>. QED  BY <1>2, <1>4

\* The same of the place in init_key_filters.
LEMMA PlaceUntouched ==
  ASSUME Inv, UNCHANGED <<mode, todo, adding, member_type, registered>>
  PROVE  ProgressOK'
  BY DEF Inv, ProgressOK

\* fmi2SetXXX keeps Inv.
LEMMA SetParameterInv ==
  ASSUME Inv, NEW r \in Readers, NEW i \in DOMAIN KeyKinds[r],
         NEW v \in Domain[KeyKinds[r][i]], SetParameter(r, i, v)
  PROVE  Inv'
  <1>. USE DEF SetParameter
  <1>1. TypeOK'
    <2>1. parameter[r] \in Keys(r)
      BY DEF Inv, TypeOK
    <2>2. [parameter[r] EXCEPT ![i] = v] \in Keys(r)
      BY <2>1, SetKey DEF Inv, TypeOK, Keys
    <2>3. \A q \in Readers : parameter'[q] \in Keys(q)
      BY <2>2 DEF Inv, TypeOK
    <2>. QED  BY <2>3 DEF Inv, TypeOK, Keys, Entry, filters, samples
  <1>. QED
    BY <1>1, EntriesUntouched, PlaceUntouched
       DEF Inv, NothingUnfiltered, samples

\* Leaving initialization mode keeps Inv: there is no entry yet.
LEMMA ExitInitializationModeInv ==
  ASSUME Inv, ExitInitializationMode
  PROVE  Inv'
  <1>. USE DEF ExitInitializationMode
  <1>1. TypeOK'
    BY DEF Inv, TypeOK, Keys, Entry, filters, samples
  <1>2. \A r \in Readers : member_type'[r] = None
    BY DEF Inv, ProgressOK
  <1>. QED
    BY <1>1, <1>2, KeyAssumption
       DEF Inv, ProgressOK, EntryOK, ParamsOK, NothingUnfiltered, samples

\* A key that cannot be printed keeps Inv: no entry is half filled in then.
LEMMA UnprintableInv ==
  ASSUME Inv, NEW r \in Readers, Unprintable(r)
  PROVE  Inv'
  <1>. USE DEF Unprintable
  <1>1. TypeOK'
    BY DEF Inv, TypeOK, Keys, Entry, filters, samples
  <1>2. ProgressOK'
    BY DEF Inv, ProgressOK
  <1>. QED
    BY <1>1, <1>2, EntriesUntouched DEF Inv, NothingUnfiltered, samples

(***************************************************************************)
(* What Register, FillKey and the end of add_type have in common: the      *)
(* entry of r becomes new, whose filled keys are the expected ones unless  *)
(* their data was destroyed, and either add_type goes on with it or it is  *)
(* complete, or it is left without keys to compare.                        *)
(***************************************************************************)
LEMMA EntryReplaced ==
  ASSUME Inv, NEW r \in Readers, NEW new \in Entry(r),
         mode = "registering", adding \in {None, r}, r \in todo,
         DOMAIN member_type' = Readers,
         \A q \in Readers :
           member_type'[q] = IF q = r THEN new ELSE member_type[q],
         ~Destroyed(r) =>
           \A k \in 1 .. new.filled : new.key_data[k] = Expected(r, k),
         \/ /\ adding' = r
            /\ new.key_count = 0
            /\ \E keys \in KeysRead(r) : new_params' = texts(KeyKinds[r], keys)
            /\ UNCHANGED todo
         \/ /\ adding' = None
            /\ new.key_count = Len(KeyKinds[r])
            /\ new.filled = Len(KeyKinds[r])
            /\ todo' = todo \ {r}
         \/ /\ adding' = None
            /\ new.key_count = 0
            /\ Destroyed(r)
            /\ todo' = todo \ {r},
         UNCHANGED <<KeyKinds, mode, parameter, given, registered, filters,
                     samples>>
  PROVE  Inv'
  <1>1. new # None
    BY KindsOfReader, EntryIsNotNone DEF Inv, TypeOK, Entry
  <1>2. TypeOK'
    BY DEF Inv, TypeOK, Keys, Entry, filters, samples
  <1>3. ProgressOK'
    BY <1>1 DEF Inv, TypeOK, ProgressOK
  <1>4. ASSUME NEW q \in Readers PROVE EntryOK(q)' /\ ParamsOK(q)'
    <2>1. /\ Destroyed(q)' = Destroyed(q)
          /\ KeysRead(q)' = KeysRead(q)
      BY DEF Destroyed, KeysRead, Keys, filters
    <2>2. \A k : Expected(q, k)' = Expected(q, k)
      BY DEF Expected
    <2>3. CASE q = r
      <3>1. member_type'[r] = new
        BY DEF Inv, TypeOK
      <3>2. FilledOK(q)'
        BY <2>1, <2>2, <2>3, <3>1 DEF FilledOK
      <3>3. EntryOK(q)'
        BY <2>1, <2>3, <3>1, <3>2, KeyAssumption DEF EntryOK
      <3>4. ParamsOK(q)'
        BY <2>1, <2>3, KeyAssumption DEF ParamsOK
      <3>. QED  BY <3>3, <3>4
    <2>4. CASE q # r
      <3>1. member_type'[q] = member_type[q]
        BY <2>4 DEF Inv, TypeOK
      <3>2. adding # q /\ adding' # q
        BY <2>4, KeyAssumption
      <3>3. FilledOK(q)' = FilledOK(q)
        BY <2>1, <2>2, <3>1 DEF FilledOK
      <3>4. EntryOK(q)'
        BY <2>1, <3>1, <3>2, <3>3 DEF Inv, EntryOK
      <3>5. ParamsOK(q)'
        BY <3>2 DEF ParamsOK
      <3>. QED  BY <3>4, <3>5
    <2>. QED  BY <2>3, <2>4
  <1>. QED
    BY <1>1, <1>2, <1>3, <1>4 DEF Inv, TypeOK, NothingUnfiltered, samples

\* A new entry has the default keys and compares none of them; the reader
\* whose type is gone, or that has an entry, is passed over.
LEMMA RegisterInv ==
  ASSUME Inv, NEW r \in Readers, Register(r)
  PROVE  Inv'
  <1>1. CASE r \in registered /\ member_type[r] = None
    <2>. DEFINE new == [key_data |-> DefaultKeys(r), filled |-> 0,
                        key_count |-> 0]
    <2>1. new \in Entry(r)
      BY KindsOfReader, KeyAssumption
         DEF Inv, TypeOK, DefaultKeys, Entry, EntryOf
    <2>2. new.filled = 0 /\ new.key_count = 0
      OBVIOUS
    <2>3. /\ mode = "registering" /\ adding \in {None, r} /\ r \in todo
          /\ adding' = r
          /\ \E keys \in KeysRead(r) : new_params' = texts(KeyKinds[r], keys)
          /\ UNCHANGED <<todo, KeyKinds, mode, parameter, given, registered,
                         filters, samples>>
      BY <1>1 DEF Register
    <2>4. /\ DOMAIN member_type' = Readers
          /\ \A q \in Readers :
               member_type'[q] = IF q = r THEN new ELSE member_type[q]
      BY <1>1 DEF Register, Inv, TypeOK
    <2>. HIDE DEF new
    <2>5. \A k \in 1 .. new.filled : new.key_data[k] = Expected(r, k)
      BY <2>2
    <2>. QED
      BY <2>1, <2>2, <2>3, <2>4, <2>5, EntryReplaced
  <1>2. CASE ~(r \in registered /\ member_type[r] = None)
    <2>1. /\ todo' = todo \ {r}
          /\ UNCHANGED <<KeyKinds, mode, parameter, given, adding, new_params,
                         member_type, registered, filters, samples>>
      BY <1>2 DEF Register
    <2>2. TypeOK'
      BY <2>1 DEF Inv, TypeOK, Keys, Entry, filters, samples
    <2>3. ProgressOK'
      BY <1>2, <2>1 DEF Inv, TypeOK, ProgressOK, Register
    <2>. QED
      BY <2>1, <2>2, <2>3, EntriesUntouched DEF Inv, NothingUnfiltered, samples
  <1>. QED  BY <1>1, <1>2

\* What is known of an entry add_type is at work for.
LEMMA AtWork ==
  ASSUME Inv, NEW r \in Readers, adding = r
  PROVE  /\ mode = "registering" /\ r \in todo
         /\ Len(KeyKinds[r]) \in Nat \ {0}
         /\ member_type[r] \in EntryOf(Len(KeyKinds[r]))
         /\ member_type[r].key_count = 0
         /\ FilledOK(r)
         /\ \E keys \in KeysRead(r) : new_params = texts(KeyKinds[r], keys)
  BY KeyAssumption, KindsOfReader
     DEF Inv, TypeOK, ProgressOK, EntryOK, ParamsOK, Entry

\* A key filled in is the text of one that was read.
LEMMA FillKeyInv ==
  ASSUME Inv, NEW r \in Readers, FillKey(r)
  PROVE  Inv'
  <1>. DEFINE old   == member_type[r]
              n     == Len(KeyKinds[r])
              i     == old.filled + 1
              value == from_text(KeyKinds[r][i], new_params[i])
              new   == [key_data  |-> [old.key_data EXCEPT ![i] = value],
                        filled    |-> i,
                        key_count |-> old.key_count]
  <1>0. adding = r
    BY DEF FillKey
  <1>1. /\ mode = "registering" /\ r \in todo
        /\ n \in Nat \ {0}
        /\ old \in EntryOf(n)
        /\ old.key_count = 0
        /\ FilledOK(r)
    BY <1>0, AtWork
  <1>2. PICK keys \in KeysRead(r) : new_params = texts(KeyKinds[r], keys)
    BY <1>0, AtWork
  <1>3. /\ keys \in Seq(Int)
        /\ ~Destroyed(r) => keys = given[r]
    BY KeysReadFacts DEF Inv
  <1>4. i \in 1 .. n
    BY <1>1 DEF FillKey, EntryOf
  <1>5. i \in 1 .. Len(keys) /\ new_params[i] = to_text(KeyKinds[r][i], keys[i])
    <2>1. Len(new_params) = Len(keys)
      BY <1>2, <1>3 DEF texts
    <2>2. i \in 1 .. Len(keys)
      BY <1>3, <1>4, <2>1 DEF FillKey
    <2>. QED  BY <1>2, <1>3, <2>2 DEF texts
  <1>6. value \in Int
    BY <1>3, <1>5, TextIsNumber
  <1>7. ~Destroyed(r) => value = Expected(r, i)
    BY <1>3, <1>5 DEF Expected
  <1>. HIDE DEF value
  <1>8. /\ DOMAIN member_type' = Readers
        /\ \A q \in Readers :
             member_type'[q] = IF q = r THEN new ELSE member_type[q]
    BY DEF FillKey, Inv, TypeOK, value
  <1>9. new \in EntryOf(n)
    BY <1>1, <1>4, <1>6 DEF EntryOf
  <1>10. ~Destroyed(r) =>
           \A k \in 1 .. new.filled : new.key_data[k] = Expected(r, k)
    BY <1>1, <1>4, <1>7 DEF EntryOf, FilledOK
  <1>11. new.key_count = 0
    BY <1>1
  <1>12. /\ adding' = r
         /\ new_params' = texts(KeyKinds[r], keys)
         /\ UNCHANGED <<todo, KeyKinds, mode, parameter, given, registered,
                        filters, samples>>
    BY <1>0, <1>2 DEF FillKey
  <1>. HIDE DEF new
  <1>. QED
    BY <1>0, <1>1, <1>8, <1>9, <1>10, <1>11, <1>12, EntryReplaced DEF Entry

\* Only destroyed data has too few keys; the entry stays as it is.
LEMMA TooFewParametersInv ==
  ASSUME Inv, NEW r \in Readers, TooFewParameters(r)
  PROVE  Inv'
  <1>0. adding = r
    BY DEF TooFewParameters
  <1>1. /\ mode = "registering" /\ r \in todo
        /\ member_type[r] \in Entry(r)
        /\ member_type[r].key_count = 0
        /\ FilledOK(r)
    BY <1>0, AtWork DEF Entry
  <1>2. PICK keys \in KeysRead(r) : new_params = texts(KeyKinds[r], keys)
    BY <1>0, AtWork
  <1>3. keys \in Seq(Int) /\ (~Destroyed(r) => Len(keys) = Len(KeyKinds[r]))
    BY KeysReadFacts DEF Inv
  <1>4. Len(new_params) = Len(keys)
    BY <1>2, <1>3 DEF texts
  <1>5. Destroyed(r)
    BY <1>3, <1>4 DEF TooFewParameters
  <1>6. /\ DOMAIN member_type' = Readers
        /\ \A q \in Readers :
             member_type'[q] = IF q = r THEN member_type[r] ELSE member_type[q]
    BY DEF TooFewParameters, Inv, TypeOK
  <1>. QED
    BY <1>0, <1>1, <1>5, <1>6, EntryReplaced DEF TooFewParameters, AddTypeEnds

\* With its count set the entry is complete.
LEMMA SetKeyCountInv ==
  ASSUME Inv, NEW r \in Readers, SetKeyCount(r)
  PROVE  Inv'
  <1>. DEFINE old == member_type[r]
              n   == Len(KeyKinds[r])
              new == [old EXCEPT !.key_count = old.filled]
  <1>0. adding = r
    BY DEF SetKeyCount
  <1>1. /\ mode = "registering" /\ r \in todo
        /\ n \in Nat \ {0}
        /\ old \in EntryOf(n)
        /\ FilledOK(r)
    BY <1>0, AtWork
  <1>2. /\ new \in EntryOf(n)
        /\ new.key_data = old.key_data
        /\ new.filled = n /\ new.key_count = n
    BY <1>1 DEF SetKeyCount, EntryOf
  <1>3. /\ DOMAIN member_type' = Readers
        /\ \A q \in Readers :
             member_type'[q] = IF q = r THEN new ELSE member_type[q]
    BY DEF SetKeyCount, Inv, TypeOK
  <1>4. ~Destroyed(r) =>
          \A k \in 1 .. new.filled : new.key_data[k] = Expected(r, k)
    BY <1>1, <1>2 DEF SetKeyCount, FilledOK
  <1>. HIDE DEF new
  <1>. QED
    BY <1>0, <1>1, <1>2, <1>3, <1>4, EntryReplaced
       DEF SetKeyCount, AddTypeEnds, Entry

\* The end of init_key_filters keeps Inv.
LEMMA ExitDoneInv ==
  ASSUME Inv, ExitDone
  PROVE  Inv'
  <1>. USE DEF ExitDone
  <1>1. TypeOK'
    BY DEF Inv, TypeOK, Keys, Entry, filters, samples
  <1>2. ProgressOK'
    BY DEF Inv, ProgressOK
  <1>. QED
    BY <1>1, <1>2, EntriesUntouched DEF Inv, NothingUnfiltered, samples

\* A sample that passes the filter keeps Inv: the filter exists.
LEMMA ArriveInv ==
  ASSUME Inv, NEW r \in Readers, NEW sample \in Keys(r), Arrive(r, sample)
  PROVE  Inv'
  <1>. USE DEF Arrive
  <1>1. TypeOK'
    BY DEF Inv, TypeOK, Keys, Entry, filters, samples
  <1>2. NothingUnfiltered'
    BY DEF Inv, TypeOK, NothingUnfiltered, evaluate
  <1>. QED
    BY <1>1, <1>2, EntriesUntouched, PlaceUntouched DEF Inv

\* A step takes samples that filters have let through.
LEMMA DoStepInv ==
  ASSUME Inv, DoStep
  PROVE  Inv'
  <1>. USE DEF DoStep
  <1>1. TypeOK'
    BY DEF Inv, TypeOK, Keys, Entry, filters, samples
  <1>2. NothingUnfiltered'
    BY DEF Inv, TypeOK, NothingUnfiltered
  <1>. QED
    BY <1>1, <1>2, EntriesUntouched, PlaceUntouched DEF Inv

\* A reset establishes Inv anew.
LEMMA ResetInv ==
  ASSUME Inv, Reset
  PROVE  Inv'
  <1>. USE DEF Reset
  <1>1. \A r \in Readers : DefaultKeys(r)' \in Keys(r)'
    BY DefaultsAreKeys DEF DefaultKeys, Keys
  <1>2. m_filter_data' \in [Addresses -> {None, "current", "destroyed"}]
    BY DEF Emplace
  <1>3. TypeOK'
    BY <1>1, <1>2 DEF TypeOK, Allocations
  <1>. QED
    BY <1>3, KeyAssumption
       DEF Inv, ProgressOK, EntryOK, ParamsOK, NothingUnfiltered

\* Types that are gone cost a later reader its filter, and nothing else.
LEMMA OtherInstanceClearsInv ==
  ASSUME Inv, OtherInstanceClears
  PROVE  Inv'
  <1>. USE DEF OtherInstanceClears
  <1>1. TypeOK'
    BY DEF Inv, TypeOK, Keys, Entry, filters, samples
  <1>2. ProgressOK'
    BY DEF Inv, TypeOK, ProgressOK
  <1>. QED
    BY <1>1, <1>2, EntriesUntouched DEF Inv, NothingUnfiltered, samples

-----------------------------------------------------------------------------
\* Every step of the component and of its callers keeps Inv.
LEMMA StepInv == Inv /\ [Next]_vars => Inv'
  <1>. SUFFICES ASSUME Inv, [Next]_vars PROVE Inv'
    OBVIOUS
  <1>1. CASE UNCHANGED vars
    <2>1. TypeOK'
      BY <1>1 DEF vars, filters, samples, Inv, TypeOK, Keys, Entry
    <2>. QED
      BY <1>1, <2>1, EntriesUntouched, PlaceUntouched
         DEF vars, filters, samples, Inv, NothingUnfiltered
  <1>2. CASE Simulator
    BY <1>2, SetParameterInv, ExitInitializationModeInv, UnprintableInv,
       RegisterInv, FillKeyInv, TooFewParametersInv, SetKeyCountInv,
       ExitDoneInv, DoStepInv, ResetInv
       DEF Simulator
  <1>3. CASE \E r \in Readers : \E sample \in Keys(r) : Arrive(r, sample)
    BY <1>3, ArriveInv
  <1>4. CASE OtherInstanceClears
    BY <1>4, OtherInstanceClearsInv
  <1>. QED
    BY <1>1, <1>2, <1>3, <1>4 DEF Next

\* Inv holds in every reachable state.
LEMMA Invariant == Spec => []Inv
  BY InitInv, StepInv, PTL DEF Spec

(***************************************************************************)
(* The variables of the filters keep their types, whatever the readers,    *)
(* the kinds of their keys and the values are.                             *)
(***************************************************************************)
THEOREM TypeCorrect == Spec => []TypeOK
  BY Invariant, PTL DEF Inv

(***************************************************************************)
(* DynamicPubSub::reset gives the readers filters that know no reader:     *)
(* until init_key_filters has registered one, nothing is kept for it.      *)
(***************************************************************************)
THEOREM NeverUnfiltered == Spec => []NothingUnfiltered
  BY Invariant, PTL DEF Inv

(***************************************************************************)
(* CustomKeyFilter::evaluate, once add_type is through with a reader whose *)
(* parameters had not been destroyed: key by key, the sample has the value *)
(* that passes for the one given at the end of initialization mode.        *)
(***************************************************************************)
THEOREM ExactFilter == Spec => []FilterIsExact
  <1>1. Inv => FilterIsExact
    <2>. SUFFICES ASSUME Inv, NEW r \in Readers, Settled(r), ~Destroyed(r),
                         NEW sample \in Keys(r)
                  PROVE  evaluate(r, sample) <=>
                           \A i \in DOMAIN KeyKinds[r] :
                             Passes(KeyKinds[r][i], given[r][i], sample[i])
      BY DEF FilterIsExact
    <2>. DEFINE n == Len(KeyKinds[r])
    <2>1. /\ n \in Nat \ {0}
          /\ DOMAIN KeyKinds[r] = 1 .. n
      BY KindsOfReader DEF Inv, TypeOK
    <2>2. /\ sample \in [1 .. n -> Int]
          /\ given[r] \in [1 .. n -> Int]
      BY KeysAreNumbers DEF Inv, TypeOK, Keys
    <2>3. /\ member_type[r].key_count = n
          /\ \A i \in 1 .. n : member_type[r].key_data[i] = Expected(r, i)
      BY <2>1 DEF Inv, TypeOK, EntryOK, FilledOK, Settled
    <2>4. \A i \in 1 .. n :
            Passes(KeyKinds[r][i], given[r][i], sample[i])
              <=> sample[i] = Expected(r, i)
      BY <2>2, PassesText DEF Expected
    <2>5. evaluate(r, sample) <=> \A i \in 1 .. n : sample[i] = Expected(r, i)
      BY <2>3 DEF evaluate, Settled
    <2>. QED  BY <2>1, <2>4, <2>5
  <1>. QED  BY <1>1, Invariant, PTL

(***************************************************************************)
(* init_key_filters, once it has returned, has left no reader without a    *)
(* complete filter, unless its parameters were destroyed or the static     *)
(* Converter was emptied by another instance.                              *)
(***************************************************************************)
THEOREM AllReadersFilter == Spec => []SteppingMeansFiltering
  <1>1. Inv => SteppingMeansFiltering
    <2>. SUFFICES ASSUME Inv, mode = "stepping", registered = Readers,
                         NEW r \in Readers, ~Destroyed(r)
                  PROVE  Settled(r)
      BY DEF SteppingMeansFiltering
    <2>1. Len(KeyKinds[r]) \in Nat \ {0}
      BY KindsOfReader DEF Inv, TypeOK
    <2>2. adding # r /\ member_type[r] # None
      BY KeyAssumption DEF Inv, ProgressOK
    <2>. QED
      BY <2>1, <2>2 DEF Inv, EntryOK, Settled
  <1>. QED  BY <1>1, Invariant, PTL
=============================================================================
