--------------------------- MODULE RepackerProofs ---------------------------
(***************************************************************************)
(* For any files, templates and digests, also colliding ones.  The chain   *)
(* goes from the disk to what generate_xml has loaded (LoadedFromDisk), to *)
(* the description (Honest, DescribesDisk) and to what zip_fmu has added   *)
(* (AddedFromDisk); each link holds as long as the command is clean.       *)
(* What is proved of the walk holds of the walk of a command.              *)
(***************************************************************************)
EXTENDS Repacker, SignalDistributorProofs

\* What generate_xml has loaded so far is there.
LoadedFiles ==
  /\ stage \in {"template", "generate", "walk", "guid", "write"} =>
       loaded.mapping \in Mappings
  /\ stage \in {"generate", "walk", "guid", "write"} =>
       loaded.template \in Templates
  /\ stage = "write" => guid \in Digests

\* The commands that go through generate_xml, and those through zip_fmu.
StageOfCommand ==
  /\ stage = "idle" <=> command = "none"
  /\ stage \in {"load", "template", "generate", "walk", "guid", "write"} =>
       command \in {"generate", "create"}

LoadedFromDisk ==
  clean =>
    /\ stage \in {"template", "generate", "walk", "guid", "write"} =>
         loaded.mapping = disk.mapping
    /\ stage \in {"generate", "walk", "guid", "write"} =>
         loaded.template = disk.template
    /\ stage = "write" => guid = Digest[disk]

\* The GUID of a description is that of its source, if nobody edited.
Honest(d) == IsWhole(d) /\ d.clean => d.guid = Digest[d.source]

AllHonest ==
  /\ Honest(description)
  /\ Honest(entries.description)
  /\ IsWhole(archive) => Honest(archive.entries.description)

DescribesDisk ==
  (clean /\ command = "create" /\ stage \in {"open", "zip"}) =>
    /\ IsWhole(description)
    /\ description.source = disk
    /\ description.guid = Digest[disk]

AddedFromDisk ==
  (clean /\ stage = "zip") =>
    /\ "description" \notin remaining => entries.description = description
    /\ "mapping" \notin remaining => entries.mapping = disk.mapping
    /\ "template" \notin remaining => entries.template = disk.template

IInv == RepackerTypeOK /\ LoadedFiles /\ StageOfCommand

-----------------------------------------------------------------------------
LEMMA InitIInv == RepackerInit => IInv
  <1> SUFFICES ASSUME RepackerInit PROVE IInv
    OBVIOUS
  <1> USE DEF RepackerInit
  <1>1. signal_mapping \in Mappings
    BY DEF Init
  <1>2. disk \in Configuration
    BY <1>1 DEF Configuration
  <1>3. NoFiles \in Configuration
    BY DEF NoFiles, Configuration
  <1>4. NoEntries \in Entries
    BY DEF NoEntries, Entries
  <1>5. 0 \in 0 .. MaxEdits
    BY RepackerAssumption
  <1>6. RepackerTypeOK
    BY <1>2, <1>3, <1>4, <1>5 DEF RepackerTypeOK
  <1> QED
    BY <1>6 DEF IInv, LoadedFiles, StageOfCommand

LEMMA ReturnTypes ==
  ASSUME RepackerTypeOK, Return
  PROVE  /\ stage' = "idle" /\ command' = "none" /\ force' \in BOOLEAN
         /\ loaded' \in Configuration /\ guid' \in Digests \union {None}
         /\ entries' \in Entries /\ remaining' \in SUBSET Files
  BY DEF Return, Configuration, NoFiles, Entries, NoEntries

LEMMA NextIInv == IInv /\ [RepackerNext]_repacker_vars => IInv'
  <1> SUFFICES ASSUME IInv, [RepackerNext]_repacker_vars PROVE IInv'
    OBVIOUS
  <1> USE DEF IInv, RepackerTypeOK, LoadedFiles, StageOfCommand, locals
  <1>1. CASE Edit
    <2>1. disk' \in Configuration
      BY <1>1 DEF Edit, Configuration
    <2>2. edits' \in 0 .. MaxEdits
      BY <1>1, RepackerAssumption DEF Edit
    <2> QED
      BY <1>1, <2>1, <2>2 DEF Edit
  <1>2. CASE Command
    BY <1>2 DEF Command
  <1>3. CASE Remove
    BY <1>3 DEF Remove
  <1>4. CASE Fail
    BY <1>4, ReturnTypes DEF Fail
  <1>5. CASE load_ddsfmu_mapping
    BY <1>5 DEF load_ddsfmu_mapping, Configuration
  <1>6. CASE load_template_xml
    BY <1>6 DEF load_template_xml, Configuration
  <1>7. CASE StartWalk
    BY <1>7 DEF StartWalk
  <1>8. CASE Walk
    BY <1>8 DEF Walk
  <1>9. CASE WalkFails
    BY <1>9, ReturnTypes DEF WalkFails
  <1>10. CASE generate_uuid
    <2>1. Digest[disk] \in Digests
      BY DEF Digests
    <2> QED
      BY <1>10, <2>1 DEF generate_uuid
  <1>11. CASE write_model_description
    <2>1. description' \in Description \union {None, Truncated}
      BY <1>11
         DEF write_model_description, Written, Description, Configuration
    <2>2. clean' \in BOOLEAN
      BY <1>11 DEF write_model_description, Written
    <2>3. CASE command = "generate"
      BY <1>11, <2>1, <2>2, <2>3, ReturnTypes DEF write_model_description
    <2>4. CASE command = "create"
      BY <1>11, <2>1, <2>2, <2>4 DEF write_model_description
    <2> QED
      BY <1>11, <2>3, <2>4 DEF write_model_description
  <1>12. CASE Refuse
    BY <1>12, ReturnTypes DEF Refuse
  <1>13. CASE Open
    BY <1>13 DEF Open, Entries, NoEntries
  <1>14. CASE AddEntry
    <2>1. entries' \in Entries
      BY <1>14 DEF AddEntry, Entries, Files, Configuration
    <2> QED
      BY <1>14, <2>1 DEF AddEntry
  <1>15. CASE Abandon
    BY <1>15, ReturnTypes DEF Abandon
  <1>16. CASE Close
    <2> DEFINE created == IF command = "create" THEN clean ELSE FALSE
    <2>1. \/ archive' = [entries |-> entries, created |-> created]
          \/ archive' = archive
      BY <1>16 DEF Close
    <2>2. created \in BOOLEAN
      OBVIOUS
    <2> HIDE DEF created
    <2>3. archive' \in Archive \union {None, Truncated}
      BY <2>1, <2>2 DEF Archive
    <2> QED
      BY <1>16, <2>3, ReturnTypes DEF Close
  <1>17. CASE UNCHANGED repacker_vars
    BY <1>17 DEF repacker_vars
  <1> QED
    BY <1>1, <1>2, <1>3, <1>4, <1>5, <1>6, <1>7, <1>8, <1>9, <1>10, <1>11,
       <1>12, <1>13, <1>14, <1>15, <1>16, <1>17 DEF RepackerNext, Step

LEMMA Inductive == RepackerSpec => []IInv
  <1>1. RepackerInit => IInv
    BY InitIInv
  <1>2. IInv /\ [RepackerNext]_repacker_vars => IInv'
    BY NextIInv
  <1> QED
    BY <1>1, <1>2, PTL DEF RepackerSpec

\* The variables of the commands have their types, whatever is on the disk.
THEOREM RepackerTypes == RepackerSpec => []RepackerTypeOK
  BY Inductive, PTL DEF IInv

-----------------------------------------------------------------------------
\* An edit makes the command unclean; nothing else writes these files.
LEMMA NextLoadedFromDisk ==
  IInv /\ LoadedFromDisk /\ [RepackerNext]_repacker_vars => LoadedFromDisk'
  <1> SUFFICES ASSUME IInv, LoadedFromDisk, [RepackerNext]_repacker_vars
               PROVE  LoadedFromDisk'
    OBVIOUS
  <1> USE DEF LoadedFromDisk, locals
  <1>1. CASE load_ddsfmu_mapping
    BY <1>1 DEF load_ddsfmu_mapping, IInv, RepackerTypeOK, Configuration
  <1>2. CASE load_template_xml
    BY <1>2 DEF load_template_xml, IInv, RepackerTypeOK, Configuration
  <1>3. CASE \/ Edit \/ Command \/ Remove \/ StartWalk \/ Walk
             \/ generate_uuid \/ Open \/ AddEntry
    BY <1>3 DEF Edit, Command, Remove, StartWalk, Walk, generate_uuid, Open,
                AddEntry
  <1>4. CASE Fail \/ WalkFails \/ Refuse \/ Abandon \/ Close
    BY <1>4 DEF Fail, WalkFails, Refuse, Abandon, Close, Return
  <1>5. CASE write_model_description
    BY <1>5 DEF write_model_description, Return
  <1>6. CASE UNCHANGED repacker_vars
    BY <1>6 DEF repacker_vars
  <1> QED
    BY <1>1, <1>2, <1>3, <1>4, <1>5, <1>6 DEF RepackerNext, Step

\* Two configurations with the same files are the same.
LEMMA SameFiles ==
  ASSUME NEW c \in Configuration, NEW d \in Configuration,
         c.mapping = d.mapping, c.template = d.template
  PROVE  c = d
  BY DEF Configuration

\* What is written when the command is clean.
LEMMA WrittenFromDisk ==
  ASSUME IInv, LoadedFromDisk, stage = "write", Written
  PROVE  /\ clean' => clean
         /\ clean' => /\ IsWhole(description')
                      /\ description'.source = disk
                      /\ description'.guid = Digest[disk]
         /\ Honest(description)  => Honest(description')
  <1> USE DEF IInv, RepackerTypeOK
  <1> DEFINE new == [source |-> loaded, guid |-> guid, clean |-> clean]
  <1>1. new \in Description
    BY DEF Description, LoadedFiles, Configuration
  <1>2. clean => loaded = disk /\ guid = Digest[disk]
    BY SameFiles DEF LoadedFromDisk
  <1>3. CASE description' = new /\ UNCHANGED clean
    <2>1. description' \notin {None, Truncated}
      BY <1>1, <1>3, RepackerAssumption
    <2>2. /\ description'.source = loaded
          /\ description'.guid = guid
          /\ description'.clean = clean
      BY <1>3
    <2> QED
      BY <1>2, <1>3, <2>1, <2>2 DEF IsWhole, Honest
  <1>4. CASE description' = Truncated /\ clean' = FALSE
    BY <1>4 DEF Honest, IsWhole
  <1>5. CASE UNCHANGED description /\ clean' = FALSE
    BY <1>5 DEF Honest, IsWhole
  <1> QED
    BY <1>3, <1>4, <1>5 DEF Written

LEMMA NextDescribesDisk ==
  IInv /\ LoadedFromDisk /\ DescribesDisk /\ [RepackerNext]_repacker_vars
    => DescribesDisk'
  <1> SUFFICES ASSUME IInv, LoadedFromDisk, DescribesDisk,
                      [RepackerNext]_repacker_vars
               PROVE  DescribesDisk'
    OBVIOUS
  <1> USE DEF DescribesDisk, locals
  <1>1. CASE write_model_description
    <2>1. /\ stage = "write" /\ Written /\ disk' = disk
      BY <1>1 DEF write_model_description
    <2> QED
      BY <2>1, WrittenFromDisk
  <1>2. CASE \/ Edit \/ Command \/ Remove \/ load_ddsfmu_mapping
             \/ load_template_xml \/ StartWalk \/ Walk \/ generate_uuid
             \/ Open \/ AddEntry
    BY <1>2 DEF Edit, Command, Remove, load_ddsfmu_mapping,
                load_template_xml, StartWalk, Walk, generate_uuid, Open,
                AddEntry
  <1>3. CASE Fail \/ WalkFails \/ Refuse \/ Abandon \/ Close
    BY <1>3 DEF Fail, WalkFails, Refuse, Abandon, Close, Return
  <1>4. CASE UNCHANGED repacker_vars
    BY <1>4 DEF repacker_vars
  <1> QED
    BY <1>1, <1>2, <1>3, <1>4 DEF RepackerNext, Step

LEMMA NextAddedFromDisk ==
  IInv /\ AddedFromDisk /\ [RepackerNext]_repacker_vars => AddedFromDisk'
  <1> SUFFICES ASSUME IInv, AddedFromDisk, [RepackerNext]_repacker_vars
               PROVE  AddedFromDisk'
    OBVIOUS
  <1> USE DEF AddedFromDisk, locals
  <1>1. CASE Open
    BY <1>1 DEF Open, Files
  <1>2. CASE AddEntry
    <2>1. PICK f \in remaining :
            /\ remaining' = remaining \ {f}
            /\ entries' = [entries EXCEPT ![f] = IF f = "description"
                                                 THEN description
                                                 ELSE disk[f]]
      BY <1>2 DEF AddEntry
    <2>2. f \in Files
      BY DEF IInv, RepackerTypeOK
    <2>3. UNCHANGED <<stage, clean, description, disk>>
      BY <1>2 DEF AddEntry
    <2>4. CASE f = "description"
      BY <2>1, <2>3, <2>4 DEF IInv, RepackerTypeOK, Entries
    <2>5. CASE f = "mapping"
      BY <2>1, <2>3, <2>5 DEF IInv, RepackerTypeOK, Entries, Configuration
    <2>6. CASE f = "template"
      BY <2>1, <2>3, <2>6 DEF IInv, RepackerTypeOK, Entries, Configuration
    <2> QED
      BY <2>2, <2>4, <2>5, <2>6 DEF Files
  <1>3. CASE \/ Edit \/ Command \/ Remove \/ load_ddsfmu_mapping
             \/ load_template_xml \/ StartWalk \/ Walk \/ generate_uuid
    BY <1>3 DEF Edit, Command, Remove, load_ddsfmu_mapping,
                load_template_xml, StartWalk, Walk, generate_uuid
  <1>4. CASE Fail \/ WalkFails \/ Refuse \/ Abandon \/ Close
    BY <1>4 DEF Fail, WalkFails, Refuse, Abandon, Close, Return
  <1>5. CASE write_model_description
    BY <1>5 DEF write_model_description, Return
  <1>6. CASE UNCHANGED repacker_vars
    BY <1>6 DEF repacker_vars
  <1> QED
    BY <1>1, <1>2, <1>3, <1>4, <1>5, <1>6 DEF RepackerNext, Step

-----------------------------------------------------------------------------
\* What zip_close leaves, field by field.
LEMMA Closed ==
  ASSUME Close
  PROVE  \/ archive' = archive
         \/ /\ archive'.entries = entries
            /\ archive'.created => clean /\ command = "create"
  <1> DEFINE created == IF command = "create" THEN clean ELSE FALSE
  <1>1. \/ archive' = [entries |-> entries, created |-> created]
        \/ archive' = archive
    BY DEF Close
  <1>2. created => clean /\ command = "create"
    OBVIOUS
  <1> HIDE DEF created
  <1>3. CASE archive' = [entries |-> entries, created |-> created]
    <2>1. archive'.entries = entries /\ archive'.created = created
      BY <1>3
    <2> QED
      BY <1>2, <2>1
  <1> QED
    BY <1>1, <1>3

\* A description stays honest when it is packed.
LEMMA NextAllHonest ==
  IInv /\ LoadedFromDisk /\ AllHonest /\ [RepackerNext]_repacker_vars
    => AllHonest'
  <1> SUFFICES ASSUME IInv, LoadedFromDisk, AllHonest,
                      [RepackerNext]_repacker_vars
               PROVE  AllHonest'
    OBVIOUS
  <1> USE DEF AllHonest, locals
  <1>1. Honest(NoEntries.description)
    BY DEF Honest, IsWhole, NoEntries
  <1>2. CASE write_model_description
    <2>1. stage = "write" /\ Written /\ archive' = archive
      BY <1>2 DEF write_model_description
    <2>2. Honest(description')
      BY <2>1, WrittenFromDisk
    <2>3. entries' = entries \/ entries' = NoEntries
      BY <1>2 DEF write_model_description, Return
    <2> QED
      BY <1>1, <2>1, <2>2, <2>3 DEF Honest, IsWhole
  <1>3. CASE Open
    BY <1>1, <1>3 DEF Open, Honest, IsWhole
  <1>4. CASE AddEntry
    <2>1. UNCHANGED <<description, archive>>
      BY <1>4 DEF AddEntry
    <2>2. entries'.description \in {entries.description, description}
      BY <1>4 DEF AddEntry, IInv, RepackerTypeOK, Entries, Files
    <2> QED
      BY <2>1, <2>2 DEF Honest, IsWhole
  <1>5. CASE Close
    <2>1. UNCHANGED description /\ entries' = NoEntries
      BY <1>5 DEF Close, Return
    <2>2. archive' = archive \/ archive'.entries = entries
      BY <1>5, Closed
    <2> QED
      BY <1>1, <2>1, <2>2 DEF Honest, IsWhole
  <1>6. CASE Remove
    BY <1>6 DEF Remove, Honest, IsWhole
  <1>7. CASE \/ Edit \/ Command \/ load_ddsfmu_mapping
             \/ load_template_xml \/ StartWalk \/ Walk \/ generate_uuid
    BY <1>7 DEF Edit, Command, load_ddsfmu_mapping, load_template_xml,
                StartWalk, Walk, generate_uuid, Honest, IsWhole
  <1>8. CASE Fail \/ WalkFails \/ Refuse \/ Abandon
    BY <1>1, <1>8
       DEF Fail, WalkFails, Refuse, Abandon, Return, Honest, IsWhole
  <1>9. CASE UNCHANGED repacker_vars
    BY <1>9 DEF repacker_vars, Honest, IsWhole
  <1> QED
    BY <1>2, <1>3, <1>4, <1>5, <1>6, <1>7, <1>8, <1>9
       DEF RepackerNext, Step

LEMMA NextCreateDelivers ==
  /\ IInv /\ DescribesDisk /\ AddedFromDisk /\ CreateDelivers
  /\ [RepackerNext]_repacker_vars
  => CreateDelivers'
  <1> SUFFICES ASSUME IInv, DescribesDisk, AddedFromDisk, CreateDelivers,
                      [RepackerNext]_repacker_vars
               PROVE  CreateDelivers'
    OBVIOUS
  <1>1. CASE archive' = archive
    BY <1>1 DEF CreateDelivers, Accepted, IsWhole, FilesOf
  <1>2. CASE archive' \in {None, Truncated}
    BY <1>2 DEF CreateDelivers, IsWhole
  <1>3. CASE Close /\ archive' # archive
    <2>1. /\ stage = "zip" /\ remaining = {}
          /\ archive'.entries = entries
          /\ archive'.created => clean /\ command = "create"
      BY <1>3, Closed DEF Close
    <2> SUFFICES ASSUME clean, command = "create"
                 PROVE  /\ Accepted(entries)
                        /\ entries.description.source = FilesOf(entries)
      BY <2>1 DEF CreateDelivers, Accepted, IsWhole, FilesOf
    <2>2. /\ IsWhole(description)
          /\ description.source = disk
          /\ description.guid = Digest[disk]
      BY <2>1 DEF DescribesDisk
    <2>3. /\ entries.description = description
          /\ entries.mapping = disk.mapping
          /\ entries.template = disk.template
      BY <2>1 DEF AddedFromDisk
    <2>4. FilesOf(entries) = disk
      BY <2>3 DEF FilesOf, IInv, RepackerTypeOK, Configuration
    <2> QED
      BY <2>2, <2>3, <2>4 DEF Accepted
  <1>4. CASE \/ Edit \/ Command \/ Fail \/ load_ddsfmu_mapping
             \/ load_template_xml \/ StartWalk \/ Walk \/ WalkFails
             \/ generate_uuid \/ write_model_description \/ Refuse
             \/ AddEntry \/ Abandon \/ UNCHANGED repacker_vars
    BY <1>1, <1>4
       DEF Edit, Command, Fail, load_ddsfmu_mapping, load_template_xml,
           StartWalk, Walk, WalkFails, generate_uuid,
           write_model_description, Refuse, AddEntry, Abandon,
           repacker_vars
  <1>5. CASE Open \/ Remove
    BY <1>2, <1>5 DEF Open, Remove
  <1> QED
    BY <1>1, <1>3, <1>4, <1>5 DEF RepackerNext, Step

-----------------------------------------------------------------------------
\* All that holds in every state: the chain and its two ends.
LEMMA Chain == RepackerSpec => [](/\ IInv
                                  /\ LoadedFromDisk
                                  /\ DescribesDisk
                                  /\ AddedFromDisk
                                  /\ AllHonest)
  <1>1. RepackerInit => /\ LoadedFromDisk
                        /\ DescribesDisk
                        /\ AddedFromDisk
                        /\ AllHonest
    BY DEF RepackerInit, LoadedFromDisk, DescribesDisk, AddedFromDisk,
           AllHonest, Honest, IsWhole, NoEntries
  <1> QED
    BY <1>1, Inductive, NextLoadedFromDisk, NextDescribesDisk,
       NextAddedFromDisk, NextAllHonest, PTL DEF RepackerSpec

(***************************************************************************)
(* Whatever the order of edits, commands and failures, an archive that is  *)
(* accepted and whose description was made undisturbed has the files it    *)
(* was made from, up to the digest.                                        *)
(***************************************************************************)
THEOREM Described == RepackerSpec => []AcceptedMeansDescribed
  <1>1. AllHonest => AcceptedMeansDescribed
    BY DEF AllHonest, AcceptedMeansDescribed, Honest, Accepted
  <1> QED
    BY <1>1, Chain, PTL

\* A clean create makes an archive that is accepted and describes its files.
THEOREM Delivered == RepackerSpec => []CreateDelivers
  <1>1. RepackerInit => CreateDelivers
    BY DEF RepackerInit, CreateDelivers, IsWhole
  <1> QED
    BY <1>1, Chain, NextCreateDelivers, PTL DEF RepackerSpec

\* From zip_open to zip_close there is no archive but the one being made.
Zipping == stage = "zip" => archive = Truncated

LEMMA NextZipping ==
  IInv /\ Zipping /\ [RepackerNext]_repacker_vars => Zipping'
  <1> SUFFICES ASSUME IInv, Zipping, [RepackerNext]_repacker_vars
               PROVE  Zipping'
    OBVIOUS
  <1> USE DEF Zipping, locals
  <1>1. CASE \/ Edit \/ Command \/ Remove \/ load_ddsfmu_mapping
             \/ load_template_xml \/ StartWalk \/ Walk \/ generate_uuid
             \/ write_model_description \/ Open \/ AddEntry
    BY <1>1 DEF Edit, Command, Remove, load_ddsfmu_mapping,
                load_template_xml, StartWalk, Walk, generate_uuid,
                write_model_description, Return, Open, AddEntry
  <1>2. CASE Fail \/ WalkFails \/ Refuse \/ Abandon \/ Close
    BY <1>2 DEF Fail, WalkFails, Refuse, Abandon, Close, Return
  <1>3. CASE UNCHANGED repacker_vars
    BY <1>3 DEF repacker_vars
  <1> QED
    BY <1>1, <1>2, <1>3 DEF RepackerNext, Step

\* No command but one with -f touches an archive that is whole.
THEOREM Survival == RepackerSpec => ArchivesSurvive
  <1>1. ASSUME IInv, Zipping, [RepackerNext]_repacker_vars,
               IsWhole(archive), archive' # archive
        PROVE  force \/ command = "none"
    <2>1. archive # Truncated /\ archive # None
      BY <1>1 DEF IsWhole
    <2>2. CASE Open
      BY <2>1, <2>2 DEF Open
    <2>3. CASE Close
      BY <1>1, <2>1, <2>3 DEF Close, Zipping
    <2>4. CASE Remove
      BY <1>1, <2>4 DEF Remove, IInv, StageOfCommand
    <2>5. CASE \/ Edit \/ Command \/ Fail \/ load_ddsfmu_mapping
               \/ load_template_xml \/ StartWalk \/ Walk \/ WalkFails
               \/ generate_uuid \/ write_model_description \/ Refuse
               \/ AddEntry \/ Abandon \/ UNCHANGED repacker_vars
      BY <1>1, <2>5
         DEF Edit, Command, Fail, load_ddsfmu_mapping, load_template_xml,
             StartWalk, Walk, WalkFails, generate_uuid,
             write_model_description, Refuse, AddEntry, Abandon,
             repacker_vars
    <2> QED
      BY <1>1, <2>2, <2>3, <2>4, <2>5 DEF RepackerNext, Step
  <1>2. RepackerInit => Zipping
    BY DEF RepackerInit, Zipping
  <1>3. IInv /\ Zipping /\ [RepackerNext]_repacker_vars
        => [IsWhole(archive) /\ archive' # archive
              => force \/ command = "none"]_repacker_vars
    BY <1>1
  <1> QED
    BY <1>2, <1>3, Inductive, NextZipping, PTL
    DEF RepackerSpec, ArchivesSurvive

-----------------------------------------------------------------------------
\* A SignalDistributor that is destroyed leaves nothing.
LEMMA LeaveInv ==
  ASSUME TypeOK, Leave
  PROVE  Inv'
  <1>1. TypeOK'
    BY DEF Leave, TypeOK, Cardinal
  <1>. QED
    BY <1>1 DEF Leave, Inv, AddingOK, DenseReferences, OutputsFirst, FmiTypes

LEMMA WalkInv == Inv /\ [RepackerNext]_repacker_vars => Inv'
  <1> SUFFICES ASSUME Inv, [RepackerNext]_repacker_vars PROVE Inv'
    OBVIOUS
  <1>1. CASE UNCHANGED vars
    BY <1>1, StepInv
  <1>2. CASE Leave
    BY <1>2, LeaveInv DEF Inv
  <1>3. CASE Next
    BY <1>3, StepInv
  <1>4. CASE StartWalk \/ Walk
    BY <1>3, <1>4 DEF StartWalk, Walk, Next
  <1>5. CASE WalkFails \/ write_model_description
    BY <1>2, <1>5 DEF WalkFails, write_model_description
  <1>6. CASE \/ Edit \/ Command \/ Remove \/ Fail \/ load_ddsfmu_mapping
             \/ load_template_xml \/ generate_uuid \/ Refuse \/ Open
             \/ AddEntry \/ Abandon \/ Close \/ UNCHANGED repacker_vars
    BY <1>1, <1>6
       DEF Edit, Command, Remove, Fail, load_ddsfmu_mapping,
           load_template_xml, generate_uuid, Refuse, Open, AddEntry,
           Abandon, Close, repacker_vars
  <1> QED
    BY <1>4, <1>5, <1>6 DEF RepackerNext, Step

\* What the walk of generate_xml promises, in the course of the commands.
THEOREM WalkIsSound ==
  RepackerSpec => [](TypeOK /\ DenseReferences /\ StructureListsOutputs)
  <1>1. RepackerInit => Inv
    BY InitInv DEF RepackerInit
  <1>2. Inv => TypeOK /\ DenseReferences /\ StructureListsOutputs
    BY DEF Inv, OutputsFirst, StructureListsOutputs
  <1> QED
    BY <1>1, <1>2, WalkInv, PTL DEF RepackerSpec
=============================================================================
