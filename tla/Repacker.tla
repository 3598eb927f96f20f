------------------------------ MODULE Repacker ------------------------------
(***************************************************************************)
(* The commands of the repacker: generate writes modelDescription.xml from *)
(* the configuration on disk, zip packs the directory into an archive, and *)
(* create is the one and then the other.  The user edits the configuration *)
(* whenever he likes, also while a command runs; reading and writing files *)
(* may fail, and not every failure is noticed.                             *)
(*                                                                         *)
(* The configuration is ddsfmu_mapping.xml and the template of the model   *)
(* description.  The walk of generate_xml, which reads no file, is that of *)
(* SignalDistributor.  An archive is accepted, when it is instantiated, if *)
(* the GUID of its description is that of its files.                       *)
(***************************************************************************)
EXTENDS SignalDistributor

CONSTANTS
  Templates,   \* the contents resources/config/modelDescription.xml may have
  Digest,      \* Digest[c]: the GUID of a configuration.  generate_uuid
               \* hashes the files one after the other without their names,
               \* white space and guid attributes: configurations may collide
  None,
  Truncated,   \* a file that was not written to its end
  MaxEdits     \* bound: the user edits this often

VARIABLES
  disk,          \* the configuration; a file may be missing
  edits,         \* the number of edits
  description,   \* modelDescription.xml: None, Truncated or what it was
                 \* made from
  archive,       \* the file named by -o: None, Truncated or what is in it
  command,       \* "none", or the command that runs
  force,         \* its flag -f
  stage,         \* where it is
  loaded,        \* generate_xml: the files as they were loaded
  guid,          \* generate_xml: the GUID
  entries,       \* zip_fmu: what has been added
  remaining,     \* zip_fmu: the files of the directory still to come
  clean          \* history: since the command began no file was edited and
                 \* no access to a file failed

locals == <<command, force, stage, loaded, guid, entries, remaining>>

repacker_vars ==
  <<vars, disk, edits, description, archive, locals, clean>>

Configuration == [mapping  : Mappings \union {None},
                  template : Templates \union {None}]

NoFiles == [mapping |-> None, template |-> None]

Digests == {Digest[c] : c \in Configuration}

Files == {"description", "mapping", "template"}

\* The source is not in the file, nor is whether nobody edited and nothing
\* failed while it was made: they are history.
Description == [source : [mapping : Mappings, template : Templates],
                guid   : Digests,
                clean  : BOOLEAN]

Entries == [description : Description \union {None, Truncated},
            mapping     : Mappings \union {None},
            template    : Templates \union {None}]

\* created is history: by a create during which nobody edited and nothing
\* failed.
Archive == [entries : Entries, created : BOOLEAN]

ASSUME RepackerAssumption ==
  /\ Templates # {}
  /\ DOMAIN Digest = Configuration
  /\ None \notin Mappings \union Templates \union Digests
  /\ Truncated # None
  /\ {None, Truncated} \intersect (Description \union Archive) = {}
  /\ MaxEdits \in Nat

NoEntries == [description |-> None, mapping |-> None, template |-> None]

-----------------------------------------------------------------------------
RepackerInit ==
  /\ Init
  /\ disk \in [mapping : {signal_mapping}, template : Templates]
  /\ edits = 0
  /\ description = None
  /\ archive = None
  /\ command = "none"
  /\ force = FALSE
  /\ stage = "idle"
  /\ loaded = NoFiles
  /\ guid = None
  /\ entries = NoEntries
  /\ remaining = {}
  /\ clean = FALSE

\* The user saves or removes a file of the configuration.  Bound: not during
\* the walk, which reads none; an edit there is one after it.
Edit ==
  /\ edits < MaxEdits
  /\ edits' = edits + 1
  /\ stage # "walk"
  /\ \/ \E m \in Mappings \union {None} :
          disk' = [disk EXCEPT !.mapping = m]
     \/ \E t \in Templates \union {None} :
          disk' = [disk EXCEPT !.template = t]
  /\ disk' # disk
  /\ clean' = FALSE
  /\ UNCHANGED <<vars, description, archive, locals>>

\* main parses the command line.  What prepare_for_generate and
\* prepare_for_zip find wrong is printed, and the command goes on.
Command ==
  /\ stage = "idle"
  /\ command' \in {"generate", "zip", "create"}
  /\ force' \in IF command' = "generate" THEN {FALSE} ELSE BOOLEAN
  /\ stage' = IF command' = "zip" THEN "open" ELSE "load"
  /\ clean' = TRUE
  /\ UNCHANGED <<vars, disk, edits, description, archive, loaded, guid,
                 entries, remaining>>

\* The command ends, well or not: main returns 0.
Return ==
  /\ stage' = "idle"
  /\ command' = "none"
  /\ force' = FALSE
  /\ loaded' = NoFiles
  /\ guid' = None
  /\ entries' = NoEntries
  /\ remaining' = {}

\* generate_xml is left, and its SignalDistributor destroyed.
Leave ==
  /\ pc' = "start"
  /\ element' = 1
  /\ node' = 0
  /\ m_potential_keys' = <<>>
  /\ m_idx' = [t \in FmiTypes |-> 0]
  /\ m_outputs' = 0
  /\ m_signal_mapping' = <<>>
  /\ UNCHANGED signal_mapping

\* A file is missing, cannot be read or is broken: an exception.
Fail ==
  /\ stage \in {"load", "template", "generate"}
  /\ Return
  /\ clean' = FALSE
  /\ UNCHANGED <<vars, disk, edits, description, archive>>

\* Mutant: the file that was walked last is taken for the one on disk.
load_ddsfmu_mapping_once ==
  /\ stage = "load"
  /\ disk.mapping # None
  /\ loaded' = [loaded EXCEPT !.mapping =
                  signal_mapping]
  /\ stage' = "template"
  /\ UNCHANGED <<vars, disk, edits, description, archive, command, force,
                 guid,
                 entries, remaining, clean>>

load_ddsfmu_mapping ==
  /\ stage = "load"
  /\ disk.mapping # None
  /\ loaded' = [loaded EXCEPT !.mapping = disk.mapping]
  /\ stage' = "template"
  /\ UNCHANGED <<vars, disk, edits, description, archive, command, force,
                 guid,
                 entries, remaining, clean>>

\* Mutant: the file is not looked for before it is opened.
load_template_unchecked ==
  /\ stage = "template"
  /\ loaded' = [loaded EXCEPT !.template = disk.template]
  /\ stage' = "generate"
  /\ UNCHANGED <<vars, disk, edits, description, archive, command, force,
                 guid,
                 entries, remaining, clean>>

load_template_xml ==
  /\ stage = "template"
  /\ disk.template # None
  /\ loaded' = [loaded EXCEPT !.template = disk.template]
  /\ stage' = "generate"
  /\ UNCHANGED <<vars, disk, edits, description, archive, command, force,
                 guid,
                 entries, remaining, clean>>

\* SignalDistributor(), load_idls, and the first loop begins.
StartWalk ==
  /\ stage = "generate"
  /\ Generate
  /\ signal_mapping' = loaded.mapping
  /\ pc' = "OUTPUT"
  /\ stage' = "walk"
  /\ UNCHANGED <<disk, edits, description, archive, command, force, loaded,
                 guid,
                 entries, remaining, clean>>

\* The loops of generate_xml and process_key_queue.
Walk ==
  /\ stage = "walk"
  /\ BeginAdd \/ Visit \/ EndAdd \/ NextLoop
  /\ stage' = IF pc' = "written" THEN "guid" ELSE "walk"
  /\ UNCHANGED <<disk, edits, description, archive, command, force, loaded,
                 guid,
                 entries, remaining, clean>>

\* An element of the mapping makes generate_xml throw.
WalkFails ==
  /\ stage = "walk"
  /\ node = 0
  /\ element \in DOMAIN Elements
  /\ pc # "PARAMETER"
  /\ ~Readable(Elements[element])
  /\ Leave
  /\ Return
  /\ UNCHANGED <<disk, edits, description, archive, clean>>

\* Mutant: the template is not among the files.
generate_uuid_of_mapping ==
  /\ stage = "guid"
  /\ guid' = Digest[[disk EXCEPT !.template = None]]
  /\ stage' = "write"
  /\ UNCHANGED <<vars, disk, edits, description, archive, command, force,
                 loaded, entries, remaining, clean>>

\* get_uuid_files and generate_uuid go to the disk again.
generate_uuid ==
  /\ stage = "guid"
  /\ guid' = Digest[disk]
  /\ stage' = "write"
  /\ UNCHANGED <<vars, disk, edits, description, archive, command, force,
                 loaded, entries, remaining, clean>>

\* What write_model_description leaves: nobody asks whether the file was
\* opened, and whether all of it was written.
Written ==
  \/ /\ description' = [source |-> loaded, guid |-> guid, clean |-> clean]
     /\ UNCHANGED clean
  \/ /\ description' = Truncated
     /\ clean' = FALSE
  \/ /\ UNCHANGED description
     /\ clean' = FALSE

write_model_description ==
  /\ stage = "write"
  /\ Written
  /\ \/ command = "generate" /\ Return
     \/ /\ command = "create"
        /\ stage' = "open"
        /\ UNCHANGED <<command, force, loaded, guid,
                 entries, remaining>>
  /\ Leave
  /\ UNCHANGED <<disk, edits, archive>>

-----------------------------------------------------------------------------
\* zip_fmu: the file is there, and nothing said to overwrite it; or it cannot
\* be opened.
Refuse ==
  /\ stage = "open"
  /\ Return
  /\ clean' = (clean /\ archive # None /\ ~force)
  /\ UNCHANGED <<vars, disk, edits, description, archive>>

\* Mutant: the flag is not looked at.
OpenAlways ==
  /\ stage = "open"
  /\ archive' = Truncated
  /\ entries' = NoEntries
  /\ remaining' = Files
  /\ stage' = "zip"
  /\ UNCHANGED <<vars, disk, edits, description, command, force, loaded,
                 guid, clean>>

\* zip_fmu: zip_open truncates the file.
Open ==
  /\ stage = "open"
  /\ archive = None \/ force
  /\ archive' = Truncated
  /\ entries' = NoEntries
  /\ remaining' = Files
  /\ stage' = "zip"
  /\ UNCHANGED <<vars, disk, edits, description, command, force, loaded,
                 guid, clean>>

\* zip_fmu: a file of the directory, in the order the file system likes, if
\* it is there.
AddEntry ==
  /\ stage = "zip"
  /\ \E f \in remaining :
       /\ remaining' = remaining \ {f}
       /\ entries' = [entries EXCEPT ![f] = IF f = "description"
                                            THEN description
                                            ELSE disk[f]]
  /\ UNCHANGED <<vars, disk, edits, description, archive, command, force,
                 stage, loaded, guid, clean>>

\* zip_fmu: an entry fails.  The archive is not closed, nor removed.
Abandon ==
  /\ stage = "zip"
  /\ remaining # {}
  /\ Return
  /\ clean' = FALSE
  /\ UNCHANGED <<vars, disk, edits, description, archive>>

\* zip_fmu: zip_close writes the central directory, if it can; nobody asks.
Close ==
  /\ stage = "zip"
  /\ remaining = {}
  /\ \/ /\ archive' = [entries |-> entries,
                       created |-> IF command = "create" THEN clean
                                                           ELSE FALSE]
        /\ UNCHANGED clean
     \/ UNCHANGED archive /\ clean' = FALSE
  /\ Return
  /\ UNCHANGED <<vars, disk, edits, description>>

\* The user removes the archive.
Remove ==
  /\ stage = "idle"
  /\ archive # None
  /\ archive' = None
  /\ UNCHANGED <<vars, disk, edits, description, locals, clean>>

-----------------------------------------------------------------------------
\* A step of the program.
Step == \/ Fail \/ load_ddsfmu_mapping \/ load_template_xml \/ StartWalk
        \/ Walk \/ WalkFails \/ generate_uuid \/ write_model_description
        \/ Refuse \/ Open \/ AddEntry \/ Abandon \/ Close

RepackerNext == Edit \/ Command \/ Remove \/ Step

RepackerSpec == RepackerInit /\ [][RepackerNext]_repacker_vars

-----------------------------------------------------------------------------
RepackerTypeOK ==
  /\ disk \in Configuration
  /\ edits \in 0 .. MaxEdits
  /\ description \in Description \union {None, Truncated}
  /\ archive \in Archive \union {None, Truncated}
  /\ command \in {"none", "generate", "zip", "create"}
  /\ force \in BOOLEAN
  /\ stage \in {"idle", "load", "template", "generate", "walk", "guid",
                "write", "open", "zip"}
  /\ loaded \in Configuration
  /\ guid \in Digests \union {None}
  /\ entries \in Entries
  /\ remaining \in SUBSET Files
  /\ clean \in BOOLEAN

IsWhole(file) == file \notin {None, Truncated}

FilesOf(e) == [mapping |-> e.mapping, template |-> e.template]

\* CppfmuInstantiateSlave compares the GUID of the description with that of
\* the files it finds beside it.
Accepted(e) ==
  /\ IsWhole(e.description)
  /\ e.description.guid = Digest[FilesOf(e)]

(***************************************************************************)
(* The GUID is computed from the files as they are at the end of generate, *)
(* the variables from what was loaded at its beginning, and the archive is *)
(* packed later.  Yet an archive that is accepted, whose description was   *)
(* written with nobody editing, has the files its description was made     *)
(* from, or files with the same digest.                                    *)
(***************************************************************************)
AcceptedMeansDescribed ==
  IsWhole(archive) =>
    LET e == archive.entries
    IN  Accepted(e) /\ e.description.clean =>
          Digest[e.description.source] = Digest[FilesOf(e)]

(***************************************************************************)
(* repacker.cpp:308: create is "Repackaging of 'dds-fmu' with customised   *)
(* configuration files.  It runs 'generate' and then 'zip'."  What it has  *)
(* packed, when nobody edited meanwhile and no access to a file failed, is *)
(* accepted, and describes the very files in it.                           *)
(***************************************************************************)
CreateDelivers ==
  (IsWhole(archive) /\ archive.created) =>
    /\ Accepted(archive.entries)
    /\ archive.entries.description.source = FilesOf(archive.entries)

(***************************************************************************)
(* "Force overwriting file with -f flag": without it no command, however   *)
(* it ends, changes a file that was there when it began.                   *)
(***************************************************************************)
ArchivesSurvive ==
  [][IsWhole(archive) /\ archive' # archive
       => force \/ command = "none"]_repacker_vars
=============================================================================
