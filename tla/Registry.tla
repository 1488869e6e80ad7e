------------------------------ MODULE Registry ------------------------------
(***************************************************************************)
(* The registered consoles in the settings of a program that was started   *)
(* without --profile (chiaki-settings/src/settings.rs): the list in memory *)
(* that the pages read, the store that a save writes, the settings.ini,    *)
(* and the export.  Every operation holds the mutex of the settings; most  *)
(* of them run in update(), which saves.                                   *)
(*                                                                         *)
(* A registration is its key; 0 is none.  Hidden consoles, manual hosts    *)
(* and controller mappings are lists like this one; they, all other        *)
(* settings, and what the files of other profiles hold are left out.       *)
(***************************************************************************)
EXTENDS Naturals

CONSTANTS Consoles,
          Keys,     \* of the registrations that may be made
          Missing   \* BOOLEAN: whether the user may import before there is an export

VARIABLES
  memory,   \* registered_hosts
  store,    \* its array, and current_profile
  file,     \* what is on the disk of the store
  backup,   \* settings-export.ini: the array and this_profile, or NoBackup
  astray,   \* history: the list in memory is not the one of the open profile
  own,      \* history: what the open profile should have registered
  saved     \* history: the last save succeeded
registryVars == <<memory, store, file, backup, astray, own, saved>>

Profiles == {"", "other"}

None     == [c \in Consoles |-> 0]
Stores   == [registered : [Consoles -> Keys \cup {0}], profile : Profiles]
Empty    == [registered |-> None, profile |-> ""]
NoBackup == [registered |-> None, profile |-> "missing"]

RegistryTypeOK ==
  /\ memory \in [Consoles -> Keys \cup {0}] /\ own \in [Consoles -> Keys \cup {0}]
  /\ store \in Stores /\ file \in Stores /\ backup \in Stores \cup {NoBackup}
  /\ astray \in BOOLEAN /\ saved \in BOOLEAN

RegistryInit ==
  /\ memory = None /\ store = Empty /\ file = Empty /\ backup = NoBackup
  /\ astray = FALSE /\ own = None /\ saved = TRUE
-----------------------------------------------------------------------------
\* save of this store. When it fails the file may be written already, as it is the first
\* of several, or have been emptied for writing.
Saves(s)     == file' = s /\ saved' = TRUE
SaveFails(s) == file' \in {s, file, Empty} /\ saved' = FALSE

\* update with a change of the registered consoles: the whole array is written anew,
\* whatever it was made from.
Register(registered) ==
  /\ memory' = registered /\ own' = registered /\ astray' = FALSE
  /\ store' = [store EXCEPT !.registered = registered]
  /\ UNCHANGED backup

\* update with a change of something else.
ChangeOther ==
  /\ Saves(store) \/ SaveFails(store)
  /\ UNCHANGED <<memory, store, backup, astray, own>>

\* add_registered_host, and its save or not.
Add(c, key) == Register([memory EXCEPT ![c] = key])
AddSaved(c, key)   == Add(c, key) /\ Saves(store')
AddUnsaved(c, key) == Add(c, key) /\ SaveFails(store')

\* remove_registered_host; what is not there is only saved.
Remove(c) ==
  /\ memory[c] # 0
  /\ Register([memory EXCEPT ![c] = 0])
  /\ Saves(store') \/ SaveFails(store')

\* The host is looked up when the new name is saved, and added again.
Rename(c) ==
  /\ memory[c] # 0
  /\ Register(memory)
  /\ Saves(store') \/ SaveFails(store')
-----------------------------------------------------------------------------
(* Profiles, export and import *)

\* set_current_profile: which file is open does not change.
SetCurrent(p) ==
  /\ store' = [store EXCEPT !.profile = p]
  /\ Saves(store') \/ SaveFails(store')
  /\ UNCHANGED <<memory, backup, astray, own>>

\* A plausible bug: the list that was cleared for the file is not loaded again.
NotReloaded == memory' = None /\ UNCHANGED astray

\* load_registered_hosts: the list as the store has it.
Reload == memory' = store.registered /\ astray' = FALSE

\* delete_profile: the list is cleared to write an empty one into the file of the
\* profile, and loaded again; unless that write fails. Nothing is saved, and
\* current_profile stays.
DeleteProfile ==
  /\ store.profile # ""
  /\ Reload \/ (memory' = None /\ astray' = TRUE)
  /\ own' = IF astray' THEN own ELSE store.registered
  /\ UNCHANGED <<store, file, backup, saved>>

\* export_settings: the entries of the store come last.
Export ==
  /\ backup' = store
  /\ UNCHANGED <<memory, store, file, astray, own, saved>>

\* import_settings of a file that names no profile: into the store. A file that is not
\* there is read as an empty one.
ImportOwn ==
  /\ IF backup = NoBackup THEN Missing /\ UNCHANGED own
     ELSE backup.profile = "" /\ own' = backup.registered
  /\ memory' = backup.registered /\ astray' = FALSE
  /\ store' = [registered |-> backup.registered, profile |-> ""]
  /\ Saves(store') \/ SaveFails(store')
  /\ UNCHANGED backup

\* Or of one that does: into its file, which may fail. The list stays in memory.
ImportInto ==
  /\ backup.profile = "other"
  /\ memory' = backup.registered /\ astray' = TRUE
  /\ \/ /\ store' = [store EXCEPT !.profile = "other"]
        /\ Saves(store') \/ SaveFails(store')
     \/ UNCHANGED <<store, file, saved>>
  /\ UNCHANGED <<backup, own>>

\* The program ends at any time and is started again.
Restart ==
  /\ store' = file /\ memory' = file.registered /\ astray' = FALSE
  /\ own' = IF saved THEN own ELSE file.registered
  /\ saved' = TRUE
  /\ UNCHANGED <<file, backup>>

\* What the user does on the pages of the settings.
User ==
  \/ \E c \in Consoles : Remove(c) \/ Rename(c)
  \/ ChangeOther \/ (\E p \in Profiles : SetCurrent(p)) \/ DeleteProfile
  \/ Export \/ ImportOwn \/ ImportInto

RegistryNext == User \/ Restart \/ \E c \in Consoles, key \in Keys : AddSaved(c, key) \/ AddUnsaved(c, key)

RegistrySpec == RegistryInit /\ [][RegistryNext]_registryVars
-----------------------------------------------------------------------------
\* What the user registered, and did not remove or replace by an import, is what the
\* pages show and, after a save that succeeded, what the next start loads, with the key
\* that was registered last; through renaming, exports, other profiles that are chosen
\* and deleted, failed saves and restarts. The list goes astray only when a file of
\* another profile is imported or its deletion fails, and then the file of this profile
\* has all of it until the list is changed.
ProfileKept == /\ store.registered = own
               /\ ~astray => memory = own
               /\ saved => file.registered = own

\* system.rs:113 offers to restore the settings from the file "if present": when there
\* is none, what the user registered stays.
RestoresIfPresent == saved => file.registered = own
=============================================================================
