---------------------------- MODULE BackupCopies ----------------------------
(***************************************************************************)
(* The two stores of the backups of one host: LocalBackupStore             *)
(* (infrastructure/backup.py) with the original, RemoteRootRecoveryStore   *)
(* (infrastructure/remote_backup.py) with the recovery copy.  This module  *)
(* has what the removal of a backup sees of them and does to them; the     *)
(* modules that extend it remove.                                          *)
(*                                                                         *)
(* A removal unlinks file after file.  A copy is "whole"; "damaged", when  *)
(* an item is missing or wrong; "stripped", when a remote copy has no item *)
(* directory any more; a "husk", when the manifest or receipt is gone and  *)
(* the directory is left; or "gone".                                       *)
(***************************************************************************)
EXTENDS Integers, FiniteSets

CONSTANTS Backups,         \* complete backups of the host, with both copies
          CreatedAt,       \* created_at of each
          Expired,         \* backups past retention_expires_at
          ProtectedFirst,  \* backups protected in the manifest when they were copied
          KeepGenerations, \* keep_generations of both prunes
          MaxEvents        \* bound: faults, cancels, deaths and changes of protection

ASSUME CopiesAssumption ==
    /\ IsFiniteSet(Backups) /\ CreatedAt \in [Backups -> Nat]
    /\ \A b, c \in Backups : CreatedAt[b] = CreatedAt[c] => b = c
    /\ Expired \subseteq Backups /\ ProtectedFirst \subseteq Backups
    /\ KeepGenerations \in Nat \ {0} /\ MaxEvents \in Nat

VARIABLES local,      \* the original of each backup
          remote,     \* the recovery copy of each backup
          protected,  \* backups protected in the manifest of the original
          held,       \* backups protected in the retention record of the copy
          changed,    \* history: stores in which a protection was changed
          events      \* faults, cancels, deaths and changes of protection so far

copies == <<local, remote>>
protection == <<protected, held, changed>>
copyVars == <<copies, protection, events>>

LocalStates  == {"whole", "damaged", "husk", "gone"}
RemoteStates == LocalStates \union {"stripped"}
MayHappen == events < MaxEvents
Happens == events' = events + 1

CopiesInit == /\ local = [b \in Backups |-> "whole"] /\ remote = [b \in Backups |-> "whole"]
              /\ protected = ProtectedFirst /\ held = ProtectedFirst /\ changed = {} /\ events = 0

----------------------------------------------------------------------------
(* What the stores answer.                                                 *)

\* list_manifests passes over a directory whose manifest does not decode.
LocalListed(b) == local[b] \in {"whole", "damaged"}
LocalList == {b \in Backups : LocalListed(b)}

\* verify against the manifest of an unprotected backup: a change of the
\* protection changes the manifest on the disk.
LocalVerifies(b) == local[b] = "whole" /\ b \notin protected

\* list_retention reads receipt and retention record of every directory, and
\* raises for one that has none.
RemoteListable == \A b \in Backups : remote[b] # "husk"
RemoteListed(b) == remote[b] # "gone"
RemoteList == {b \in Backups : RemoteListed(b)}

\* LocalBackupCopyObserver, over the unprotected manifest.
ObservedLocal(b) == IF local[b] = "gone" THEN "absent"
                    ELSE IF LocalVerifies(b) THEN "present" ELSE "unknown"

\* RemoteRootRecoveryStore.load, and RemoteBackupCopyObserver over it.
LoadReceipt(b) == CASE remote[b] = "whole" -> "present"
                    [] remote[b] \in {"husk", "gone"} -> "absent"
                    [] OTHER -> "unknown"

\* _combined and _state.
CombinedState(l, r) == CASE "unknown" \in {l, r} -> "unknown"
                         [] l = "present" /\ r = "present" -> "both_available"
                         [] l = "present" -> "local_only"
                         [] r = "present" -> "remote_only"
                         [] OTHER -> "both_deleted"

----------------------------------------------------------------------------
(* Removal, one group of unlinks at a time.                                *)

\* _remove_backup_tree: the phase, the states in which it changes something
\* and what it leaves.
LocalRemoval == [items |-> [from |-> {"whole", "damaged"}, to |-> "damaged", next |-> "manifest"],
                 manifest |-> [from |-> {"damaged"}, to |-> "husk", next |-> "directory"],
                 directory |-> [from |-> {"husk"}, to |-> "gone", next |-> "removed"]]

\* _remove_backup_directory.
RemoteRemoval == [items |-> [from |-> {"whole", "damaged"}, to |-> "damaged", next |-> "items_dir"],
                  items_dir |-> [from |-> {"damaged"}, to |-> "stripped", next |-> "receipt"],
                  receipt |-> [from |-> {"stripped"}, to |-> "husk", next |-> "directory"],
                  directory |-> [from |-> {"husk"}, to |-> "gone", next |-> "removed"]]

\* A removal that finds the work of a phase done by another passes over it
\* only in a local husk; an unlink of what is not there raises.
LocalPhase(b, phase) == /\ \/ local[b] \in LocalRemoval[phase].from
                           \/ local[b] = "husk"
                        /\ local' = [local EXCEPT ![b] = IF @ \in LocalRemoval[phase].from
                                                         THEN LocalRemoval[phase].to ELSE @]
LocalPhaseRaises(b, phase) == local[b] \notin LocalRemoval[phase].from \union {"husk"}
RemotePhase(b, phase) == /\ remote[b] \in RemoteRemoval[phase].from
                         /\ remote' = [remote EXCEPT ![b] = RemoteRemoval[phase].to]
RemotePhaseRaises(b, phase) == remote[b] \notin RemoteRemoval[phase].from

----------------------------------------------------------------------------
Toggle(set, b) == IF b \in set THEN set \ {b} ELSE set \union {b}

\* LocalBackupStore.set_protected.
SetProtected(b) == /\ MayHappen /\ LocalListed(b)
                   /\ protected' = Toggle(protected, b) /\ changed' = changed \union {"local"}
                   /\ Happens /\ UNCHANGED <<copies, held>>

\* RemoteRootRecoveryStore.set_protected.
SetHeld(b) == /\ MayHappen /\ remote[b] = "whole"
              /\ held' = Toggle(held, b) /\ changed' = changed \union {"remote"}
              /\ Happens /\ UNCHANGED <<copies, protected>>
=============================================================================
