----------------------------- MODULE BackupRestore -----------------------------
(* The backup and the restoration of the daemon's files, which another       *)
(* program asks for over D-Bus: SignonDaemon closes the credentials system,  *)
(* copies the files one by one and opens it again.                           *)
(*                                                                           *)
(* Nothing else happens in the daemon during a call, but it may be killed    *)
(* between any two operations on files: these are the steps.  A file is its  *)
(* content, the version of the credentials it was last written with.  The    *)
(* modes of files and the directories are not modelled.                      *)
EXTENDS Integers, Sequences, SequencesExt

CONSTANTS MaxVersion, \* bound: changes of the stored credentials
          FaultKinds  \* what may fail

ASSUME BackupAssumption ==
    /\ MaxVersion \in Nat \ {0}
    /\ FaultKinds \subseteq {"open", "unmount", "tree", "copy", "rename", "renameBack", "remove"}

File == {"db", "secrets"}

NoFile == 0 \* there is none
Empty == 1  \* a file, or a database, with nothing in it
Content == 0..MaxVersion

VARIABLES listed, \* the files to be backed up
          files, bak, backup, \* in the storage directory, there as ".bak", in the backup
          alive, mode,        \* the daemon runs; it is started for backups only
          opened, \* the credentials system is open
          at,     \* the step of a call
          todo,   \* files that the loop has still to go through
          moved, copied, \* movedFiles, copiedFiles
          old,     \* history: the files before the restoration
          refused, \* history: files that it could not remove, or move back
          saved    \* history: the files of the last backup that was made

disk == <<files, bak, backup>>
loop == <<todo, moved, copied>>
daemonVars == <<alive, mode, opened, at>>
history == <<old, refused, saved>>
vars == <<listed, disk, loop, daemonVars, history>>

Steps == {"idle", "tree", "erase", "copy", "finish",
          "restore", "recover", "clean", "restored", "reopen"}

NoFiles == [f \in File |-> NoFile]

TypeOK ==
    /\ listed \in {<<"db">>, <<"db", "secrets">>}
    /\ files \in [File -> Content] /\ bak \in [File -> Content] /\ backup \in [File -> Content]
    /\ alive \in BOOLEAN /\ mode \in {"normal", "backup"} /\ opened \in BOOLEAN
    /\ at \in Steps
    /\ todo \in Seq(File)
    /\ moved \subseteq File /\ copied \subseteq File
    /\ old \in [File -> Content] /\ saved \in [File -> Content] /\ refused \subseteq File
    /\ at = "idle" => todo = << >> /\ moved = {} /\ copied = {}

\* backupFiles(): the image of the file system, where it is encrypted; else the
\* secrets are a file that is not backed up.
Init ==
    /\ listed \in {<<"db">>, <<"db", "secrets">>}
    /\ files = NoFiles /\ bak = NoFiles /\ backup = NoFiles
    /\ alive = FALSE /\ mode = "normal" /\ opened = FALSE
    /\ at = "idle" /\ todo = << >> /\ moved = {} /\ copied = {}
    /\ old = NoFiles /\ saved = NoFiles /\ refused = {}

Fails(kind) == kind \in FaultKinds

-----------------------------------------------------------------------------
\* The files, once those of made are made where they were not there.
FilesWith(made) == [f \in File |-> IF f \in made /\ files[f] = NoFile THEN Empty ELSE files[f]]

\* openCredentialsSystem() makes the database where there is none.  The secrets
\* are made only where they can be opened: an encrypted file system has perhaps no
\* key yet.
OpenSystem ==
    \/ opened' = TRUE /\ files' \in {FilesWith({"db"}), FilesWith(File)}
    \/ Fails("open") /\ opened' = FALSE /\ files' \in {files, FilesWith({"db"})}

\* init(): in backup mode the storage is left alone.
Start ==
    /\ ~alive
    /\ alive' = TRUE /\ at' = "idle"
    /\ \/ mode' = "normal" /\ OpenSystem
       \/ mode' = "backup" /\ opened' = FALSE /\ UNCHANGED files
    /\ UNCHANGED <<listed, bak, backup, loop, history>>

Idle == alive /\ at = "idle"

Contents == UNION {{Empty, files[f], bak[f], backup[f], saved[f]} : f \in File}

\* updateCredentials() and the like: the files change, to the next version; the
\* database alone where the secrets are not open.
Update ==
    /\ Idle /\ opened
    /\ \E v \in Content : /\ v - 1 \in Contents /\ \A c \in Contents : c < v
                          /\ \E g \in File :
                                files' = [f \in File |-> IF f \in {"db", g} /\ files[f] # NoFile
                                                         THEN v ELSE files[f]]
    /\ UNCHANGED <<listed, bak, backup, loop, daemonVars, history>>

\* Killed, or ended by a fault.
Killed ==
    /\ alive' = FALSE /\ opened' = FALSE /\ at' = "idle"
    /\ todo' = << >> /\ moved' = {} /\ copied' = {}
    /\ UNCHANGED <<listed, disk, mode, history>>

Crash == alive /\ Killed

-----------------------------------------------------------------------------
\* backupStarts(): in backup mode there is no crypto manager to be asked for
\* its files.
BackupStarts ==
    /\ Idle
    /\ IF mode = "backup" THEN Killed
       ELSE /\ opened' = FALSE
            /\ at' = "tree"
            /\ UNCHANGED <<listed, disk, loop, alive, mode, history>>

\* createStorageFileTree(), of all files; it stops at one that it cannot make.  The
\* system stays closed then.
CreateStorageFileTree ==
    /\ alive /\ at = "tree"
    /\ \/ /\ files' = FilesWith(ToSet(listed))
          /\ at' = "erase"
       \/ /\ Fails("tree")
          /\ \E i \in 1..Len(listed) : /\ files[listed[i]] = NoFile
                                       /\ files' = FilesWith({listed[j] : j \in 1..i - 1})
          /\ at' = "idle"
    /\ UNCHANGED <<listed, bak, backup, loop, alive, mode, opened, history>>

\* eraseBackupDir(), one file.  One that cannot be removed is left, and the caller
\* is not told.
EraseBackupDir ==
    /\ alive /\ at \in {"erase", "finish", "restored"}
    /\ \E f \in File : backup[f] # NoFile /\ backup' = [backup EXCEPT ![f] = NoFile]
    /\ UNCHANGED <<listed, files, bak, loop, daemonVars, history>>

Erased == backup = NoFiles \/ Fails("remove")

\* The beginning of copyToBackupDir().
BackupErased ==
    /\ alive /\ at = "erase"
    /\ Erased
    /\ at' = "copy" /\ todo' = listed
    /\ UNCHANGED <<listed, disk, moved, copied, alive, mode, opened, history>>

\* A file that is still there in the backup is removed first; where that fails,
\* the copy does.
CopyFails(f) ==
    \/ Fails("copy") /\ backup' = [backup EXCEPT ![f] = NoFile]
    \/ backup[f] # NoFile /\ Fails("remove") /\ UNCHANGED backup

\* A defect: the loop goes on after a file that could not be copied.
CopyToBackupDirOn ==
    /\ alive /\ at = "copy" /\ todo # << >>
    /\ \/ /\ backup' = [backup EXCEPT ![Head(todo)] = files[Head(todo)]]
          /\ todo' = Tail(todo)
       \/ /\ CopyFails(Head(todo))
          /\ todo' = Tail(todo)
    /\ UNCHANGED at
    /\ UNCHANGED <<listed, files, bak, moved, copied, alive, mode, opened, history>>

\* copyToBackupDir(), one file.
CopyToBackupDir ==
    /\ alive /\ at = "copy" /\ todo # << >>
    /\ \/ /\ backup' = [backup EXCEPT ![Head(todo)] = files[Head(todo)]]
          /\ todo' = Tail(todo)
          /\ UNCHANGED at
       \/ /\ CopyFails(Head(todo))
          /\ at' = "reopen" /\ todo' = << >>
    /\ UNCHANGED <<listed, files, bak, moved, copied, alive, mode, opened, history>>

\* The backup is there: the client is answered 0, and takes it away.
BackupMade ==
    /\ alive /\ at = "copy" /\ todo = << >>
    /\ saved' = backup
    /\ at' = "reopen"
    /\ UNCHANGED <<listed, disk, loop, alive, mode, opened, old, refused>>

\* backupFinished().
BackupFinished ==
    /\ Idle
    /\ at' = "finish"
    /\ UNCHANGED <<listed, disk, loop, alive, mode, opened, history>>

\* The end of it, and of a daemon in backup mode.
BackupEnds ==
    /\ alive /\ at = "finish"
    /\ Erased
    /\ at' = "idle"
    /\ alive' = (mode = "normal")
    /\ UNCHANGED <<listed, disk, loop, mode, opened, history>>

-----------------------------------------------------------------------------
\* The client brings back the last backup.
BackupBrought ==
    /\ alive => at = "idle"
    /\ saved # NoFiles
    /\ backup' = saved
    /\ UNCHANGED <<listed, files, bak, loop, daemonVars, history>>

\* restoreFinished(): closes the system, and begins copyFromBackupDir().
RestoreFinished ==
    /\ Idle
    /\ mode = "normal"
    /\ opened' = FALSE
    /\ at' = "restore" /\ todo' = listed
    /\ moved' = {} /\ copied' = {}
    /\ old' = files /\ refused' = {}
    /\ UNCHANGED <<listed, disk, alive, mode, saved>>

\* The secrets cannot be unmounted: the system stays closed.
RestoreRefused ==
    /\ Idle /\ opened
    /\ Fails("unmount")
    /\ opened' = FALSE
    /\ UNCHANGED <<listed, disk, loop, alive, mode, at, history>>

RestoreInBackupMode == Idle /\ mode = "backup" /\ Killed

\* A defect: a file that is there is removed.
MoveAwayRemoving(f, m) ==
    /\ m = IF files[f] # NoFile THEN {f} ELSE {}
    /\ moved' = moved

\* A file that is there is moved away, unless another is there under that name.
MoveAway(f, m) ==
    /\ \/ files[f] # NoFile /\ bak[f] = NoFile /\ m = {f}
       \/ m = {} /\ (Fails("rename") \/ files[f] = NoFile \/ bak[f] # NoFile)
    /\ moved' = moved \cup m

\* copyFromBackupDir(), one file: moved away, and copied unless the backup has
\* none.  A file that is still there makes the copy fail.
CopyFromBackupDir ==
    /\ alive /\ at = "restore" /\ todo # << >>
    /\ LET f == Head(todo)
       IN  \E m \in SUBSET {f} :
              /\ MoveAway(f, m)
              /\ bak' = [bak EXCEPT ![f] = IF f \in moved' THEN files[f] ELSE bak[f]]
              /\ LET left == IF f \in m THEN NoFile ELSE files[f]
                 IN  \/ /\ backup[f] = NoFile
                        /\ files' = [files EXCEPT ![f] = left]
                        /\ todo' = Tail(todo)
                        /\ UNCHANGED <<at, copied>>
                     \/ /\ backup[f] # NoFile /\ left = NoFile
                        /\ files' = [files EXCEPT ![f] = backup[f]]
                        /\ copied' = copied \cup {f}
                        /\ todo' = Tail(todo)
                        /\ UNCHANGED at
                     \/ /\ backup[f] # NoFile /\ (left # NoFile \/ Fails("copy"))
                        /\ files' = [files EXCEPT ![f] = left]
                        /\ at' = "recover" /\ todo' = << >>
                        /\ UNCHANGED copied
    /\ UNCHANGED <<listed, backup, alive, mode, opened, history>>

\* All is copied.
Restored ==
    /\ alive /\ at = "restore" /\ todo = << >>
    /\ at' = "clean"
    /\ UNCHANGED <<listed, disk, loop, alive, mode, opened, history>>

\* A defect: what has been copied stays.
RemoveCopiedNone ==
    /\ alive /\ at = "recover" /\ copied # {}
    /\ copied' = {}
    /\ UNCHANGED <<listed, disk, todo, moved, alive, mode, opened, at, history>>

\* The copies are removed, one by one; whether one could be is not looked at.
RemoveCopied ==
    /\ alive /\ at = "recover" /\ copied # {}
    /\ \E f \in copied :
          /\ copied' = copied \ {f}
          /\ \/ files' = [files EXCEPT ![f] = NoFile] /\ UNCHANGED refused
             \/ Fails("remove") /\ refused' = refused \cup {f} /\ UNCHANGED files
    /\ UNCHANGED <<listed, bak, backup, todo, moved, alive, mode, opened, at, old, saved>>

\* What has been moved away is moved back, unless a file is there still.
MoveBack ==
    /\ alive /\ at = "recover" /\ copied = {} /\ moved # {}
    /\ \E f \in moved :
          /\ moved' = moved \ {f}
          /\ \/ /\ files[f] = NoFile
                /\ files' = [files EXCEPT ![f] = bak[f]]
                /\ bak' = [bak EXCEPT ![f] = NoFile]
                /\ UNCHANGED refused
             \/ /\ files[f] # NoFile \/ Fails("renameBack")
                /\ refused' = refused \cup {f}
                /\ UNCHANGED <<files, bak>>
    /\ UNCHANGED <<listed, backup, todo, copied, alive, mode, opened, at, old, saved>>

Recovered ==
    /\ alive /\ at = "recover" /\ copied = {} /\ moved = {}
    /\ at' = "reopen"
    /\ UNCHANGED <<listed, disk, loop, alive, mode, opened, history>>

\* The ".bak" files are deleted, if they can be; then the backup is.
RemoveBak ==
    /\ alive /\ at = "clean" /\ moved # {}
    /\ \E f \in moved :
          /\ moved' = moved \ {f}
          /\ \/ bak' = [bak EXCEPT ![f] = NoFile]
             \/ Fails("remove") /\ UNCHANGED bak
    /\ UNCHANGED <<listed, files, backup, todo, copied, alive, mode, opened, at, history>>

\* A defect: the files copied are not forgotten.
CleanedKeeping ==
    /\ alive /\ at = "clean" /\ moved = {}
    /\ at' = "restored"
    /\ UNCHANGED <<listed, disk, loop, alive, mode, opened, history>>

Cleaned ==
    /\ alive /\ at = "clean" /\ moved = {}
    /\ at' = "restored" /\ copied' = {}
    /\ UNCHANGED <<listed, disk, todo, moved, alive, mode, opened, history>>

RestoreErased ==
    /\ alive /\ at = "restored"
    /\ Erased
    /\ at' = "reopen"
    /\ UNCHANGED <<listed, disk, loop, alive, mode, opened, history>>

-----------------------------------------------------------------------------
\* The end of backupStarts() and restoreFinished().
Reopen ==
    /\ alive /\ at = "reopen"
    /\ at' = "idle"
    /\ OpenSystem
    /\ UNCHANGED <<listed, bak, backup, loop, alive, mode, history>>

Next ==
    \/ Start \/ Update \/ Crash \/ Reopen
    \/ BackupStarts \/ CreateStorageFileTree \/ EraseBackupDir \/ BackupErased \/ CopyToBackupDir
    \/ BackupMade \/ BackupFinished \/ BackupEnds \/ BackupBrought
    \/ RestoreFinished \/ RestoreRefused \/ RestoreInBackupMode
    \/ CopyFromBackupDir \/ Restored \/ RemoveCopied \/ MoveBack \/ Recovered
    \/ RemoveBak \/ Cleaned \/ RestoreErased

Spec == Init /\ [][Next]_vars

-----------------------------------------------------------------------------
\* A backup that is reported as made holds every file, all of the same time: no
\* change gets in between, and no copy that failed is overlooked (backupStarts()).
BackupComplete ==
    at = "copy" /\ todo = << >> => \A f \in ToSet(listed) : backup[f] # NoFile /\ backup[f] = files[f]

\* Wherever a restoration is killed, or fails, each file it has found is still
\* there, under its name or as ".bak", whatever an earlier one has left there
\* (copyFromBackupDir()).
OldFilesKept ==
    at \in {"restore", "recover"} =>
        \A f \in File : old[f] # NoFile => old[f] \in {files[f], bak[f]}

\* A restoration that fails puts back what it has found, file by file: what is in
\* the storage is what was there.  Where a file could not be removed, or moved back,
\* there is no file, or the backup's, and the one that was there is kept as ".bak"
\* (copyFromBackupDir(): no other file suffers from it).
RestoreFailsWhole ==
    at = "recover" /\ copied = {} /\ moved = {} =>
        \A f \in File : \/ files[f] = old[f]
                        \/ /\ f \in refused
                           /\ files[f] \in {NoFile, backup[f]}
                           /\ old[f] # NoFile => bak[f] = old[f]
=============================================================================
