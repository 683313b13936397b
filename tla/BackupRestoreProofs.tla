-------------------------- MODULE BackupRestoreProofs --------------------------
(* Proofs about BackupRestore: what holds of any number of changes of the    *)
(* files, whatever fails and wherever the daemon is killed.                  *)
EXTENDS BackupRestore, TLAPS

-----------------------------------------------------------------------------
(* The inductive invariant *)

Typed ==
    /\ listed \in {<<"db">>, <<"db", "secrets">>}
    /\ files \in [File -> Content] /\ bak \in [File -> Content] /\ backup \in [File -> Content]
    /\ alive \in BOOLEAN /\ mode \in {"normal", "backup"} /\ opened \in BOOLEAN
    /\ at \in Steps
    /\ todo \in Seq(File)
    /\ moved \subseteq File /\ copied \subseteq File
    /\ old \in [File -> Content] /\ saved \in [File -> Content] /\ refused \subseteq File

\* The loop's state is there at the steps of the loop only; a daemon that does
\* not run is at none.
LoopPart ==
    /\ ~alive => at = "idle"
    /\ at \notin {"copy", "restore"} => todo = << >>
    /\ at \notin {"restore", "recover", "clean"} => moved = {} /\ copied = {}

\* The files exist when the copying begins, and those that the loop is past are
\* in the backup.
BackupPart ==
    /\ at \in {"erase", "copy"} => \A f \in ToSet(listed) : files[f] # NoFile
    /\ at = "copy" => \A f \in ToSet(listed) : f \in ToSet(todo) \/ backup[f] = files[f]

\* The loop of a restoration has not touched the files it has still to go
\* through, and comes to each once.
TodoPart ==
    at = "restore" =>
        /\ \A i \in 1..Len(todo) : todo[i] \notin moved \cup copied
        /\ \A i, j \in 1..Len(todo) : i # j => todo[i] # todo[j]

\* What becomes of one file: it is as it was found, or moved away and perhaps
\* copied, or, when nothing was there, copied; and at the end perhaps not removed,
\* or not moved back.
FilePart(f) ==
    /\ f \in moved => bak[f] = old[f] /\ old[f] # NoFile
    /\ f \in copied => (f \in moved \/ old[f] = NoFile) /\ files[f] = backup[f]
    /\ f \in moved \ copied =>
          \/ files[f] = NoFile
          \/ at = "recover" /\ f \in refused /\ files[f] = backup[f]
    /\ f \notin moved \cup copied =>
          \/ files[f] = old[f]
          \/ /\ at = "recover" /\ f \in refused
             /\ files[f] \in {NoFile, backup[f]}
             /\ old[f] # NoFile => bak[f] = old[f]

RestorePart == at \in {"restore", "recover"} => \A f \in File : FilePart(f)

IInv == Typed /\ LoopPart /\ BackupPart /\ TodoPart /\ RestorePart

-----------------------------------------------------------------------------
(* The initial states, and the steps outside the loops *)

LEMMA NoFileIsContent == NoFile \in Content /\ Empty \in Content
BY BackupAssumption DEF Content, NoFile, Empty

LEMMA EmptyList == << >> \in Seq(File)
OBVIOUS

LEMMA ToSetElements == ASSUME NEW s \in Seq(File) PROVE ToSet(s) = {s[i] : i \in 1..Len(s)}
BY DEF ToSet

\* What ToSet says of a list, of its head and of the rest of it.
LEMMA ToSetParts ==
    ASSUME NEW s \in Seq(File)
    PROVE  /\ ToSet(s) \subseteq File
           /\ s = << >> => ToSet(s) = {}
           /\ s # << >> => /\ Head(s) \in File
                           /\ Tail(s) \in Seq(File)
                           /\ Head(s) = s[1]
                           /\ \A f \in ToSet(s) : f = Head(s) \/ f \in ToSet(Tail(s))
                           /\ Len(Tail(s)) = Len(s) - 1 /\ Len(s) \in Nat \ {0}
                           /\ \A i \in 1..Len(s) - 1 : Tail(s)[i] = s[i + 1]
<1>1. ToSet(s) = {s[i] : i \in 1..Len(s)}
  BY ToSetElements
<1>2. /\ ToSet(s) \subseteq File
      /\ s = << >> => ToSet(s) = {}
  BY <1>1
<1>3. ASSUME s # << >>
      PROVE  /\ Head(s) \in File /\ Tail(s) \in Seq(File) /\ Head(s) = s[1]
             /\ Len(Tail(s)) = Len(s) - 1 /\ Len(s) \in Nat \ {0}
             /\ \A i \in 1..Len(s) - 1 : Tail(s)[i] = s[i + 1]
  BY <1>3
<1>4. ASSUME s # << >>, NEW f \in ToSet(s), f # Head(s)
      PROVE  f \in ToSet(Tail(s))
  <2>1. PICK i \in 1..Len(s) : f = s[i]
    BY <1>1
  <2>2. i - 1 \in 1..Len(Tail(s)) /\ Tail(s)[i - 1] = f
    BY <1>3, <1>4, <2>1
  <2>3. ToSet(Tail(s)) = {Tail(s)[j] : j \in 1..Len(Tail(s))}
    BY <1>3, <1>4, ToSetElements
  <2>4. QED BY <2>2, <2>3
<1>5. QED BY <1>2, <1>3, <1>4

LEMMA InitHolds == Init => IInv
BY NoFileIsContent, EmptyList
   DEF Init, IInv, Typed, LoopPart, BackupPart, TodoPart, RestorePart, NoFiles, Steps

\* listed is one of two lists of files.
LEMMA ListedFiles ==
    ASSUME Typed
    PROVE  /\ listed \in Seq(File)
           /\ \A i, j \in 1..Len(listed) : i # j => listed[i] # listed[j]
<1>1. "db" \in File /\ "secrets" \in File
  BY DEF File
<1>2. CASE listed = <<"db">>
  BY <1>1, <1>2
<1>3. CASE listed = <<"db", "secrets">>
  <2>1. listed \in Seq(File) /\ Len(listed) = 2 /\ listed[1] = "db" /\ listed[2] = "secrets"
    BY <1>1, <1>3
  <2>2. QED BY <2>1
<1>4. QED BY <1>2, <1>3 DEF Typed

\* A daemon that ends, or is started.
LEMMA KilledHolds == IInv /\ Killed => IInv'
<1> SUFFICES ASSUME IInv, Killed PROVE IInv'
  OBVIOUS
<1>1. Typed'
  BY EmptyList DEF Killed, IInv, Typed, disk, history, Steps
<1>2. at' = "idle" /\ todo' = << >> /\ moved' = {} /\ copied' = {}
  BY DEF Killed
<1>3. QED BY <1>1, <1>2 DEF IInv, LoopPart, BackupPart, TodoPart, RestorePart

LEMMA FilesWithTyped ==
    ASSUME Typed, NEW made
    PROVE  /\ FilesWith(made) \in [File -> Content]
           /\ \A f \in made \cap File : FilesWith(made)[f] # NoFile
BY NoFileIsContent DEF Typed, FilesWith, Empty, NoFile

LEMMA OpenSystemTyped ==
    ASSUME Typed, OpenSystem
    PROVE  files' \in [File -> Content] /\ opened' \in BOOLEAN
BY FilesWithTyped DEF Typed, OpenSystem

LEMMA StartHolds == IInv /\ Start => IInv'
BY OpenSystemTyped
   DEF Start, IInv, Typed, LoopPart, BackupPart, TodoPart, RestorePart, loop, history, Steps

LEMMA ReopenHolds == IInv /\ Reopen => IInv'
BY OpenSystemTyped
   DEF Reopen, IInv, Typed, LoopPart, BackupPart, TodoPart, RestorePart, loop, history, Steps

LEMMA UpdateHolds == IInv /\ Update => IInv'
<1> SUFFICES ASSUME IInv, Update PROVE IInv'
  OBVIOUS
<1>1. files' \in [File -> Content]
  BY DEF Update, IInv, Typed
<1>2. QED
  BY <1>1 DEF Update, Idle, IInv, Typed, LoopPart, BackupPart, TodoPart, RestorePart, loop,
              daemonVars, history

-----------------------------------------------------------------------------
(* The backup *)

LEMMA BackupStartsHolds == IInv /\ BackupStarts => IInv'
<1> SUFFICES ASSUME IInv, BackupStarts PROVE IInv'
  OBVIOUS
<1>1. CASE mode = "backup"
  BY <1>1, KilledHolds DEF BackupStarts
<1>2. CASE mode # "backup"
  BY <1>2 DEF BackupStarts, Idle, IInv, Typed, LoopPart, BackupPart, TodoPart, RestorePart,
              disk, loop, history, Steps
<1>3. QED BY <1>1, <1>2

\* Without a failure every file that is listed is there afterwards.
LEMMA CreateStorageFileTreeHolds == IInv /\ CreateStorageFileTree => IInv'
<1> SUFFICES ASSUME IInv, CreateStorageFileTree PROVE IInv'
  OBVIOUS
<1> USE DEF IInv
<1>1. /\ files' \in [File -> Content]
      /\ at' = "erase" => \A f \in ToSet(listed) : files'[f] # NoFile
      /\ at' \in {"erase", "idle"}
  <2>1. CASE files' = FilesWith(ToSet(listed)) /\ at' = "erase"
    <3>1. ToSet(listed) \subseteq File
      BY ListedFiles, ToSetParts
    <3>2. QED BY <2>1, <3>1, FilesWithTyped
  <2>2. CASE (\E made : files' = FilesWith(made)) /\ at' = "idle"
    BY <2>2, FilesWithTyped
  <2>3. QED BY <2>1, <2>2 DEF CreateStorageFileTree
<1>2. QED
  BY <1>1 DEF CreateStorageFileTree, Typed, LoopPart, BackupPart, TodoPart, RestorePart,
              loop, history, Steps

LEMMA EraseBackupDirHolds == IInv /\ EraseBackupDir => IInv'
<1> SUFFICES ASSUME IInv, EraseBackupDir PROVE IInv'
  OBVIOUS
<1>1. Typed'
  BY NoFileIsContent DEF EraseBackupDir, IInv, Typed, loop, daemonVars, history
<1>2. QED
  BY <1>1 DEF EraseBackupDir, IInv, LoopPart, BackupPart, TodoPart, RestorePart, loop,
              daemonVars, history

LEMMA BackupErasedHolds == IInv /\ BackupErased => IInv'
BY ListedFiles
   DEF BackupErased, IInv, Typed, LoopPart, BackupPart, TodoPart, RestorePart, disk, history,
       Steps

\* The loop copies its first file, or ends the backup.
LEMMA CopyToBackupDirHolds == IInv /\ CopyToBackupDir => IInv'
<1> SUFFICES ASSUME IInv, CopyToBackupDir PROVE IInv'
  OBVIOUS
<1> USE DEF IInv
<1>1. /\ todo \in Seq(File) /\ todo # << >> /\ at = "copy" /\ alive
      /\ moved = {} /\ copied = {}
  BY DEF CopyToBackupDir, Typed, LoopPart
<1>2. CASE /\ backup' = [backup EXCEPT ![Head(todo)] = files[Head(todo)]]
           /\ todo' = Tail(todo)
           /\ UNCHANGED at
  <2>1. Typed'
    BY <1>1, <1>2, ToSetParts DEF CopyToBackupDir, Typed, history
  <2>2. ASSUME NEW f \in ToSet(listed)
        PROVE  f \in ToSet(todo)' \/ backup'[f] = files'[f]
    <3>1. f \in File
      BY ListedFiles, ToSetParts
    <3>2. f \in ToSet(todo) \/ backup[f] = files[f]
      BY <1>1 DEF BackupPart
    <3>3. f = Head(todo) \/ f \in ToSet(Tail(todo)) \/ backup[f] = files[f]
      BY <1>1, <3>2, ToSetParts
    <3>4. Head(todo) \in File
      BY <1>1, ToSetParts
    <3>5. QED BY <1>2, <3>1, <3>3, <3>4 DEF CopyToBackupDir, Typed
  <2>3. BackupPart'
    BY <1>1, <1>2, <2>2 DEF BackupPart, CopyToBackupDir
  <2>4. QED
    BY <1>1, <1>2, <2>1, <2>3 DEF CopyToBackupDir, LoopPart, TodoPart, RestorePart
<1>3. CASE CopyFails(Head(todo)) /\ at' = "reopen" /\ todo' = << >>
  <2>1. backup' \in [File -> Content]
    BY <1>3, NoFileIsContent DEF CopyFails, Typed
  <2>2. QED
    BY <1>1, <1>3, <2>1 DEF CopyToBackupDir, Typed, LoopPart, BackupPart, TodoPart,
                            RestorePart, history, Steps
<1>4. QED BY <1>2, <1>3 DEF CopyToBackupDir

LEMMA BackupMadeHolds == IInv /\ BackupMade => IInv'
BY DEF BackupMade, IInv, Typed, LoopPart, BackupPart, TodoPart, RestorePart, disk, loop, Steps

LEMMA BackupFinishedHolds == IInv /\ BackupFinished => IInv'
BY DEF BackupFinished, Idle, IInv, Typed, LoopPart, BackupPart, TodoPart, RestorePart, disk,
       loop, history, Steps

LEMMA BackupEndsHolds == IInv /\ BackupEnds => IInv'
BY DEF BackupEnds, IInv, Typed, LoopPart, BackupPart, TodoPart, RestorePart, disk, loop,
       history, Steps

-----------------------------------------------------------------------------
(* The restoration *)

LEMMA BackupBroughtHolds == IInv /\ BackupBrought => IInv'
BY DEF BackupBrought, IInv, Typed, LoopPart, BackupPart, TodoPart, RestorePart, loop,
       daemonVars, history

LEMMA RestoreFinishedHolds == IInv /\ RestoreFinished => IInv'
<1> SUFFICES ASSUME IInv, RestoreFinished PROVE IInv'
  OBVIOUS
<1>1. /\ at' = "restore" /\ todo' = listed /\ moved' = {} /\ copied' = {} /\ old' = files
      /\ refused' = {}
      /\ UNCHANGED <<listed, files, bak, backup, alive, mode, saved>> /\ alive
      /\ opened' \in BOOLEAN
  BY DEF RestoreFinished, Idle, disk
<1>2. Typed'
  BY <1>1, ListedFiles DEF IInv, Typed, Steps
<1>3. LoopPart' /\ BackupPart' /\ RestorePart'
  BY <1>1 DEF LoopPart, BackupPart, RestorePart, FilePart
<1>4. TodoPart'
  BY <1>1, ListedFiles DEF IInv, TodoPart
<1>5. QED BY <1>2, <1>3, <1>4 DEF IInv

LEMMA RestoreRefusedHolds == IInv /\ RestoreRefused => IInv'
BY DEF RestoreRefused, Idle, IInv, Typed, LoopPart, BackupPart, TodoPart, RestorePart, disk,
       loop, history

\* The loop takes its first file: it is moved away or not, and copied, passed over,
\* or the end of the loop.
LEMMA CopyFromBackupDirHolds == IInv /\ CopyFromBackupDir => IInv'
<1> SUFFICES ASSUME IInv, CopyFromBackupDir PROVE IInv'
  OBVIOUS
<1> USE DEF IInv
<1> DEFINE f == Head(todo)
<1>1. /\ todo \in Seq(File) /\ todo # << >> /\ at = "restore" /\ alive
  BY DEF CopyFromBackupDir, Typed
<1>2. f \in File /\ Tail(todo) \in Seq(File) /\ f \notin moved \cup copied
  BY <1>1, ToSetParts DEF TodoPart
<1>3. files[f] = old[f]
  BY <1>1, <1>2 DEF RestorePart, FilePart
<1> DEFINE Left(m) == IF f \in m THEN NoFile ELSE files[f]
           Passed(m) == /\ backup[f] = NoFile
                        /\ files' = [files EXCEPT ![f] = Left(m)]
                        /\ todo' = Tail(todo)
                        /\ UNCHANGED <<at, copied>>
           Copied(m) == /\ backup[f] # NoFile /\ Left(m) = NoFile
                        /\ files' = [files EXCEPT ![f] = backup[f]]
                        /\ copied' = copied \cup {f}
                        /\ todo' = Tail(todo)
                        /\ UNCHANGED at
           Over(m) == /\ files' = [files EXCEPT ![f] = Left(m)]
                      /\ at' = "recover" /\ todo' = << >>
                      /\ UNCHANGED copied
<1>4. PICK m \in SUBSET {f} :
          /\ MoveAway(f, m)
          /\ bak' = [bak EXCEPT ![f] = IF f \in moved' THEN files[f] ELSE bak[f]]
          /\ Passed(m) \/ Copied(m) \/ Over(m)
  BY DEF CopyFromBackupDir
<1>5. /\ moved' = moved \cup m
      /\ f \in m => files[f] # NoFile
      /\ UNCHANGED <<listed, backup, alive, mode, opened, old, refused, saved>>
  BY <1>4 DEF MoveAway, CopyFromBackupDir, history
<1>6. /\ bak' \in [File -> Content] /\ bak'[f] = IF f \in m THEN old[f] ELSE bak[f]
      /\ \A g \in File \ {f} : bak'[g] = bak[g]
  BY <1>2, <1>3, <1>4, <1>5 DEF Typed
<1>7. /\ files' \in [File -> Content]
      /\ \A g \in File \ {f} : files'[g] = files[g]
      /\ Passed(m) \/ Over(m) => files'[f] = Left(m)
      /\ Copied(m) => files'[f] = backup[f]
  <2>1. backup[f] \in Content /\ Left(m) \in Content
    BY <1>2, NoFileIsContent DEF Typed
  <2>2. PICK v \in Content : /\ files' = [files EXCEPT ![f] = v]
                             /\ Passed(m) \/ Over(m) => v = Left(m)
                             /\ Copied(m) => v = backup[f]
    <3>1. CASE Passed(m) \/ Over(m)
      BY <1>2, <2>1, <3>1 DEF Typed
    <3>2. CASE ~(Passed(m) \/ Over(m))
      BY <1>4, <2>1, <3>2
    <3>3. QED BY <3>1, <3>2
  <2>3. QED BY <1>2, <2>2 DEF Typed
<1>8. Typed'
  <2>1. at' \in Steps /\ todo' \in Seq(File) /\ copied' \subseteq File
    BY <1>1, <1>2, <1>4, EmptyList DEF Typed, Steps
  <2>2. moved' \subseteq File
    BY <1>2, <1>5 DEF Typed
  <2>3. QED BY <1>5, <1>6, <1>7, <2>1, <2>2 DEF Typed
<1>9. LoopPart' /\ BackupPart'
  BY <1>1, <1>4, <1>5 DEF LoopPart, BackupPart
<1>10. TodoPart'
  <2>1. CASE Over(m)
    BY <2>1 DEF TodoPart
  <2>2. CASE Passed(m) \/ Copied(m)
    <3>1. todo' = Tail(todo) /\ at' = "restore" /\ copied' \subseteq copied \cup {f}
      BY <1>1, <2>2
    <3>2. ASSUME NEW i \in 1..Len(Tail(todo))
          PROVE  Tail(todo)[i] = todo[i + 1] /\ i + 1 \in 1..Len(todo) /\ todo[i + 1] # f
      BY <1>1, ToSetParts DEF TodoPart
    <3>3. ASSUME NEW i \in 1..Len(Tail(todo)) PROVE Tail(todo)[i] \notin moved' \cup copied'
      BY <1>1, <1>4, <1>5, <3>1, <3>2 DEF TodoPart
    <3>4. ASSUME NEW i \in 1..Len(Tail(todo)), NEW j \in 1..Len(Tail(todo)), i # j
          PROVE  Tail(todo)[i] # Tail(todo)[j]
      BY <1>1, <3>2, <3>4 DEF TodoPart
    <3>5. QED BY <3>1, <3>3, <3>4 DEF TodoPart
  <2>3. QED BY <1>4, <2>1, <2>2
<1>11. ASSUME NEW g \in File PROVE FilePart(g)'
  <2>1. FilePart(g)
    BY <1>1 DEF RestorePart
  <2>2. CASE g # f
    BY <1>1, <1>4, <1>5, <1>6, <1>7, <2>1, <2>2 DEF FilePart
  <2>3. CASE g = f
    <3>1. f \notin moved /\ f \notin copied /\ (f \in moved' <=> f \in m)
      BY <1>2, <1>5
    <3>2. CASE Copied(m)
      BY <1>3, <1>5, <1>6, <1>7, <2>3, <3>1, <3>2 DEF FilePart
    <3>3. CASE Passed(m) \/ Over(m)
      BY <1>3, <1>5, <1>6, <1>7, <2>3, <3>1, <3>3 DEF FilePart
    <3>4. QED BY <1>4, <3>2, <3>3
  <2>4. QED BY <2>2, <2>3
<1>12. QED BY <1>8, <1>9, <1>10, <1>11 DEF RestorePart

LEMMA RestoredHolds == IInv /\ Restored => IInv'
BY DEF Restored, IInv, Typed, LoopPart, BackupPart, TodoPart, RestorePart, disk, loop,
       history, Steps

\* A copy is gone again, or refused.
LEMMA RemoveCopiedHolds == IInv /\ RemoveCopied => IInv'
<1> SUFFICES ASSUME IInv, RemoveCopied PROVE IInv'
  OBVIOUS
<1> USE DEF IInv
<1>1. PICK f \in copied :
          /\ copied' = copied \ {f}
          /\ \/ files' = [files EXCEPT ![f] = NoFile] /\ UNCHANGED refused
             \/ Fails("remove") /\ refused' = refused \cup {f} /\ UNCHANGED files
  BY DEF RemoveCopied
<1>2. /\ at = "recover"
      /\ UNCHANGED <<listed, bak, backup, todo, moved, alive, mode, opened, at, old, saved>>
  BY DEF RemoveCopied
<1>3. Typed' /\ LoopPart' /\ BackupPart' /\ TodoPart'
  BY <1>1, <1>2, NoFileIsContent DEF Typed, LoopPart, BackupPart, TodoPart
<1>4. ASSUME NEW g \in File PROVE FilePart(g)'
  <2>1. FilePart(g) /\ f \in File
    BY <1>1, <1>2 DEF RestorePart, Typed
  <2>2. CASE g = f
    BY <1>1, <1>2, <2>1, <2>2 DEF FilePart, Typed
  <2>3. CASE g # f
    <3>1. files'[g] = files[g] /\ (g \in refused => g \in refused')
      BY <1>1, <2>3 DEF Typed
    <3>2. QED BY <1>1, <1>2, <2>1, <2>3, <3>1 DEF FilePart
  <2>4. QED BY <2>2, <2>3
<1>5. QED BY <1>3, <1>4 DEF RestorePart

\* A file is back, or refused, and its ".bak" is left.
LEMMA MoveBackHolds == IInv /\ MoveBack => IInv'
<1> SUFFICES ASSUME IInv, MoveBack PROVE IInv'
  OBVIOUS
<1> USE DEF IInv
<1>1. PICK f \in moved :
          /\ moved' = moved \ {f}
          /\ \/ /\ files[f] = NoFile
                /\ files' = [files EXCEPT ![f] = bak[f]]
                /\ bak' = [bak EXCEPT ![f] = NoFile]
                /\ UNCHANGED refused
             \/ refused' = refused \cup {f} /\ UNCHANGED <<files, bak>>
  BY DEF MoveBack
<1>2. /\ at = "recover" /\ copied = {}
      /\ UNCHANGED <<listed, backup, todo, copied, alive, mode, opened, at, old, saved>>
  BY DEF MoveBack
<1>3. Typed'
  BY <1>1, <1>2, NoFileIsContent DEF Typed
<1>4. LoopPart' /\ BackupPart' /\ TodoPart'
  BY <1>1, <1>2 DEF LoopPart, BackupPart, TodoPart
<1>5. ASSUME NEW g \in File PROVE FilePart(g)'
  <2>1. FilePart(g) /\ FilePart(f)
    BY <1>1, <1>2 DEF RestorePart, Typed
  <2>2. CASE g = f
    BY <1>1, <1>2, <2>1, <2>2 DEF FilePart, Typed
  <2>3. CASE g # f
    <3>1. /\ files'[g] = files[g] /\ bak'[g] = bak[g]
          /\ g \in refused => g \in refused'
      BY <1>1, <2>3 DEF Typed
    <3>2. QED BY <1>1, <1>2, <2>1, <2>3, <3>1 DEF FilePart
  <2>4. QED BY <2>2, <2>3
<1>6. QED BY <1>3, <1>4, <1>5 DEF RestorePart

LEMMA RecoveredHolds == IInv /\ Recovered => IInv'
BY DEF Recovered, IInv, Typed, LoopPart, BackupPart, TodoPart, RestorePart, disk, loop,
       history, Steps

LEMMA RemoveBakHolds == IInv /\ RemoveBak => IInv'
<1> SUFFICES ASSUME IInv, RemoveBak PROVE IInv'
  OBVIOUS
<1>1. bak' \in [File -> Content] /\ moved' \subseteq moved
  BY NoFileIsContent DEF RemoveBak, IInv, Typed
<1>2. QED
  BY <1>1 DEF RemoveBak, IInv, Typed, LoopPart, BackupPart, TodoPart, RestorePart, history

LEMMA CleanedHolds == IInv /\ Cleaned => IInv'
BY DEF Cleaned, IInv, Typed, LoopPart, BackupPart, TodoPart, RestorePart, disk, history, Steps

LEMMA RestoreErasedHolds == IInv /\ RestoreErased => IInv'
BY DEF RestoreErased, IInv, Typed, LoopPart, BackupPart, TodoPart, RestorePart, disk, loop,
       history, Steps

-----------------------------------------------------------------------------
LEMMA NextHolds == IInv /\ [Next]_vars => IInv'
<1>1. IInv /\ UNCHANGED vars => IInv'
  BY DEF vars, disk, loop, daemonVars, history, IInv, Typed, LoopPart, BackupPart, TodoPart,
         RestorePart, FilePart
<1>2. IInv /\ (Crash \/ RestoreInBackupMode) => IInv'
  BY KilledHolds DEF Crash, RestoreInBackupMode
<1>3. QED
  BY <1>1, <1>2, StartHolds, ReopenHolds, UpdateHolds, BackupStartsHolds,
     CreateStorageFileTreeHolds, EraseBackupDirHolds, BackupErasedHolds, CopyToBackupDirHolds,
     BackupMadeHolds, BackupFinishedHolds, BackupEndsHolds, BackupBroughtHolds,
     RestoreFinishedHolds, RestoreRefusedHolds, CopyFromBackupDirHolds, RestoredHolds,
     RemoveCopiedHolds, MoveBackHolds, RecoveredHolds, RemoveBakHolds, CleanedHolds,
     RestoreErasedHolds
  DEF Next

LEMMA AlwaysIInv == Spec => []IInv
BY InitHolds, NextHolds, PTL DEF Spec

-----------------------------------------------------------------------------
(* The theorems *)

\* The files, the loop and the daemon have their types throughout, and a daemon
\* between two calls has nothing of a loop left.
THEOREM BackupTypeCorrect == Spec => []TypeOK
<1>1. IInv => TypeOK
  BY DEF IInv, Typed, LoopPart, TypeOK
<1>2. QED BY <1>1, AlwaysIInv, PTL

\* backupStarts() reports no backup that lacks a file, or has one of another
\* time, whatever files are listed and whichever copy fails.
THEOREM BackupCompleteHolds == Spec => []BackupComplete
<1>1. IInv => BackupComplete
  <2> SUFFICES ASSUME IInv, at = "copy", todo = << >>, NEW f \in ToSet(listed)
               PROVE  backup[f] # NoFile /\ backup[f] = files[f]
    BY DEF BackupComplete
  <2>1. ToSet(todo) = {}
    BY ToSetParts DEF IInv, Typed
  <2>2. QED BY <2>1 DEF IInv, BackupPart
<1>2. QED BY <1>1, AlwaysIInv, PTL

\* copyFromBackupDir() loses no file that it finds, over any history of updates,
\* failures, kills and earlier restorations.
THEOREM OldFilesKeptHolds == Spec => []OldFilesKept
<1>1. IInv => OldFilesKept
  BY DEF IInv, RestorePart, FilePart, OldFilesKept
<1>2. QED BY <1>1, AlwaysIInv, PTL

\* A restoration that fails undoes itself, file by file; one that cannot be removed
\* or moved back keeps its ".bak", and costs no other file anything.
THEOREM RestoreFailsWholeHolds == Spec => []RestoreFailsWhole
<1>1. IInv => RestoreFailsWhole
  BY DEF IInv, RestorePart, FilePart, RestoreFailsWhole
<1>2. QED BY <1>1, AlwaysIInv, PTL
=============================================================================
