--------------------------- MODULE FileStoreProofs ---------------------------
(***************************************************************************)
(* What holds of the files of a user for every number of sessions, files   *)
(* and payloads, and whatever faults can happen: first the locks, the      *)
(* files and the rows (IInv; each lemma <Action>Keeps says that the action *)
(* keeps it), then, with some facts about sums, the quota (QuotaFits).     *)
(***************************************************************************)
EXTENDS FileStore, FiniteSetTheorems, WellFoundedInduction, TLAPS

\* The part of TypeOK the proofs need.
Typed ==
  /\ disk \in [Files -> Contents]
  /\ row \in [Files -> Nat \cup {NoRow}]
  /\ stage \in [Clients -> Stages]
  /\ task \in [Clients -> Ops \cup {NoOp}]
  /\ suspect \subseteq Files
  /\ held \subseteq Clients \X Files

\* A stage belongs to one type of command.
StagesFit ==
  \A c \in Clients :
    /\ stage[c] = "idle" <=> task[c] = NoOp
    /\ stage[c] \in {"opened", "written", "remove"} => task[c].type = "upload"
    /\ stage[c] = "removed" => task[c].type = "delete"

\* Who owns which lock, and that nobody shares one.
LocksFit ==
  /\ \A c \in Clients :
       /\ stage[c] \in {"locked", "opened", "written", "removed"} => Owns(c)
       /\ stage[c] \in {"idle", "queued", "remove"} => ~ Owns(c)
  /\ \A c \in Clients, f \in Files : <<c, f>> \in held => task[c].file = f
  /\ \A c, d \in Clients, f \in Files :
       <<c, f>> \in held /\ <<d, f>> \in held => c = d

\* What a worker has done to its file so far, unless a fault has hit it.
WorkFits ==
  \A c \in Clients :
    /\ stage[c] = "opened" /\ task[c].file \notin suspect
         => disk[task[c].file] = Cut(task[c].payload)
    /\ stage[c] = "written" /\ task[c].file \notin suspect
         => disk[task[c].file] = Whole(task[c].payload)
    /\ stage[c] = "removed" => disk[task[c].file] = Absent

\* A worker is between the first and the last change it makes for f.
Between(c, f) == stage[c] \in {"opened", "written", "removed"} /\ task[c].file = f

Matches(f) ==
  \/ disk[f] = Absent /\ row[f] = NoRow
  \/ \E p \in Payloads : disk[f] = Whole(p) /\ row[f] = Size[p]

RowsFit ==
  \A f \in Files \ suspect : (\A c \in Clients : ~ Between(c, f)) => Matches(f)

\* The inductive invariant.
IInv == Typed /\ StagesFit /\ LocksFit /\ WorkFits /\ RowsFit

-----------------------------------------------------------------------------
(* Facts about contents and commands *)

\* The contents of a file are told apart by their state and payload.
LEMMA ContentsDiffer ==
  ASSUME NEW p, NEW q
  PROVE  /\ Absent # Cut(p) /\ Absent # Whole(p) /\ Cut(p) # Whole(q)
         /\ Whole(p) = Whole(q) => p = q
  BY DEF Absent, Cut, Whole

\* What can be uploaded is contents.
LEMMA ContentsClosed ==
  /\ Absent \in Contents
  /\ \A p \in Payloads : Cut(p) \in Contents /\ Whole(p) \in Contents
  BY DEF Contents

\* A command names a file, and an upload has a payload.
LEMMA CommandFields ==
  ASSUME NEW t \in Ops \cup {NoOp}, t # NoOp
  PROVE  /\ t.file \in Files /\ t.type \in {"upload", "download", "delete"}
         /\ t.type = "upload" => t.payload \in Payloads
  BY DEF Ops, NoOp

\* NoOp is no command.
LEMMA NoOpFields ==
  NoOp.type = "none" /\ NoOp.file = NoFile /\ NoFile \notin Files
  BY NamesAssumption DEF NoOp

\* The commands of Admit and Request.
LEMMA CommandsBuilt ==
  ASSUME NEW f \in Files
  PROVE  /\ \A p \in Payloads : [type |-> "upload", file |-> f, payload |-> p] \in Ops
         /\ \A t \in {"download", "delete"} :
              [type |-> t, file |-> f, payload |-> NoPayload] \in Ops
         /\ \A t, p : [type |-> t, file |-> f, payload |-> p] # NoOp
  BY NamesAssumption DEF Ops, NoOp

\* A client that is not idle works on a file, and an upload on a payload.
LEMMA TaskFields ==
  ASSUME Typed, StagesFit, NEW c \in Clients, stage[c] # "idle"
  PROVE  /\ task[c].file \in Files
         /\ task[c].type = "upload" => task[c].payload \in Payloads
<1>1. task[c] \in Ops \cup {NoOp} /\ task[c] # NoOp
  BY DEF Typed, StagesFit
<1> QED
  BY <1>1, CommandFields

-----------------------------------------------------------------------------
(* The inductive invariant *)

\* No file, no row, no task.
LEMMA InitInv == Init => IInv
<1> SUFFICES ASSUME Init PROVE IInv
  OBVIOUS
<1> QED
  BY ContentsClosed, NoOpFields DEF Init, IInv, Typed, StagesFit, LocksFit, WorkFits, RowsFit,
     Matches, Between, Stages, Owns

\* An upload that has passed the quota check waits for a worker: nothing on disk
\* or in the database has changed.
LEMMA AdmitKeeps ==
  ASSUME IInv, NEW c \in Clients, NEW f \in Files, NEW p \in Payloads, Admit(c, f, p)
  PROVE  IInv'
<1> USE DEF IInv
<1>2. Typed'
  BY CommandsBuilt DEF Admit, Go, Typed, StagesFit, Stages
<1>3. StagesFit'
  BY CommandsBuilt, NoOpFields DEF Admit, Go, Typed, StagesFit
<1>4. LocksFit'
  BY CommandsBuilt, NoOpFields DEF Admit, Go, Owns, Typed, StagesFit, LocksFit
<1>5. WorkFits'
  BY CommandsBuilt, ContentsDiffer, NoOpFields DEF Admit, Go, Owns, Typed, StagesFit, LocksFit, WorkFits
<1>6. RowsFit'
  BY CommandsBuilt, ContentsDiffer, NoOpFields DEF Admit, Go, Owns, Typed, StagesFit, LocksFit, WorkFits, RowsFit, Matches, Between
<1> QED
  BY <1>2, <1>3, <1>4, <1>5, <1>6

\* A queued DOWNLOAD or DELETE holds nothing yet.
LEMMA RequestKeeps ==
  ASSUME IInv, NEW c \in Clients, NEW t \in {"download", "delete"}, NEW f \in Files, Request(c, t, f)
  PROVE  IInv'
<1> USE DEF IInv
<1>2. Typed'
  BY CommandsBuilt DEF Request, Go, Typed, StagesFit, Stages
<1>3. StagesFit'
  BY CommandsBuilt, NoOpFields DEF Request, Go, Typed, StagesFit
<1>4. LocksFit'
  BY CommandsBuilt, NoOpFields DEF Request, Go, Owns, Typed, StagesFit, LocksFit
<1>5. WorkFits'
  BY CommandsBuilt, ContentsDiffer, NoOpFields DEF Request, Go, Owns, Typed, StagesFit, LocksFit, WorkFits
<1>6. RowsFit'
  BY CommandsBuilt, ContentsDiffer, NoOpFields DEF Request, Go, Owns, Typed, StagesFit, LocksFit, WorkFits, RowsFit, Matches, Between
<1> QED
  BY <1>2, <1>3, <1>4, <1>5, <1>6

\* file_lock_acquire: nobody else is inside the file, so nobody shares the lock.
LEMMA AcquireKeeps ==
  ASSUME IInv, NEW c \in Clients, Acquire(c)
  PROVE  IInv'
<1> USE DEF IInv
<1>1. /\ task[c].file \in Files
      /\ task[c].type = "upload" => task[c].payload \in Payloads
  BY TaskFields DEF Acquire, Go
<1>2. Typed'
  BY <1>1 DEF Acquire, Go, Locks!Acquire, Typed, StagesFit, Stages
<1>3. StagesFit'
  BY <1>1, NoOpFields DEF Acquire, Go, Locks!Acquire, Typed, StagesFit
<1>4. LocksFit'
  BY <1>1, NoOpFields DEF Acquire, Go, Locks!Acquire, Owns, Typed, StagesFit, LocksFit
<1>5. WorkFits'
  BY <1>1, ContentsDiffer, NoOpFields DEF Acquire, Go, Locks!Acquire, Owns, Typed, StagesFit, LocksFit, WorkFits
<1>6. RowsFit'
  BY <1>1, ContentsDiffer, NoOpFields DEF Acquire, Go, Locks!Acquire, Owns, Typed, StagesFit, LocksFit, WorkFits, RowsFit, Matches, Between
<1> QED
  BY <1>2, <1>3, <1>4, <1>5, <1>6

\* An error path taken before the file is touched leaves file and row as they are.
LEMMA RefuseKeeps ==
  ASSUME IInv, NEW c \in Clients, Refuse(c)
  PROVE  IInv'
<1> USE DEF IInv
<1>1. /\ task[c].file \in Files
      /\ task[c].type = "upload" => task[c].payload \in Payloads
  BY TaskFields DEF Refuse, Go
<1>2. Typed'
  BY <1>1 DEF Refuse, Go, Typed, StagesFit, Stages
<1>3. StagesFit'
  BY <1>1, NoOpFields DEF Refuse, Go, Typed, StagesFit
<1>4. LocksFit'
  BY <1>1, NoOpFields DEF Refuse, Go, Owns, Typed, StagesFit, LocksFit
<1>5. WorkFits'
  BY <1>1, ContentsDiffer, NoOpFields DEF Refuse, Go, Owns, Typed, StagesFit, LocksFit, WorkFits
<1>6. RowsFit'
  BY <1>1, ContentsDiffer, NoOpFields DEF Refuse, Go, Owns, Typed, StagesFit, LocksFit, WorkFits, RowsFit, Matches, Between
<1> QED
  BY <1>2, <1>3, <1>4, <1>5, <1>6

\* fopen cuts the file; from here on file and row may differ until AddRow.
LEMMA OpenKeeps ==
  ASSUME IInv, NEW c \in Clients, Open(c)
  PROVE  IInv'
<1> USE DEF IInv
<1>1. /\ task[c].file \in Files
      /\ task[c].type = "upload" => task[c].payload \in Payloads
  BY TaskFields DEF Open, Go
<1>2. Typed'
  BY <1>1, ContentsClosed DEF Open, Go, Store, Typed, StagesFit, Stages
<1>3. StagesFit'
  BY <1>1, NoOpFields DEF Open, Go, Store, Typed, StagesFit
<1>4. LocksFit'
  BY <1>1, NoOpFields DEF Open, Go, Store, Owns, Typed, StagesFit, LocksFit
<1>5. WorkFits'
  BY <1>1, ContentsDiffer, NoOpFields DEF Open, Go, Store, Owns, Typed, StagesFit, LocksFit, WorkFits
<1>6. RowsFit'
  BY <1>1, ContentsDiffer, NoOpFields DEF Open, Go, Store, Owns, Typed, StagesFit, LocksFit, WorkFits, RowsFit, Matches, Between
<1> QED
  BY <1>2, <1>3, <1>4, <1>5, <1>6

\* fwrite and fclose complete the file of c; the lock keeps it different from the
\* file of any other worker that has one open.
LEMMA WriteKeeps ==
  ASSUME IInv, NEW c \in Clients, Write(c)
  PROVE  IInv'
<1> USE DEF IInv
<1>1. /\ task[c].file \in Files
      /\ task[c].type = "upload" => task[c].payload \in Payloads
  BY TaskFields DEF Write, Go
<1>2. Typed'
  BY <1>1, ContentsClosed DEF Write, Go, Store, Linked, Typed, StagesFit, Stages
<1>3. StagesFit'
  BY <1>1, NoOpFields DEF Write, Go, Store, Linked, Typed, StagesFit
<1>4. LocksFit'
  BY <1>1, NoOpFields DEF Write, Go, Store, Linked, Owns, Typed, StagesFit, LocksFit
<1>5. WorkFits'
  <2>1. \A d \in Clients : d # c /\ stage[d] \in {"opened", "written", "removed"}
                            => task[d].file # task[c].file
    BY <1>1 DEF Write, Go, Owns, LocksFit
  <2>2. task[c].file \notin suspect => disk'[task[c].file] = Whole(task[c].payload)
    BY <1>1, ContentsDiffer DEF Write, Go, Store, Linked, Typed, StagesFit, WorkFits
  <2>3. \A f \in Files : f # task[c].file => disk'[f] = disk[f]
    BY DEF Write, Store, Typed
  <2>4. /\ stage'[c] = "written" /\ task' = task /\ suspect' = suspect
        /\ \A d \in Clients : d # c => stage'[d] = stage[d]
    BY DEF Write, Go, Typed
  <2>5. \A d \in Clients : stage[d] # "idle" => task[d].file \in Files
    BY TaskFields
  <2> SUFFICES ASSUME NEW d \in Clients
               PROVE  /\ stage'[d] = "opened" /\ task[d].file \notin suspect
                           => disk'[task[d].file] = Cut(task[d].payload)
                      /\ stage'[d] = "written" /\ task[d].file \notin suspect
                           => disk'[task[d].file] = Whole(task[d].payload)
                      /\ stage'[d] = "removed" => disk'[task[d].file] = Absent
    BY <2>4 DEF WorkFits
  <2>6. CASE d = c
    BY <2>2, <2>4, <2>6
  <2>7. CASE d # c
    BY <2>1, <2>3, <2>4, <2>5, <2>7 DEF WorkFits
  <2> QED
    BY <2>6, <2>7
<1>6. RowsFit'
  BY <1>1, ContentsDiffer, NoOpFields DEF Write, Go, Store, Linked, Owns, Typed, StagesFit, LocksFit, WorkFits, RowsFit, Matches, Between
<1> QED
  BY <1>2, <1>3, <1>4, <1>5, <1>6

\* A failed fclose leaves a file the rows do not describe, and it is suspect.
LEMMA FlushFailsKeeps ==
  ASSUME IInv, NEW c \in Clients, FlushFails(c)
  PROVE  IInv'
<1> USE DEF IInv
<1>1. /\ task[c].file \in Files
      /\ task[c].type = "upload" => task[c].payload \in Payloads
  BY TaskFields DEF FlushFails, Go
<1>2. Typed'
  BY <1>1 DEF FlushFails, Go, Typed, StagesFit, Stages
<1>3. StagesFit'
  BY <1>1, NoOpFields DEF FlushFails, Go, Typed, StagesFit
<1>4. LocksFit'
  BY <1>1, NoOpFields DEF FlushFails, Go, Owns, Typed, StagesFit, LocksFit
<1>5. WorkFits'
  BY <1>1, ContentsDiffer, NoOpFields DEF FlushFails, Go, Owns, Typed, StagesFit, LocksFit, WorkFits
<1>6. RowsFit'
  BY <1>1, ContentsDiffer, NoOpFields DEF FlushFails, Go, Owns, Typed, StagesFit, LocksFit, WorkFits, RowsFit, Matches, Between
<1> QED
  BY <1>2, <1>3, <1>4, <1>5, <1>6

\* A failed fwrite gives the lock back with the file still there, and suspect.
LEMMA WriteFailsKeeps ==
  ASSUME IInv, NEW c \in Clients, WriteFails(c)
  PROVE  IInv'
<1> USE DEF IInv
<1>1. /\ task[c].file \in Files
      /\ task[c].type = "upload" => task[c].payload \in Payloads
  BY TaskFields DEF WriteFails, Go
<1>2. Typed'
  BY <1>1 DEF WriteFails, Go, Locks!Release, Typed, StagesFit, Stages
<1>3. StagesFit'
  BY <1>1, NoOpFields DEF WriteFails, Go, Locks!Release, Typed, StagesFit
<1>4. LocksFit'
  BY <1>1, NoOpFields DEF WriteFails, Go, Locks!Release, Owns, Typed, StagesFit, LocksFit
<1>5. WorkFits'
  BY <1>1, ContentsDiffer, NoOpFields DEF WriteFails, Go, Locks!Release, Owns, Typed, StagesFit, LocksFit, WorkFits
<1>6. RowsFit'
  BY <1>1, ContentsDiffer, NoOpFields DEF WriteFails, Go, Locks!Release, Owns, Typed, StagesFit, LocksFit, WorkFits, RowsFit, Matches, Between
<1> QED
  BY <1>2, <1>3, <1>4, <1>5, <1>6

\* remove(path) after a failed upload: the file is, or becomes, suspect.
LEMMA RemoveIncompleteKeeps ==
  ASSUME IInv, NEW c \in Clients, RemoveIncomplete(c)
  PROVE  IInv'
<1> USE DEF IInv
<1>1. /\ task[c].file \in Files
      /\ task[c].type = "upload" => task[c].payload \in Payloads
  BY TaskFields DEF RemoveIncomplete, Go
<1>2. Typed'
  BY <1>1, ContentsClosed DEF RemoveIncomplete, Go, Store, Typed, StagesFit, Stages
<1>3. StagesFit'
  BY <1>1, NoOpFields DEF RemoveIncomplete, Go, Store, Typed, StagesFit
<1>4. LocksFit'
  BY <1>1, NoOpFields DEF RemoveIncomplete, Go, Store, Owns, Typed, StagesFit, LocksFit
<1>5. WorkFits'
  BY <1>1, ContentsDiffer, NoOpFields DEF RemoveIncomplete, Go, Store, Owns, Typed, StagesFit, LocksFit, WorkFits
<1>6. RowsFit'
  BY <1>1, ContentsDiffer, NoOpFields DEF RemoveIncomplete, Go, Store, Owns, Typed, StagesFit, LocksFit, WorkFits, RowsFit, Matches, Between
<1> QED
  BY <1>2, <1>3, <1>4, <1>5, <1>6

\* db_add_or_update_file: the row has the size of what is on disk.
LEMMA AddRowKeeps ==
  ASSUME IInv, NEW c \in Clients, AddRow(c)
  PROVE  IInv'
<1> USE DEF IInv
<1>1. /\ task[c].file \in Files
      /\ task[c].type = "upload" => task[c].payload \in Payloads
  BY TaskFields DEF AddRow, Go
<1>2. Typed'
  BY <1>1, SizeAssumption DEF AddRow, Go, SetRow, Typed, StagesFit, Stages
<1>3. StagesFit'
  BY <1>1, NoOpFields DEF AddRow, Go, SetRow, Typed, StagesFit
<1>4. LocksFit'
  BY <1>1, NoOpFields DEF AddRow, Go, SetRow, Owns, Typed, StagesFit, LocksFit
<1>5. WorkFits'
  BY <1>1, ContentsDiffer, NoOpFields DEF AddRow, Go, SetRow, Owns, Typed, StagesFit, LocksFit, WorkFits
<1>6. RowsFit'
  BY <1>1, ContentsDiffer, NoOpFields DEF AddRow, Go, SetRow, Owns, Typed, StagesFit, LocksFit, WorkFits, RowsFit, Matches, Between
<1> QED
  BY <1>2, <1>3, <1>4, <1>5, <1>6

\* db_remove_file: the file is gone and now its row is.
LEMMA RemoveRowKeeps ==
  ASSUME IInv, NEW c \in Clients, RemoveRow(c)
  PROVE  IInv'
<1> USE DEF IInv
<1>1. /\ task[c].file \in Files
      /\ task[c].type = "upload" => task[c].payload \in Payloads
  BY TaskFields DEF RemoveRow, Go
<1>2. Typed'
  BY <1>1 DEF RemoveRow, Go, SetRow, Typed, StagesFit, Stages
<1>3. StagesFit'
  BY <1>1, NoOpFields DEF RemoveRow, Go, SetRow, Typed, StagesFit
<1>4. LocksFit'
  BY <1>1, NoOpFields DEF RemoveRow, Go, SetRow, Owns, Typed, StagesFit, LocksFit
<1>5. WorkFits'
  BY <1>1, ContentsDiffer, NoOpFields DEF RemoveRow, Go, SetRow, Owns, Typed, StagesFit, LocksFit, WorkFits
<1>6. RowsFit'
  BY <1>1, ContentsDiffer, NoOpFields DEF RemoveRow, Go, SetRow, Owns, Typed, StagesFit, LocksFit, WorkFits, RowsFit, Matches, Between
<1> QED
  BY <1>2, <1>3, <1>4, <1>5, <1>6

\* A transaction rolled back leaves file and row apart, and the file suspect.
LEMMA RowFailsKeeps ==
  ASSUME IInv, NEW c \in Clients, RowFails(c)
  PROVE  IInv'
<1> USE DEF IInv
<1>1. /\ task[c].file \in Files
      /\ task[c].type = "upload" => task[c].payload \in Payloads
  BY TaskFields DEF RowFails, Go
<1>2. Typed'
  BY <1>1 DEF RowFails, Go, Typed, StagesFit, Stages
<1>3. StagesFit'
  BY <1>1, NoOpFields DEF RowFails, Go, Typed, StagesFit
<1>4. LocksFit'
  BY <1>1, NoOpFields DEF RowFails, Go, Owns, Typed, StagesFit, LocksFit
<1>5. WorkFits'
  BY <1>1, ContentsDiffer, NoOpFields DEF RowFails, Go, Owns, Typed, StagesFit, LocksFit, WorkFits
<1>6. RowsFit'
  BY <1>1, ContentsDiffer, NoOpFields DEF RowFails, Go, Owns, Typed, StagesFit, LocksFit, WorkFits, RowsFit, Matches, Between
<1> QED
  BY <1>2, <1>3, <1>4, <1>5, <1>6

\* A download only reads.
LEMMA DownloadKeeps ==
  ASSUME IInv, NEW c \in Clients, Download(c)
  PROVE  IInv'
<1> USE DEF IInv
<1>1. /\ task[c].file \in Files
      /\ task[c].type = "upload" => task[c].payload \in Payloads
  BY TaskFields DEF Download, Go
<1>2. Typed'
  BY <1>1 DEF Download, Go, Typed, StagesFit, Stages
<1>3. StagesFit'
  BY <1>1, NoOpFields DEF Download, Go, Typed, StagesFit
<1>4. LocksFit'
  BY <1>1, NoOpFields DEF Download, Go, Owns, Typed, StagesFit, LocksFit
<1>5. WorkFits'
  BY <1>1, ContentsDiffer, NoOpFields DEF Download, Go, Owns, Typed, StagesFit, LocksFit, WorkFits
<1>6. RowsFit'
  <2>1. \A d \in Clients, f \in Files : Between(d, f)' <=> Between(d, f)
    BY DEF Download, Go, Typed, Between
  <2>2. \A f \in Files : Matches(f)' <=> Matches(f)
    BY DEF Download, Matches
  <2> QED
    BY <2>1, <2>2 DEF Download, RowsFit
<1> QED
  BY <1>2, <1>3, <1>4, <1>5, <1>6

\* remove(path) of a DELETE: the row is still there until RemoveRow.
LEMMA RemoveKeeps ==
  ASSUME IInv, NEW c \in Clients, Remove(c)
  PROVE  IInv'
<1> USE DEF IInv
<1>1. /\ task[c].file \in Files
      /\ task[c].type = "upload" => task[c].payload \in Payloads
  BY TaskFields DEF Remove, Go
<1>2. Typed'
  BY <1>1, ContentsClosed DEF Remove, Go, Store, Linked, Typed, StagesFit, Stages
<1>3. StagesFit'
  BY <1>1, NoOpFields DEF Remove, Go, Store, Linked, Typed, StagesFit
<1>4. LocksFit'
  BY <1>1, NoOpFields DEF Remove, Go, Store, Linked, Owns, Typed, StagesFit, LocksFit
<1>5. WorkFits'
  BY <1>1, ContentsDiffer, NoOpFields DEF Remove, Go, Store, Linked, Owns, Typed, StagesFit, LocksFit, WorkFits
<1>6. RowsFit'
  BY <1>1, ContentsDiffer, NoOpFields DEF Remove, Go, Store, Linked, Owns, Typed, StagesFit, LocksFit, WorkFits, RowsFit, Matches, Between
<1> QED
  BY <1>2, <1>3, <1>4, <1>5, <1>6

\* A DELETE of a file that is not there changes nothing.
LEMMA RemoveMissesKeeps ==
  ASSUME IInv, NEW c \in Clients, RemoveMisses(c)
  PROVE  IInv'
<1> USE DEF IInv
<1>1. /\ task[c].file \in Files
      /\ task[c].type = "upload" => task[c].payload \in Payloads
  BY TaskFields DEF RemoveMisses, Go
<1>2. Typed'
  BY <1>1 DEF RemoveMisses, Go, Typed, StagesFit, Stages
<1>3. StagesFit'
  BY <1>1, NoOpFields DEF RemoveMisses, Go, Typed, StagesFit
<1>4. LocksFit'
  BY <1>1, NoOpFields DEF RemoveMisses, Go, Owns, Typed, StagesFit, LocksFit
<1>5. WorkFits'
  BY <1>1, ContentsDiffer, NoOpFields DEF RemoveMisses, Go, Owns, Typed, StagesFit, LocksFit, WorkFits
<1>6. RowsFit'
  <2>1. \A d \in Clients, f \in Files : Between(d, f)' <=> Between(d, f)
    BY DEF RemoveMisses, Go, Typed, Between
  <2>2. \A f \in Files : Matches(f)' <=> Matches(f)
    BY DEF RemoveMisses, Matches
  <2> QED
    BY <2>1, <2>2 DEF RemoveMisses, RowsFit
<1> QED
  BY <1>2, <1>3, <1>4, <1>5, <1>6

\* file_lock_release where it is still due, and the answer.
LEMMA FinishKeeps ==
  ASSUME IInv, NEW c \in Clients, Finish(c)
  PROVE  IInv'
<1> USE DEF IInv
<1>1. /\ task[c].file \in Files
      /\ task[c].type = "upload" => task[c].payload \in Payloads
  BY TaskFields DEF Finish, Go
<1>2. Typed'
  BY <1>1 DEF Finish, Go, Owns, Locks!Release, Typed, StagesFit, Stages
<1>3. StagesFit'
  BY <1>1, NoOpFields DEF Finish, Go, Owns, Locks!Release, Typed, StagesFit
<1>4. LocksFit'
  BY <1>1, NoOpFields DEF Finish, Go, Owns, Locks!Release, Typed, StagesFit, LocksFit
<1>5. WorkFits'
  BY <1>1, ContentsDiffer, NoOpFields DEF Finish, Go, Owns, Locks!Release, Typed, StagesFit, LocksFit, WorkFits
<1>6. RowsFit'
  BY <1>1, ContentsDiffer, NoOpFields DEF Finish, Go, Owns, Locks!Release, Typed, StagesFit, LocksFit, WorkFits, RowsFit, Matches, Between
<1> QED
  BY <1>2, <1>3, <1>4, <1>5, <1>6

\* The server is killed.  No worker is left, and the files that were between
\* disk and database are suspect.
LEMMA CrashKeeps ==
  ASSUME IInv, Crash
  PROVE  IInv'
<1> USE DEF IInv
<1>1. \A c \in Clients : stage'[c] = "idle" /\ task'[c] = NoOp
  BY DEF Crash
<1>2. \A c \in Clients : stage[c] # "idle" => task[c].file \in Files
  BY TaskFields
<1>3. Typed'
  BY <1>2 DEF Crash, Typed, Stages
<1>4. StagesFit' /\ LocksFit' /\ WorkFits'
  BY <1>1, NoOpFields DEF Crash, StagesFit, LocksFit, WorkFits, Owns
<1>5. RowsFit'
  <2>1. \A f \in Files : f \notin suspect' => \A c \in Clients : ~ Between(c, f)
    BY DEF Crash, Between
  <2>2. \A f \in Files : Matches(f)' <=> Matches(f)
    BY DEF Crash, Matches
  <2> QED
    BY <2>1, <2>2 DEF Crash, RowsFit
<1> QED
  BY <1>3, <1>4, <1>5

\* Every step of the server keeps the invariant.
LEMMA NextKeeps == IInv /\ [Next]_vars => IInv'
<1> SUFFICES ASSUME IInv, [Next]_vars PROVE IInv'
  OBVIOUS
<1>1. CASE UNCHANGED vars
  BY <1>1 DEF vars, IInv, Typed, StagesFit, LocksFit, WorkFits, RowsFit, Matches, Between, Owns
<1>2. CASE Crash
  BY <1>2, CrashKeeps
<1>3. ASSUME NEW c \in Clients,
             \/ \E f \in Files, p \in Payloads : Admit(c, f, p)
             \/ \E t \in {"download", "delete"}, f \in Files : Request(c, t, f)
      PROVE  IInv'
  BY <1>3, AdmitKeeps, RequestKeeps
<1>4. ASSUME NEW c \in Clients,
             \/ Acquire(c) \/ Refuse(c)
             \/ Open(c) \/ Write(c) \/ FlushFails(c) \/ WriteFails(c)
             \/ RemoveIncomplete(c)
             \/ AddRow(c) \/ RemoveRow(c) \/ RowFails(c)
             \/ Download(c)
             \/ Remove(c) \/ RemoveMisses(c)
             \/ Finish(c)
      PROVE  IInv'
  BY <1>4, AcquireKeeps, RefuseKeeps, OpenKeeps, WriteKeeps, FlushFailsKeeps, WriteFailsKeeps,
     RemoveIncompleteKeeps, AddRowKeeps, RemoveRowKeeps, RowFailsKeeps, DownloadKeeps,
     RemoveKeeps, RemoveMissesKeeps, FinishKeeps
<1> QED
  BY <1>1, <1>2, <1>3, <1>4 DEF Next

-----------------------------------------------------------------------------
(* The theorems *)

\* The lock discipline of the worker's cases and what it protects hold in
\* every state: see IInv.
THEOREM Invariance == Spec => []IInv
<1> QED
  BY InitInv, NextKeeps, PTL DEF Spec

\* A file nobody works on matches its row, if no fault has hit it: the
\* transactions of db_add_or_update_file and db_remove_file are inside the
\* critical section of the file.
LEMMA InvMatches == IInv => DiskMatchesRows
<1> SUFFICES ASSUME IInv, NEW f \in Files, Quiet(f), f \notin suspect
             PROVE  Matches(f)
  BY DEF DiskMatchesRows, Matches
<1>1. \A c \in Clients : ~ Between(c, f)
  BY DEF Quiet, Between
<1> QED
  BY <1>1 DEF IInv, RowsFit

\* The directory and the files table agree on every file at rest that no
\* fault has hit, whatever the interleaving of uploads, downloads and deletes.
THEOREM FilesMatchRows == Spec => []DiskMatchesRows
<1> QED
  BY Invariance, InvMatches, PTL

-----------------------------------------------------------------------------
(* Sums over finite sets *)

\* Among sets of elements of a finite set there is a smallest.
LEMMA SmallestSet ==
  ASSUME NEW S, IsFiniteSet(S), NEW B \in SUBSET SUBSET S, B # {}
  PROVE  \E T \in B : \A U \in B : U \subseteq T => U = T
<1>1. IsWellFoundedOn(StrictSubsetOrdering(S), SUBSET S)
  BY FS_StrictSubsetOrderingWellFounded, FS_FiniteSubsetsOfFinite
<1>2. PICK T \in B : \A U \in B : ~ (<<U, T>> \in StrictSubsetOrdering(S))
  BY <1>1, WFMin
<1>3. \A U \in B : U \subseteq T => U = T
  BY <1>2 DEF StrictSubsetOrdering
<1> QED
  BY <1>3

\* The element SumFunctionOnSet takes out of T, and what it does.
Pick(T) == CHOOSE x \in T : TRUE
SumsOn(r, S, g) ==
  g = [T \in SUBSET S |-> IF T = {} THEN 0 ELSE r[Pick(T)] + g[T \ {Pick(T)}]]

\* The element picked is one of the set.
LEMMA PickIn == ASSUME NEW T, T # {} PROVE Pick(T) \in T
  BY DEF Pick

\* SumFunctionOnSet without the folds.
LEMMA SumUnfolds ==
  ASSUME NEW r, NEW S
  PROVE  SumFunctionOnSet(r, S) = (CHOOSE g : SumsOn(r, S, g))[S]
<1>1. SumFunctionOnSet(r, S)
        = LET sum[T \in SUBSET S] ==
                IF T = {} THEN 0
                ELSE LET x == CHOOSE x \in T : TRUE IN r[x] + sum[T \ {x}]
          IN  sum[S]
  BY Zenon DEF MapThenFoldSet, FoldFunctionOnSet, SumFunctionOnSet
<1> QED
  BY <1>1, Zenon DEF SumsOn, Pick

\* Where two such functions are both defined they agree.
LEMMA SumsAgree ==
  ASSUME NEW r, NEW T, NEW U, NEW g, SumsOn(r, T, g), NEW h, SumsOn(r, U, h),
         NEW V, V \subseteq T, V \subseteq U, IsFiniteSet(V)
  PROVE  g[V] = h[V]
<1> DEFINE B == {W \in SUBSET V : g[W] # h[W]}
<1>1. SUFFICES ASSUME B # {} PROVE FALSE
  OBVIOUS
<1>3. PICK W \in B : \A X \in B : X \subseteq W => X = W
  <2> HIDE DEF B
  <2>1. B \in SUBSET SUBSET V
    BY DEF B
  <2> QED
    BY <1>1, <2>1, SmallestSet
<1>4. W \in SUBSET T /\ W \in SUBSET U
  OBVIOUS
<1>5. W # {}
  BY <1>4 DEF SumsOn
<1>6. /\ g[W] = r[Pick(W)] + g[W \ {Pick(W)}]
      /\ h[W] = r[Pick(W)] + h[W \ {Pick(W)}]
  BY <1>4, <1>5 DEF SumsOn
<1>7. g[W \ {Pick(W)}] = h[W \ {Pick(W)}]
  BY <1>3, <1>5, PickIn
<1> QED
  BY <1>3, <1>6, <1>7

\* Over a finite set there is one.
LEMMA SumsExist ==
  ASSUME NEW r, NEW S, IsFiniteSet(S)
  PROVE  \E g : SumsOn(r, S, g)
<1> DEFINE B == {T \in SUBSET S : \A g : ~ SumsOn(r, T, g)}
<1>1. SUFFICES ASSUME B # {} PROVE FALSE
  OBVIOUS
<1>2. PICK T \in B : \A U \in B : U \subseteq T => U = T
  <2> HIDE DEF B
  <2>1. B \in SUBSET SUBSET S
    BY DEF B
  <2> QED
    BY <1>1, <2>1, SmallestSet
<1> DEFINE G(U) == CHOOSE g : SumsOn(r, U, g)
           Rest(U) == U \ {Pick(U)}
           h == [U \in SUBSET T |-> IF U = {} THEN 0 ELSE r[Pick(U)] + G(Rest(U))[Rest(U)]]
<1>3. ASSUME NEW U \in SUBSET T, U # {}
      PROVE  Rest(U) \in SUBSET T /\ SumsOn(r, Rest(U), G(Rest(U)))
  <2>1. Rest(U) \in SUBSET T /\ Rest(U) # T
    BY <1>3, PickIn
  <2>2. Rest(U) \notin B
    BY <1>2, <2>1
  <2>3. \E g : SumsOn(r, Rest(U), g)
    BY <2>1, <2>2
  <2> HIDE DEF Rest
  <2> QED
    BY <2>1, <2>3
<1>4. ASSUME NEW U \in SUBSET T, U # {}
      PROVE  h[Rest(U)] = G(Rest(U))[Rest(U)]
  <2> DEFINE V == Rest(U)
  <2>0. SUFFICES h[V] = G(V)[V]
    OBVIOUS
  <2>1. V \in SUBSET T /\ SumsOn(r, V, G(V))
    BY <1>3, <1>4
  <2>2. CASE V = {}
    <3>1. h[V] = 0
      BY <2>1, <2>2
    <3>2. G(V)[V] = 0
      <4> HIDE DEF V, G
      <4> QED
        BY <2>1, <2>2 DEF SumsOn
    <3> QED
      BY <3>1, <3>2
  <2>3. CASE V # {}
    <3>1. h[V] = r[Pick(V)] + G(Rest(V))[Rest(V)]
      <4> HIDE DEF V, G
      <4> QED
        BY <2>1, <2>3
    <3>2. G(V)[V] = r[Pick(V)] + G(V)[Rest(V)]
      <4> HIDE DEF V, G
      <4> QED
        BY <2>1, <2>3 DEF SumsOn
    <3>3. SumsOn(r, Rest(V), G(Rest(V))) /\ Rest(V) \subseteq V /\ IsFiniteSet(Rest(V))
      <4> HIDE DEF V, G
      <4>1. Rest(V) \in SUBSET S
        BY <2>1
      <4> QED
        BY <1>3, <2>1, <2>3, <4>1, FS_Subset
    <3>4. G(V)[Rest(V)] = G(Rest(V))[Rest(V)]
      <4> HIDE DEF V, G, Rest
      <4> QED
        BY <2>1, <3>3, SumsAgree
    <3> HIDE DEF V, G, Rest, h
    <3> QED
      BY <3>1, <3>2, <3>4
  <2> QED
    BY <2>2, <2>3
<1>5. SumsOn(r, T, h)
  <2>1. \A U \in SUBSET T : U # {} => h[U] = r[Pick(U)] + h[U \ {Pick(U)}]
    <3> SUFFICES ASSUME NEW U \in SUBSET T, U # {} PROVE h[U] = r[Pick(U)] + h[Rest(U)]
      OBVIOUS
    <3>1. h[U] = r[Pick(U)] + G(Rest(U))[Rest(U)]
      <4> HIDE DEF G
      <4> QED
        OBVIOUS
    <3> HIDE DEF h, Rest, G
    <3> QED
      BY <3>1, <1>4
  <2>2. \A U \in SUBSET T : U = {} => h[U] = 0
    OBVIOUS
  <2>3. h = [U \in SUBSET T |-> h[U]]
    OBVIOUS
  <2> HIDE DEF h
  <2> QED
    BY <2>1, <2>2, <2>3 DEF SumsOn
<1> HIDE DEF h, G
<1> QED
  BY <1>5

\* A sum is built up one element at a time.
LEMMA SumStep ==
  ASSUME NEW r, NEW S, IsFiniteSet(S)
  PROVE  /\ SumFunctionOnSet(r, {}) = 0
         /\ S # {} => SumFunctionOnSet(r, S)
                        = r[Pick(S)] + SumFunctionOnSet(r, S \ {Pick(S)})
<1> DEFINE G(T) == CHOOSE g : SumsOn(r, T, g)
           R == S \ {Pick(S)}
<1>1. IsFiniteSet({}) /\ IsFiniteSet(R)
  BY FS_EmptySet, FS_RemoveElement
<1>2. SumsOn(r, {}, G({})) /\ SumsOn(r, S, G(S)) /\ SumsOn(r, R, G(R))
  BY <1>1, SumsExist
<1>3. \A T : SumFunctionOnSet(r, T) = G(T)[T]
  BY SumUnfolds
<1> HIDE DEF G
<1>4. SumFunctionOnSet(r, {}) = 0
  BY <1>2, <1>3 DEF SumsOn
<1>5. ASSUME S # {}
      PROVE  SumFunctionOnSet(r, S) = r[Pick(S)] + SumFunctionOnSet(r, R)
  <2>1. G(S)[S] = r[Pick(S)] + G(S)[R]
    BY <1>2, <1>5 DEF SumsOn
  <2>2. R \subseteq S
    OBVIOUS
  <2>3. G(S)[R] = G(R)[R]
    <3> DEFINE g == G(S)
               h == G(R)
    <3>1. SumsOn(r, S, g) /\ SumsOn(r, R, h)
      BY <1>2
    <3> HIDE DEF R, g, h
    <3>2. g[R] = h[R]
      BY <1>1, <2>2, <3>1, SumsAgree
    <3> QED
      BY <3>2 DEF g, h
  <2> QED
    BY <1>3, <2>1, <2>3
<1> QED
  BY <1>4, <1>5

\* Sums of numbers are numbers.
LEMMA SumNat ==
  ASSUME NEW r, NEW S, IsFiniteSet(S), \A x \in S : r[x] \in Nat
  PROVE  SumFunctionOnSet(r, S) \in Nat
<1> DEFINE B == {T \in SUBSET S : SumFunctionOnSet(r, T) \notin Nat}
<1>1. SUFFICES ASSUME B # {} PROVE FALSE
  OBVIOUS
<1>2. PICK T \in B : \A U \in B : U \subseteq T => U = T
  <2> HIDE DEF B
  <2>1. B \in SUBSET SUBSET S
    BY DEF B
  <2> QED
    BY <1>1, <2>1, SmallestSet
<1>3. IsFiniteSet(T)
  BY FS_Subset
<1>4. T # {}
  <2>1. SumFunctionOnSet(r, {}) = 0
    BY SumStep, FS_EmptySet
  <2>2. SumFunctionOnSet(r, T) \notin Nat
    BY <1>2
  <2> HIDE DEF B
  <2> QED
    BY <2>1, <2>2
<1>5. Pick(T) \in T
  BY <1>4, PickIn
<1>6. SumFunctionOnSet(r, T \ {Pick(T)}) \in Nat
  BY <1>2, <1>5
<1>7. SumFunctionOnSet(r, T) = r[Pick(T)] + SumFunctionOnSet(r, T \ {Pick(T)})
  BY <1>3, <1>4, SumStep
<1> QED
  BY <1>5, <1>6, <1>7

\* The order does not matter: any element may be taken out first.
LEMMA SumTakeOut ==
  ASSUME NEW r, NEW S, IsFiniteSet(S), \A y \in S : r[y] \in Nat, NEW x \in S
  PROVE  SumFunctionOnSet(r, S) = r[x] + SumFunctionOnSet(r, S \ {x})
<1> DEFINE Sum(T) == SumFunctionOnSet(r, T)
           B == {T \in SUBSET S : \E y \in T : Sum(T) # r[y] + Sum(T \ {y})}
<1>1. SUFFICES ASSUME B # {} PROVE FALSE
  OBVIOUS
<1>2. PICK T \in B : \A U \in B : U \subseteq T => U = T
  <2> HIDE DEF B
  <2>1. B \in SUBSET SUBSET S
    BY DEF B
  <2> QED
    BY <1>1, <2>1, SmallestSet
<1>3. PICK y \in T : Sum(T) # r[y] + Sum(T \ {y})
  BY <1>2
<1> DEFINE z == Pick(T)
<1>4. z \in T
  BY <1>3, PickIn
<1>5. \A U \in SUBSET T : Sum(U) \in Nat /\ IsFiniteSet(U)
  BY FS_Subset, SumNat
<1>6. Sum(T) = r[z] + Sum(T \ {z})
  BY <1>3, <1>5, SumStep
<1>7. y # z
  BY <1>3, <1>6
<1> HIDE DEF z, Sum
<1>8. T \ {z} \in SUBSET S /\ T \ {z} \notin B /\ y \in T \ {z}
  BY <1>2, <1>4, <1>7
<1>9. Sum(T \ {z}) = r[y] + Sum((T \ {z}) \ {y})
  BY <1>8
<1>10. T \ {y} \in SUBSET S /\ T \ {y} \notin B /\ z \in T \ {y}
  BY <1>2, <1>4, <1>7
<1>11. Sum(T \ {y}) = r[z] + Sum((T \ {y}) \ {z})
  BY <1>10
<1>12. Sum((T \ {z}) \ {y}) = Sum((T \ {y}) \ {z})
  <2>1. (T \ {z}) \ {y} = (T \ {y}) \ {z}
    OBVIOUS
  <2> QED
    BY <2>1
<1>13. /\ r[y] \in Nat /\ r[z] \in Nat /\ Sum(T) \in Nat
       /\ Sum((T \ {z}) \ {y}) \in Nat
  BY <1>4, <1>5
<1> HIDE DEF B
<1> QED
  BY <1>3, <1>6, <1>9, <1>11, <1>12, <1>13

\* Only the values at the elements count, and zeros do not.
LEMMA SumSame ==
  ASSUME NEW r, NEW q, NEW S, IsFiniteSet(S), NEW T \in SUBSET S,
         \A x \in T : r[x] = q[x], \A x \in T : r[x] \in Nat, \A x \in S \ T : r[x] = 0
  PROVE  SumFunctionOnSet(r, S) = SumFunctionOnSet(q, T)
<1> DEFINE B == {U \in SUBSET S : SumFunctionOnSet(r, U) # SumFunctionOnSet(q, U \cap T)}
<1>0. SUFFICES B = {}
  <2>1. S \cap T = T
    OBVIOUS
  <2> QED
    BY <2>1
<1>1. SUFFICES ASSUME B # {} PROVE FALSE
  OBVIOUS
<1>2. PICK U \in B : \A V \in B : V \subseteq U => V = U
  <2> HIDE DEF B
  <2>1. B \in SUBSET SUBSET S
    BY DEF B
  <2> QED
    BY <1>1, <2>1, SmallestSet
<1>3. IsFiniteSet(U) /\ IsFiniteSet(U \cap T)
  BY FS_Subset
<1>4. U # {}
  BY <1>2, SumStep, FS_EmptySet
<1> DEFINE z == Pick(U)
<1>5. z \in U
  BY <1>4, PickIn
<1>6. SumFunctionOnSet(r, U) = r[z] + SumFunctionOnSet(r, U \ {z})
  BY <1>3, <1>4, SumStep
<1> HIDE DEF z
<1>7. U \ {z} \in SUBSET S /\ U \ {z} \notin B
  BY <1>2, <1>5
<1>8. SumFunctionOnSet(r, U \ {z}) = SumFunctionOnSet(q, (U \ {z}) \cap T)
  BY <1>7
<1>9. SumFunctionOnSet(q, (U \ {z}) \cap T) \in Nat
  <2>1. IsFiniteSet((U \ {z}) \cap T)
    BY FS_Subset
  <2>2. \A x \in (U \ {z}) \cap T : q[x] \in Nat
    BY <1>2
  <2> QED
    BY <2>1, <2>2, SumNat
<1>10. CASE z \in T
  <2>1. SumFunctionOnSet(q, U \cap T) = q[z] + SumFunctionOnSet(q, (U \cap T) \ {z})
    <3>1. \A x \in U \cap T : q[x] \in Nat
      BY <1>2
    <3>2. z \in U \cap T
      BY <1>5, <1>10
    <3> HIDE DEF B
    <3> QED
      BY <1>3, <3>1, <3>2, SumTakeOut
  <2>2. (U \cap T) \ {z} = (U \ {z}) \cap T
    OBVIOUS
  <2> QED
    BY <1>2, <1>6, <1>8, <1>10, <2>1, <2>2
<1>11. CASE z \notin T
  <2>1. SumFunctionOnSet(q, U \cap T) = SumFunctionOnSet(q, (U \ {z}) \cap T)
    <3>1. U \cap T = (U \ {z}) \cap T
      BY <1>11
    <3> QED
      BY <3>1
  <2>2. r[z] = 0
    BY <1>5, <1>11
  <2>3. SumFunctionOnSet(r, U) # SumFunctionOnSet(q, U \cap T)
    BY <1>2
  <2> HIDE DEF B
  <2> QED
    BY <1>6, <1>8, <1>9, <2>1, <2>2, <2>3
<1> QED
  BY <1>10, <1>11

\* No entry above m, no sum above m times their number.
LEMMA SumBound ==
  ASSUME NEW r, NEW S, IsFiniteSet(S), NEW m \in Nat, \A x \in S : r[x] \in 0 .. m
  PROVE  SumFunctionOnSet(r, S) <= Cardinality(S) * m
<1> DEFINE B == {T \in SUBSET S : ~ (SumFunctionOnSet(r, T) <= Cardinality(T) * m)}
<1>1. SUFFICES ASSUME B # {} PROVE FALSE
  OBVIOUS
<1>2. PICK T \in B : \A U \in B : U \subseteq T => U = T
  <2> HIDE DEF B
  <2>1. B \in SUBSET SUBSET S
    BY DEF B
  <2> QED
    BY <1>1, <2>1, SmallestSet
<1>3. IsFiniteSet(T) /\ Cardinality(T) \in Nat
  BY FS_Subset, FS_CardinalityType
<1>4. T # {}
  <2>1. SumFunctionOnSet(r, {}) = 0 /\ Cardinality({}) = 0
    BY SumStep, FS_EmptySet
  <2>2. 0 <= 0 * m
    OBVIOUS
  <2> QED
    BY <1>2, <2>1, <2>2
<1> DEFINE z == Pick(T)
           R == T \ {z}
<1>5. z \in T
  BY <1>4, PickIn
<1>6. SumFunctionOnSet(r, T) = r[z] + SumFunctionOnSet(r, R)
  BY <1>3, <1>4, SumStep
<1> HIDE DEF z
<1>7. SumFunctionOnSet(r, R) <= Cardinality(R) * m
  BY <1>2, <1>5
<1>8. SumFunctionOnSet(r, R) \in Nat
  <2>1. IsFiniteSet(R) /\ \A x \in R : r[x] \in Nat
    BY <1>2, <1>3, FS_RemoveElement
  <2> QED
    BY <2>1, SumNat
<1>9. Cardinality(R) = Cardinality(T) - 1
  BY <1>3, <1>5, FS_RemoveElement
<1>10. r[z] \in 0 .. m
  BY <1>2, <1>5
<1>11. (Cardinality(T) - 1) * m = Cardinality(T) * m - m
  BY <1>3
<1>12. Cardinality(T) * m \in Nat
  BY <1>3
<1>13. ~ (SumFunctionOnSet(r, T) <= Cardinality(T) * m)
  BY <1>2
<1> HIDE DEF B, R
<1> QED
  BY <1>6, <1>7, <1>8, <1>9, <1>10, <1>11, <1>12, <1>13

\* One value changes, and the sum changes with it.
LEMMA SumChange ==
  ASSUME NEW r, NEW q, NEW S, IsFiniteSet(S), NEW x \in S,
         \A y \in S : r[y] \in Nat /\ q[y] \in Nat, \A y \in S \ {x} : r[y] = q[y]
  PROVE  /\ SumFunctionOnSet(r, S) \in Nat /\ SumFunctionOnSet(q, S) \in Nat
         /\ SumFunctionOnSet(r, S) + q[x] = SumFunctionOnSet(q, S) + r[x]
<1> DEFINE R == S \ {x}
<1>1. IsFiniteSet(R)
  BY FS_RemoveElement
<1>2. SumFunctionOnSet(r, R) = SumFunctionOnSet(q, R) /\ SumFunctionOnSet(r, R) \in Nat
  <2>1. R \in SUBSET R /\ \A y \in R : r[y] = q[y] /\ r[y] \in Nat
    OBVIOUS
  <2> HIDE DEF R
  <2> QED
    BY <1>1, <2>1, SumSame, SumNat
<1>3. /\ SumFunctionOnSet(r, S) = r[x] + SumFunctionOnSet(r, R)
      /\ SumFunctionOnSet(q, S) = q[x] + SumFunctionOnSet(q, R)
  BY SumTakeOut
<1> QED
  BY <1>2, <1>3

-----------------------------------------------------------------------------
(* The quota *)

QuotaFits == quota_used = SumOfRows(row) /\ QuotaSoftLimit

\* The sum of the rows is that of one and that of the others.
LEMMA RowTakenOut ==
  ASSUME NEW r \in [Files -> Nat \cup {NoRow}], NEW f \in Files
  PROVE  LET others == SumFunctionOnSet(r, {g \in Files \ {f} : r[g] # NoRow})
         IN  others \in Nat /\ SumOfRows(r) = ChargeOf(r[f]) + others
<1> DEFINE Rows == {g \in Files : r[g] # NoRow}
           Others == {g \in Files \ {f} : r[g] # NoRow}
<1>1. IsFiniteSet(Rows) /\ IsFiniteSet(Others)
  BY FiniteAssumption, FS_Subset
<1>2. \A g \in Rows : r[g] \in Nat
  OBVIOUS
<1>3. SumFunctionOnSet(r, Others) \in Nat
  BY <1>1, <1>2, SumNat
<1>4. CASE f \in Rows
  <2>1. Rows \ {f} = Others
    OBVIOUS
  <2>2. SumFunctionOnSet(r, Rows) = r[f] + SumFunctionOnSet(r, Rows \ {f})
    <3> HIDE DEF Rows
    <3> QED
      BY <1>1, <1>2, <1>4, SumTakeOut
  <2> QED
    BY <1>3, <1>4, <2>1, <2>2 DEF SumOfRows, ChargeOf
<1>5. CASE f \notin Rows
  <2>1. Rows = Others /\ r[f] = NoRow
    BY <1>5
  <2> QED
    BY <1>3, <2>1 DEF SumOfRows, ChargeOf
<1> QED
  BY <1>4, <1>5

\* A row is written or deleted: quota_used follows it.
LEMMA RowSet ==
  ASSUME NEW r \in [Files -> Nat \cup {NoRow}], NEW f \in Files, NEW n \in Nat \cup {NoRow}
  PROVE  LET q == [r EXCEPT ![f] = n]
         IN  /\ SumOfRows(r) \in Nat /\ SumOfRows(q) \in Nat
             /\ SumOfRows(q) + ChargeOf(r[f]) = SumOfRows(r) + ChargeOf(n)
<1> DEFINE q == [r EXCEPT ![f] = n]
           Others == {g \in Files \ {f} : r[g] # NoRow}
           OthersNow == {g \in Files \ {f} : q[g] # NoRow}
<1>1. q \in [Files -> Nat \cup {NoRow}] /\ q[f] = n /\ \A g \in Files \ {f} : q[g] = r[g]
  OBVIOUS
<1>2. OthersNow = Others /\ IsFiniteSet(Others)
  BY <1>1, FiniteAssumption, FS_Subset
<1>3. SumFunctionOnSet(q, Others) = SumFunctionOnSet(r, Others)
  <2>1. Others \in SUBSET Others /\ \A g \in Others : q[g] = r[g] /\ q[g] \in Nat
    BY <1>1
  <2> HIDE DEF Others, q
  <2> QED
    BY <1>2, <2>1, SumSame
<1>4. /\ SumFunctionOnSet(r, Others) \in Nat
      /\ SumOfRows(r) = ChargeOf(r[f]) + SumFunctionOnSet(r, Others)
  BY RowTakenOut
<1>5. SumOfRows(q) = ChargeOf(n) + SumFunctionOnSet(q, OthersNow)
  <2> HIDE DEF q
  <2> QED
    BY <1>1, RowTakenOut
<1>6. ChargeOf(n) \in Nat /\ ChargeOf(r[f]) \in Nat
  BY DEF ChargeOf
<1> HIDE DEF q, Others, OthersNow
<1>7. SumFunctionOnSet(q, OthersNow) = SumFunctionOnSet(r, Others)
  BY <1>2, <1>3
<1>8. SumOfRows(q) + ChargeOf(r[f]) = SumOfRows(r) + ChargeOf(n)
  BY <1>4, <1>5, <1>6, <1>7
<1> QED
  BY <1>4, <1>5, <1>6, <1>7, <1>8 DEF q

\* The sum of the rows is a number.
LEMMA RowSum ==
  ASSUME NEW r \in [Files -> Nat \cup {NoRow}]
  PROVE  SumOfRows(r) \in Nat
<1>1. IsFiniteSet({f \in Files : r[f] # NoRow})
  BY FiniteAssumption, FS_Subset
<1> QED
  BY <1>1, SumNat DEF SumOfRows

\* There is a largest payload.
LEMMA LargestPayload ==
  MaxSize \in Nat /\ \A p \in Payloads : Size[p] \in 0 .. MaxSize
<1> DEFINE K == {n \in Nat : \A p \in Payloads : Size[p] <= n}
<1>1. \A p \in Payloads : Size[p] \in Nat
  BY SizeAssumption
<1>2. K # {}
  <2>1. SumFunctionOnSet(Size, Payloads) \in Nat
    BY <1>1, FiniteAssumption, SumNat
  <2>2. ASSUME NEW p \in Payloads
        PROVE  Size[p] <= SumFunctionOnSet(Size, Payloads)
    <3>1. SumFunctionOnSet(Size, Payloads) = Size[p] + SumFunctionOnSet(Size, Payloads \ {p})
      BY <1>1, FiniteAssumption, SumTakeOut
    <3>2. SumFunctionOnSet(Size, Payloads \ {p}) \in Nat
      BY <1>1, FiniteAssumption, FS_RemoveElement, SumNat
    <3> QED
      BY <1>1, <3>1, <3>2
  <2> QED
    BY <2>1, <2>2
<1>3. PICK n \in K : \A m \in K : ~ (<<m, n>> \in OpToRel(<, Nat))
  BY <1>2, NatLessThanWellFounded, WFMin
<1>4. \A m \in K : ~ (m < n)
  BY <1>3 DEF OpToRel
<1>5. \E p \in Payloads : Size[p] = n
  <2>1. SUFFICES ASSUME \A p \in Payloads : Size[p] # n PROVE FALSE
    OBVIOUS
  <2>2. \A p \in Payloads : Size[p] <= n - 1
    BY <1>1, <2>1
  <2>3. n - 1 \in Nat
    BY <1>1, <2>2, SomeAssumption
  <2>4. n - 1 \in K /\ n - 1 < n
    BY <2>2, <2>3
  <2> QED
    BY <1>4, <2>4
<1>6. \E m \in {Size[p] : p \in Payloads} : \A p \in Payloads : Size[p] <= m
  BY <1>5
<1>7. MaxSize \in {Size[p] : p \in Payloads} /\ \A p \in Payloads : Size[p] <= MaxSize
  BY <1>6 DEF MaxSize
<1> QED
  BY <1>1, <1>7

\* An upload in flight is to be charged with its size.
LEMMA ToChargeTyped ==
  ASSUME Typed, StagesFit
  PROVE  ToCharge \in [Clients -> 0 .. MaxSize]
<1>1. \A c \in InFlight : task[c].payload \in Payloads
  BY TaskFields DEF InFlight
<1> QED
  BY <1>1, LargestPayload DEF ToCharge

\* What one session has in flight changes.
LEMMA ToChargeStep ==
  ASSUME NEW t \in [Clients -> Nat], NEW u \in [Clients -> Nat], NEW c \in Clients,
         \A d \in Clients \ {c} : u[d] = t[d]
  PROVE  /\ SumFunction(t) \in Nat /\ SumFunction(u) \in Nat
         /\ SumFunction(u) + t[c] = SumFunction(t) + u[c]
<1>1. DOMAIN t = Clients /\ DOMAIN u = Clients
  OBVIOUS
<1>2. \A d \in Clients : u[d] \in Nat /\ t[d] \in Nat
  OBVIOUS
<1> QED
  BY <1>1, <1>2, FiniteAssumption, SumChange DEF SumFunction

\* The sessions other than c have at most one upload each in flight.
LEMMA OthersToCharge ==
  ASSUME NEW t \in [Clients -> 0 .. MaxSize], NEW c \in Clients
  PROVE  /\ SumFunction(t) \in Nat
         /\ SumFunction(t) <= t[c] + (Cardinality(Clients) - 1) * MaxSize
<1> DEFINE R == Clients \ {c}
<1>1. /\ \A d \in Clients : t[d] \in 0 .. MaxSize /\ t[d] \in Nat
      /\ SumFunction(t) = SumFunctionOnSet(t, Clients)
      /\ MaxSize \in Nat
  BY LargestPayload DEF SumFunction
<1>2. IsFiniteSet(R) /\ Cardinality(R) = Cardinality(Clients) - 1
  BY FiniteAssumption, FS_RemoveElement
<1>3. SumFunctionOnSet(t, R) \in Nat
  BY <1>1, <1>2, SumNat
<1>4. SumFunctionOnSet(t, R) <= Cardinality(R) * MaxSize
  <2> HIDE DEF R
  <2>1. \A d \in R : t[d] \in 0 .. MaxSize
    BY <1>1 DEF R
  <2> QED
    BY <1>1, <1>2, <2>1, SumBound
<1>5. SumFunctionOnSet(t, Clients) = t[c] + SumFunctionOnSet(t, R)
  BY <1>1, FiniteAssumption, SumTakeOut
<1>6. (Cardinality(Clients) - 1) * MaxSize = Cardinality(R) * MaxSize
  BY <1>2
<1>7. Cardinality(R) \in Nat /\ Cardinality(R) * MaxSize \in Nat
  BY <1>1, <1>2, FS_CardinalityType
<1> HIDE DEF R
<1> QED
  BY <1>1, <1>3, <1>4, <1>5, <1>6, <1>7

\* Nobody has anything in flight.
LEMMA NothingToCharge ==
  ASSUME NEW t \in [Clients -> Nat], \A c \in Clients : t[c] = 0
  PROVE  SumFunction(t) = 0
<1>1. SumFunctionOnSet(t, Clients) = SumFunctionOnSet(t, {})
  BY FiniteAssumption, SumSame
<1>2. SumFunctionOnSet(t, {}) = 0
  BY SumStep, FS_EmptySet
<1> QED
  BY <1>1, <1>2 DEF SumFunction

\* The bound the others impose is a number.
LEMMA OthersBound ==
  MaxSize' = MaxSize /\ (Cardinality(Clients) - 1) * MaxSize \in Nat
<1>1. Cardinality(Clients) - 1 \in Nat
  BY FiniteAssumption, SomeAssumption, FS_EmptySet, FS_CardinalityType
<1> QED
  BY <1>1, LargestPayload DEF MaxSize

\* At the start nothing is stored and nothing in flight.
LEMMA InitQuota == Init => QuotaFits
<1> SUFFICES ASSUME Init PROVE QuotaFits
  OBVIOUS
<1>1. SumOfRows(row) = 0
  <2>1. {f \in Files : row[f] # NoRow} = {}
    BY DEF Init
  <2> QED
    BY <2>1, SumStep, FS_EmptySet DEF SumOfRows
<1>2. ToCharge = [c \in Clients |-> 0]
  BY DEF Init, InFlight, ToCharge
<1>3. SumFunction(ToCharge) = 0
  BY <1>2, NothingToCharge
<1> QED
  BY <1>1, <1>3, OthersBound, QuotaAssumption DEF Init, QuotaFits, QuotaSoftLimit

\* The quota check of an upload leaves room for it and for what the others
\* may have in flight.
LEMMA AdmitQuota ==
  ASSUME IInv, QuotaFits, NEW c \in Clients, NEW f \in Files, NEW p \in Payloads,
         Admit(c, f, p)
  PROVE  QuotaFits'
<1>1. /\ quota_used + Size[p] <= QuotaLimit
      /\ quota_used' = quota_used /\ row' = row
      /\ stage'[c] = "queued" /\ task'[c] = [type |-> "upload", file |-> f, payload |-> p]
  BY DEF Admit, Go, IInv, Typed
<1>2. ToCharge'[c] = Size[p]
  BY <1>1 DEF ToCharge, InFlight
<1>3. ToCharge' \in [Clients -> 0 .. MaxSize]
  <2>1. ASSUME NEW d \in Clients \ {c}
        PROVE  ToCharge'[d] = ToCharge[d]
    BY DEF Admit, Go, IInv, Typed, ToCharge, InFlight
  <2>2. Size[p] \in 0 .. MaxSize /\ ToCharge \in [Clients -> 0 .. MaxSize]
    BY LargestPayload, ToChargeTyped DEF IInv
  <2> QED
    BY <1>2, <2>1, <2>2 DEF ToCharge
<1>4. /\ SumFunction(ToCharge') \in Nat
      /\ SumFunction(ToCharge') <= ToCharge'[c] + (Cardinality(Clients) - 1) * MaxSize
  BY <1>3, OthersToCharge
<1>5. quota_used \in Nat /\ Size[p] \in Nat
  BY RowSum, SizeAssumption DEF QuotaFits, IInv, Typed
<1>6. QuotaSoftLimit'
  BY <1>1, <1>2, <1>4, <1>5, OthersBound, QuotaAssumption DEF QuotaSoftLimit
<1> QED
  BY <1>1, <1>6 DEF QuotaFits

\* Whatever else c does, what it is charged with and to be charged with does
\* not grow.
LEMMA OtherQuota ==
  ASSUME IInv, QuotaFits, NEW c \in Clients,
         \A d \in Clients \ {c} : stage'[d] = stage[d] /\ task'[d] = task[d],
         ToCharge'[c] \in {0, ToCharge[c]},
         quota_used' = SumOfRows(row'), quota_used' \in Nat,
         quota_used' + ToCharge'[c] <= quota_used + ToCharge[c]
  PROVE  QuotaFits'
<1>1. ToCharge \in [Clients -> Nat]
  BY ToChargeTyped, LargestPayload DEF IInv
<1>2. \A d \in Clients \ {c} : ToCharge'[d] = ToCharge[d]
  BY DEF ToCharge, InFlight
<1>3. ToCharge' \in [Clients -> Nat]
  BY <1>1, <1>2 DEF ToCharge
<1>4. /\ SumFunction(ToCharge) \in Nat /\ SumFunction(ToCharge') \in Nat
      /\ SumFunction(ToCharge') + ToCharge[c] = SumFunction(ToCharge) + ToCharge'[c]
  BY <1>1, <1>2, <1>3, ToChargeStep
<1>5. quota_used \in Nat
  BY RowSum DEF QuotaFits, IInv, Typed
<1>6. quota_used' + SumFunction(ToCharge') <= quota_used + SumFunction(ToCharge)
  BY <1>1, <1>3, <1>4, <1>5
<1>7. QuotaSoftLimit'
  BY <1>4, <1>5, <1>6, OthersBound, QuotaAssumption DEF QuotaFits, QuotaSoftLimit
<1> QED
  BY <1>7 DEF QuotaFits

\* Every step keeps quota_used exact and within the soft limit.
LEMMA QuotaKeeps ==
  ASSUME IInv, QuotaFits, [Next]_vars
  PROVE  QuotaFits'
<1> DEFINE Others(c) == \A d \in Clients \ {c} : stage'[d] = stage[d] /\ task'[d] = task[d]
<1>0. /\ SumOfRows(row) \in Nat /\ quota_used \in Nat
      /\ ToCharge \in [Clients -> Nat] /\ ToCharge \in [Clients -> 0 .. MaxSize]
  BY RowSum, ToChargeTyped, LargestPayload DEF QuotaFits, IInv, Typed
<1>1. CASE UNCHANGED vars
  <2>1. ToCharge' = ToCharge
    BY <1>1 DEF vars, ToCharge, InFlight
  <2> QED
    BY <1>1, <2>1 DEF vars, QuotaFits, QuotaSoftLimit, MaxSize
<1>2. CASE Crash
  <2>1. ToCharge' = [c \in Clients |-> 0]
    BY <1>2 DEF Crash, InFlight, ToCharge
  <2>2. SumFunction(ToCharge') = 0
    BY <2>1, NothingToCharge
  <2>3. SumFunction(ToCharge) \in Nat
    BY <1>0, SomeAssumption, OthersToCharge
  <2>4. quota_used' = quota_used /\ row' = row
    BY <1>2 DEF Crash
  <2> QED
    BY <1>0, <2>2, <2>3, <2>4, OthersBound, QuotaAssumption DEF QuotaFits, QuotaSoftLimit
<1>3. ASSUME NEW c \in Clients, NEW f \in Files, NEW p \in Payloads, Admit(c, f, p)
      PROVE  QuotaFits'
  BY <1>3, AdmitQuota
<1>4. ASSUME NEW c \in Clients,
             \/ \E t \in {"download", "delete"}, f \in Files : Request(c, t, f)
             \/ Acquire(c) \/ Refuse(c)
             \/ Open(c) \/ Write(c) \/ FlushFails(c) \/ WriteFails(c)
             \/ RemoveIncomplete(c) \/ RowFails(c)
             \/ Download(c) \/ Remove(c) \/ RemoveMisses(c) \/ Finish(c)
      PROVE  QuotaFits'
  <2>1. quota_used' = quota_used /\ row' = row
    BY <1>4 DEF Request, Acquire, Refuse, Open, Write, FlushFails, WriteFails, RemoveIncomplete,
       RowFails, Download, Remove, RemoveMisses, Finish
  <2>2. Others(c)
    <3>1. /\ \A d \in Clients \ {c} : stage'[d] = stage[d]
          /\ task' = task \/ \E o : task' = [task EXCEPT ![c] = o]
      BY <1>4 DEF Request, Acquire, Refuse, Open, Write, FlushFails, WriteFails,
         RemoveIncomplete, RowFails, Download, Remove, RemoveMisses, Finish, Go, IInv, Typed
    <3> QED
      BY <3>1 DEF IInv, Typed
  <2>3. ToCharge'[c] \in {0, ToCharge[c]}
    <3>1. CASE \E t \in {"download", "delete"}, f \in Files : Request(c, t, f)
      <4>1. task'[c].type # "upload"
        BY <3>1 DEF Request, IInv, Typed
      <4> QED
        BY <4>1 DEF ToCharge, InFlight
    <3>2. CASE Acquire(c) \/ Open(c) \/ Write(c) \/ FlushFails(c) \/ Remove(c)
      <4>1. task' = task /\ (c \in InFlight' => c \in InFlight)
        BY <3>2 DEF InFlight, Acquire, Open, Write, FlushFails, Remove, Go, IInv, Typed
      <4> QED
        BY <4>1 DEF ToCharge
    <3>3. CASE \/ Refuse(c) \/ WriteFails(c) \/ RemoveIncomplete(c) \/ RowFails(c)
               \/ Download(c) \/ RemoveMisses(c) \/ Finish(c)
      <4>1. stage'[c] \in {"finish", "remove", "idle"}
        BY <3>3 DEF Refuse, WriteFails, RemoveIncomplete, RowFails, Download, RemoveMisses,
           Finish, Go, IInv, Typed
      <4> QED
        BY <4>1 DEF ToCharge, InFlight
    <3> QED
      BY <1>4, <3>1, <3>2, <3>3
  <2>4. quota_used' + ToCharge'[c] <= quota_used + ToCharge[c]
    BY <1>0, <2>1, <2>3
  <2> HIDE DEF Others
  <2> QED
    BY <1>0, <2>1, <2>2, <2>3, <2>4, OtherQuota DEF QuotaFits, Others
<1>5. ASSUME NEW c \in Clients, AddRow(c) \/ RemoveRow(c)
      PROVE  QuotaFits'
  <2>1. PICK n \in Nat \cup {NoRow} :
          /\ SetRow(task[c].file, n) /\ ChargeOf(n) = ToCharge[c]
          /\ task[c].file \in Files
    <3>1. CASE AddRow(c)
      <4>1. stage[c] = "written" /\ task[c].type = "upload" /\ SetRow(task[c].file, Size[task[c].payload])
        BY <3>1 DEF AddRow, Go, IInv, StagesFit
      <4>2. task[c].file \in Files /\ task[c].payload \in Payloads
        BY <4>1, TaskFields DEF IInv
      <4>3. ToCharge[c] = Size[task[c].payload] /\ Size[task[c].payload] \in Nat
        BY <4>1, <4>2, SizeAssumption DEF ToCharge, InFlight
      <4> QED
        BY <4>1, <4>2, <4>3 DEF ChargeOf, NoRow
    <3>2. CASE RemoveRow(c)
      <4>1. stage[c] = "removed" /\ SetRow(task[c].file, NoRow)
        BY <3>2 DEF RemoveRow, Go
      <4>2. task[c].file \in Files /\ ToCharge[c] = 0
        BY <4>1, TaskFields DEF IInv, ToCharge, InFlight
      <4> QED
        BY <4>1, <4>2 DEF ChargeOf
    <3> QED
      BY <1>5, <3>1, <3>2
  <2>2. /\ Others(c) /\ ToCharge'[c] = 0
    <3>1. stage' = [stage EXCEPT ![c] = "finish"] /\ task' = task
      BY <1>5 DEF AddRow, RemoveRow, Go
    <3>2. stage'[c] = "finish"
      BY <3>1 DEF IInv, Typed
    <3> QED
      BY <3>1, <3>2 DEF ToCharge, InFlight, IInv, Typed
  <2>3. /\ row' = [row EXCEPT ![task[c].file] = n] /\ quota_used' = SumOfRows(row')
        /\ row \in [Files -> Nat \cup {NoRow}]
    BY <2>1 DEF SetRow, IInv, Typed
  <2>4. /\ SumOfRows(row') \in Nat
        /\ SumOfRows(row') + ChargeOf(row[task[c].file]) = SumOfRows(row) + ChargeOf(n)
    BY <2>1, <2>3, RowSet
  <2>5. ChargeOf(row[task[c].file]) \in Nat
    BY <2>1, <2>3 DEF ChargeOf
  <2>6. quota_used' + ToCharge'[c] <= quota_used + ToCharge[c]
    BY <1>0, <2>1, <2>2, <2>3, <2>4, <2>5 DEF QuotaFits
  <2> HIDE DEF Others
  <2> QED
    BY <2>2, <2>3, <2>4, <2>6, OtherQuota DEF Others
<1> HIDE DEF Others
<1> QED
  BY <1>1, <1>2, <1>3, <1>4, <1>5 DEF Next

-----------------------------------------------------------------------------
(* The theorems about the quota *)

\* quota_used is the sum of the rows at every moment, and within the soft limit:
\* a transaction that changes a row sums them anew, and only Admit adds uploads.
THEOREM QuotaInvariance == Spec => []QuotaFits
<1>1. IInv /\ QuotaFits /\ [Next]_vars => QuotaFits'
  BY QuotaKeeps
<1> QED
  BY <1>1, InitQuota, Invariance, PTL DEF Spec

\* README.md: the soft limit may be exceeded, but by no more than one upload
\* of each session but one.
THEOREM SoftLimit == Spec => []QuotaSoftLimit
<1>1. QuotaFits => QuotaSoftLimit
  BY DEF QuotaFits
<1> QED
  BY <1>1, QuotaInvariance, PTL

\* A file at rest that no fault has hit matches its row, so it may stand for the
\* row in the sum.
LEMMA StoredCharged == IInv /\ QuotaFits => QuotaIsStored
<1> DEFINE Sound(f) == Quiet(f) /\ f \notin suspect
           bytes == [f \in Files |-> IF Sound(f) THEN BytesOf(disk[f]) ELSE ChargeOf(row[f])]
           Rows == {f \in Files : row[f] # NoRow}
<1> SUFFICES ASSUME IInv, QuotaFits
             PROVE  quota_used = SumFunction(bytes)
  BY DEF QuotaIsStored
<1>1. \A f \in Files : Sound(f) => Matches(f)
  BY InvMatches DEF DiskMatchesRows, Matches
<1>2. ASSUME NEW f \in Files
      PROVE  bytes[f] = ChargeOf(row[f])
  <2> SUFFICES ASSUME Sound(f) PROVE BytesOf(disk[f]) = ChargeOf(row[f])
    OBVIOUS
  <2>1. CASE disk[f] = Absent /\ row[f] = NoRow
    BY <2>1 DEF BytesOf, ChargeOf
  <2>2. ASSUME NEW p \in Payloads, disk[f] = Whole(p), row[f] = Size[p]
        PROVE  BytesOf(disk[f]) = ChargeOf(row[f])
    <3>1. Size[p] \in Nat /\ Whole(p) # Absent /\ Whole(p).of = p
      BY SizeAssumption, ContentsDiffer DEF Whole
    <3> QED
      BY <2>2, <3>1 DEF BytesOf, ChargeOf, NoRow
  <2> QED
    BY <1>1, <2>1, <2>2 DEF Matches
<1>3. Rows \in SUBSET Files /\ DOMAIN bytes = Files
  OBVIOUS
<1>4. /\ \A f \in Rows : bytes[f] = row[f] /\ bytes[f] \in Nat
      /\ \A f \in Files \ Rows : bytes[f] = 0
  BY <1>2 DEF ChargeOf, IInv, Typed
<1>5. SumFunctionOnSet(bytes, Files) = SumFunctionOnSet(row, Rows)
  <2> HIDE DEF bytes, Rows
  <2> QED
    BY <1>3, <1>4, FiniteAssumption, SumSame
<1> QED
  BY <1>3, <1>5 DEF QuotaFits, SumOfRows, SumFunction

\* db_add_or_update_file and db_remove_file sum the rows anew: whatever fails and
\* whenever the server is killed, the user is charged with what is on disk for a
\* file at rest no fault has hit, and with what the row says for any other.
THEOREM ChargedForStored == Spec => []QuotaIsStored
<1> QED
  BY StoredCharged, Invariance, QuotaInvariance, PTL
=============================================================================
