------------------------------ MODULE FileStore ------------------------------
(***************************************************************************)
(* The files of one user: the storage directory, the rows of the database  *)
(* and quota_used, under the uploads, downloads and deletes of several     *)
(* sessions.  An upload passes the quota check in its client thread        *)
(* (client_thread.c); what follows is the case of the command in           *)
(* worker_thread.c, with the transactions of database.c.                   *)
(*                                                                         *)
(* A client thread has one task at a time and waits for its answer, so the *)
(* task and the worker that runs it go by the name of the client.  There   *)
(* are as many workers as client threads (4), and any queued task may be   *)
(* next.  stage[c] is                                                      *)
(*   idle     no command                 queued   not yet locked           *)
(*   locked   owns the lock of the file  opened   fopen has cut the file   *)
(*   written  fwrite and fclose done     removed  the file is deleted      *)
(*   remove   a failed upload, lock given back, file still there           *)
(*   finish   to release what is held and to answer                        *)
(*                                                                         *)
(* The file locks are FileMutex: one mutex per file, which file_locks.c is *)
(* as long as paths do not collide (see FileLocks).  LIST changes nothing. *)
(*                                                                         *)
(* A file is known by the name the client gives.  The code makes the path, *)
(* the key of the row and the key of the lock from it without bringing it  *)
(* into a canonical form: "f" and "./f" are one file on disk with two rows *)
(* and two locks.  Bound: names are canonical, different names in Files    *)
(* are different files.                                                    *)
(***************************************************************************)
EXTENDS FileData, Integers, FiniteSets, Functions

CONSTANTS Size,       \* the number of bytes of each payload
          QuotaLimit  \* quota_limit

ASSUME SizeAssumption == Size \in [Payloads -> Nat]
ASSUME QuotaAssumption == QuotaLimit \in Nat

VARIABLES
  disk,        \* what each file has in the storage directory
  row,         \* the size in the file's row of the database, or NoRow
  quota_used,  \* users.quota_used
  held,        \* file locks: pairs <<c, f>>
  stage, task, answer,
  suspect      \* history: the files a fault has hit since they were last
               \* uploaded or deleted with success

vars == <<disk, row, quota_used, held, stage, task, answer, suspect>>

Locks == INSTANCE FileMutex WITH Workers <- Clients

NoRow == -1

Stages == {"idle", "queued", "locked", "opened", "written", "removed",
           "remove", "finish"}

\* Is c the worker that owns the lock of its file?
Owns(c) == <<c, task[c].file>> \in held

TypeOK ==
  /\ disk \in [Files -> Contents]
  /\ row \in [Files -> Nat \cup {NoRow}]
  /\ quota_used \in Nat
  /\ stage \in [Clients -> Stages]
  /\ task \in [Clients -> Ops \cup {NoOp}]
  /\ answer \in [Clients -> Responses]
  /\ suspect \subseteq Files
  /\ held \subseteq {<<c, task[c].file>> : c \in Clients}
  /\ \A c \in Clients :
       /\ stage[c] = "idle" <=> task[c] = NoOp
       /\ stage[c] \in {"locked", "opened", "written", "removed"} => Owns(c)
       /\ stage[c] \in {"idle", "queued", "remove"} => ~ Owns(c)

Init ==
  /\ disk = [f \in Files |-> Absent]
  /\ row = [f \in Files |-> NoRow]
  /\ quota_used = 0
  /\ held = {}
  /\ stage = [c \in Clients |-> "idle"]
  /\ task = [c \in Clients |-> NoOp]
  /\ answer = [c \in Clients |-> NoAnswer]
  /\ suspect = {}

\* SELECT COALESCE(SUM(size), 0) FROM files
SumOfRows(r) ==
  SumFunctionOnSet(r, {f \in Files : r[f] # NoRow})

Go(c, from, to) == stage[c] = from /\ stage' = [stage EXCEPT ![c] = to]
Say(c, a) == answer' = [answer EXCEPT ![c] = a]
Store(f, d) == disk' = [disk EXCEPT ![f] = d]

\* A transaction that gives f the row r and brings quota_used up to date.
SetRow(f, r) ==
  /\ row' = [row EXCEPT ![f] = r]
  /\ quota_used' = SumOfRows(row')

-----------------------------------------------------------------------------
(* The client thread *)

\* Variant: the size of the new file is not counted.
AdmitIfNotFull(c, f, p) ==
  /\ quota_used <= QuotaLimit
  /\ Go(c, "idle", "queued")
  /\ task' = [task EXCEPT ![c] = [type |-> "upload", file |-> f, payload |-> p]]
  /\ UNCHANGED <<disk, row, quota_used, held, answer, suspect>>

\* user_check_quota lets the upload pass; the data is received and queued.
Admit(c, f, p) ==
  /\ quota_used + Size[p] <= QuotaLimit
  /\ Go(c, "idle", "queued")
  /\ task' = [task EXCEPT ![c] = [type |-> "upload", file |-> f, payload |-> p]]
  /\ UNCHANGED <<disk, row, quota_used, held, answer, suspect>>

\* DOWNLOAD and DELETE are queued as they come.
Request(c, t, f) ==
  /\ Go(c, "idle", "queued")
  /\ task' = [task EXCEPT ![c] = [type |-> t, file |-> f, payload |-> NoPayload]]
  /\ UNCHANGED <<disk, row, quota_used, held, answer, suspect>>

-----------------------------------------------------------------------------
(* The worker *)

\* Variant: the lock is not waited for.
AcquireAnyway(c) ==
  /\ Go(c, "queued", "locked")
  /\ held' = held \cup {<<c, task[c].file>>}
  /\ UNCHANGED <<disk, row, quota_used, task, answer, suspect>>

\* file_lock_acquire
Acquire(c) ==
  /\ Go(c, "queued", "locked")
  /\ Locks!Acquire(c, task[c].file)
  /\ UNCHANGED <<disk, row, quota_used, task, answer, suspect>>

\* The command ends before it has touched anything: incomplete data, user not
\* found, no lock to be had, the file cannot be opened, read or removed.
Refuse(c) ==
  /\ Go(c, "queued", "finish") \/ Go(c, "locked", "finish")
  /\ Say(c, Answer("error"))
  /\ UNCHANGED <<disk, row, quota_used, held, task, suspect>>

\* fopen(path, "wb") creates the file or empties it.
Open(c) ==
  /\ task[c].type = "upload"
  /\ Go(c, "locked", "opened")
  /\ Store(task[c].file, Cut(task[c].payload))
  /\ UNCHANGED <<row, quota_used, held, task, answer, suspect>>

\* What c writes reaches the file, unless it has lost its name meanwhile.
Linked(c) == disk[task[c].file] # Absent

\* Variant: the lock is released before the row is written.
WriteReleasing(c) ==
  /\ Go(c, "opened", "written")
  /\ IF Linked(c) THEN Store(task[c].file, Whole(task[c].payload)) ELSE UNCHANGED disk
  /\ held' = held \ {<<c, task[c].file>>}
  /\ UNCHANGED <<row, quota_used, task, answer, suspect>>

\* fwrite and fclose, and all is well.
Write(c) ==
  /\ Go(c, "opened", "written")
  /\ IF Linked(c) THEN Store(task[c].file, Whole(task[c].payload)) ELSE UNCHANGED disk
  /\ UNCHANGED <<row, quota_used, held, task, answer, suspect>>

\* fclose cannot write what is still buffered; the upload goes on.
FlushFails(c) ==
  /\ "flush" \in Faults
  /\ Go(c, "opened", "written")
  /\ suspect' = suspect \cup {task[c].file}
  /\ UNCHANGED <<disk, row, quota_used, held, task, answer>>

\* fwrite fails or is incomplete: the lock is released at once.
WriteFails(c) ==
  /\ "write" \in Faults
  /\ Go(c, "opened", "remove")
  /\ Say(c, Answer("error"))
  /\ Locks!Release(c, task[c].file)
  /\ suspect' = suspect \cup {task[c].file}
  /\ UNCHANGED <<disk, row, quota_used, task>>

\* remove(path): whatever is there now.
RemoveIncomplete(c) ==
  /\ Go(c, "remove", "finish")
  /\ Store(task[c].file, Absent)
  /\ suspect' = suspect \cup {task[c].file}
  /\ UNCHANGED <<row, quota_used, held, task, answer>>

\* db_add_or_update_file commits.
AddRow(c) ==
  /\ Go(c, "written", "finish")
  /\ SetRow(task[c].file, Size[task[c].payload])
  /\ Say(c, Answer("ok"))
  /\ suspect' = IF disk[task[c].file] = Whole(task[c].payload)
                  THEN suspect \ {task[c].file} ELSE suspect
  /\ UNCHANGED <<disk, held, task>>

\* A transaction is rolled back: a warning, and the answer is OK.
RowFails(c) ==
  /\ "database" \in Faults
  /\ Go(c, "written", "finish") \/ Go(c, "removed", "finish")
  /\ Say(c, Answer("ok"))
  /\ suspect' = suspect \cup {task[c].file}
  /\ UNCHANGED <<disk, row, quota_used, held, task>>

Download(c) ==
  /\ task[c].type = "download"
  /\ Go(c, "locked", "finish")
  /\ Say(c, IF Linked(c) THEN DataAnswer(disk[task[c].file]) ELSE Answer("not found"))
  /\ UNCHANGED <<disk, row, quota_used, held, task, suspect>>

\* remove(path) of a DELETE.
Remove(c) ==
  /\ task[c].type = "delete" /\ Linked(c)
  /\ Go(c, "locked", "removed")
  /\ Store(task[c].file, Absent)
  /\ UNCHANGED <<row, quota_used, held, task, answer, suspect>>

RemoveMisses(c) ==
  /\ task[c].type = "delete" /\ ~ Linked(c)
  /\ Go(c, "locked", "finish")
  /\ Say(c, Answer("not found"))
  /\ UNCHANGED <<disk, row, quota_used, held, task, suspect>>

\* Variant: quota_used is left as it was.
RemoveRowUncharged(c) ==
  /\ Go(c, "removed", "finish")
  /\ row' = [row EXCEPT ![task[c].file] = NoRow]
  /\ Say(c, Answer("ok"))
  /\ suspect' = suspect \ {task[c].file}
  /\ UNCHANGED <<disk, quota_used, held, task>>

\* db_remove_file commits, or finds no row to delete.
RemoveRow(c) ==
  /\ Go(c, "removed", "finish")
  /\ SetRow(task[c].file, NoRow)
  /\ Say(c, Answer("ok"))
  /\ suspect' = suspect \ {task[c].file}
  /\ UNCHANGED <<disk, held, task>>

\* Variant: an error path that forgets the lock.
FinishHolding(c) ==
  /\ Go(c, "finish", "idle")
  /\ IF Owns(c) /\ answer[c].status # "error" THEN Locks!Release(c, task[c].file) ELSE UNCHANGED held
  /\ task' = [task EXCEPT ![c] = NoOp]
  /\ Say(c, NoAnswer)
  /\ UNCHANGED <<disk, row, quota_used, suspect>>

\* file_lock_release, where it has not been called yet, and the answer.
Finish(c) ==
  /\ Go(c, "finish", "idle")
  /\ IF Owns(c) THEN Locks!Release(c, task[c].file) ELSE UNCHANGED held
  /\ task' = [task EXCEPT ![c] = NoOp]
  /\ Say(c, NoAnswer)
  /\ UNCHANGED <<disk, row, quota_used, suspect>>

\* The server is killed and started again: disk and database stay.
Crash ==
  /\ "crash" \in Faults
  /\ suspect' = suspect \cup
       {task[c].file : c \in {d \in Clients : stage[d] \in {"opened", "written", "removed"}}}
  /\ held' = {}
  /\ stage' = [c \in Clients |-> "idle"]
  /\ task' = [c \in Clients |-> NoOp]
  /\ answer' = [c \in Clients |-> NoAnswer]
  /\ UNCHANGED <<disk, row, quota_used>>

-----------------------------------------------------------------------------

Next ==
  \/ \E c \in Clients :
       \/ \E f \in Files, p \in Payloads : Admit(c, f, p)
       \/ \E t \in {"download", "delete"}, f \in Files : Request(c, t, f)
       \/ Acquire(c) \/ Refuse(c)
       \/ Open(c) \/ Write(c) \/ FlushFails(c) \/ WriteFails(c)
       \/ RemoveIncomplete(c)
       \/ AddRow(c) \/ RemoveRow(c) \/ RowFails(c)
       \/ Download(c)
       \/ Remove(c) \/ RemoveMisses(c)
       \/ Finish(c)
  \/ Crash

Spec == Init /\ [][Next]_vars

-----------------------------------------------------------------------------
(* Properties *)

\* Nobody is past the lock of f, or about to remove it.
Quiet(f) == \A c \in Clients :
  task[c].file = f => stage[c] = "queued"

\* phase1_report.md: "Metadata in database synchronized with disk operations".
\* A file nobody works on has a row exactly if it is on disk, with its size,
\* unless a fault has hit it since it was last uploaded or deleted.
DiskMatchesRows ==
  \A f \in Files : Quiet(f) /\ f \notin suspect =>
    \/ disk[f] = Absent /\ row[f] = NoRow
    \/ \E p \in Payloads : disk[f] = Whole(p) /\ row[f] = Size[p]

BytesOf(d) == IF d = Absent THEN 0 ELSE Size[d.of]
ChargeOf(n) == IF n = NoRow THEN 0 ELSE n

\* At every moment, also after a fault or a restart, the user is charged for
\* each file at rest that no fault has hit what it has on disk, and for each
\* other what its row says.
QuotaIsStored ==
  quota_used =
    SumFunction([f \in Files |-> IF Quiet(f) /\ f \notin suspect
                                   THEN BytesOf(disk[f]) ELSE ChargeOf(row[f])])

\* Uploads that have passed the quota check and have no row yet.
InFlight == {c \in Clients : task[c].type = "upload"
                             /\ stage[c] \in {"queued", "locked", "opened", "written"}}
ToCharge == [c \in Clients |-> IF c \in InFlight THEN Size[task[c].payload] ELSE 0]
MaxSize == CHOOSE n \in {Size[p] : p \in Payloads} : \A p \in Payloads : Size[p] <= n

\* README.md: "Soft limit (checked before upload, but concurrent operations
\* may briefly exceed)".  How far: each session but one can add one upload.
QuotaSoftLimit ==
  quota_used + SumFunction(ToCharge) <= QuotaLimit + (Cardinality(Clients) - 1) * MaxSize

\* The row of a file at rest is that of a whole file on disk.
RowsAreFiles ==
  \A f \in Files : Quiet(f) /\ row[f] # NoRow =>
    \E p \in Payloads : disk[f] = Whole(p) /\ row[f] = Size[p]

\* phase2_report.md: "Sequential execution via file lock, no corruption".
\* What a finished upload has put on disk changes only in the hands of the
\* worker that owns the lock of the file, and no command, failed or cut short by
\* a restart, leaves a row of what is not there.
NoCorruption ==
  [][/\ \A f \in Files :
          (\E p \in Payloads : disk[f] = Whole(p)) /\ disk'[f] # disk[f]
            => \E c \in Clients : <<c, f>> \in held /\ stage'[c] # stage[c]
     /\ RowsAreFiles']_vars

\* Seen from the clients the server is a map from names to contents.  An
\* upload takes effect when its file is opened.
Writing(c, f) == stage[c] = "opened" /\ task[c].file = f /\ Linked(c)
View ==
  [f \in Files |->
     IF \E c \in Clients : Writing(c, f)
       THEN Whole(task[CHOOSE c \in Clients : Writing(c, f)].payload)
       ELSE disk[f]]
CallOf(c) ==
  [op |-> task[c],
   done |-> stage[c] \notin {"idle", "queued", "locked"},
   answer |-> IF stage[c] \in {"opened", "written", "removed"}
                THEN Answer("ok") ELSE answer[c]]
Calls == [c \in Clients |-> CallOf(c)]
Map == INSTANCE FileMap WITH store <- View, call <- Calls
ImplementsFileMap == Map!Spec
=============================================================================
