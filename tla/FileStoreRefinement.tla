------------------------- MODULE FileStoreRefinement -------------------------
(***************************************************************************)
(* For every number of sessions, files and payloads, and whatever faults   *)
(* can happen, the sessions of a user see the map of FileMap; and the      *)
(* types, with the locks each stage owns.                                  *)
(***************************************************************************)
EXTENDS FileStoreProofs

\* Who waits has no answer yet, and only a failed upload is removed.
AnswersFit ==
  /\ answer \in [Clients -> Responses]
  /\ \A c \in Clients :
       /\ stage[c] = "idle" => answer[c] = NoAnswer
       /\ stage[c] = "remove" => answer[c] = Answer("error") /\ "write" \in Faults

\* A file that is open for writing has been cut, and may have lost its name.
OpenedFit ==
  \A c \in Clients :
    stage[c] = "opened" => disk[task[c].file] \in {Absent, Cut(task[c].payload)}

\* Clients that work on the same file under its lock are one.
Alone ==
  \A c, d \in Clients :
    /\ stage[c] \in {"locked", "opened", "written", "removed"}
    /\ stage[d] \in {"locked", "opened", "written", "removed"}
    /\ task[c].file = task[d].file
    => c = d

\* What the clients see of f: the upload going on, or what is on disk.
ViewFits ==
  /\ View = [f \in Files |-> View[f]]
  /\ \A f \in Files :
       /\ \A c \in Clients : Writing(c, f) => View[f] = Whole(task[c].payload)
       /\ (\A c \in Clients : ~ Writing(c, f)) => View[f] = disk[f]

-----------------------------------------------------------------------------
(* Invariants *)

\* The lock of a file keeps others out.
LEMMA LockedAlone == IInv => Alone
<1> SUFFICES ASSUME IInv, NEW c \in Clients, NEW d \in Clients,
                    stage[c] \in {"locked", "opened", "written", "removed"},
                    stage[d] \in {"locked", "opened", "written", "removed"},
                    task[c].file = task[d].file
             PROVE  c = d
  BY DEF Alone
<1>1. task[c].file \in Files
  BY TaskFields DEF IInv
<1>2. <<c, task[c].file>> \in held /\ <<d, task[c].file>> \in held
  BY DEF IInv, LocksFit, Owns
<1> QED
  BY <1>1, <1>2 DEF IInv, LocksFit

\* At most one session writes to a file, so View shows what it writes.
LEMMA ViewKnown == IInv => ViewFits
<1> SUFFICES ASSUME IInv PROVE ViewFits
  OBVIOUS
<1>1. Alone
  BY LockedAlone
<1>2. ASSUME NEW f \in Files, NEW c \in Clients, Writing(c, f)
      PROVE  View[f] = Whole(task[c].payload)
  <2>1. \A d \in Clients : Writing(d, f) => d = c
    BY <1>1, <1>2 DEF Alone, Writing
  <2>2. (CHOOSE d \in Clients : Writing(d, f)) = c
    BY <1>2, <2>1
  <2> QED
    BY <1>2, <2>2 DEF View
<1>3. ASSUME NEW f \in Files, \A c \in Clients : ~ Writing(c, f)
      PROVE  View[f] = disk[f]
  BY <1>3 DEF View
<1>4. View = [f \in Files |-> View[f]]
  BY DEF View
<1> QED
  BY <1>2, <1>3, <1>4 DEF ViewFits

\* The answers there are.
LEMMA AnswersKnown ==
  /\ NoAnswer \in Responses
  /\ \A s \in {"none", "ok", "not found", "error"} : Answer(s) \in Responses
  /\ \A d \in Contents : DataAnswer(d) \in Responses
  BY DEF Responses, NoAnswer

\* Every step keeps the answers in order.
LEMMA AnswersKeep ==
  ASSUME IInv, AnswersFit, [Next]_vars
  PROVE  AnswersFit'
<1> USE AnswersKnown DEF AnswersFit, IInv, Typed, Stages
<1>1. CASE UNCHANGED vars
  BY <1>1 DEF vars
<1>2. CASE Crash
  BY <1>2 DEF Crash
<1>3. ASSUME NEW c \in Clients,
             \/ \E f \in Files, p \in Payloads : Admit(c, f, p)
             \/ \E t \in {"download", "delete"}, f \in Files : Request(c, t, f)
      PROVE  AnswersFit'
  BY <1>3 DEF Admit, Request, Go
<1>4. ASSUME NEW c \in Clients, Acquire(c) \/ Open(c) \/ Write(c) \/ FlushFails(c) \/ Remove(c)
      PROVE  AnswersFit'
  BY <1>4 DEF Acquire, Open, Write, FlushFails, Remove, Go
<1>5. ASSUME NEW c \in Clients, Refuse(c) \/ WriteFails(c) \/ RemoveIncomplete(c)
      PROVE  AnswersFit'
  BY <1>5 DEF Refuse, WriteFails, RemoveIncomplete, Go, Say
<1>6. ASSUME NEW c \in Clients, AddRow(c) \/ RemoveRow(c) \/ RowFails(c) \/ RemoveMisses(c)
      PROVE  AnswersFit'
  BY <1>6 DEF AddRow, RemoveRow, RowFails, RemoveMisses, Go, Say
<1>7. ASSUME NEW c \in Clients, Download(c)
      PROVE  AnswersFit'
  <2>1. task[c].file \in Files
    BY <1>7, TaskFields DEF Download, Go
  <2>2. DataAnswer(disk[task[c].file]) \in Responses
    BY <2>1
  <2> QED
    BY <1>7, <2>2 DEF Download, Go, Say
<1>8. ASSUME NEW c \in Clients, Finish(c)
      PROVE  AnswersFit'
  BY <1>8 DEF Finish, Go, Say
<1> QED
  BY <1>1, <1>2, <1>3, <1>4, <1>5, <1>6, <1>7, <1>8 DEF Next

\* An open file is cut or gone: only the worker that has it open writes to it,
\* and the remove of a failed upload, which holds no lock, takes it away.
LEMMA OpenedKeeps ==
  ASSUME IInv, OpenedFit, [Next]_vars
  PROVE  OpenedFit'
<1> USE DEF OpenedFit, IInv, Typed
<1>0. /\ \A c \in Clients : stage[c] # "idle" => task[c].file \in Files
      /\ Alone
  BY TaskFields, LockedAlone
<1>1. CASE UNCHANGED vars
  BY <1>1 DEF vars
<1>2. CASE Crash
  BY <1>2 DEF Crash
<1>3. ASSUME NEW c \in Clients,
             \/ \E f \in Files, p \in Payloads : Admit(c, f, p)
             \/ \E t \in {"download", "delete"}, f \in Files : Request(c, t, f)
             \/ Acquire(c) \/ Refuse(c)
      PROVE  OpenedFit'
  BY <1>3 DEF Admit, Request, Acquire, Refuse, Go
<1>4. ASSUME NEW c \in Clients,
             \/ FlushFails(c) \/ WriteFails(c) \/ AddRow(c) \/ RemoveRow(c) \/ RowFails(c)
             \/ Download(c) \/ RemoveMisses(c) \/ Finish(c)
      PROVE  OpenedFit'
  BY <1>4 DEF FlushFails, WriteFails, AddRow, RemoveRow, RowFails, Download, RemoveMisses, Finish, Go
<1>5. ASSUME NEW c \in Clients, Open(c)
      PROVE  OpenedFit'
  BY <1>0, <1>5 DEF Open, Go, Store, Alone
<1>6. ASSUME NEW c \in Clients, Write(c)
      PROVE  OpenedFit'
  BY <1>0, <1>6 DEF Write, Go, Store, Alone
<1>7. ASSUME NEW c \in Clients, RemoveIncomplete(c) \/ Remove(c)
      PROVE  OpenedFit'
  BY <1>0, <1>7 DEF RemoveIncomplete, Remove, Go, Store
<1> QED
  BY <1>1, <1>2, <1>3, <1>4, <1>5, <1>6, <1>7 DEF Next

-----------------------------------------------------------------------------
(* The refinement *)

\* Nobody but c goes on.
OthersStand(c) ==
  \A d \in Clients \ {c} :
    stage'[d] = stage[d] /\ task'[d] = task[d] /\ answer'[d] = answer[d]

\* A step of c changes the call of c at most.
LEMMA OneCall ==
  ASSUME NEW c \in Clients, OthersStand(c)
  PROVE  /\ Calls[c] = CallOf(c)
         /\ Calls' = [Calls EXCEPT ![c] = CallOf(c)']
         /\ CallOf(c)' = CallOf(c) => Calls' = Calls
<1>1. \A d \in Clients \ {c} : CallOf(d)' = CallOf(d)
  BY DEF OthersStand, CallOf
<1> QED
  BY <1>1 DEF Calls

\* The view stays if the disk does and nobody begins or ends writing.
LEMMA ViewStays ==
  ASSUME ViewFits, ViewFits', disk' = disk,
         \A c \in Clients, f \in Files :
           /\ Writing(c, f)' <=> Writing(c, f)
           /\ Writing(c, f) => task'[c].payload = task[c].payload
  PROVE  View' = View
  BY DEF ViewFits

\* A client without a call makes one: Admit and Request.
LEMMA InvokeMaps ==
  ASSUME IInv, AnswersFit, ViewFits, ViewFits', NEW c \in Clients,
         \/ \E f \in Files, p \in Payloads : Admit(c, f, p)
         \/ \E t \in {"download", "delete"}, f \in Files : Request(c, t, f)
  PROVE  Map!Next
<1>1. /\ stage[c] = "idle" /\ stage'[c] = "queued"
      /\ disk' = disk /\ answer' = answer
      /\ OthersStand(c)
  BY DEF Admit, Request, Go, OthersStand, IInv, Typed
<1>2. PICK o \in Ops : task'[c] = o
  BY CommandsBuilt DEF Admit, Request, IInv, Typed
<1>3. View' = View
  BY <1>1, ViewStays DEF Writing, Linked, OthersStand
<1>4. CallOf(c) = Map!Idle
  BY <1>1 DEF CallOf, Map!Idle, Map!NoOp, NoOp, Map!NoAnswer, NoAnswer, Map!Answer, Answer,
     Map!Absent, Absent, AnswersFit, IInv, StagesFit
<1>5. CallOf(c)' = [op |-> o, done |-> FALSE, answer |-> Map!NoAnswer]
  BY <1>1, <1>2, <1>4 DEF CallOf, Map!Idle
<1>6. Map!Invoke(c, o)
  BY <1>1, <1>3, <1>4, <1>5, OneCall DEF Map!Invoke
<1>7. o \in Map!Ops
  BY DEF Ops, Map!Ops
<1> QED
  BY <1>6, <1>7 DEF Map!Next

\* Open is the Put of the map: the lock of the file keeps other writers out.
LEMMA OpenMaps ==
  ASSUME IInv, ViewFits, ViewFits', NEW c \in Clients, Open(c)
  PROVE  Map!Next
<1>1. PICK f \in Files, p \in Payloads : task[c].file = f /\ task[c].payload = p
  BY TaskFields DEF Open, Go, IInv
<1>2. /\ stage[c] = "locked" /\ stage'[c] = "opened"
      /\ task' = task /\ task[c].type = "upload"
      /\ disk' = [disk EXCEPT ![f] = Cut(p)] /\ answer' = answer
      /\ OthersStand(c)
  BY <1>1 DEF Open, Go, Store, OthersStand, IInv, Typed
<1>3. View'[f] = Whole(p)
  <2>1. disk'[f] = Cut(p) /\ Cut(p) # Absent
    BY <1>2, ContentsDiffer DEF IInv, Typed
  <2>2. Writing(c, f)'
    BY <1>1, <1>2, <2>1 DEF Writing, Linked
  <2> QED
    BY <1>1, <1>2, <2>2 DEF ViewFits
<1>4. ASSUME NEW g \in Files, g # f
      PROVE  View'[g] = View[g]
  <2>1. disk'[g] = disk[g]
    BY <1>2, <1>4 DEF IInv, Typed
  <2>2. \A d \in Clients : Writing(d, g)' <=> Writing(d, g)
    BY <1>1, <1>2, <1>4, <2>1 DEF Writing, Linked, OthersStand
  <2> QED
    BY <1>2, <2>1, <2>2 DEF ViewFits
<1>5. View' = [View EXCEPT ![f] = Whole(p)]
  BY <1>3, <1>4 DEF ViewFits
<1>6. /\ CallOf(c).op = task[c] /\ CallOf(c).done = FALSE
      /\ CallOf(c)' = [op |-> task[c], done |-> TRUE, answer |-> Answer("ok")]
  BY <1>2 DEF CallOf
<1>7. Calls[c] = CallOf(c) /\ Calls' = [Calls EXCEPT ![c] = CallOf(c)']
  BY <1>2, OneCall
<1>8. Map!Pending(c, "upload")
  BY <1>2, <1>6, <1>7 DEF Map!Pending
<1>9. Map!Done(c, Map!Answer("ok"))
  BY <1>6, <1>7 DEF Map!Done, Map!Answer, Answer, Map!Absent, Absent
<1>10. View' = [View EXCEPT ![Calls[c].op.file] = Map!Whole(Calls[c].op.payload)]
  BY <1>1, <1>5, <1>6, <1>7 DEF Map!Whole, Whole
<1>11. Map!Put(c)
  BY <1>8, <1>9, <1>10 DEF Map!Put
<1> QED
  BY <1>11 DEF Map!Next

\* What is done between the effect of a command and its answer is not seen.
LEMMA StutterMaps ==
  ASSUME IInv, IInv', AnswersFit, ViewFits, ViewFits', NEW c \in Clients,
         Acquire(c) \/ Write(c) \/ AddRow(c) \/ RemoveRow(c) \/ RowFails(c)
  PROVE  View' = View /\ Calls' = Calls
<1>1. /\ OthersStand(c) /\ task' = task
      /\ CallOf(c)' = CallOf(c)
  <2>1. CASE Acquire(c)
    BY <2>1 DEF Acquire, Go, OthersStand, CallOf, IInv, Typed
  <2>2. CASE Write(c)
    BY <2>2 DEF Write, Go, OthersStand, CallOf, IInv, Typed
  <2>3. CASE AddRow(c) \/ RemoveRow(c) \/ RowFails(c)
    <3>1. stage[c] \in {"written", "removed"} /\ stage'[c] = "finish" /\ task' = task
      BY <2>3 DEF AddRow, RemoveRow, RowFails, Go, IInv, Typed
    <3>2. answer' = [answer EXCEPT ![c] = Answer("ok")]
      BY <2>3 DEF AddRow, RemoveRow, RowFails, Say
    <3>3. OthersStand(c)
      BY <2>3, <3>1, <3>2 DEF AddRow, RemoveRow, RowFails, Go, OthersStand, IInv, Typed, AnswersFit
    <3>4. answer'[c] = Answer("ok")
      BY <3>2 DEF AnswersFit
    <3> QED
      BY <3>1, <3>3, <3>4 DEF CallOf
  <2> QED
    BY <2>1, <2>2, <2>3
<1>2. CASE ~ Write(c)
  <2>1. disk' = disk /\ stage[c] # "opened" /\ stage'[c] # "opened"
    BY <1>2 DEF Acquire, AddRow, RemoveRow, RowFails, Go, IInv, Typed
  <2>2. View' = View
    BY <1>1, <2>1, ViewStays DEF Writing, Linked, OthersStand
  <2> QED
    BY <1>1, <2>2, OneCall
<1>3. CASE Write(c) /\ ~ Linked(c)
  <2>1. disk' = disk
    BY <1>3 DEF Write
  <2>2. View' = View
    BY <1>1, <1>3, <2>1, ViewStays DEF Writing, Linked, OthersStand
  <2> QED
    BY <1>1, <2>2, OneCall
<1>4. CASE Write(c) /\ Linked(c)
  <2>0. PICK f \in Files : f = task[c].file
    BY <1>4, TaskFields DEF Write, Go, IInv
  <2>1. /\ stage[c] = "opened" /\ stage'[c] = "written"
        /\ disk' = [disk EXCEPT ![f] = Whole(task[c].payload)]
    BY <1>4, <2>0 DEF Write, Go, Store, IInv, Typed
  <2>2. Writing(c, f) /\ View[f] = Whole(task[c].payload)
    BY <1>4, <2>0, <2>1 DEF Writing, ViewFits
  <2>3. \A d \in Clients : ~ Writing(d, f)'
    BY <1>1, <2>0, <2>1, LockedAlone DEF Alone, Writing, OthersStand
  <2>4. View'[f] = View[f]
    BY <2>1, <2>2, <2>3 DEF ViewFits, IInv, Typed
  <2>5. ASSUME NEW g \in Files, g # f
        PROVE  View'[g] = View[g]
    <3>1. disk'[g] = disk[g]
      BY <2>1, <2>5 DEF IInv, Typed
    <3>2. \A d \in Clients : Writing(d, g)' <=> Writing(d, g)
      BY <1>1, <2>0, <2>1, <2>5, <3>1 DEF Writing, Linked, OthersStand
    <3> QED
      BY <1>1, <3>1, <3>2 DEF ViewFits
  <2>6. View' = View
    BY <2>4, <2>5 DEF ViewFits
  <2> QED
    BY <1>1, <2>6, OneCall
<1> QED
  BY <1>2, <1>3, <1>4

\* An error path taken before the file is touched leaves the map alone.
LEMMA RefuseMaps ==
  ASSUME IInv, AnswersFit, ViewFits, ViewFits', NEW c \in Clients, Refuse(c)
  PROVE  Map!Next
<1>1. /\ stage[c] \in {"queued", "locked"} /\ stage'[c] = "finish"
      /\ task' = task /\ disk' = disk /\ answer'[c] = Answer("error")
      /\ OthersStand(c)
  BY DEF Refuse, Go, Say, OthersStand, IInv, Typed, AnswersFit
<1>2. View' = View
  BY <1>1, ViewStays DEF Writing, Linked, OthersStand
<1>3. /\ CallOf(c).op = task[c] /\ CallOf(c).done = FALSE
      /\ CallOf(c)' = [op |-> task[c], done |-> TRUE, answer |-> Answer("error")]
  BY <1>1 DEF CallOf
<1>4. Calls[c] = CallOf(c) /\ Calls' = [Calls EXCEPT ![c] = CallOf(c)']
  BY <1>1, OneCall
<1>5. task[c] # Map!NoOp
  BY <1>1 DEF IInv, StagesFit, Map!NoOp, NoOp
<1>6. Map!Done(c, Map!Answer("error"))
  BY <1>3, <1>4 DEF Map!Done, Map!Answer, Answer, Map!Absent, Absent
<1>7. Map!Refuse(c)
  BY <1>2, <1>3, <1>4, <1>5, <1>6 DEF Map!Refuse
<1> QED
  BY <1>7 DEF Map!Next

\* A download reads what the map has: no upload of the file is going on.
LEMMA DownloadMaps ==
  ASSUME IInv, AnswersFit, ViewFits, ViewFits', NEW c \in Clients, Download(c)
  PROVE  Map!Next
<1>1. PICK f \in Files : task[c].file = f
  BY TaskFields DEF Download, Go, IInv
<1>2. /\ stage[c] = "locked" /\ stage'[c] = "finish" /\ task[c].type = "download"
      /\ task' = task /\ disk' = disk
      /\ answer'[c] = IF disk[f] = Absent THEN Answer("not found") ELSE DataAnswer(disk[f])
      /\ OthersStand(c)
  BY <1>1 DEF Download, Linked, Go, Say, OthersStand, IInv, Typed, AnswersFit
<1>3. View' = View
  BY <1>2, ViewStays DEF Writing, Linked, OthersStand
<1>4. View[f] = disk[f]
  BY <1>1, <1>2, LockedAlone DEF Alone, Writing, ViewFits
<1>5. /\ CallOf(c).op = task[c] /\ CallOf(c).done = FALSE
      /\ CallOf(c)' = [op |-> task[c], done |-> TRUE, answer |-> answer'[c]]
  BY <1>2 DEF CallOf
<1>6. Calls[c] = CallOf(c) /\ Calls' = [Calls EXCEPT ![c] = CallOf(c)']
  BY <1>2, OneCall
<1>7. Map!Done(c, IF View[f] = Map!Absent THEN Map!Answer("not found") ELSE Map!DataAnswer(View[f]))
  BY <1>2, <1>4, <1>5, <1>6
     DEF Map!Done, Map!Answer, Answer, Map!Absent, Absent, Map!DataAnswer, DataAnswer
<1>8. Map!Get(c)
  BY <1>1, <1>2, <1>3, <1>5, <1>6, <1>7 DEF Map!Get, Map!Pending
<1> QED
  BY <1>8 DEF Map!Next

\* The remove of a DELETE takes the file from the map, or finds none.
LEMMA DropMaps ==
  ASSUME IInv, AnswersFit, ViewFits, ViewFits', NEW c \in Clients, Remove(c) \/ RemoveMisses(c)
  PROVE  Map!Next
<1>1. PICK f \in Files : task[c].file = f
  BY TaskFields DEF Remove, RemoveMisses, Go, IInv
<1>2. /\ stage[c] = "locked" /\ stage'[c] \in {"removed", "finish"}
      /\ task[c].type = "delete" /\ task' = task
      /\ OthersStand(c)
  BY DEF Remove, RemoveMisses, Go, Say, OthersStand, IInv, Typed, AnswersFit
<1>3. disk' = [disk EXCEPT ![f] = Absent]
  BY <1>1 DEF Remove, RemoveMisses, Linked, Store, IInv, Typed
<1>4. /\ disk[f] # Absent => stage'[c] = "removed"
      /\ disk[f] = Absent => stage'[c] = "finish" /\ answer'[c] = Answer("not found")
  BY <1>1 DEF Remove, RemoveMisses, Linked, Go, Say, IInv, Typed, AnswersFit
<1>5. View[f] = disk[f]
  BY <1>1, <1>2, LockedAlone DEF Alone, Writing, ViewFits
<1>6. View'[f] = Absent
  <2>1. disk'[f] = Absent
    BY <1>3 DEF IInv, Typed
  <2>2. \A d \in Clients : ~ Writing(d, f)'
    BY <1>2, <2>1 DEF Writing, Linked
  <2> QED
    BY <2>1, <2>2 DEF ViewFits
<1>7. ASSUME NEW g \in Files, g # f
      PROVE  View'[g] = View[g]
  <2>1. disk'[g] = disk[g]
    BY <1>3, <1>7 DEF IInv, Typed
  <2>2. \A d \in Clients : Writing(d, g)' <=> Writing(d, g)
    BY <1>1, <1>2, <1>7, <2>1 DEF Writing, Linked, OthersStand
  <2> QED
    BY <1>2, <2>1, <2>2 DEF ViewFits
<1>8. View' = [View EXCEPT ![f] = Absent]
  BY <1>6, <1>7 DEF ViewFits
<1>9. /\ CallOf(c).op = task[c] /\ CallOf(c).done = FALSE
      /\ CallOf(c)' = [op |-> task[c], done |-> TRUE,
                       answer |-> Answer(IF disk[f] = Absent THEN "not found" ELSE "ok")]
  BY <1>2, <1>4 DEF CallOf
<1>10. Calls[c] = CallOf(c) /\ Calls' = [Calls EXCEPT ![c] = CallOf(c)']
  BY <1>2, OneCall
<1>11. Map!Done(c, Map!Answer(IF View[f] = Map!Absent THEN "not found" ELSE "ok"))
  BY <1>5, <1>9, <1>10 DEF Map!Done, Map!Answer, Answer, Map!Absent, Absent
<1>12. Map!Drop(c)
  BY <1>1, <1>2, <1>8, <1>9, <1>10, <1>11 DEF Map!Drop, Map!Pending, Map!Absent, Absent
<1> QED
  BY <1>12 DEF Map!Next

\* A failed fclose, a failed fwrite and the remove that follows it spoil the
\* file of the upload and no other.
LEMMA SpoilMaps ==
  ASSUME IInv, IInv', AnswersFit, OpenedFit, ViewFits, ViewFits', NEW c \in Clients,
         FlushFails(c) \/ WriteFails(c) \/ RemoveIncomplete(c)
  PROVE  Map!Next
<1>1. PICK f \in Files, p \in Payloads : task[c].file = f /\ task[c].payload = p
  BY TaskFields DEF FlushFails, WriteFails, RemoveIncomplete, Go, IInv, StagesFit
<1>2. /\ stage[c] \in {"opened", "remove"} /\ stage'[c] \in {"written", "remove", "finish"}
      /\ task[c].type = "upload" /\ task' = task /\ Faults # {}
      /\ OthersStand(c)
  BY DEF FlushFails, WriteFails, RemoveIncomplete, Go, Say, OthersStand, IInv, Typed, StagesFit,
     AnswersFit
<1>3. /\ \A g \in Files \ {f} : disk'[g] = disk[g]
      /\ disk'[f] \in {Absent, Cut(p)}
  BY <1>1 DEF FlushFails, WriteFails, RemoveIncomplete, Go, Store, IInv, Typed, OpenedFit
<1>4. \A d \in Clients : ~ Writing(d, f)'
  <2>1. CASE RemoveIncomplete(c)
    <3>1. disk'[f] = Absent
      BY <1>1, <2>1 DEF RemoveIncomplete, Store, IInv, Typed
    <3> QED
      BY <3>1 DEF Writing, Linked
  <2>2. CASE FlushFails(c) \/ WriteFails(c)
    <3>1. stage[c] = "opened" /\ disk' = disk
      BY <2>2 DEF FlushFails, WriteFails, Go
    <3> QED
      BY <1>1, <1>2, <3>1, LockedAlone DEF Alone, Writing, OthersStand
  <2> QED
    BY <2>1, <2>2
<1>5. View'[f] \in {Absent, Cut(p)}
  BY <1>3, <1>4 DEF ViewFits
<1>6. ASSUME NEW g \in Files, g # f
      PROVE  View'[g] = View[g]
  <2>1. disk'[g] = disk[g]
    BY <1>3, <1>6
  <2>2. \A d \in Clients : Writing(d, g)' <=> Writing(d, g)
    BY <1>1, <1>2, <1>6, <2>1 DEF Writing, Linked, OthersStand
  <2> QED
    BY <1>2, <2>1, <2>2 DEF ViewFits
<1>7. View' = [View EXCEPT ![f] = View'[f]]
  BY <1>6 DEF ViewFits
<1>8. PICK s \in {"ok", "error"} : CallOf(c)' = [op |-> task[c], done |-> TRUE, answer |-> Answer(s)]
  <2>1. CASE FlushFails(c)
    BY <1>2, <2>1 DEF FlushFails, Go, IInv, Typed, CallOf
  <2>2. CASE WriteFails(c)
    BY <1>2, <2>2 DEF WriteFails, Go, Say, IInv, Typed, AnswersFit, CallOf
  <2>3. CASE RemoveIncomplete(c)
    BY <1>2, <2>3 DEF RemoveIncomplete, Go, IInv, Typed, AnswersFit, CallOf
  <2> QED
    BY <2>1, <2>2, <2>3
<1>9. CallOf(c).op = task[c] /\ CallOf(c).done = TRUE
  BY <1>2 DEF CallOf
<1>10. Calls[c] = CallOf(c) /\ Calls' = [Calls EXCEPT ![c] = CallOf(c)']
  BY <1>2, OneCall
<1>11. Map!Done(c, Map!Answer(s))
  BY <1>8, <1>9, <1>10 DEF Map!Done, Map!Answer, Answer, Map!Absent, Absent
<1>12. PICK d \in {Map!Absent} \cup {Map!Cut(q) : q \in Payloads} : View' = [View EXCEPT ![f] = d]
  BY <1>5, <1>7 DEF Map!Absent, Absent, Map!Cut, Cut
<1>13. Map!Spoil(c)
  BY <1>1, <1>2, <1>9, <1>10, <1>11, <1>12 DEF Map!Spoil
<1> QED
  BY <1>13 DEF Map!Next

\* The answer is sent and the call is over.
LEMMA ReturnMaps ==
  ASSUME IInv, AnswersFit, ViewFits, ViewFits', NEW c \in Clients, Finish(c)
  PROVE  Map!Next
<1>1. /\ stage[c] = "finish" /\ stage'[c] = "idle"
      /\ task'[c] = NoOp /\ answer'[c] = NoAnswer /\ disk' = disk
      /\ OthersStand(c)
  BY DEF Finish, Go, Say, OthersStand, IInv, Typed, AnswersFit
<1>2. View' = View
  BY <1>1, ViewStays DEF Writing, Linked, OthersStand
<1>3. CallOf(c).done = TRUE /\ CallOf(c)' = Map!Idle
  BY <1>1 DEF CallOf, Map!Idle, Map!NoOp, NoOp, Map!NoAnswer, NoAnswer, Map!Answer, Answer,
     Map!Absent, Absent
<1>4. Calls[c] = CallOf(c) /\ Calls' = [Calls EXCEPT ![c] = CallOf(c)']
  BY <1>1, OneCall
<1>5. Map!Return(c)
  BY <1>2, <1>3, <1>4 DEF Map!Return
<1> QED
  BY <1>5 DEF Map!Next

\* After a restart there are no calls, and what was open is cut short.
LEMMA CrashMaps ==
  ASSUME IInv, OpenedFit, ViewFits, ViewFits', Crash
  PROVE  Map!Next
<1>1. /\ "crash" \in Faults /\ disk' = disk
      /\ \A c \in Clients : stage'[c] = "idle" /\ task'[c] = NoOp /\ answer'[c] = NoAnswer
  BY DEF Crash
<1>2. \A f \in Files : View'[f] = disk[f]
  BY <1>1 DEF ViewFits, Writing
<1>3. View' \in [Files -> Map!Contents]
  BY <1>2 DEF ViewFits, IInv, Typed, Map!Contents, Contents, Map!Absent, Absent, Map!Cut, Cut,
     Map!Whole, Whole
<1>4. ASSUME NEW f \in Files, View'[f] # View[f]
      PROVE  /\ \E p \in Payloads : View'[f] = Map!Cut(p)
             /\ \E c \in Clients : /\ Calls[c].op.type = "upload" /\ Calls[c].done
                                   /\ Calls[c].op.file = f
  <2>1. PICK c \in Clients : Writing(c, f)
    BY <1>2, <1>4 DEF ViewFits
  <2>2. stage[c] = "opened" /\ task[c].file = f /\ task[c].type = "upload" /\ disk[f] # Absent
    BY <2>1 DEF Writing, Linked, IInv, StagesFit
  <2>3. task[c].payload \in Payloads
    BY <2>2, TaskFields DEF IInv
  <2>4. disk[f] = Map!Cut(task[c].payload)
    BY <2>2 DEF OpenedFit, Map!Cut, Cut
  <2>5. Calls[c].op = task[c] /\ Calls[c].done = TRUE
    BY <2>2 DEF Calls, CallOf
  <2> QED
    BY <1>2, <2>2, <2>3, <2>4, <2>5
<1>5. \A c \in Clients : CallOf(c)' = Map!Idle
  BY <1>1 DEF CallOf, Map!Idle, Map!NoOp, NoOp, Map!NoAnswer, NoAnswer, Map!Answer, Answer,
     Map!Absent, Absent
<1>6. Calls' = [c \in Clients |-> Map!Idle]
  BY <1>5 DEF Calls
<1>7. Map!Crash
  BY <1>1, <1>3, <1>4, <1>6 DEF Map!Crash
<1> QED
  BY <1>7 DEF Map!Next

-----------------------------------------------------------------------------
(* The theorems *)

\* The answers and the open files are as they should be in every state.
THEOREM CallInvariance == Spec => [](AnswersFit /\ OpenedFit)
<1>1. Init => AnswersFit /\ OpenedFit
  BY AnswersKnown DEF Init, AnswersFit, OpenedFit, NoAnswer
<1>2. IInv /\ AnswersFit /\ OpenedFit /\ [Next]_vars => (AnswersFit /\ OpenedFit)'
  BY AnswersKeep, OpenedKeeps
<1> QED
  BY <1>1, <1>2, Invariance, PTL DEF Spec

\* The types, and which worker owns a lock at which stage: every path through
\* a command of the worker gives back what it has taken.
THEOREM TypeCorrect == Spec => []TypeOK
<1>1. IInv /\ QuotaFits /\ AnswersFit => TypeOK
  <2> SUFFICES ASSUME IInv, QuotaFits, AnswersFit PROVE TypeOK
    OBVIOUS
  <2>1. quota_used \in Nat
    BY RowSum DEF QuotaFits, IInv, Typed
  <2>2. held \subseteq {<<c, task[c].file>> : c \in Clients}
    BY DEF IInv, Typed, LocksFit
  <2> QED
    BY <2>1, <2>2 DEF TypeOK, IInv, Typed, StagesFit, LocksFit, AnswersFit
<1> QED
  BY <1>1, Invariance, QuotaInvariance, CallInvariance, PTL

\* To the sessions of a user, the case statements of the worker with the file
\* locks around them are a map from names to contents.
THEOREM Refinement == Spec => ImplementsFileMap
<1>1. Init => Map!Init
  <2> SUFFICES ASSUME Init PROVE Map!Init
    OBVIOUS
  <2>1. \A c \in Clients, f \in Files : ~ Writing(c, f)
    BY DEF Init, Writing
  <2>2. View = [f \in Files |-> Map!Absent]
    BY <2>1 DEF View, Init, Map!Absent, Absent
  <2>3. \A c \in Clients : CallOf(c) = Map!Idle
    BY DEF Init, CallOf, Map!Idle, Map!NoOp, NoOp, Map!NoAnswer, NoAnswer, Map!Answer, Answer,
       Map!Absent, Absent
  <2> QED
    BY <2>2, <2>3 DEF Map!Init, Calls
<1>2. IInv /\ IInv' /\ AnswersFit /\ OpenedFit /\ ViewFits /\ ViewFits' /\ [Next]_vars
        => [Map!Next]_(Map!mapvars)
  <2> SUFFICES ASSUME IInv, IInv', AnswersFit, OpenedFit, ViewFits, ViewFits', [Next]_vars
               PROVE  Map!Next \/ (View' = View /\ Calls' = Calls)
    BY DEF Map!mapvars
  <2>1. CASE UNCHANGED vars
    BY <2>1 DEF vars, View, Writing, Linked, Calls, CallOf
  <2>2. CASE Crash
    BY <2>2, CrashMaps
  <2>3. ASSUME NEW c \in Clients,
               \/ \E f \in Files, p \in Payloads : Admit(c, f, p)
               \/ \E t \in {"download", "delete"}, f \in Files : Request(c, t, f)
        PROVE  Map!Next
    BY <2>3, InvokeMaps
  <2>4. ASSUME NEW c \in Clients,
               Acquire(c) \/ Write(c) \/ AddRow(c) \/ RemoveRow(c) \/ RowFails(c)
        PROVE  View' = View /\ Calls' = Calls
    BY <2>4, StutterMaps
  <2>5. ASSUME NEW c \in Clients,
               \/ Refuse(c) \/ Open(c) \/ Download(c) \/ Remove(c) \/ RemoveMisses(c)
               \/ FlushFails(c) \/ WriteFails(c) \/ RemoveIncomplete(c) \/ Finish(c)
        PROVE  Map!Next
    BY <2>5, RefuseMaps, OpenMaps, DownloadMaps, DropMaps, SpoilMaps, ReturnMaps
  <2> QED
    BY <2>1, <2>2, <2>3, <2>4, <2>5 DEF Next
<1> QED
  BY <1>1, <1>2, Invariance, CallInvariance, ViewKnown, PTL DEF Spec, ImplementsFileMap, Map!Spec
=============================================================================
