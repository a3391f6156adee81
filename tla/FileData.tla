------------------------------ MODULE FileData ------------------------------
(***************************************************************************)
(* What the files of a user contain, the commands on them and the answers. *)
(***************************************************************************)
EXTENDS FiniteSets

CONSTANTS Clients,    \* sessions of the user
          Files,      \* file names
          Payloads,   \* what can be uploaded
          NoFile, NoPayload,
          Faults      \* what may go wrong: "write", "flush", "database", "crash"

ASSUME NamesAssumption == NoFile \notin Files /\ NoPayload \notin Payloads
ASSUME FiniteAssumption == IsFiniteSet(Clients) /\ IsFiniteSet(Files) /\ IsFiniteSet(Payloads)
ASSUME SomeAssumption == Clients # {} /\ Payloads # {}

\* No file; the file of an upload that has not got all its bytes; all of them.
Absent == [state |-> "absent", of |-> NoPayload]
Cut(p) == [state |-> "cut", of |-> p]
Whole(p) == [state |-> "whole", of |-> p]
Contents == {Absent} \cup {Cut(p) : p \in Payloads} \cup {Whole(p) : p \in Payloads}

\* Task: type, filename, data_buffer.
Ops == [type : {"upload"}, file : Files, payload : Payloads]
       \cup [type : {"download", "delete"}, file : Files, payload : {NoPayload}]
NoOp == [type |-> "none", file |-> NoFile, payload |-> NoPayload]

\* Response: status and data.
Answer(s) == [status |-> s, data |-> Absent]
DataAnswer(d) == [status |-> "ok", data |-> d]
NoAnswer == Answer("none")
Responses == {Answer(s) : s \in {"none", "ok", "not found", "error"}}
             \cup {DataAnswer(d) : d \in Contents}
=============================================================================
