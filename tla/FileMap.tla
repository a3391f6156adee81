------------------------------- MODULE FileMap -------------------------------
(***************************************************************************)
(* What the server promises the clients of one user: a map from names to   *)
(* contents.  A command is called, takes effect in one step, and returns;  *)
(* the answer is the one the map gave at that step.  If faults can happen, *)
(* an upload that has not returned may find its file cut short or gone,    *)
(* and so may everybody else.  FileStore is shown to implement this.       *)
(***************************************************************************)
EXTENDS FileData

VARIABLES store,  \* the map
          call    \* the call of each client: op, whether it took effect, answer

mapvars == <<store, call>>

Idle == [op |-> NoOp, done |-> FALSE, answer |-> NoAnswer]

Init ==
  /\ store = [f \in Files |-> Absent]
  /\ call = [c \in Clients |-> Idle]

Invoke(c, o) ==
  /\ call[c] = Idle
  /\ call' = [call EXCEPT ![c] = [op |-> o, done |-> FALSE, answer |-> NoAnswer]]
  /\ UNCHANGED store

\* c has a call of type t that has not taken effect.
Pending(c, t) == call[c].op.type = t /\ ~ call[c].done

Done(c, a) ==
  call' = [call EXCEPT ![c] = [op |-> call[c].op, done |-> TRUE, answer |-> a]]

Put(c) ==
  /\ Pending(c, "upload")
  /\ store' = [store EXCEPT ![call[c].op.file] = Whole(call[c].op.payload)]
  /\ Done(c, Answer("ok"))

Get(c) ==
  /\ Pending(c, "download")
  /\ LET d == store[call[c].op.file]
     IN  Done(c, IF d = Absent THEN Answer("not found") ELSE DataAnswer(d))
  /\ UNCHANGED store

Drop(c) ==
  /\ Pending(c, "delete")
  /\ LET f == call[c].op.file
     IN  /\ Done(c, Answer(IF store[f] = Absent THEN "not found" ELSE "ok"))
         /\ store' = [store EXCEPT ![f] = Absent]

\* An error before anything was done: the map is as it was.
Refuse(c) ==
  /\ call[c].op # NoOp /\ ~ call[c].done
  /\ Done(c, Answer("error"))
  /\ UNCHANGED store

Return(c) ==
  /\ call[c].done
  /\ call' = [call EXCEPT ![c] = Idle]
  /\ UNCHANGED store

\* A fault during an upload spoils the file; the answer may be ok all the same.
Spoil(c) ==
  /\ Faults # {}
  /\ call[c].op.type = "upload" /\ call[c].done
  /\ LET f == call[c].op.file
     IN  \E d \in {Absent} \cup {Cut(p) : p \in Payloads} :
           store' = [store EXCEPT ![f] = d]
  /\ \E s \in {"ok", "error"} : Done(c, Answer(s))

\* The server stops and starts again: all calls are lost, and files that were
\* being uploaded may be cut short.
Crash ==
  /\ "crash" \in Faults
  /\ store' \in [Files -> Contents]
  /\ \A f \in Files : store'[f] # store[f] =>
       /\ \E p \in Payloads : store'[f] = Cut(p)
       /\ \E c \in Clients : /\ call[c].op.type = "upload" /\ call[c].done
                             /\ call[c].op.file = f
  /\ call' = [c \in Clients |-> Idle]

Next ==
  \/ \E c \in Clients :
       \/ \E o \in Ops : Invoke(c, o)
       \/ Put(c) \/ Get(c) \/ Drop(c) \/ Refuse(c) \/ Spoil(c) \/ Return(c)
  \/ Crash

Spec == Init /\ [][Next]_mapvars
=============================================================================
