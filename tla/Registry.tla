------------------------------ MODULE Registry ------------------------------
(***************************************************************************)
(* What signing up and logging in promise the clients: there is one table  *)
(* of accounts, a name is given away once and keeps its password, and a    *)
(* call takes effect at one moment between the client's command and the    *)
(* answer.  A call may also fail without effect.  How auth.c and the       *)
(* database get there (a search, then an insert) is not visible here;      *)
(* Accounts is shown to implement this specification.                      *)
(***************************************************************************)
CONSTANTS Sessions,   \* the connections whose clients sign up and log in
          Names,      \* user names
          Passwords,  \* passwords
          NoPassword, \* the password of a name that has no account
          NoName      \* the user of a session that is not authenticated

VARIABLES users,  \* the account table: the password of each name
          call,   \* the call of each session: its operation, name, password
          result, \* "none", "pending", or how the call ended
          who     \* the user each session is authenticated as

vars == <<users, call, result, who>>

NoCall == [op |-> "none", name |-> NoName, password |-> NoPassword]
Calls == [op : {"signup", "login"}, name : Names, password : Passwords]
Results == {"ok", "exists", "missing", "wrong", "failed"}

Init ==
  /\ users = [n \in Names |-> NoPassword]
  /\ call = [s \in Sessions |-> NoCall]
  /\ result = [s \in Sessions |-> "none"]
  /\ who = [s \in Sessions |-> NoName]

Invoke(s, c) ==
  /\ who[s] = NoName /\ result[s] = "none"
  /\ call' = [call EXCEPT ![s] = c]
  /\ result' = [result EXCEPT ![s] = "pending"]
  /\ UNCHANGED <<users, who>>

End(s, r) ==
  /\ result[s] = "pending"
  /\ result' = [result EXCEPT ![s] = r]
  /\ UNCHANGED <<call, who>>

\* The name is given away: this succeeds for a free name only.
Register(s) ==
  LET n == call[s].name IN
  /\ call[s].op = "signup" /\ users[n] = NoPassword
  /\ users' = [users EXCEPT ![n] = call[s].password]
  /\ End(s, "ok")

\* "User already exists" is said of a name that has an account.
RefuseName(s) ==
  /\ call[s].op = "signup" /\ users[call[s].name] # NoPassword
  /\ End(s, "exists")
  /\ UNCHANGED users

\* A login succeeds with the password of the account only.
Admit(s) ==
  /\ call[s].op = "login" /\ users[call[s].name] = call[s].password
  /\ End(s, "ok")
  /\ UNCHANGED users

RefusePassword(s) ==
  /\ call[s].op = "login"
  /\ users[call[s].name] \notin {NoPassword, call[s].password}
  /\ End(s, "wrong")
  /\ UNCHANGED users

\* Any call may fail; a login may then be told that there is no such user.
Fail(s) ==
  /\ \/ End(s, "failed")
     \/ call[s].op = "login" /\ End(s, "missing")
  /\ UNCHANGED users

\* The answer is given; the session of a successful call has its user.
Return(s) ==
  /\ result[s] \in Results
  /\ who' = [who EXCEPT ![s] = IF result[s] = "ok" THEN call[s].name ELSE NoName]
  /\ call' = [call EXCEPT ![s] = NoCall]
  /\ result' = [result EXCEPT ![s] = "none"]
  /\ UNCHANGED users

\* The connection ends, whatever became of its call.
Leave(s) ==
  /\ result[s] # "pending"
  /\ who' = [who EXCEPT ![s] = NoName]
  /\ call' = [call EXCEPT ![s] = NoCall]
  /\ result' = [result EXCEPT ![s] = "none"]
  /\ UNCHANGED users

Next ==
  \E s \in Sessions :
    \/ \E c \in Calls : Invoke(s, c)
    \/ Register(s) \/ RefuseName(s) \/ Admit(s) \/ RefusePassword(s) \/ Fail(s)
    \/ Return(s) \/ Leave(s)

Spec == Init /\ [][Next]_vars
=============================================================================
