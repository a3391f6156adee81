------------------------------ MODULE Accounts ------------------------------
(***************************************************************************)
(* Signing up and logging in: user_signup and user_login (src/auth/auth.c) *)
(* over user_metadata.c and the users table of database.c, as the client   *)
(* threads call them for their sessions.                                   *)
(*                                                                         *)
(* Each call of the database is one step under db_mutex; between the       *)
(* search and the insert of a signup nothing is held.  stage says where    *)
(* the call of a session is:                                               *)
(*   none    no call                                                       *)
(*   check   in user_signup, before user_exists                            *)
(*   insert  in user_signup, between user_exists and user_create           *)
(*   verify  in user_login, before user_verify_password                    *)
(*   a member of Results   the function has returned this result           *)
(* The statements of SQLite may fail in any step.  SHA-256 is an injective *)
(* function, so an account is represented by its password.                 *)
(***************************************************************************)
EXTENDS Naturals

CONSTANTS Sessions,   \* the sessions whose clients sign up and log in
          Names,      \* user names
          Passwords,  \* passwords
          NoPassword, \* the password of a name that has no row in users
          NoName      \* the username of a session that is not authenticated

ASSUME PasswordsAssumption == NoPassword \notin Passwords
ASSUME NamesAssumption == NoName \notin Names

VARIABLES
  users,  \* table users: username -> password_hash
  call,   \* the operation, username and password of the call of a session
  stage,  \* where the call is
  who     \* session->username, NoName until session->is_authenticated

accountvars == <<users, call, stage, who>>

NoCall == [op |-> "none", name |-> NoName, password |-> NoPassword]
Calls == [op : {"signup", "login"}, name : Names, password : Passwords]

\* The return values 0, -2 (of signup), -2 (of login), -3 and -1.
Results == {"ok", "exists", "missing", "wrong", "failed"}
Stages == {"none", "check", "insert", "verify"} \cup Results

AccountsTypeOK ==
  /\ users \in [Names -> Passwords \cup {NoPassword}]
  /\ call \in [Sessions -> Calls \cup {NoCall}]
  /\ stage \in [Sessions -> Stages]
  /\ who \in [Sessions -> Names \cup {NoName}]

AccountsInit ==
  /\ users = [n \in Names |-> NoPassword]
  /\ call = [s \in Sessions |-> NoCall]
  /\ stage = [s \in Sessions |-> "none"]
  /\ who = [s \in Sessions |-> NoName]

-----------------------------------------------------------------------------

\* The call of s goes on to stage t without touching the table.
GoTo(s, t) ==
  /\ stage' = [stage EXCEPT ![s] = t]
  /\ UNCHANGED <<users, call, who>>

\* The client thread of s has read a command and calls user_signup or
\* user_login; both hash the password first.
Begin(s, c) ==
  /\ who[s] = NoName /\ stage[s] = "none"
  /\ call' = [call EXCEPT ![s] = c]
  /\ stage' = [stage EXCEPT ![s] = IF c.op = "signup" THEN "check" ELSE "verify"]
  /\ UNCHANGED <<users, who>>

\* user_exists; an error of the database counts as "does not exist".
CheckUser(s) ==
  /\ stage[s] = "check"
  /\ \/ users[call[s].name] # NoPassword /\ GoTo(s, "exists")
     \/ GoTo(s, "insert")

\* Variant: the row is replaced when the name has one.
InsertReplacing(s) ==
  /\ stage[s] = "insert"
  /\ users' = [users EXCEPT ![call[s].name] = call[s].password]
  /\ stage' = [stage EXCEPT ![s] = "ok"]
  /\ UNCHANGED <<call, who>>

\* Variant: the violated constraint is taken for success.
InsertTrusting(s) ==
  LET n == call[s].name IN
  /\ stage[s] = "insert"
  /\ users' = [users EXCEPT ![n] = IF @ = NoPassword THEN call[s].password ELSE @]
  /\ stage' = [stage EXCEPT ![s] = "ok"]
  /\ UNCHANGED <<call, who>>

\* db_create_user: the INSERT succeeds, meets the constraint that usernames
\* are unique, or fails.
InsertUser(s) ==
  LET n == call[s].name IN
  /\ stage[s] = "insert"
  /\ \/ /\ users[n] = NoPassword
        /\ users' = [users EXCEPT ![n] = call[s].password]
        /\ stage' = [stage EXCEPT ![s] = "ok"]
        /\ UNCHANGED <<call, who>>
     \/ users[n] # NoPassword /\ GoTo(s, "exists")
     \/ GoTo(s, "failed")

\* user_verify_password: no row, or an error while stepping, is "not found";
\* an error before that is a failure.
VerifyPassword(s) ==
  LET stored == users[call[s].name] IN
  /\ stage[s] = "verify"
  /\ \/ stored # NoPassword /\ stored = call[s].password /\ GoTo(s, "ok")
     \/ stored # NoPassword /\ stored # call[s].password /\ GoTo(s, "wrong")
     \/ GoTo(s, "missing")
     \/ GoTo(s, "failed")

\* The client thread answers; session_set_username after a success.
Answer(s) ==
  /\ stage[s] \in Results
  /\ who' = [who EXCEPT ![s] = IF stage[s] = "ok" THEN call[s].name ELSE NoName]
  /\ call' = [call EXCEPT ![s] = NoCall]
  /\ stage' = [stage EXCEPT ![s] = "none"]
  /\ UNCHANGED users

\* The session is destroyed: its client is gone, or the answer could not be
\* sent.  Its identifier serves the next client of the thread here.
EndOfSession(s) ==
  /\ stage[s] \in Results \cup {"none"}
  /\ who' = [who EXCEPT ![s] = NoName]
  /\ call' = [call EXCEPT ![s] = NoCall]
  /\ stage' = [stage EXCEPT ![s] = "none"]
  /\ UNCHANGED users

-----------------------------------------------------------------------------

\* The steps inside user_signup and user_login.
AuthStep(s) == CheckUser(s) \/ InsertUser(s) \/ VerifyPassword(s)

AccountsNext ==
  \E s \in Sessions :
    \/ \E c \in Calls : Begin(s, c)
    \/ AuthStep(s) \/ Answer(s) \/ EndOfSession(s)

AccountsSpec == AccountsInit /\ [][AccountsNext]_accountvars

-----------------------------------------------------------------------------
(* Properties *)

\* Nobody is authenticated, or about to be told so, under a name that has no
\* account; and with the password given for it, while the call lasts.
Authentic ==
  \A s \in Sessions :
    /\ who[s] # NoName => users[who[s]] # NoPassword
    /\ stage[s] = "ok" => users[call[s].name] = call[s].password

\* An account is never removed and its password never changes: two signups
\* for one name that both found it free end with one account and one "OK".
AccountsKept ==
  [][\A n \in Names : users[n] # NoPassword => users'[n] = users[n]]_accountvars

\* Seen by the clients every call takes effect at one moment.
Seen ==
  [s \in Sessions |->
     IF stage[s] \in {"check", "insert", "verify"} THEN "pending" ELSE stage[s]]
Accts == INSTANCE Registry WITH result <- Seen
ImplementsRegistry == Accts!Spec
=============================================================================
