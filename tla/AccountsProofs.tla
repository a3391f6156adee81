---------------------------- MODULE AccountsProofs ----------------------------
(***************************************************************************)
(* Proofs about Accounts: the variables are well typed, a session is only  *)
(* ever authenticated under a name that has an account, accounts stay as   *)
(* they were made, and the search-then-insert of user_signup implements    *)
(* Registry, in which a name is given away at one moment.                  *)
(*                                                                         *)
(* The inductive invariant adds that the stage of a session fits its call: *)
(* only a signup is between search and insert, only a login is verifying,  *)
(* and without a call in progress there is none.                           *)
(***************************************************************************)
EXTENDS Accounts, TLAPS

StageFits(s) ==
  /\ stage[s] \in {"check", "insert"} => call[s] \in Calls /\ call[s].op = "signup"
  /\ stage[s] = "verify" => call[s] \in Calls /\ call[s].op = "login"
  /\ stage[s] \in Results => call[s] \in Calls

IInv == AccountsTypeOK /\ Authentic /\ \A s \in Sessions : StageFits(s)

\* No calls and no accounts at first.
LEMMA InitIInv == AccountsInit => IInv
  BY NamesAssumption
  DEF AccountsInit, IInv, AccountsTypeOK, Authentic, StageFits, Stages, Results, NoCall

\* A step of s leaves the others' calls, stages and users alone.
LEMMA StepIInv ==
  ASSUME IInv, [AccountsNext]_accountvars
  PROVE  IInv'
<1>1. CASE UNCHANGED accountvars
  BY <1>1 DEF IInv, AccountsTypeOK, Authentic, StageFits, accountvars
<1>2. ASSUME NEW s \in Sessions, NEW c \in Calls, Begin(s, c)
      PROVE  IInv'
  BY <1>2 DEF IInv, AccountsTypeOK, Authentic, StageFits, Begin, Calls, Stages, Results
<1>3. ASSUME NEW s \in Sessions, CheckUser(s)
      PROVE  IInv'
  BY <1>3 DEF IInv, AccountsTypeOK, Authentic, StageFits, CheckUser, GoTo, Stages, Results
<1>4. ASSUME NEW s \in Sessions, InsertUser(s)
      PROVE  IInv'
  <2>1. call[s] \in Calls /\ call[s].name \in Names /\ call[s].password \in Passwords
    BY <1>4 DEF IInv, StageFits, InsertUser, Calls
  <2>2. CASE UNCHANGED <<users, call, who>>
    BY <1>4, <2>1, <2>2
    DEF IInv, AccountsTypeOK, Authentic, StageFits, InsertUser, GoTo, Stages, Results
  <2>3. CASE users[call[s].name] = NoPassword
             /\ users' = [users EXCEPT ![call[s].name] = call[s].password]
             /\ stage' = [stage EXCEPT ![s] = "ok"] /\ UNCHANGED <<call, who>>
    <3> DEFINE n == call[s].name  p == call[s].password
    <3>1. n \in Names /\ p \in Passwords /\ p # NoPassword
      BY <2>1, PasswordsAssumption
    <3> HIDE DEF n, p
    <3>2. users' = [users EXCEPT ![n] = p] /\ users[n] = NoPassword
      BY <2>3 DEF n, p
    <3>3. users' \in [Names -> Passwords \cup {NoPassword}] /\ users'[n] = p
          /\ \A m \in Names : m # n => users'[m] = users[m]
      BY <3>1, <3>2 DEF IInv, AccountsTypeOK
    <3>4. stage' \in [Sessions -> Stages] /\ stage'[s] = "ok"
          /\ \A t \in Sessions : t # s => stage'[t] = stage[t]
      BY <2>3 DEF IInv, AccountsTypeOK, Stages, Results
    <3>5. AccountsTypeOK'
      BY <2>3, <3>3, <3>4 DEF IInv, AccountsTypeOK
    <3>6. \A t \in Sessions : StageFits(t)'
      BY <2>1, <2>3, <3>4 DEF IInv, StageFits, Results
    <3>7. ASSUME NEW t \in Sessions
          PROVE  /\ who'[t] # NoName => users'[who'[t]] # NoPassword
                 /\ stage'[t] = "ok" => users'[call'[t].name] = call'[t].password
      <4>1. who'[t] # NoName => users'[who'[t]] # NoPassword
        BY <2>3, <3>1, <3>3 DEF IInv, AccountsTypeOK, Authentic
      <4>2. CASE t = s
        BY <2>3, <3>3, <4>1, <4>2 DEF n, p
      <4>3. CASE t # s /\ stage[t] = "ok"
        <5>1. call[t].name \in Names /\ call[t].password \in Passwords
          BY <4>3 DEF IInv, StageFits, Results, Calls
        <5>2. users[call[t].name] = call[t].password
          BY <4>3 DEF IInv, Authentic
        <5>3. call[t].name # n
          BY <3>2, <5>1, <5>2, PasswordsAssumption
        <5> QED BY <2>3, <3>3, <4>1, <5>1, <5>2, <5>3
      <4>4. CASE t # s /\ stage[t] # "ok"
        BY <3>4, <4>1, <4>4
      <4> QED BY <4>2, <4>3, <4>4
    <3> QED BY <3>5, <3>6, <3>7 DEF IInv, Authentic
  <2> QED BY <1>4, <2>2, <2>3 DEF InsertUser, GoTo
<1>5. ASSUME NEW s \in Sessions, VerifyPassword(s)
      PROVE  IInv'
  BY <1>5
  DEF IInv, AccountsTypeOK, Authentic, StageFits, VerifyPassword, GoTo, Calls, Stages, Results
<1>6. ASSUME NEW s \in Sessions, Answer(s)
      PROVE  IInv'
  BY <1>6, PasswordsAssumption
  DEF IInv, AccountsTypeOK, Authentic, StageFits, Answer, NoCall, Calls, Stages, Results
<1>7. ASSUME NEW s \in Sessions, EndOfSession(s)
      PROVE  IInv'
  BY <1>7 DEF IInv, AccountsTypeOK, Authentic, StageFits, EndOfSession, NoCall, Stages, Results
<1> QED
  BY <1>1, <1>2, <1>3, <1>4, <1>5, <1>6, <1>7 DEF AccountsNext, AuthStep

\* The table of users, the calls and the sessions' users are well typed, and the
\* rest of the inductive invariant holds, in every state user_signup and
\* user_login reach.
THEOREM Invariance == AccountsSpec => []IInv
<1> QED BY InitIInv, StepIInv, PTL DEF AccountsSpec

\* session_set_username (client_thread.c) names a user who has an account, and a
\* call returns 0 only with the password of the account.
THEOREM OnlyAccountsLogIn == AccountsSpec => []Authentic
<1>1. IInv => Authentic
  BY DEF IInv
<1> QED BY <1>1, Invariance, PTL

\* db_create_user never replaces or removes a row, however signups overlap.
THEOREM AccountsStay == AccountsSpec => AccountsKept
<1>1. ASSUME IInv, [AccountsNext]_accountvars
      PROVE  [\A n \in Names : users[n] # NoPassword => users'[n] = users[n]]_accountvars
  <2>1. CASE UNCHANGED users
    BY <2>1
  <2>2. ASSUME NEW s \in Sessions, InsertUser(s), NEW n \in Names, users[n] # NoPassword
        PROVE  users'[n] = users[n]
    <3>1. CASE users[call[s].name] = NoPassword
               /\ users' = [users EXCEPT ![call[s].name] = call[s].password]
      BY <1>1, <2>2, <3>1 DEF IInv, AccountsTypeOK
    <3> QED BY <2>2, <3>1 DEF InsertUser, GoTo
  <2> QED
    BY <1>1, <2>1, <2>2 DEF AccountsNext, AuthStep, accountvars, Begin, CheckUser,
      VerifyPassword, Answer, EndOfSession, GoTo
<1> QED BY <1>1, Invariance, PTL DEF AccountsSpec, AccountsKept

-----------------------------------------------------------------------------
(* The refinement: every step is a step of Registry or leaves its state *)

\* What Seen does with a stage.
LEMMA SeenStep ==
  ASSUME AccountsTypeOK, AccountsTypeOK', NEW s \in Sessions, NEW t \in Stages,
         stage' = [stage EXCEPT ![s] = t]
  PROVE  Seen' = [Seen EXCEPT ![s] = IF t \in {"check", "insert", "verify"}
                                       THEN "pending" ELSE t]
  BY DEF Seen, AccountsTypeOK

\* Both begin with nobody and no call.
LEMMA InitMaps == AccountsInit => Accts!Init
  BY DEF AccountsInit, Accts!Init, Seen, NoCall, Accts!NoCall

\* Each step is a step of Registry or a stutter: a signup takes effect where its
\* row is inserted or refused, a login where the password is compared.
LEMMA StepMaps ==
  ASSUME IInv, IInv', [AccountsNext]_accountvars
  PROVE  [Accts!Next]_(Accts!vars)
<1> USE DEF IInv
<1>1. CASE UNCHANGED accountvars
  BY <1>1 DEF accountvars, Accts!vars, Seen
<1>2. ASSUME NEW s \in Sessions, NEW c \in Calls, Begin(s, c)
      PROVE  Accts!Invoke(s, c)
  <2>1. Seen[s] = "none"
    BY <1>2 DEF Begin, Seen
  <2>2. Seen' = [Seen EXCEPT ![s] = "pending"]
    BY <1>2 DEF Begin, Seen, AccountsTypeOK
  <2> QED BY <1>2, <2>1, <2>2 DEF Begin, Accts!Invoke
\* The end of a call: its result becomes visible.
<1>3. ASSUME NEW s \in Sessions, NEW r \in Results,
             stage[s] \in {"check", "insert", "verify"},
             stage' = [stage EXCEPT ![s] = r], UNCHANGED <<call, who>>
      PROVE  Accts!End(s, r)
  <2>1. Seen[s] = "pending"
    BY <1>3 DEF Seen
  <2>2. Seen' = [Seen EXCEPT ![s] = r]
    BY <1>3, SeenStep DEF Results, Stages
  <2> QED BY <1>3, <2>1, <2>2 DEF Accts!End
<1>4. ASSUME NEW s \in Sessions, CheckUser(s)
      PROVE  Accts!RefuseName(s) \/ UNCHANGED Accts!vars
  <2>1. call[s].op = "signup"
    BY <1>4 DEF CheckUser, StageFits
  <2>2. CASE users[call[s].name] # NoPassword /\ GoTo(s, "exists")
    BY <1>3, <1>4, <2>1, <2>2 DEF CheckUser, GoTo, Results, Accts!RefuseName
  <2>3. CASE GoTo(s, "insert")
    <3>1. Seen' = [Seen EXCEPT ![s] = "pending"] /\ Seen[s] = "pending"
      BY <1>4, <2>3, SeenStep DEF CheckUser, GoTo, Seen, Stages
    <3>2. Seen' = Seen
      BY <3>1 DEF Seen
    <3> QED BY <2>3, <3>2 DEF GoTo, Accts!vars
  <2> QED BY <1>4, <2>2, <2>3 DEF CheckUser
<1>5. ASSUME NEW s \in Sessions, InsertUser(s)
      PROVE  Accts!Register(s) \/ Accts!RefuseName(s) \/ Accts!Fail(s)
  <2>1. call[s].op = "signup" /\ stage[s] = "insert"
    BY <1>5 DEF InsertUser, StageFits
  <2>2. CASE users[call[s].name] # NoPassword /\ GoTo(s, "exists")
    BY <1>3, <2>1, <2>2 DEF GoTo, Results, Accts!RefuseName
  <2>3. CASE GoTo(s, "failed")
    BY <1>3, <2>1, <2>3 DEF GoTo, Results, Accts!Fail
  <2>4. CASE /\ users[call[s].name] = NoPassword
             /\ users' = [users EXCEPT ![call[s].name] = call[s].password]
             /\ stage' = [stage EXCEPT ![s] = "ok"] /\ UNCHANGED <<call, who>>
    BY <1>3, <2>1, <2>4 DEF Results, Accts!Register
  <2> QED BY <1>5, <2>2, <2>3, <2>4 DEF InsertUser
<1>6. ASSUME NEW s \in Sessions, VerifyPassword(s)
      PROVE  Accts!Admit(s) \/ Accts!RefusePassword(s) \/ Accts!Fail(s)
  <2>1. call[s].op = "login" /\ stage[s] = "verify"
    BY <1>6 DEF VerifyPassword, StageFits
  <2>2. ASSUME NEW r \in Results, GoTo(s, r)
        PROVE  Accts!End(s, r) /\ UNCHANGED users
    BY <1>3, <2>1, <2>2 DEF GoTo
  <2>3. CASE users[call[s].name] = call[s].password /\ GoTo(s, "ok")
    BY <2>1, <2>2, <2>3 DEF Results, Accts!Admit
  <2>4. CASE users[call[s].name] \notin {NoPassword, call[s].password} /\ GoTo(s, "wrong")
    BY <2>1, <2>2, <2>4 DEF Results, Accts!RefusePassword
  <2>5. CASE GoTo(s, "missing") \/ GoTo(s, "failed")
    BY <2>1, <2>2, <2>5 DEF Results, Accts!Fail
  <2> QED BY <1>6, <2>3, <2>4, <2>5 DEF VerifyPassword
<1>7. ASSUME NEW s \in Sessions, Answer(s)
      PROVE  Accts!Return(s)
  <2>1. Seen[s] = stage[s] /\ Seen' = [Seen EXCEPT ![s] = "none"]
    BY <1>7, SeenStep DEF Answer, Seen, Results, Stages
  <2> QED
    BY <1>7, <2>1 DEF Answer, Results, Accts!Return, Accts!Results, NoCall, Accts!NoCall
<1>8. ASSUME NEW s \in Sessions, EndOfSession(s)
      PROVE  Accts!Leave(s)
  <2>1. Seen[s] # "pending" /\ Seen' = [Seen EXCEPT ![s] = "none"]
    BY <1>8, SeenStep DEF EndOfSession, Seen, Results, Stages
  <2> QED BY <1>8, <2>1 DEF EndOfSession, Accts!Leave, NoCall, Accts!NoCall
<1>9. Calls = Accts!Calls
  BY DEF Calls, Accts!Calls
<1> QED
  BY <1>1, <1>2, <1>4, <1>5, <1>6, <1>7, <1>8, <1>9
  DEF AccountsNext, AuthStep, Accts!Next

\* The search and the insert of user_signup, with nothing held in between, and
\* user_login look to the clients like one table of accounts (Registry).
THEOREM Refinement == AccountsSpec => ImplementsRegistry
<1>1. IInv /\ IInv' /\ [AccountsNext]_accountvars => [Accts!Next]_(Accts!vars)
  BY StepMaps
<1> QED BY <1>1, InitMaps, Invariance, PTL DEF AccountsSpec, ImplementsRegistry, Accts!Spec
=============================================================================
