--------------------------- MODULE ConnectionProofs ---------------------------
(***************************************************************************)
(* What the streams, the client program and the rest of the client thread  *)
(* do is a step of Accounts for some session or leaves the accounts alone. *)
(* So what AccountsProofs shows of user_signup and user_login holds of the *)
(* connection, whatever recv returns and wherever the connection breaks.   *)
(* The one thing this rests on is that a SIGNUP or LOGIN line on the wire, *)
(* or its first half, is read as a call.                                   *)
(* The streams, buffers and variables of both ends are well typed          *)
(* (Dialogue), and both ends are at one place of the dialogue, or trouble  *)
(* says how they lost each other and what is left of it (Agreement).  From *)
(* this follow InStep and ToldTruly.                                       *)
(***************************************************************************)
EXTENDS Connection, AccountsProofs, SequenceTheorems, WellFoundedInduction

\* What a client sends.
ClientPieces ==
  [msg : Lines \cup {"data"}, part : Parts,
   call : Calls \cup {NoCall}, size : Nat]
SentPieces ==
  {p \in ClientPieces : /\ p.msg = "auth" => p.call \in Calls
                        /\ p.msg = "data" => p.part \in Blocks}

\* The lines on the way to the server are lines the client program sends.
ClientSent == c2s \in Seq(SentPieces) /\ rest \in Seq(Blocks)

-----------------------------------------------------------------------------
(* Pieces and prefixes *)

\* The smaller of two numbers.
LEMMA MinOfTwo ==
  ASSUME NEW a \in Nat, NEW b \in Nat
  PROVE  Min({a, b}) \in {a, b} /\ Min({a, b}) <= a /\ Min({a, b}) <= b
<1>1. \E x \in {a, b} : \A y \in {a, b} : x =< y
  BY a <= b \/ b <= a
<1>2. Min({a, b}) \in {a, b} /\ \A y \in {a, b} : Min({a, b}) =< y
  BY <1>1 DEF Min
<1> QED BY <1>2

\* What a recv returns and what it leaves.
LEMMA ReceivedParts ==
  ASSUME NEW S, NEW stream \in Seq(S), NEW most \in Nat, NEW g \in Received(stream, most)
  PROVE  /\ g \in Seq(S) /\ Len(g) >= 1 /\ Len(g) <= most /\ Len(g) <= Len(stream)
         /\ Beyond(stream, g) \in Seq(S)
         /\ Len(Beyond(stream, g)) = Len(stream) - Len(g)
<1>1. PICK n \in 1 .. Min({Len(stream), most}) : g = SubSeq(stream, 1, n)
  BY DEF Received
<1>2. n \in 1 .. Len(stream) /\ n <= most
  BY <1>1, MinOfTwo
<1>3. g \in Seq(S) /\ Len(g) = n
  BY <1>1, <1>2, SubSeqProperties
<1>4. /\ SubSeq(stream, n + 1, Len(stream)) \in Seq(S)
      /\ Len(SubSeq(stream, n + 1, Len(stream))) = Len(stream) - n
  BY <1>2, SubSeqProperties
<1> QED BY <1>2, <1>3, <1>4 DEF Beyond

\* ... the latter also when nothing is known of how much was asked for.
LEMMA BeyondIsSent ==
  ASSUME NEW S, NEW stream \in Seq(S), NEW most, NEW g \in Received(stream, most)
  PROVE  Beyond(stream, g) \in Seq(S)
  BY SubSeqProperties DEF Beyond, Received

\* What the client program sends as a line,
LEMMA TextsAreSent ==
  ASSUME NEW m \in Lines, NEW c \in Calls \cup {NoCall},
         NEW n \in Nat, m = "auth" => c \in Calls
  PROVE  FullText(m, c, n) \in Seq(SentPieces)
<1>1. m \in Lines \cup {"data"} /\ m # "data"
  BY DEF Lines, Tasks
<1>2. ASSUME NEW h \in {"head", "tail"}
      PROVE  Half(m, h, c, n) \in SentPieces
  BY <1>1 DEF Half, SentPieces, ClientPieces, Parts
<1> QED BY <1>2 DEF FullText

\* ... and what it sends of a file.
LEMMA BlocksAreSent ==
  ASSUME NEW b \in Blocks
  PROVE  Block(b) \in SentPieces
  BY DEF Block, Half, SentPieces, ClientPieces, Parts

\* What the server reads as a call is one.
LEMMA CallsAreCalls ==
  ASSUME ClientSent, NEW g \in Received(c2s, Len(c2s))
  PROVE  CallsIn(g) \subseteq Calls
<1>1. g[1] \in SentPieces
  BY ReceivedParts DEF ClientSent
<1> QED BY <1>1 DEF CallsIn, SentPieces

-----------------------------------------------------------------------------
(* The lines on the wire *)

\* Nothing is under way at first.
LEMMA InitSent == Init => ClientSent
  BY DEF Init, ClientSent

\* Only the client program writes to this stream; a recv takes a prefix away.
LEMMA StepSent ==
  ASSUME ClientSent, [Next]_vars
  PROVE  ClientSent'
<1> USE DEF ClientSent
<1>1. CASE UNCHANGED <<c2s, rest>>
  BY <1>1
<1>2. ASSUME NEW g, NEW n, g \in Received(c2s, n), c2s' = Beyond(c2s, g),
             UNCHANGED rest
      PROVE  ClientSent'
  BY <1>2, BeyondIsSent
<1>3. ASSUME NEW line \in Seq(SentPieces), Sends(line)
      PROVE  c2s' \in Seq(SentPieces)
  BY <1>3, ConcatProperties DEF Sends
<1>4. CASE SendAuth
  <2>1. \E c \in Calls : Sends(FullText("auth", c, 0))
    BY <1>4 DEF SendAuth
  <2> QED BY <1>3, <1>4, <2>1, TextsAreSent DEF SendAuth, Lines
<1>5. ASSUME NEW op \in Tasks, NEW p \in Seq(Blocks), SendCommand(op, p)
      PROVE  ClientSent'
  <2>1. Sends(FullText(op, NoCall, Len(p))) /\ rest' = p
    BY <1>5 DEF SendCommand
  <2>2. op # "auth"
    BY DEF Tasks
  <2>3. FullText(op, NoCall, Len(p)) \in Seq(SentPieces)
    <3>1. Len(p) \in Nat /\ NoCall \in Calls \cup {NoCall}
          /\ op \in Lines
      BY DEF Lines
    <3> QED BY <2>2, <3>1, TextsAreSent
  <2> QED BY <1>3, <2>1, <2>3
<1>6. CASE SendBlock
  <2>1. CASE rest # <<>> /\ c2s' = Append(c2s, Block(Head(rest))) /\ rest' = Tail(rest)
    BY <2>1, HeadTailProperties, BlocksAreSent, AppendProperties
  <2> QED BY <1>1, <1>6, <2>1 DEF SendBlock
<1>7. CASE Leave
  <2>1. Text("quit") \in Seq(SentPieces)
    BY TextsAreSent DEF Text, FullText, Lines
  <2>2. c2s' = c2s \o Text("quit") \/ c2s' = c2s
    BY <1>7 DEF Leave
  <2>3. rest' = <<>>
    BY <1>7 DEF Leave
  <2>4. c2s \o Text("quit") \in Seq(SentPieces)
    BY <2>1, ConcatProperties
  <2>5. c2s' \in Seq(SentPieces)
    BY <2>2, <2>4
  <2>6. rest' \in Seq(Blocks)
    BY <2>3
  <2> QED BY <2>5, <2>6
<1>8. CASE Reset
  BY <1>8 DEF Reset, clientvars
<1>9. CASE ReadWelcome \/ ReadAuth \/ ReadMenu \/ ReadAnswer \/ ReadDownload \/ DrainDownload
  BY <1>1, <1>9 DEF ReadWelcome, ReadAuth, ReadMenu, ReadAnswer, ReadDownload, DrainDownload
<1>10. CASE RecvAuth \/ RecvCommand
  <2>1. UNCHANGED rest /\ \E g \in Received(c2s, Len(c2s)) : c2s' = Beyond(c2s, g)
    BY <1>10 DEF RecvAuth, RecvCommand, clientvars
  <2> QED BY <1>2, <2>1
<1>11. CASE RecvData
  <2>1. /\ UNCHANGED rest
        /\ UNCHANGED c2s \/ \E g \in Received(c2s, Need) : c2s' = Beyond(c2s, g)
    BY <1>11 DEF RecvData, RecvDataUpTo, clientvars
  <2> QED BY <1>1, <1>2, <2>1
<1>12. CASE Accept \/ Say \/ CallReturns \/ SetUsername \/ QueueTask \/ Work \/ EndSession
  BY <1>1, <1>12 DEF Accept, Say, CallReturns, SetUsername, QueueTask, Work,
    EndSession, clientvars
<1>13. CASE /\ AuthStep(Wire)
            /\ UNCHANGED <<up, c2s, s2c, servervars, clientvars, trouble>>
  BY <1>1, <1>13 DEF clientvars
<1>14. ASSUME NEW s \in Sessions, OtherSession(s)
       PROVE  ClientSent'
  BY <1>1, <1>14 DEF OtherSession, clientvars
<1>15. CASE UNCHANGED vars
  BY <1>1, <1>15 DEF vars, clientvars
<1>16. CASE \/ \E p \in Payloads : SendCommand("upload", p)
            \/ \E op \in Tasks \ {"upload"} : SendCommand(op, <<>>)
  <2>1. "upload" \in Tasks /\ <<>> \in Seq(Blocks) /\ Payloads \subseteq Seq(Blocks)
    BY PayloadsAssumption DEF Tasks
  <2> QED BY <1>5, <1>16, <2>1
<1> QED
  BY <1>4, <1>6, <1>7, <1>8, <1>9, <1>10, <1>11, <1>12, <1>13, <1>14, <1>15, <1>16
  DEF Next, ClientStep, ServerStep

-----------------------------------------------------------------------------
(* The accounts *)

\* The steps of the client program and the streams.
LEMMA ClientKeepsAccounts ==
  ASSUME \/ ClientStep \/ SendAuth \/ Leave \/ Reset
         \/ \E p \in Payloads : SendCommand("upload", p)
         \/ \E op \in Tasks \ {"upload"} : SendCommand(op, <<>>)
  PROVE  UNCHANGED accountvars
<1>1. CASE ClientStep
  BY <1>1 DEF ClientStep, ReadWelcome, ReadAuth, ReadMenu, SendBlock, ReadAnswer,
    ReadDownload, DrainDownload
<1>2. CASE SendAuth \/ Leave \/ Reset
  BY <1>2 DEF SendAuth, Leave, Reset
<1>3. CASE \/ \E p \in Payloads : SendCommand("upload", p)
           \/ \E op \in Tasks \ {"upload"} : SendCommand(op, <<>>)
  BY <1>3 DEF SendCommand
<1> QED BY <1>1, <1>2, <1>3

\* The steps of the client thread.
LEMMA ServerKeepsAccounts ==
  ASSUME ClientSent, ServerStep
  PROVE  [AccountsNext]_accountvars
<1> USE WireAssumption
<1>1. CASE Accept \/ Say \/ RecvCommand \/ QueueTask \/ Work
  BY <1>1 DEF Accept, Say, RecvCommand, QueueTask, Work
<1>2. CASE RecvData
  BY <1>2 DEF RecvData, RecvDataUpTo
<1>3. CASE RecvAuth
  BY <1>3, CallsAreCalls DEF RecvAuth, AccountsNext
<1>4. CASE CallReturns \/ SetUsername \/ EndSession
  BY <1>4 DEF CallReturns, SetUsername, EndSession, AccountsNext
<1>5. CASE AuthStep(Wire)
  BY <1>5 DEF AccountsNext
<1> QED BY <1>1, <1>2, <1>3, <1>4, <1>5 DEF ServerStep

\* A step of the connection is a step of the accounts or none.
LEMMA StepAccounts ==
  ASSUME ClientSent, [Next]_vars
  PROVE  [AccountsNext]_accountvars
<1>1. ASSUME NEW s \in Sessions, OtherSession(s)
      PROVE  AccountsNext
  BY <1>1, WireAssumption DEF OtherSession, AccountsNext
<1>2. CASE UNCHANGED vars
  BY <1>2 DEF vars
<1> QED BY <1>1, <1>2, ClientKeepsAccounts, ServerKeepsAccounts DEF Next

\* Every connection, with its torn, glued and lost messages and its resets, uses
\* the accounts as Accounts says.
THEOREM UsesAccounts == Spec => AccountsSpec
<1>1. Spec => []ClientSent
  BY InitSent, StepSent, PTL DEF Spec
<1>2. Init => AccountsInit
  BY DEF Init
<1>3. ClientSent /\ [Next]_vars => [AccountsNext]_accountvars
  BY StepAccounts
<1> QED BY <1>1, <1>2, <1>3, PTL DEF Spec, AccountsSpec

\* Seen by its clients the server keeps one table of accounts: a name is given
\* away once, and nobody gets in without the password of the account, whatever
\* the streams do to what the clients sent.
THEOREM ServesRegistry == Spec => ImplementsRegistry
<1> QED BY UsesAccounts, Refinement

\* No session is served under a name that has no account.
THEOREM ServesAccountsOnly == Spec => []Authentic
<1> QED BY UsesAccounts, OnlyAccountsLogIn
-----------------------------------------------------------------------------
(* The types *)

AfterSaying == {"auth", "named", "files", "end"}
Outs ==
  [data : Contents, msg : Answers \cup {"none"}, next : {"none"} \cup AfterSaying,
   ends : BOOLEAN]
Troubles == {"none", "torn", "glued", "refused", "nul", "word", "stale"}

\* A nonempty set of numbers has a least one.
LEMMA MinOfNumbers ==
  ASSUME NEW S \in SUBSET Nat, S # {}
  PROVE  Min(S) \in S
<1> DEFINE R == OpToRel(<, Nat)
<1>1. IsWellFoundedOn(R, Nat)
  BY NatLessThanWellFounded
<1>2. ASSUME NEW y \in Nat, NEW z \in Nat, ~ (<<y, z>> \in R)
      PROVE  ~ (y < z)
  BY SMT, <1>2 DEF OpToRel
<1> HIDE DEF R
<1>3. PICK x \in S : \A y \in S : ~ (<<y, x>> \in R)
  BY <1>1, WFMin
<1>4. ASSUME NEW y \in S
      PROVE  x =< y
  <2>1. x \in Nat /\ y \in Nat /\ ~ (<<y, x>> \in R)
    BY <1>3
  <2>2. ~ (y < x)
    BY <1>2, <2>1
  <2> QED BY <2>1, <2>2
<1> QED BY <1>4 DEF Min

\* A sequence over a set is one over a larger set.
LEMMA SeqGrows ==
  ASSUME NEW S, NEW T, S \subseteq T, NEW s \in Seq(S)
  PROVE  s \in Seq(T)
  BY LenProperties

\* What was received is content.
LEMMA ContentFits ==
  ASSUME NEW g \in Seq(Pieces)
  PROVE  Content(g) \in Contents /\ Len(Content(g)) = Len(g)
<1>1. /\ Len(g) \in Nat /\ DOMAIN g = 1 .. Len(g)
      /\ \A i \in 1 .. Len(g) : g[i] \in Pieces
  BY LenProperties
<1>2. Content(g) \in [1 .. Len(g) -> Parts]
  BY <1>1 DEF Content, Pieces
<1> QED BY <1>1, <1>2 DEF Contents, Parts

\* What Visible leaves of a recv.
LEMMA VisibleFits ==
  ASSUME NEW g \in Seq(Pieces)
  PROVE  Visible(g) \in Seq(Pieces) /\ DOMAIN Visible(g) \subseteq DOMAIN g
<1> DEFINE n == {i \in DOMAIN g : g[i].part = "nul"}
<1>1. DOMAIN g = 1 .. Len(g) /\ Len(g) \in Nat
  BY LenProperties
<1>2. CASE n = {}
  BY <1>2 DEF Visible
<1>3. CASE n # {}
  <2>1. Min(n) \in 1 .. Len(g)
    <3>1. n \in SUBSET Nat /\ n \subseteq 1 .. Len(g)
      BY <1>1
    <3> HIDE DEF n
    <3> QED BY <1>3, <3>1, MinOfNumbers
  <2>2. \A i \in 1 .. Min(n) - 1 : g[i] \in Pieces
    BY <1>1, <2>1, LenProperties
  <2>3. /\ SubSeq(g, 1, Min(n) - 1) \in Seq(Pieces)
        /\ Len(SubSeq(g, 1, Min(n) - 1)) <= Len(g)
    BY <1>1, <2>1, <2>2, SubSeqProperties
  <2>4. Visible(g) = SubSeq(g, 1, Min(n) - 1)
    BY <1>3 DEF Visible
  <2>5. DOMAIN Visible(g) = 1 .. Len(Visible(g)) /\ Len(Visible(g)) \in Nat
    BY <2>3, <2>4, LenProperties
  <2>6. Visible(g) \in Seq(Pieces) /\ Len(Visible(g)) <= Len(g)
    BY <2>3, <2>4
  <2> HIDE DEF n
  <2> QED BY <1>1, <2>5, <2>6
<1> QED BY <1>2, <1>3

\* Where the client sees an end, or a word that passes for one, there is a piece.
LEMMA MarkersFit ==
  ASSUME NEW g \in Seq(Pieces), NEW i \in EndMarkers(g) \cup FalseEnds(g)
  PROVE  i \in DOMAIN g
<1> DEFINE v == Visible(g)
           e == {j \in DOMAIN v : v[j] \in ErrorEnds}
           ok == At("download_ok", v)
<1>1. /\ v \in Seq(Pieces) /\ DOMAIN v = 1 .. Len(v) /\ Len(v) \in Nat
      /\ DOMAIN v \subseteq DOMAIN g
  BY VisibleFits, LenProperties
<1>2. e # {} => Min(e) \in e
  <2>1. e \in SUBSET Nat
    BY <1>1
  <2> HIDE DEF e
  <2> QED BY <2>1, MinOfNumbers
<1>3. ok \subseteq DOMAIN v
  BY <1>1 DEF At
<1>4. ok # {} => Min(ok) \in ok
  <2>1. ok \in SUBSET Nat
    BY <1>1, <1>3
  <2> HIDE DEF ok
  <2> QED BY <2>1, MinOfNumbers
<1>5. (ok # {} /\ i = Min(ok)) \/ (e # {} /\ i = Min(e)) \/ i \in DOMAIN v
  BY DEF EndMarkers, FalseEnds
<1> HIDE DEF v, ok
<1> QED BY <1>1, <1>2, <1>3, <1>4, <1>5

\* What the client takes from a recv for its file.
LEMMA WrittenFits ==
  ASSUME NEW g \in Seq(Pieces), NEW d \in Contents
  PROVE  /\ d \o Content(g) \in Contents
         /\ \A i \in EndMarkers(g) \cup FalseEnds(g) :
              d \o Content(SubSeq(g, 1, i - 1)) \in Contents
<1>1. DOMAIN g = 1 .. Len(g) /\ Len(g) \in Nat
  BY LenProperties
<1>2. ASSUME NEW i \in EndMarkers(g) \cup FalseEnds(g)
      PROVE  SubSeq(g, 1, i - 1) \in Seq(Pieces)
  <2>1. i \in 1 .. Len(g)
    BY <1>1, MarkersFit
  <2>2. \A j \in 1 .. i - 1 : g[j] \in Pieces
    BY <1>1, <2>1, LenProperties
  <2> QED BY <2>1, <2>2, SubSeqProperties
<1> QED BY <1>2, ContentFits, ConcatProperties DEF Contents

\* The data behind the line of an UPLOAD: it is no more than the line says.
LEMMA LeftoverFits ==
  ASSUME NEW extra \in Seq(Pieces), NEW size \in Nat
  PROVE  Leftover(extra, size) \in Seq(Pieces) /\ Len(Leftover(extra, size)) <= size
<1> DEFINE n == Min({Len(extra), size})
<1>1. Len(extra) \in Nat
  BY LenProperties
<1>2. n \in Nat /\ n <= Len(extra) /\ n <= size
  BY <1>1, MinOfTwo
<1>3. /\ SubSeq(extra, 1, n) \in Seq(Pieces)
      /\ Len(SubSeq(extra, 1, n)) = n
  <2> HIDE DEF n
  <2>1. \A i \in 1 .. n : extra[i] \in Pieces
    BY <1>1, <1>2, LenProperties
  <2> QED BY <1>1, <1>2, <2>1, SubSeqProperties
<1>4. Leftover(extra, size) = SubSeq(extra, 1, n) \/ Leftover(extra, size) = <<>>
  BY DEF Leftover
<1>5. <<>> \in Seq(Pieces) /\ Len(<<>>) = 0
  OBVIOUS
<1> HIDE DEF n
<1>6. CASE Leftover(extra, size) = SubSeq(extra, 1, n)
  BY <1>2, <1>3, <1>6
<1>7. CASE Leftover(extra, size) = <<>>
  BY <1>5, <1>7
<1> QED BY <1>4, <1>6, <1>7

-----------------------------------------------------------------------------
(* The client thread *)

Requests == [op : Tasks \cup {"none"}, data : Contents, size : Nat]

\* The thread knows where to go after what it says; the buffer of an upload holds
\* what is in it.
ServerFits ==
  /\ spc \in {"accept", "say", "auth", "calling", "named", "files", "data", "queue",
              "work", "asleep", "end", "gone"}
  /\ spc = "say" => out.next \in AfterSaying /\ out.msg \in Answers
  /\ task \in Requests /\ Len(task.data) <= task.size
  /\ out \in Outs /\ file \in Contents \cup {NoFile}

\* The thread sends something, then goes on.
LEMMA SaysFit ==
  ASSUME NEW m \in Answers, NEW n \in AfterSaying, NEW e \in BOOLEAN, SayThen(m, n, e)
  PROVE  spc' = "say" /\ out'.next \in AfterSaying /\ out'.msg \in Answers /\ out' \in Outs
<1>1. <<>> \in Contents
  BY DEF Contents
<1>2. spc' = "say" /\ out' = [data |-> <<>>, msg |-> m, next |-> n, ends |-> e]
  BY DEF SayThen, Out
<1> QED BY <1>1, <1>2 DEF Outs

\* Tasks whose data is yet to come, if there is any.
LEMMA EmptyTasks ==
  ASSUME NEW op \in Tasks \cup {"none"}, NEW n \in Nat, NEW t,
         t = [op |-> op, data |-> <<>>, size |-> n]
  PROVE  t \in Requests /\ Len(t.data) <= t.size
<1>1. <<>> \in Contents /\ Len(<<>>) = 0
  BY DEF Contents
<1> QED BY <1>1 DEF Requests

\* What a recv of the client thread returns, and what it may take it for.
LEMMA LinesFit ==
  ASSUME ClientSent, NEW n \in Nat, NEW g \in Received(c2s, n)
  PROVE  /\ g \in Seq(Pieces) /\ Len(g) \in 1 .. n
         /\ CommandsIn(g) \subseteq Tasks \cup {"quit", "invalid"}
         /\ Sizes(g) \subseteq Nat
         /\ Behind(g) \subseteq Seq(Pieces)
<1>1. g \in Seq(SentPieces) /\ Len(g) \in Nat /\ Len(g) >= 1 /\ Len(g) <= n
  BY ReceivedParts, LenProperties DEF ClientSent
<1>2. SentPieces \subseteq Pieces
  BY DEF SentPieces, ClientPieces, Pieces
<1>3. g[1] \in SentPieces
  BY <1>1, LenProperties
<1>4. g[1].part = "head" => g[1].msg \in Lines
  BY <1>3 DEF SentPieces, ClientPieces, Parts, Blocks
<1>5. CommandsIn(g) \subseteq Tasks \cup {"quit", "invalid"}
  BY <1>4 DEF CommandsIn, Lines, Tasks
<1>6. g[1].size \in Nat
  BY <1>3 DEF SentPieces, ClientPieces
<1>7. Sizes(g) \subseteq Nat
  BY <1>6, CapacityAssumption DEF Sizes
<1>8. g \in Seq(Pieces)
  BY <1>1, <1>2, SeqGrows
<1>9. Behind(g) \subseteq Seq(Pieces)
  <2>1. \A i \in 1 .. Len(g) : g[i] \in Pieces
    BY <1>8, LenProperties
  <2>2. SubSeq(g, 3, Len(g)) \in Seq(Pieces) /\ SubSeq(g, 2, Len(g)) \in Seq(Pieces)
    BY <1>1, <1>8, <2>1, SubSeqProperties
  <2>3. <<>> \in Seq(Pieces)
    OBVIOUS
  <2> QED BY <2>2, <2>3 DEF Behind
<1> QED BY <1>1, <1>5, <1>7, <1>8, <1>9

\* The recv holds half a line.
HalfLine(g) == Len(g) = 1 /\ Cuts(g)

\* What the thread does with the command cmd of the recv g, as in RecvCommand.
ReadsAs(g, cmd) ==
  CASE cmd = "invalid" ->
         /\ SayThen("error", "files", FALSE) /\ UNCHANGED task
         /\ Note(IF Cuts(g) THEN {"torn"} ELSE {})
    [] cmd = "quit" ->
         /\ SayThen("bye", "end", FALSE) /\ UNCHANGED task
         /\ Note(IF Cuts(g) THEN {"torn"} ELSE {})
    [] cmd = "upload" /\ Len(g) = 1 /\ Cuts(g) ->
         /\ \/ SayThen("upload_error", "files", FALSE) /\ UNCHANGED task
            \/ \E n \in Sizes(g) :
                 /\ task' = [op |-> "upload", data |-> <<>>, size |-> n]
                 /\ spc' = IF n > 0 THEN "data" ELSE "queue"
                 /\ UNCHANGED out
         /\ Note({"torn"})
    [] cmd = "upload" /\ ~ (Len(g) = 1 /\ Cuts(g)) ->
         \E extra \in Behind(g), n \in Sizes(g) :
           RefuseUpload(extra, n) \/ AcceptUpload(extra, n)
    [] OTHER ->
         /\ task' = [op |-> cmd, data |-> <<>>, size |-> 0]
         /\ spc' = "queue" /\ UNCHANGED out
         /\ Note(IF Cuts(g) THEN {"torn"} ELSE {})

\* RecvCommand reads some prefix as one of the commands it may hold.
LEMMA CommandsReadAs ==
  ASSUME RecvCommand
  PROVE  \E g \in Received(c2s, Len(c2s)) : \E cmd \in CommandsIn(g) : ReadsAs(g, cmd)
  BY Zenon DEF RecvCommand, ReadsAs

\* Reading a command either answers it or makes a task of it.
LEMMA CommandsRead ==
  ASSUME ClientSent, RecvCommand
  PROVE  \/ /\ \E m \in Answers, n \in AfterSaying : SayThen(m, n, FALSE)
            /\ UNCHANGED task
         \/ /\ spc' \in {"data", "queue"} /\ UNCHANGED out
            /\ task' \in Requests /\ Len(task'.data) <= task'.size
<1>1. PICK g \in Received(c2s, Len(c2s)) : \E cmd \in CommandsIn(g) : ReadsAs(g, cmd)
  BY CommandsReadAs
<1>2. PICK cmd \in CommandsIn(g) : ReadsAs(g, cmd)
  BY <1>1
<1>3. Len(c2s) \in Nat
  BY LenProperties DEF ClientSent
<1>4. /\ cmd \in Tasks \cup {"quit", "invalid"}
      /\ Sizes(g) \subseteq Nat /\ Behind(g) \subseteq Seq(Pieces)
  BY <1>3, LinesFit
<1>5. /\ "upload" \in Tasks /\ "files" \in AfterSaying /\ "end" \in AfterSaying
      /\ {"error", "bye", "upload_error"} \subseteq Answers
  BY DEF Tasks, AfterSaying, Answers
<1>6. ASSUME NEW m \in Answers, NEW n \in AfterSaying, SayThen(m, n, FALSE), UNCHANGED task
      PROVE  \E x \in Answers, y \in AfterSaying : SayThen(x, y, FALSE)
  BY <1>6
<1>7. CASE cmd = "invalid"
  BY <1>2, <1>5, <1>6, <1>7 DEF ReadsAs
<1>8. CASE cmd = "quit"
  BY <1>2, <1>5, <1>6, <1>8 DEF ReadsAs
<1>9. CASE cmd = "upload" /\ ~ HalfLine(g)
  <2>1. PICK extra \in Behind(g), size \in Sizes(g) :
          RefuseUpload(extra, size) \/ AcceptUpload(extra, size)
    <3>1. cmd = "upload" /\ ~ (Len(g) = 1 /\ Cuts(g))
      BY <1>9 DEF HalfLine
    <3> QED BY Zenon, <1>2, <3>1 DEF ReadsAs
  <2>2. extra \in Seq(Pieces) /\ size \in Nat
    BY <1>4
  <2>3. CASE RefuseUpload(extra, size)
    BY <1>5, <1>6, <2>3 DEF RefuseUpload
  <2>4. CASE AcceptUpload(extra, size)
    <3> DEFINE d == Leftover(extra, size)
    <3>1. Content(d) \in Contents /\ Len(Content(d)) <= size
      BY <2>2, LeftoverFits, ContentFits
    <3>2. /\ task' = [op |-> "upload", data |-> Content(d), size |-> size]
          /\ spc' \in {"data", "queue"} /\ UNCHANGED out
      BY <2>4 DEF AcceptUpload
    <3> HIDE DEF d
    <3>3. task' \in Requests
      BY <1>5, <2>2, <3>1, <3>2 DEF Requests
    <3> QED BY <3>1, <3>2, <3>3
  <2> QED BY <2>1, <2>3, <2>4
<1>10. CASE cmd = "upload" /\ HalfLine(g)
  <2>1. \/ SayThen("upload_error", "files", FALSE) /\ UNCHANGED task
        \/ \E n \in Sizes(g) :
             /\ task' = [op |-> "upload", data |-> <<>>, size |-> n]
             /\ spc' = IF n > 0 THEN "data" ELSE "queue"
             /\ UNCHANGED out
    <3>1. cmd = "upload" /\ Len(g) = 1 /\ Cuts(g)
      BY <1>10 DEF HalfLine
    <3> QED BY Zenon, <1>2, <3>1 DEF ReadsAs
  <2>2. CASE SayThen("upload_error", "files", FALSE) /\ UNCHANGED task
    BY <1>5, <1>6, <2>2
  <2>3. ASSUME NEW n \in Sizes(g),
               task' = [op |-> "upload", data |-> <<>>, size |-> n],
               spc' = IF n > 0 THEN "data" ELSE "queue", UNCHANGED out
        PROVE  task' \in Requests /\ Len(task'.data) <= task'.size
    <3>1. n \in Nat
      BY <1>4
    <3> QED BY <1>5, <2>3, <3>1, EmptyTasks
  <2> QED BY <2>1, <2>2, <2>3
<1>11. CASE cmd \in Tasks \ {"upload"}
  <2>1. /\ task' = [op |-> cmd, data |-> <<>>, size |-> 0]
        /\ spc' = "queue" /\ UNCHANGED out
    BY <1>2, <1>11 DEF ReadsAs, Tasks
  <2> QED BY <1>11, <2>1, EmptyTasks
<1> QED BY <1>4, <1>7, <1>8, <1>9, <1>10, <1>11

\* The loop of recv_full asks for what is missing and no more.
LEMMA DataRead ==
  ASSUME ClientSent, ServerFits, RecvData
  PROVE  ServerFits'
<1>1. /\ Need \in Nat /\ Len(task.data) \in Nat /\ task.size \in Nat
      /\ Len(task.data) + Need = task.size
  BY LenProperties DEF ServerFits, Requests, Need, Contents
<1>2. ASSUME NEW g \in Received(c2s, Need), task' = [task EXCEPT !.data = @ \o Content(g)],
             spc' \in {"queue", "data"}, UNCHANGED <<out, file>>
      PROVE  ServerFits'
  <2>1. g \in Seq(Pieces) /\ Len(g) \in 1 .. Need
    BY <1>1, <1>2, LinesFit
  <2>2. Content(g) \in Contents /\ Len(Content(g)) = Len(g)
    BY <2>1, ContentFits
  <2>3. /\ task.data \o Content(g) \in Contents
        /\ Len(task.data \o Content(g)) = Len(task.data) + Len(Content(g))
    <3>1. task.data \in Seq(Parts) /\ Content(g) \in Seq(Parts)
      BY <2>2 DEF ServerFits, Requests, Contents
    <3> QED BY <3>1, ConcatProperties DEF Contents
  <2>4. Len(task.data \o Content(g)) <= task.size
    BY <1>1, <2>1, <2>2, <2>3
  <2>5. task' \in Requests /\ task'.data = task.data \o Content(g) /\ task'.size = task.size
    BY <1>2, <2>3 DEF ServerFits, Requests
  <2> QED BY <1>2, <2>4, <2>5 DEF ServerFits
<1>3. ASSUME SayThen("upload_error", "files", FALSE), task' = NoTask, UNCHANGED file
      PROVE  ServerFits'
  <2>1. spc' = "say" /\ out'.next \in AfterSaying /\ out'.msg \in Answers /\ out' \in Outs
    BY <1>3, SaysFit DEF Answers, AfterSaying
  <2>2. task' \in Requests /\ Len(task'.data) <= task'.size
    BY <1>3, EmptyTasks DEF NoTask
  <2> QED BY <1>3, <2>1, <2>2 DEF ServerFits
<1>4. \/ \E g \in Received(c2s, Need) :
           /\ task' = [task EXCEPT !.data = @ \o Content(g)]
           /\ spc' \in {"queue", "data"} /\ UNCHANGED <<out, file>>
      \/ SayThen("upload_error", "files", FALSE) /\ task' = NoTask /\ UNCHANGED file
  BY DEF RecvData, RecvDataUpTo
<1> QED BY <1>2, <1>3, <1>4

\* The steps of the thread that read no data.
LEMMA ServerGoesOn ==
  ASSUME ServerFits, Accept \/ Say \/ RecvAuth \/ CallReturns \/ SetUsername
                       \/ QueueTask \/ Work \/ EndSession
  PROVE  ServerFits'
<1>1. /\ NoTask \in Requests /\ Len(NoTask.data) <= NoTask.size /\ Nothing \in Outs
  <2>1. <<>> \in Contents
    BY DEF Contents
  <2> QED BY <2>1, EmptyTasks DEF NoTask, Nothing, Out, Outs
<1>2. ASSUME NEW m \in Answers, NEW n \in AfterSaying, NEW e \in BOOLEAN, SayThen(m, n, e),
             task' \in {task, NoTask}, file' \in Contents \cup {NoFile}
      PROVE  ServerFits'
  BY <1>1, <1>2, SaysFit DEF ServerFits
<1>3. /\ {"welcome", "error", "auth_ok", "auth_error", "menu", "upload_ok", "upload_error",
          "download_ok", "download_error", "delete_ok", "delete_error", "list", "list_error"}
           \subseteq Answers
      /\ {"auth", "named", "files", "end"} \subseteq AfterSaying
      /\ file \in Contents \cup {NoFile}
  BY DEF Answers, AfterSaying, ServerFits
<1>4. CASE Accept
  <2>1. CASE SayThen("welcome", "auth", TRUE)
    BY <1>2, <1>3, <1>4, <2>1 DEF Accept
  <2>2. CASE spc' = "gone" /\ UNCHANGED out
    BY <1>4, <2>2 DEF Accept, ServerFits
  <2> QED BY <1>4, <2>1, <2>2 DEF Accept
<1>5. CASE Say
  <2>1. CASE out.data # <<>> /\ out' = [out EXCEPT !.data = Tail(@)] /\ UNCHANGED spc
    <3>1. Tail(out.data) \in Contents
      BY <2>1, HeadTailProperties DEF ServerFits, Outs, Contents
    <3>2. out' \in Outs /\ out'.next = out.next /\ out'.msg = out.msg
      BY <2>1, <3>1 DEF ServerFits, Outs
    <3> QED BY <1>5, <2>1, <3>2 DEF Say, ServerFits
  <2>2. CASE spc' \in {out.next, "end"} /\ out' = Nothing
    <3>1. spc' \in AfterSaying
      BY <1>5, <2>2 DEF Say, ServerFits, AfterSaying
    <3>2. UNCHANGED <<task, file>>
      BY <1>5 DEF Say
    <3> QED BY <1>1, <2>2, <3>1, <3>2 DEF ServerFits, AfterSaying
  <2>3. \/ out.data # <<>> /\ out' = [out EXCEPT !.data = Tail(@)] /\ UNCHANGED spc
        \/ spc' \in {out.next, "end"} /\ out' = Nothing
    BY <1>5 DEF Say
  <2> QED BY <2>1, <2>2, <2>3
<1>6. CASE RecvAuth
  <2>1. /\ UNCHANGED <<task, file>>
        /\ (spc' = "calling" /\ UNCHANGED out) \/ SayThen("error", "auth", FALSE)
    BY <1>6 DEF RecvAuth
  <2>2. CASE spc' = "calling" /\ UNCHANGED out
    BY <2>1, <2>2 DEF ServerFits
  <2> QED BY <1>2, <1>3, <2>1, <2>2
<1>7. CASE CallReturns
  BY <1>2, <1>3, <1>7 DEF CallReturns
<1>8. CASE SetUsername
  BY <1>2, <1>3, <1>8 DEF SetUsername
<1>9. CASE QueueTask
  <2>1. CASE spc' = "work" /\ UNCHANGED <<task, out, file>>
    BY <2>1 DEF ServerFits
  <2> QED BY <1>2, <1>3, <1>9, <2>1 DEF QueueTask
<1>10. CASE Work
  <2>1. /\ <<>> \in Contents /\ (file # NoFile => file \in Contents)
        /\ task' = NoTask /\ task.data \in Contents
    BY <1>3, <1>10 DEF Work, ServerFits, Requests, Contents
  <2>2. \E f \in {file, task.data, NoFile}, d \in Contents, m \in Answers : Done(f, d, m)
    BY <1>3, <1>10, <2>1 DEF Work
  <2>3. PICK f \in {file, task.data, NoFile}, d \in Contents, m \in Answers : Done(f, d, m)
    BY <2>2
  <2>4. file' \in Contents \cup {NoFile}
    BY <1>3, <2>1, <2>3 DEF Done
  <2>5. CASE spc' = "say" /\ out' = Out(d, m, "files", d # <<>>)
    <3>1. out' \in Outs /\ out'.next = "files" /\ out'.msg = m
      BY <1>3, <2>3, <2>5 DEF Out, Outs
    <3> QED BY <1>1, <1>3, <2>1, <2>4, <2>5, <3>1 DEF ServerFits
  <2>6. CASE spc' = "asleep" /\ UNCHANGED out
    BY <1>1, <2>1, <2>4, <2>6 DEF ServerFits
  <2> QED BY <2>3, <2>5, <2>6 DEF Done
<1>11. CASE EndSession
  BY <1>1, <1>3, <1>11 DEF EndSession, ServerFits
<1> QED BY <1>4, <1>5, <1>6, <1>7, <1>8, <1>9, <1>10, <1>11

\* Whatever happens, the client thread knows what it does.
LEMMA ServerStepFits ==
  ASSUME ClientSent, ServerFits, [Next]_vars
  PROVE  ServerFits'
<1>1. CASE UNCHANGED servervars
  BY <1>1 DEF servervars, ServerFits
<1>2. CASE RecvCommand
  <2>1. UNCHANGED file
    BY <1>2 DEF RecvCommand
  <2>2. ASSUME NEW m \in Answers, NEW n \in AfterSaying, SayThen(m, n, FALSE), UNCHANGED task
        PROVE  ServerFits'
    BY <2>1, <2>2, SaysFit DEF ServerFits
  <2>3. CASE /\ spc' \in {"data", "queue"} /\ UNCHANGED out
             /\ task' \in Requests /\ Len(task'.data) <= task'.size
    BY <2>1, <2>3 DEF ServerFits
  <2> QED BY <1>2, <2>2, <2>3, CommandsRead
<1>3. CASE ServerStep
  BY <1>1, <1>2, <1>3, DataRead, ServerGoesOn DEF ServerStep
<1>4. CASE \/ ClientStep \/ SendAuth \/ Leave \/ Reset
  BY <1>1, <1>4 DEF ClientStep, ReadWelcome, ReadAuth, ReadMenu, SendBlock, ReadAnswer,
    ReadDownload, DrainDownload, SendAuth, Leave, Reset
<1>5. CASE \/ \E p \in Payloads : SendCommand("upload", p)
           \/ \E op \in Tasks \ {"upload"} : SendCommand(op, <<>>)
  BY <1>1, <1>5 DEF SendCommand
<1>6. CASE UNCHANGED vars \/ \E s \in Sessions : OtherSession(s)
  BY <1>1, <1>6 DEF vars, OtherSession
<1> QED BY <1>3, <1>4, <1>5, <1>6 DEF Next

-----------------------------------------------------------------------------
(* The client program and the streams *)

\* A download has a local file, and the program is somewhere.
ClientFits ==
  /\ cpc \in {"welcome", "menu", "auth", "second", "prompt", "sending",
              "answer", "download", "drain", "gone"}
  /\ cpc = "download" => local \in Contents
  /\ ask \in Tasks \cup {"none"} /\ told \in {"none", "ok", "failed"}
  /\ rest \in Seq(Blocks) /\ sent \in Seq(Blocks)
  /\ local \in Contents \cup {NoFile}

\* No stream holds more than it can, and none holds anything for the next client
\* of a thread.
StreamsFit ==
  /\ s2c \in Seq(Pieces)
  /\ Len(c2s) <= Capacity /\ Len(s2c) <= Capacity
  /\ up \in BOOLEAN
  /\ spc = "accept" => s2c = <<>>

\* What a recv of the client returns, and what it leaves.
LEMMA AnswersFit ==
  ASSUME StreamsFit, NEW g \in Received(s2c, Len(s2c))
  PROVE  /\ g \in Seq(Pieces) /\ Beyond(s2c, g) \in Seq(Pieces)
         /\ Len(Beyond(s2c, g)) <= Capacity
         /\ s2c # <<>>
<1>1. s2c \in Seq(Pieces) /\ Len(s2c) \in Nat /\ Len(s2c) <= Capacity
  BY LenProperties DEF StreamsFit
<1>2. /\ g \in Seq(Pieces) /\ Len(g) >= 1 /\ Len(g) <= Len(s2c) /\ Len(g) \in Nat
      /\ Beyond(s2c, g) \in Seq(Pieces) /\ Len(Beyond(s2c, g)) = Len(s2c) - Len(g)
  BY <1>1, ReceivedParts, LenProperties
<1> QED BY <1>1, <1>2, CapacityAssumption

\* The steps of the client program.
LEMMA ClientStepFits ==
  ASSUME ClientFits, StreamsFit, [Next]_vars
  PROVE  ClientFits'
<1>1. CASE UNCHANGED clientvars
  BY <1>1 DEF clientvars, ClientFits
<1>2. CASE ReadWelcome \/ ReadAuth \/ ReadMenu \/ ReadAnswer \/ DrainDownload
  <2>1. /\ UNCHANGED <<ask, rest, sent, local>>
        /\ \/ cpc' \in {"menu", "gone", "second", "prompt"} /\ told' \in {told, "none", "ok", "failed"}
           \/ UNCHANGED <<cpc, told>>
    BY <1>2 DEF ReadWelcome, ReadAuth, ReadMenu, ReadAnswer, DrainDownload, Report
  <2> QED BY <2>1 DEF ClientFits
<1>3. CASE SendAuth
  BY <1>3 DEF SendAuth, ClientFits
<1>4. CASE SendBlock
  <2>1. rest # <<>> => Tail(rest) \in Seq(Blocks)
    BY HeadTailProperties DEF ClientFits
  <2>2. UNCHANGED <<ask, sent, local>> /\ cpc = "sending"
    BY <1>4 DEF SendBlock
  <2>3. \/ cpc' = "answer" /\ UNCHANGED <<rest, told>>
        \/ rest # <<>> /\ rest' = Tail(rest) /\ UNCHANGED <<cpc, told>>
        \/ cpc' = "prompt" /\ told' = "failed" /\ UNCHANGED rest
    BY Zenon, <1>4 DEF SendBlock, Report
  <2> QED BY <2>1, <2>2, <2>3 DEF ClientFits
<1>5. CASE Leave
  BY <1>5 DEF Leave, Report, ClientFits
<1>6. ASSUME NEW op \in Tasks, NEW p \in Seq(Blocks), SendCommand(op, p)
      PROVE  ClientFits'
  <2>1. <<>> \in Contents
    BY DEF Contents
  <2>2. /\ ask' = op /\ told' = "none" /\ rest' = p /\ sent' = p
        /\ \/ cpc' \in {"sending", "drain", "answer"} /\ local' = NoFile
           \/ cpc' = "download" /\ local' = <<>>
    BY <1>6 DEF SendCommand
  <2> QED BY <2>1, <2>2 DEF ClientFits
<1>7. CASE ReadDownload
  <2>1. ASSUME NEW d \in Contents, local' = d, cpc' \in {cpc, "prompt"},
               told' \in {told, "ok", "failed"}, UNCHANGED <<ask, rest, sent>>
        PROVE  ClientFits'
    BY <2>1 DEF ClientFits
  <2>2. UNCHANGED <<ask, rest, sent>> /\ local \in Contents
    BY <1>7 DEF ReadDownload, ClientFits
  <2>3. ASSUME NEW g \in Received(s2c, Len(s2c)),
               \/ local' = local \o Content(g)
               \/ \E i \in EndMarkers(g) \cup FalseEnds(g) :
                    local' = local \o Content(SubSeq(g, 1, i - 1))
        PROVE  local' \in Contents
    BY <2>2, <2>3, AnswersFit, WrittenFits
  <2>4. \/ local' = local
        \/ \E g \in Received(s2c, Len(s2c)) :
             \/ local' = local \o Content(g)
             \/ \E i \in EndMarkers(g) \cup FalseEnds(g) :
                  local' = local \o Content(SubSeq(g, 1, i - 1))
    BY <1>7 DEF ReadDownload
  <2>5. cpc' \in {cpc, "prompt"} /\ told' \in {told, "ok", "failed"}
    BY <1>7 DEF ReadDownload, Report
  <2> QED BY <2>1, <2>2, <2>3, <2>4, <2>5
<1>8. CASE ServerStep
  BY <1>1, <1>8 DEF ServerStep, Accept, Say, RecvAuth, CallReturns, SetUsername, RecvCommand,
    RecvData, RecvDataUpTo, QueueTask, Work, EndSession
<1>9. CASE UNCHANGED vars \/ Reset \/ \E s \in Sessions : OtherSession(s)
  BY <1>1, <1>9 DEF vars, Reset, OtherSession
<1>10. CASE \/ \E p \in Payloads : SendCommand("upload", p)
            \/ \E op \in Tasks \ {"upload"} : SendCommand(op, <<>>)
  <2>1. "upload" \in Tasks /\ <<>> \in Seq(Blocks) /\ Payloads \subseteq Seq(Blocks)
    BY PayloadsAssumption DEF Tasks
  <2> QED BY <1>6, <1>10, <2>1
<1> QED BY <1>2, <1>3, <1>4, <1>5, <1>7, <1>8, <1>9, <1>10 DEF Next, ClientStep

\* What is sent fits in, and is a text or a block.
LEMMA TextsFit ==
  ASSUME NEW m \in Lines \cup Answers, NEW c \in Calls \cup {NoCall}, NEW n \in Nat
  PROVE  FullText(m, c, n) \in Seq(Pieces) /\ Len(FullText(m, c, n)) = 2
<1>1. \A h \in {"head", "tail"} : Half(m, h, c, n) \in Pieces
  BY DEF Half, Pieces, Parts
<1> QED BY <1>1 DEF FullText

\* The two ways the stream to the client grows.
LEMMA ServerSends ==
  ASSUME ServerFits, StreamsFit, Say \/ Accept
  PROVE  s2c' \in Seq(Pieces) /\ Len(s2c') <= Capacity
<1>1. s2c \in Seq(Pieces) /\ Len(s2c) \in Nat
  BY LenProperties DEF StreamsFit
<1>2. ASSUME NEW m \in Answers
      PROVE  /\ s2c \o Text(m) \in Seq(Pieces)
             /\ Len(s2c \o Text(m)) = Len(s2c) + 2 /\ Len(Text(m)) = 2
  <2> DEFINE t == Text(m)
  <2>1. t \in Seq(Pieces) /\ Len(t) = 2
    BY TextsFit DEF Text
  <2> HIDE DEF t
  <2>2. s2c \o t \in Seq(Pieces) /\ Len(s2c \o t) = Len(s2c) + Len(t)
    BY <1>1, <2>1, ConcatProperties
  <2>3. Len(s2c \o t) = Len(s2c) + 2
    BY <2>1, <2>2
  <2> QED BY <2>1, <2>2, <2>3 DEF t
<1>3. CASE UNCHANGED s2c
  BY <1>3 DEF StreamsFit
<1>4. CASE Accept /\ s2c' = s2c \o Text("busy")
  <2>1. s2c = <<>> /\ Len(s2c) = 0
    BY <1>4 DEF Accept, StreamsFit
  <2>2. "busy" \in Answers
    BY DEF Answers
  <2>3. s2c' \in Seq(Pieces) /\ Len(s2c') = 0 + 2
    BY <1>2, <1>4, <2>1, <2>2
  <2> QED BY <2>3, CapacityAssumption
<1>5. CASE /\ out.data # <<>> /\ Fits(s2c, <<Head(out.data)>>)
           /\ s2c' = Append(s2c, Block(Head(out.data)))
  <2>1. Head(out.data) \in Parts
    BY <1>5, HeadTailProperties DEF ServerFits, Outs, Contents
  <2>2. Block(Head(out.data)) \in Pieces
    BY <2>1 DEF Block, Half, Pieces
  <2>3. Append(s2c, Block(Head(out.data))) \in Seq(Pieces)
        /\ Len(Append(s2c, Block(Head(out.data)))) = Len(s2c) + 1
    BY <1>1, <2>2, AppendProperties
  <2>4. Len(s2c) + 1 <= Capacity
    BY <1>5 DEF Fits
  <2> QED BY <1>5, <2>3, <2>4
<1>6. CASE Say /\ Fits(s2c, Text(out.msg)) /\ s2c' = s2c \o Text(out.msg)
  <2>1. out.msg \in Answers
    BY <1>6 DEF Say, ServerFits
  <2> QED BY <1>2, <1>6, <2>1 DEF Fits
<1> QED BY <1>3, <1>4, <1>5, <1>6 DEF Say, Accept

\* The ways the stream to the server grows.
LEMMA ClientSends ==
  ASSUME ClientSent, StreamsFit, NEW g \in Seq(SentPieces), c2s' = c2s \o g, Fits(c2s, g)
  PROVE  Len(c2s') <= Capacity
  BY ConcatProperties DEF ClientSent, Fits

\* What a recv of the client thread leaves.
LEMMA LinesLeave ==
  ASSUME ClientSent, StreamsFit, NEW n \in Nat, NEW g \in Received(c2s, n),
         c2s' = Beyond(c2s, g)
  PROVE  Len(c2s') <= Capacity
<1>1. /\ Len(c2s) \in Nat /\ Len(c2s) <= Capacity /\ Len(g) >= 1 /\ Len(g) \in Nat
      /\ Len(Beyond(c2s, g)) = Len(c2s) - Len(g)
  BY ReceivedParts, LenProperties DEF ClientSent, StreamsFit
<1> QED BY <1>1, CapacityAssumption

\* The stream to the server never holds more than it can.
LEMMA LinesStepFit ==
  ASSUME ClientSent, StreamsFit, ServerFits, [Next]_vars
  PROVE  Len(c2s') <= Capacity
<1>1. CASE UNCHANGED c2s
  BY <1>1 DEF StreamsFit
<1>2. ASSUME NEW line \in Seq(SentPieces), Sends(line)
      PROVE  Len(c2s') <= Capacity
  BY <1>1, <1>2, ClientSends DEF Sends
<1>3. CASE SendAuth
  <2>1. \E c \in Calls : Sends(FullText("auth", c, 0))
    BY <1>3 DEF SendAuth
  <2> QED BY <1>2, <2>1, TextsAreSent DEF Lines
<1>4. ASSUME NEW op \in Tasks, NEW p \in Seq(Blocks), SendCommand(op, p)
      PROVE  Len(c2s') <= Capacity
  <2>1. Sends(FullText(op, NoCall, Len(p)))
    BY <1>4 DEF SendCommand
  <2>2. op # "auth" /\ op \in Lines /\ Len(p) \in Nat /\ NoCall \in Calls \cup {NoCall}
    BY LenProperties DEF Tasks, Lines
  <2>3. FullText(op, NoCall, Len(p)) \in Seq(SentPieces)
    BY <2>2, TextsAreSent
  <2> QED BY <1>2, <2>1, <2>3
<1>5. CASE SendBlock
  <2>1. CASE rest # <<>> /\ Fits(c2s, <<Head(rest)>>) /\ c2s' = Append(c2s, Block(Head(rest)))
    <3>1. Block(Head(rest)) \in SentPieces
      BY <2>1, HeadTailProperties, BlocksAreSent DEF ClientSent
    <3>2. Len(c2s') = Len(c2s) + 1
      BY <2>1, <3>1, AppendProperties DEF ClientSent
    <3> QED BY <2>1, <3>2 DEF Fits
  <2> QED BY <1>1, <1>5, <2>1 DEF SendBlock
<1>6. CASE Leave
  <2>1. Text("quit") \in Seq(SentPieces)
    BY TextsAreSent DEF Text, FullText, Lines
  <2>2. UNCHANGED c2s \/ (c2s' = c2s \o Text("quit") /\ Fits(c2s, Text("quit")))
    BY <1>6 DEF Leave
  <2> QED BY <1>1, <2>1, <2>2, ClientSends
<1>7. CASE Reset
  BY <1>7, CapacityAssumption DEF Reset
<1>8. CASE RecvAuth \/ RecvCommand
  <2>1. \E g \in Received(c2s, Len(c2s)) : c2s' = Beyond(c2s, g)
    BY <1>8 DEF RecvAuth, RecvCommand
  <2>2. Len(c2s) \in Nat
    BY LenProperties DEF ClientSent
  <2> QED BY <2>1, <2>2, LinesLeave
<1>9. CASE RecvData
  <2>1. UNCHANGED c2s \/ \E g \in Received(c2s, Need) : c2s' = Beyond(c2s, g)
    BY <1>9 DEF RecvData, RecvDataUpTo
  <2>2. Need \in Nat
    BY LenProperties DEF ServerFits, Requests, Contents, Need
  <2> QED BY <1>1, <2>1, <2>2, LinesLeave
<1>10. CASE \/ Accept \/ Say \/ CallReturns \/ SetUsername \/ QueueTask \/ Work \/ EndSession
  BY <1>1, <1>10 DEF Accept, Say, CallReturns, SetUsername, QueueTask, Work, EndSession
<1>11. CASE \/ ReadWelcome \/ ReadAuth \/ ReadMenu \/ ReadAnswer \/ ReadDownload
            \/ DrainDownload
  BY <1>1, <1>11 DEF ReadWelcome, ReadAuth, ReadMenu, ReadAnswer, ReadDownload, DrainDownload
<1>12. CASE UNCHANGED vars \/ UNCHANGED <<up, c2s, s2c, servervars, clientvars, trouble>>
            \/ \E s \in Sessions : OtherSession(s)
  BY <1>1, <1>12 DEF vars, OtherSession
<1>13. CASE \/ \E p \in Payloads : SendCommand("upload", p)
            \/ \E op \in Tasks \ {"upload"} : SendCommand(op, <<>>)
  <2>1. "upload" \in Tasks /\ <<>> \in Seq(Blocks) /\ Payloads \subseteq Seq(Blocks)
    BY PayloadsAssumption DEF Tasks
  <2> QED BY <1>4, <1>13, <2>1
<1> QED
  BY <1>3, <1>5, <1>6, <1>7, <1>8, <1>9, <1>10, <1>11, <1>12, <1>13
  DEF Next, ServerStep, ClientStep

\* Nor does the stream to the client; a connection that was not taken yet has sent
\* its client nothing.
LEMMA StreamsStepFit ==
  ASSUME ClientSent, StreamsFit, ServerFits, [Next]_vars
  PROVE  StreamsFit'
<1>1. Len(c2s') <= Capacity
  BY LinesStepFit
<1>2. up' \in BOOLEAN
  <2>1. UNCHANGED up \/ up' = FALSE
    <3>1. CASE ServerStep
      BY <3>1 DEF ServerStep, Accept, Say, RecvAuth, CallReturns, SetUsername, RecvCommand,
        RecvData, RecvDataUpTo, QueueTask, Work, EndSession
    <3>2. CASE ClientStep
      BY <3>2 DEF ClientStep, ReadWelcome, ReadAuth, ReadMenu, SendBlock, ReadAnswer,
        ReadDownload, DrainDownload
    <3> QED
      BY <3>1, <3>2 DEF Next, Reset, SendAuth, SendCommand, Leave, OtherSession, vars
  <2> QED BY <2>1 DEF StreamsFit
<1>3. /\ s2c' \in Seq(Pieces) /\ Len(s2c') <= Capacity
      /\ s2c = <<>> /\ s2c' # <<>> => Say \/ Accept
  <2>1. CASE UNCHANGED s2c \/ s2c' = <<>>
    <3>1. <<>> \in Seq(Pieces) /\ Len(<<>>) <= Capacity
      BY CapacityAssumption
    <3>2. s2c \in Seq(Pieces) /\ Len(s2c) <= Capacity
      BY DEF StreamsFit
    <3> QED BY <2>1, <3>1, <3>2
  <2>2. CASE \E g \in Received(s2c, Len(s2c)) : s2c' = Beyond(s2c, g)
    BY <2>2, AnswersFit
  <2>3. CASE Say \/ Accept
    BY <2>3, ServerSends
  <2>4. CASE ServerStep
    BY <2>1, <2>3, <2>4 DEF ServerStep, RecvAuth, CallReturns, SetUsername, RecvCommand,
      RecvData, RecvDataUpTo, QueueTask, Work, EndSession
  <2>5. CASE ClientStep
    BY <2>1, <2>2, <2>5 DEF ClientStep, ReadWelcome, ReadAuth, ReadMenu, SendBlock,
      ReadAnswer, ReadDownload, DrainDownload
  <2> QED
    BY <2>1, <2>4, <2>5 DEF Next, Reset, SendAuth, SendCommand, Leave, OtherSession, vars
<1>4. spc' = "accept" => spc = "accept" /\ ~ Say /\ ~ Accept
  <2>1. spc = "say" => out.next # "accept"
    BY DEF ServerFits, AfterSaying
  <2>2. CASE UNCHANGED spc
    BY <2>2 DEF Say, Accept, SayThen
  <2>3. CASE Accept \/ Say \/ RecvAuth \/ CallReturns \/ SetUsername
    BY <2>1, <2>3 DEF Accept, Say, RecvAuth, CallReturns, SetUsername, SayThen
  <2>4. CASE RecvCommand
    BY <2>4, CommandsRead DEF SayThen, Say, Accept
  <2>5. CASE RecvData \/ QueueTask \/ Work \/ EndSession
    BY <2>5 DEF RecvData, RecvDataUpTo, QueueTask, Work, Done, EndSession, SayThen
  <2>6. CASE ServerStep
    BY <2>2, <2>3, <2>4, <2>5, <2>6 DEF ServerStep, servervars
  <2>7. CASE ClientStep
    BY <2>2, <2>7 DEF ClientStep, ReadWelcome, ReadAuth, ReadMenu, SendBlock, ReadAnswer,
      ReadDownload, DrainDownload, servervars
  <2> QED
    BY <2>2, <2>6, <2>7
    DEF Next, Reset, SendAuth, SendCommand, Leave, OtherSession, vars, servervars
<1> QED BY <1>1, <1>2, <1>3, <1>4 DEF StreamsFit

\* trouble is the first of the causes that arose.
LEMMA TroubleStepFits ==
  ASSUME trouble \in Troubles, [Next]_vars
  PROVE  trouble' \in Troubles
<1>1. CASE UNCHANGED trouble
  BY <1>1
<1>2. ASSUME NEW C, C \subseteq Troubles, Note(C)
      PROVE  trouble' \in Troubles
  <2>1. C # {} => (CHOOSE c \in C : TRUE) \in C
    OBVIOUS
  <2> QED BY <1>2, <2>1 DEF Note
<1>3. \A g : (IF Cuts(g) THEN {"torn"} ELSE {}) \subseteq Troubles /\ TornIn(g) \subseteq Troubles
  BY DEF Troubles, TornIn
<1>4. CASE RecvAuth
  <2>1. \E g : Note(IF Cuts(g) THEN {"torn"} ELSE {})
    BY <1>4 DEF RecvAuth
  <2> QED BY <1>2, <1>3, <2>1
<1>5. CASE RecvCommand
  <2>1. PICK g \in Received(c2s, Len(c2s)) : \E cmd \in CommandsIn(g) : ReadsAs(g, cmd)
    BY <1>5, CommandsReadAs
  <2>2. \/ Note(IF Cuts(g) THEN {"torn"} ELSE {}) \/ Note({"torn"})
        \/ \E extra, n : RefuseUpload(extra, n) \/ AcceptUpload(extra, n)
    BY Zenon, <2>1 DEF ReadsAs
  <2>3. ASSUME NEW extra, NEW n, RefuseUpload(extra, n)
        PROVE  trouble' \in Troubles
    <3>1. (IF Len(extra) < n THEN {"refused"} ELSE {}) \subseteq Troubles
      BY DEF Troubles
    <3> QED BY Zenon, <1>2, <2>3, <3>1 DEF RefuseUpload
  <2>4. ASSUME NEW extra, NEW n, AcceptUpload(extra, n)
        PROVE  trouble' \in Troubles
    <3>1. (IF extra # <<>> /\ n > 0 /\ extra[1].part = "nul" THEN {"nul"} ELSE {})
            \subseteq Troubles
      BY DEF Troubles
    <3> QED BY Zenon, <1>2, <2>4, <3>1 DEF AcceptUpload
  <2>5. {"torn"} \subseteq Troubles
    BY DEF Troubles
  <2> QED BY <1>2, <1>3, <2>2, <2>3, <2>4, <2>5
<1>6. CASE ReadWelcome \/ ReadMenu \/ ReadAnswer
  <2>1. UNCHANGED trouble \/ \E g : Note(TornIn(g))
    BY <1>6 DEF ReadWelcome, ReadMenu, ReadAnswer
  <2> QED BY <1>2, <1>3, <2>1
<1>7. CASE ReadAuth
  <2>1. \A g : TornIn(g) \cup (IF Says("menu", g) THEN {"glued"} ELSE {}) \subseteq Troubles
    BY <1>3 DEF Troubles
  <2>2. UNCHANGED trouble
        \/ \E g : Note(TornIn(g) \cup (IF Says("menu", g) THEN {"glued"} ELSE {}))
    BY <1>7 DEF ReadAuth
  <2> QED BY <1>2, <2>1, <2>2
<1>8. CASE ReadDownload
  <2>1. {"word"} \subseteq Troubles
    BY DEF Troubles
  <2>2. \A g : (IF \E i \in DOMAIN g : g[i].msg # "data"
                THEN IF Visible(g) # g THEN {"nul"} ELSE {"torn"} ELSE {}) \subseteq Troubles
    BY DEF Troubles
  <2>3. {"stale"} \subseteq Troubles
    BY DEF Troubles
  <2>4. \/ UNCHANGED trouble
        \/ \E g : Note(TornIn(g))
        \/ Note({"word"})
        \/ \E g : Note(IF \E i \in DOMAIN g : g[i].msg # "data"
                       THEN IF Visible(g) # g THEN {"nul"} ELSE {"torn"} ELSE {})
        \/ Note({"stale"})
    BY Zenon, <1>8 DEF ReadDownload
  <2> QED BY <1>1, <1>2, <1>3, <2>1, <2>2, <2>3, <2>4
<1>9. CASE DrainDownload
  <2>1. \A g : \A h \in BOOLEAN :
          /\ (IF Cuts(g) THEN {"torn"} ELSE {"word"}) \subseteq Troubles
          /\ (IF Cuts(g) THEN {"torn"} ELSE IF h THEN {"nul"} ELSE {}) \subseteq Troubles
    BY DEF Troubles
  <2>2. {"stale"} \subseteq Troubles
    BY DEF Troubles
  <2>3. \/ UNCHANGED trouble \/ Note({"stale"})
        \/ \E g : Note(TornIn(g)) \/ Note(IF Cuts(g) THEN {"torn"} ELSE {"word"})
        \/ \E g : \E h \in BOOLEAN :
             Note(IF Cuts(g) THEN {"torn"} ELSE IF h THEN {"nul"} ELSE {})
    BY <1>9 DEF DrainDownload
  <2> QED BY <1>1, <1>2, <1>3, <2>1, <2>2, <2>3
<1>10. CASE \/ Accept \/ Say \/ CallReturns \/ SetUsername \/ RecvData \/ QueueTask \/ Work
            \/ EndSession \/ SendBlock \/ SendAuth \/ Leave \/ Reset
  BY <1>1, <1>10 DEF Accept, Say, CallReturns, SetUsername, RecvData, RecvDataUpTo, QueueTask,
    Work, EndSession, SendBlock, SendAuth, Leave, Reset
<1>11. CASE UNCHANGED vars \/ UNCHANGED <<up, c2s, s2c, servervars, clientvars, trouble>>
            \/ \E s \in Sessions : OtherSession(s)
  BY <1>1, <1>11 DEF vars, OtherSession
<1>12. CASE \/ \E p \in Payloads : SendCommand("upload", p)
            \/ \E op \in Tasks \ {"upload"} : SendCommand(op, <<>>)
  BY <1>1, <1>12 DEF SendCommand
<1> QED
  BY <1>4, <1>5, <1>6, <1>7, <1>8, <1>9, <1>10, <1>11, <1>12
  DEF Next, ServerStep, ClientStep

\* What holds in every state of a connection: the accounts are as AccountsProofs
\* has them, the lines on the wire are lines of the client, and both ends know
\* what they do.
Dialogue ==
  IInv /\ ClientSent /\ StreamsFit /\ ServerFits /\ ClientFits /\ trouble \in Troubles

\* Both ends begin with nothing sent or read.
LEMMA DialogueInit == Init => Dialogue
<1> SUFFICES ASSUME Init PROVE Dialogue
  OBVIOUS
<1>1. IInv /\ ClientSent
  BY InitIInv, InitSent DEF Init
<1>2. <<>> \in Contents /\ <<>> \in Seq(Pieces) /\ Len(<<>>) = 0 /\ <<>> \in Seq(Blocks)
  BY DEF Contents
<1>3. NoTask \in Requests /\ Len(NoTask.data) <= NoTask.size /\ Nothing \in Outs
  BY <1>2, EmptyTasks DEF NoTask, Nothing, Out, Outs
<1> QED
  BY <1>1, <1>2, <1>3, CapacityAssumption
  DEF Init, Dialogue, StreamsFit, ServerFits, ClientFits, Troubles

\* Each part of Dialogue by its own lemma.
LEMMA DialogueStep ==
  ASSUME Dialogue, [Next]_vars
  PROVE  Dialogue'
<1>1. IInv'
  BY StepAccounts, StepIInv DEF Dialogue
<1> QED
  BY <1>1, StepSent, StreamsStepFit, ServerStepFits, ClientStepFits, TroubleStepFits
  DEF Dialogue

\* In every state the programs reach, whatever recv returns and wherever the
\* connection breaks, the streams, buffers and variables of both ends hold what
\* they should; recv_full in particular never writes past the buffer that was
\* allocated for the upload.
THEOREM DialogueTypes == Spec => []TypeOK
<1>1. Spec => []Dialogue
  BY DialogueInit, DialogueStep, PTL DEF Spec
<1>2. ASSUME Dialogue
      PROVE  TypeOK
  <2>1. c2s \in Seq(Pieces)
    <3>1. SentPieces \subseteq Pieces
      BY DEF SentPieces, ClientPieces, Pieces
    <3> QED BY <1>2, <3>1, SeqGrows DEF Dialogue, ClientSent
  <2> QED
    BY <1>2, <2>1
    DEF Dialogue, IInv, StreamsFit, ServerFits, ClientFits, TypeOK, Requests, Outs,
      AfterSaying, Troubles
<1> QED BY <1>1, <1>2, PTL
-----------------------------------------------------------------------------
(* What both ends agree on *)

\* All of g is data; nothing of g is of the text m.
IsData(g) == \A i \in DOMAIN g : g[i].msg = "data" /\ g[i].part \in Blocks
Lacks(m, g) == \A i \in DOMAIN g : g[i].msg # m

\* What stands behind the first text of a stream, and before its last.
AfterLine(g) == SubSeq(g, 3, Len(g))
Before(g) == SubSeq(g, 1, Len(g) - 2)

\* Nothing is under way.
Silence == c2s = <<>> /\ s2c = <<>>

\* The text m is what the client receives next, and the server goes on to n.
Coming(m, n) ==
  \/ spc = "say" /\ s2c = <<>> /\ out.data = <<>> /\ out.msg = m /\ out.next = n
  \/ spc = n /\ s2c = Text(m)

\* The client waits for the welcome.
Greeting ==
  /\ told = "none" /\ cpc = "welcome" /\ c2s = <<>> /\ who[Wire] = NoName
  /\ \/ spc = "accept" /\ s2c = <<>>
     \/ Coming("welcome", "auth")
     \/ spc = "gone" /\ s2c \in {<<>>, Text("busy")}

\* The user is to sign up or to log in.
LoggedOut ==
  /\ cpc = "menu" /\ told = "none"
  /\ Silence /\ spc \in {"auth", "gone"} /\ who[Wire] = NoName

\* The client waits for the answer to its SIGNUP or LOGIN.
LoggingIn ==
  /\ told = "none" /\ cpc = "auth"
  /\ \/ /\ spc \in {"auth", "gone"} /\ s2c = <<>> /\ who[Wire] = NoName
        /\ \E c \in Calls : c2s = FullText("auth", c, 0)
     \/ spc = "calling" /\ Silence /\ who[Wire] = NoName
     \/ c2s = <<>> /\ Coming("auth_error", "auth") /\ who[Wire] = NoName
     \/ c2s = <<>> /\ Coming("auth_ok", "named") /\ stage[Wire] = "ok"
     \/ /\ c2s = <<>> /\ s2c = Text("auth_ok") /\ who[Wire] # NoName
        /\ spc = "say" /\ out.data = <<>> /\ out.msg = "menu" /\ out.next = "files"
     \/ /\ c2s = <<>> /\ s2c = Text("auth_ok") \o Text("menu") /\ who[Wire] # NoName
        /\ spc = "files"

\* It has the "OK" and waits for the menu.
LoggedIn ==
  /\ told = "none" /\ cpc = "second" /\ c2s = <<>>
  /\ \/ spc = "named" /\ s2c = <<>> /\ stage[Wire] = "ok"
     \/ Coming("menu", "files") /\ who[Wire] # NoName

\* What the client told about the last command is what happened.
Truth ==
  told = "ok" =>
    /\ ask = "upload" => file = sent
    /\ ask = "download" => local = file
    /\ ask = "delete" => file = NoFile

\* The user is to enter a command.
Prompted == cpc = "prompt" /\ Silence /\ spc = "files" /\ Truth

\* A command is under way: the client at its place.
Commanding ==
  /\ ask \in Tasks /\ told = "none"
  /\ \/ cpc = "sending" /\ ask = "upload"
     \/ cpc = "answer" /\ ask # "download" /\ rest = <<>>
     \/ cpc \in {"download", "drain"} /\ ask = "download" /\ rest = <<>>
  /\ ask # "upload" => sent = <<>>

\* The line of the command is on its way, with all that is sent of an upload.
Asked ==
  /\ spc = "files" /\ s2c = <<>>
  /\ c2s = FullText(ask, NoCall, Len(sent)) \o AfterLine(c2s)
  /\ IsData(AfterLine(c2s)) /\ sent = Content(AfterLine(c2s)) \o rest
  /\ cpc = "download" => local = <<>>

\* The server has the first part of an upload.
Uploading ==
  /\ spc = "data" /\ s2c = <<>> /\ ask = "upload"
  /\ task.op = "upload" /\ task.size = Len(sent)
  /\ IsData(c2s) /\ sent = task.data \o (Content(c2s) \o rest)

\* The server has the command; or its response was dropped.
Queued ==
  /\ spc \in {"queue", "work", "asleep"} /\ Silence /\ rest = <<>>
  /\ spc # "asleep" => task.op = ask /\ task.data = sent
  /\ cpc = "download" => local = <<>>

\* What the server may answer, and what is then true.
Replies(op) ==
  CASE op = "upload"   -> {"upload_ok", "upload_error", "error"}
    [] op = "download" -> {"download_error", "error"}
    [] op = "delete"   -> {"delete_ok", "delete_error", "error"}
    [] op = "list"     -> {"list", "list_error", "error"}

\* The answer to a command, which is not a file, is what the client receives next.
Answered ==
  /\ c2s = <<>> /\ rest = <<>>
  /\ \E m \in Replies(ask) :
       /\ Coming(m, "files")
       /\ m = "upload_ok" => file = sent
       /\ m = "delete_ok" => file = NoFile

\* The file is on its way.
Downloading ==
  /\ ask = "download" /\ c2s = <<>>
  /\ \/ /\ spc = "say" /\ out.msg = "download_ok" /\ out.next = "files"
        /\ IsData(s2c) /\ out.data \in Seq(Blocks)
        /\ cpc = "download" => file = local \o (Content(s2c) \o out.data)
     \/ /\ spc = "files"
        /\ s2c = Before(s2c) \o Text("download_ok") /\ IsData(Before(s2c))
        /\ cpc = "download" => file = local \o Content(Before(s2c))

\* Both ends are at the same place of the dialogue.
Together ==
  \/ Greeting \/ LoggedOut \/ LoggingIn \/ LoggedIn
  \/ /\ who[Wire] # NoName
     /\ \/ Prompted
        \/ Commanding /\ (Asked \/ Uploading \/ Queued \/ Answered \/ Downloading)

\* A NUL byte hid bytes of an upload: the server waits for more than comes.
UploadHidden ==
  /\ cpc \in {"sending", "answer"} /\ s2c = <<>> /\ spc = "data"
  /\ Len(task.data) + Len(c2s) + Len(rest) < task.size

\* ... or the end of a download: the client waits for it.
EndHidden ==
  /\ cpc \in {"download", "drain", "prompt"} /\ c2s = <<>> /\ spc = "files"
  /\ who[Wire] # NoName
  /\ \/ s2c = <<>>
     \/ cpc # "prompt" /\ s2c = <<Text("download_ok")[2]>>

\* What is in storage came in blocks.
FileWhole == file = NoFile \/ file \in Seq(Blocks)

\* While the connection lasts: what the two ends agree on, for each cause that still
\* lets them agree on something.
Agreed ==
  /\ trouble = "none" => Together /\ FileWhole
  /\ trouble = "glued" => cpc = "second" /\ told = "none" /\ spc = "files" /\ Silence
  /\ trouble = "nul" => UploadHidden \/ EndHidden

\* After it was reset.
Parted ==
  /\ trouble = "none" /\ cpc = "prompt" /\ told = "ok" =>
       spc \in {"files", "gone"} /\ Truth
  /\ trouble = "glued" => cpc \in {"second", "prompt"} /\ told = "none"

Agreement ==
  /\ ~ up => Silence
  /\ cpc # "gone" => (up => Agreed) /\ (~ up => Parted)
-----------------------------------------------------------------------------
(* Streams in parts *)

\* A text has a head and a tail.
LEMMA TextHalves ==
  ASSUME NEW m \in Lines \cup Answers, NEW c \in Calls \cup {NoCall}, NEW n \in Nat
  PROVE  /\ FullText(m, c, n) \in Seq(Pieces) /\ Len(FullText(m, c, n)) = 2
         /\ FullText(m, c, n)[1] = Half(m, "head", c, n)
         /\ FullText(m, c, n)[2] = Half(m, "tail", c, n)
<1>1. FullText(m, c, n) \in Seq(Pieces) /\ Len(FullText(m, c, n)) = 2
  BY TextsFit
<1> QED BY <1>1 DEF FullText

\* ... the texts of the server too.
LEMMA AnswerHalves ==
  ASSUME NEW m \in Answers
  PROVE  /\ Text(m) \in Seq(Pieces) /\ Len(Text(m)) = 2
         /\ Text(m)[1] = Half(m, "head", NoCall, 0)
         /\ Text(m)[2] = Half(m, "tail", NoCall, 0)
  BY TextHalves DEF Text

\* A stream is what a recv returns and what it leaves.
LEMMA ReceivedSplits ==
  ASSUME NEW S, NEW s \in Seq(S), NEW k \in Nat, NEW g \in Received(s, k)
  PROVE  /\ g \in Seq(S) /\ Beyond(s, g) \in Seq(S)
         /\ Len(g) \in 1 .. Len(s) /\ Len(g) <= k
         /\ Len(Beyond(s, g)) = Len(s) - Len(g)
         /\ \A i \in 1 .. Len(g) : g[i] = s[i]
         /\ \A i \in 1 .. Len(s) - Len(g) : Beyond(s, g)[i] = s[Len(g) + i]
         /\ s = g \o Beyond(s, g)
<1>1. PICK n \in 1 .. Min({Len(s), k}) : g = SubSeq(s, 1, n)
  BY DEF Received
<1>2. n \in 1 .. Len(s) /\ n <= k /\ Len(s) \in Nat
  BY <1>1, MinOfTwo, LenProperties
<1>3. \A i \in 1 .. Len(s) : s[i] \in S
  BY LenProperties
<1>4. g \in Seq(S) /\ Len(g) = n /\ \A i \in 1 .. Len(g) : g[i] = s[i]
  BY <1>1, <1>2, <1>3, SubSeqProperties
<1> DEFINE b == SubSeq(s, n + 1, Len(s))
<1>5. b \in Seq(S) /\ Len(b) = Len(s) - n
  BY <1>2, <1>3, SubSeqProperties
<1>6. \A i \in 1 .. Len(s) - n : b[i] = s[n + i]
  <2> SUFFICES ASSUME NEW i \in 1 .. Len(s) - n PROVE b[i] = s[n + i]
    OBVIOUS
  <2>1. /\ n + 1 \in Int /\ Len(s) \in Int /\ i \in 1 .. Len(s) - (n + 1) + 1
        /\ \A j \in n + 1 .. Len(s) : s[j] \in S /\ (n + 1) + i - 1 = n + i
    BY <1>2, <1>3
  <2>2. b[i] = s[(n + 1) + i - 1]
    BY <2>1, SubSeqProperties
  <2> QED BY <2>1, <2>2, <1>2
<1>7. s = g \o b
  <2>1. SubSeq(s, 1, n) \o SubSeq(s, n + 1, Len(s)) = SubSeq(s, 1, Len(s))
    BY <1>2, ConcatAdjacentSubSeq
  <2> QED BY <1>1, <2>1, SubSeqFull
<1> QED BY <1>1, <1>2, <1>4, <1>5, <1>6, <1>7 DEF Beyond

\* Nothing is received from an empty stream.
LEMMA NothingReceived ==
  ASSUME NEW k \in Nat
  PROVE  Received(<<>>, k) = {}
<1> SUFFICES ASSUME NEW g \in Received(<<>>, k) PROVE FALSE
  OBVIOUS
<1>1. <<>> \in Seq({}) /\ Len(<<>>) = 0
  BY EmptySeq
<1>2. Len(g) \in 1 .. Len(<<>>)
  BY <1>1, ReceivedSplits
<1> QED BY <1>1, <1>2

\* What is in order of a recv that does not cut a text.
LEMMA CutHead ==
  ASSUME NEW S, NEW g \in Seq(S), g # <<>>
  PROVE  Len(g) \in Nat \ {0} /\ (Cuts(g) <=> g[Len(g)].part = "head")
  BY EmptySeq, LenProperties DEF Cuts, Last

\* A recv of a single text returns all of it, or its head.
LEMMA TextReceived ==
  ASSUME NEW m \in Lines \cup Answers, NEW c \in Calls \cup {NoCall}, NEW n \in Nat,
         NEW s, s = FullText(m, c, n), NEW g \in Received(s, Len(s))
  PROVE  \/ g = s /\ Beyond(s, g) = <<>> /\ ~ Cuts(g)
         \/ Cuts(g) /\ Len(g) = 1 /\ g[1] = s[1]
<1>1. /\ s \in Seq(Pieces) /\ Len(s) = 2
      /\ s[1].part = "head" /\ s[2].part = "tail"
  <2>1. s \in Seq(Pieces) /\ Len(s) = 2
    BY TextHalves
  <2>2. s[1] = Half(m, "head", c, n) /\ s[2] = Half(m, "tail", c, n)
    BY TextHalves
  <2>3. Half(m, "head", c, n).part = "head" /\ Half(m, "tail", c, n).part = "tail"
    BY DEF Half
  <2> QED BY <2>1, <2>2, <2>3
<1>2. /\ g \in Seq(Pieces) /\ Len(g) \in 1 .. 2 /\ Len(Beyond(s, g)) = 2 - Len(g)
      /\ \A i \in 1 .. Len(g) : g[i] = s[i]
      /\ Beyond(s, g) \in Seq(Pieces)
  <2>1. /\ g \in Seq(Pieces) /\ Beyond(s, g) \in Seq(Pieces) /\ Len(g) \in 1 .. Len(s)
        /\ Len(Beyond(s, g)) = Len(s) - Len(g) /\ \A i \in 1 .. Len(g) : g[i] = s[i]
    <3>1. Len(s) \in Nat
      BY <1>1
    <3>2. s \in Seq(Pieces)
      BY <1>1
    <3> DEFINE k == Len(s)
    <3>3. g \in Received(s, k) /\ k \in Nat
      BY <3>1
    <3> HIDE DEF k
    <3>4. /\ g \in Seq(Pieces) /\ Beyond(s, g) \in Seq(Pieces) /\ Len(g) \in 1 .. Len(s)
          /\ Len(Beyond(s, g)) = Len(s) - Len(g)
      BY <3>2, <3>3, ReceivedSplits
    <3>5. \A i \in 1 .. Len(g) : g[i] = s[i]
      BY <3>2, <3>3, ReceivedSplits
    <3> QED BY <3>4, <3>5
  <2> QED BY <1>1, <2>1
<1>5. g # <<>> /\ (Cuts(g) <=> g[Len(g)].part = "head")
  <2>1. Len(<<>>) = 0 /\ g \in Seq(Pieces) /\ Len(g) \in 1 .. 2
    BY <1>2, EmptySeq
  <2>2. g # <<>>
    BY <2>1
  <2> QED BY <2>1, <2>2, CutHead
<1>3. CASE Len(g) = 1
  BY <1>1, <1>2, <1>3, <1>5
<1>4. CASE Len(g) = 2
  <2>1. g = s
    BY <1>1, <1>2, <1>4, SeqEqual
  <2>2. Beyond(s, g) = <<>>
    BY <1>2, <1>4, EmptySeq
  <2> QED BY <1>1, <1>4, <1>5, <2>1, <2>2
<1> QED BY <1>2, <1>3, <1>4

\* The content of a stream is that of its parts.
LEMMA ContentOfConcat ==
  ASSUME NEW g \in Seq(Pieces), NEW h \in Seq(Pieces)
  PROVE  Content(g \o h) = Content(g) \o Content(h)
<1>1. /\ g \o h \in Seq(Pieces) /\ Len(g \o h) = Len(g) + Len(h)
      /\ \A i \in 1 .. Len(g) + Len(h) :
           (g \o h)[i] = IF i <= Len(g) THEN g[i] ELSE h[i - Len(g)]
  BY ConcatProperties
<1>2. /\ Content(g) \in Seq(Parts) /\ Content(h) \in Seq(Parts) /\ Content(g \o h) \in Seq(Parts)
      /\ Len(Content(g)) = Len(g) /\ Len(Content(h)) = Len(h)
      /\ Len(Content(g \o h)) = Len(g) + Len(h) /\ Len(g) \in Nat /\ Len(h) \in Nat
  BY <1>1, ContentFits, LenProperties DEF Contents
<1>3. /\ Content(g) \o Content(h) \in Seq(Parts)
      /\ Len(Content(g) \o Content(h)) = Len(g) + Len(h)
      /\ \A i \in 1 .. Len(g) + Len(h) : (Content(g) \o Content(h))[i] =
           IF i <= Len(g) THEN Content(g)[i] ELSE Content(h)[i - Len(g)]
  <2> DEFINE x == Content(g)  y == Content(h)
  <2> HIDE DEF x, y
  <2>1. x \in Seq(Parts) /\ y \in Seq(Parts) /\ Len(x) = Len(g) /\ Len(y) = Len(h)
    BY <1>2 DEF x, y
  <2>2. /\ x \o y \in Seq(Parts) /\ Len(x \o y) = Len(x) + Len(y)
        /\ \A i \in 1 .. Len(x) + Len(y) :
             (x \o y)[i] = IF i <= Len(x) THEN x[i] ELSE y[i - Len(x)]
    BY <2>1, ConcatProperties
  <2> QED BY <2>1, <2>2 DEF x, y
<1>4. \A k \in Seq(Pieces) : \A i \in 1 .. Len(k) : Content(k)[i] = k[i].part
  BY LenProperties DEF Content
<1>5. ASSUME NEW i \in 1 .. Len(g) + Len(h)
      PROVE  Content(g \o h)[i] = (Content(g) \o Content(h))[i]
  <2>1. Content(g \o h)[i] = (g \o h)[i].part
    BY <1>1, <1>4
  <2>2. CASE i <= Len(g)
    BY <1>1, <1>2, <1>3, <1>4, <2>1, <2>2
  <2>3. CASE ~ (i <= Len(g))
    <3>1. i - Len(g) \in 1 .. Len(h)
      BY <1>2, <2>3
    <3> QED BY <1>1, <1>3, <1>4, <2>1, <2>3, <3>1
  <2> QED BY <2>2, <2>3
<1> QED BY <1>2, <1>3, <1>5, SeqEqual

\* Parts of data are data.
LEMMA DataOfConcat ==
  ASSUME NEW g \in Seq(Pieces), NEW h \in Seq(Pieces)
  PROVE  IsData(g \o h) <=> IsData(g) /\ IsData(h)
<1>1. /\ DOMAIN (g \o h) = 1 .. Len(g) + Len(h) /\ Len(g) \in Nat /\ Len(h) \in Nat
      /\ DOMAIN g = 1 .. Len(g) /\ DOMAIN h = 1 .. Len(h)
      /\ \A i \in 1 .. Len(g) + Len(h) :
           (g \o h)[i] = IF i <= Len(g) THEN g[i] ELSE h[i - Len(g)]
  BY ConcatProperties, LenProperties
<1>2. ASSUME IsData(g), IsData(h)
      PROVE  IsData(g \o h)
  BY <1>1, <1>2 DEF IsData
<1>3. ASSUME IsData(g \o h)
      PROVE  IsData(g) /\ IsData(h)
  <2>1. \A i \in 1 .. Len(g) : (g \o h)[i] = g[i] /\ i \in 1 .. Len(g) + Len(h)
    BY <1>1
  <2>2. \A i \in 1 .. Len(h) : /\ (g \o h)[Len(g) + i] = h[i]
                               /\ Len(g) + i \in 1 .. Len(g) + Len(h)
    <3> SUFFICES ASSUME NEW i \in 1 .. Len(h)
                 PROVE  /\ (g \o h)[Len(g) + i] = h[i]
                        /\ Len(g) + i \in 1 .. Len(g) + Len(h)
      OBVIOUS
    <3>1. /\ Len(g) + i \in 1 .. Len(g) + Len(h) /\ ~ (Len(g) + i <= Len(g))
          /\ Len(g) + i - Len(g) = i
      BY <1>1
    <3> QED BY <1>1, <3>1
  <2> QED BY <1>1, <1>3, <2>1, <2>2 DEF IsData
<1> QED BY <1>2, <1>3

\* One more block.
LEMMA BlockAppended ==
  ASSUME NEW g \in Seq(Pieces), NEW b \in Blocks
  PROVE  /\ Append(g, Block(b)) \in Seq(Pieces)
         /\ IsData(g) => IsData(Append(g, Block(b)))
         /\ Content(Append(g, Block(b))) = Append(Content(g), b)
<1> DEFINE p == Block(b)
<1>1. p \in Pieces /\ p.msg = "data" /\ p.part = b
  BY DEF Block, Half, Pieces, Parts
<1> HIDE DEF p
<1>2. /\ Append(g, p) \in Seq(Pieces) /\ Append(g, p) = g \o <<p>>
      /\ <<p>> \in Seq(Pieces) /\ Len(<<p>>) = 1 /\ <<p>>[1] = p
  BY <1>1, AppendProperties, AppendIsConcat
<1>3. IsData(<<p>>)
  BY <1>1 DEF IsData
<1>4. Content(<<p>>) = <<b>>
  <2>1. Content(<<p>>) \in Seq(Parts) /\ Len(Content(<<p>>)) = 1
    BY <1>2, ContentFits DEF Contents
  <2>2. Content(<<p>>)[1] = b
    BY <1>1, <1>2 DEF Content
  <2> QED BY <2>1, <2>2, SeqEqual, <1>1 DEF Parts
<1>5. Content(g) \o <<b>> = Append(Content(g), b)
  <2> DEFINE c == Content(g)
  <2>1. c \in Seq(Parts) /\ b \in Parts
    BY ContentFits DEF Contents, Parts
  <2> HIDE DEF c
  <2>2. Append(c, b) = c \o <<b>>
    BY <2>1, AppendIsConcat
  <2> QED BY <2>2 DEF c
<1>6. Content(Append(g, p)) = Append(Content(g), b)
  <2>1. Content(g \o <<p>>) = Content(g) \o Content(<<p>>)
    BY <1>2, ContentOfConcat
  <2> QED BY <1>2, <1>4, <1>5, <2>1
<1>7. IsData(g) => IsData(Append(g, p))
  <2>1. IsData(g \o <<p>>) <=> IsData(g) /\ IsData(<<p>>)
    BY <1>2, DataOfConcat
  <2> QED BY <1>2, <1>3, <2>1
<1> QED BY <1>2, <1>6, <1>7 DEF p
-----------------------------------------------------------------------------
(* One step of either end *)

\* What a step does to the history of trouble.
LEMMA Noted ==
  ASSUME NEW C, Note(C)
  PROVE  /\ C = {} \/ trouble # "none" => trouble' = trouble
         /\ C # {} /\ trouble = "none" => trouble' \in C
  BY DEF Note

\* A client thread with a client does what its place says.
LEMMA ServerAt ==
  ASSUME ServerStep, ~ ClientLost
  PROVE  /\ UNCHANGED <<up, clientvars>>
         /\ spc \notin {"auth", "files", "data"} => UNCHANGED <<c2s, trouble>>
         /\ \/ spc = "accept" /\ Accept
            \/ spc = "say" /\ Say
            \/ spc = "auth" /\ RecvAuth
            \/ spc = "calling" /\ CallReturns
            \/ spc = "calling" /\ AuthStep(Wire) /\ UNCHANGED <<s2c, servervars>>
            \/ spc = "named" /\ SetUsername
            \/ spc = "files" /\ RecvCommand
            \/ spc = "data" /\ RecvData
            \/ spc = "queue" /\ QueueTask
            \/ spc = "work" /\ Work
            \/ spc = "end" /\ EndSession
<1>1. CASE Accept \/ Say
  BY <1>1 DEF Accept, Say
<1>2. CASE RecvAuth \/ RecvCommand
  BY <1>2 DEF RecvAuth, RecvCommand
<1>3. CASE CallReturns \/ SetUsername
  BY <1>3 DEF CallReturns, SetUsername
<1>4. CASE RecvData
  BY <1>4 DEF RecvData, RecvDataUpTo
<1>5. CASE QueueTask \/ Work
  BY <1>5 DEF QueueTask, Work
<1>6. CASE EndSession
  BY <1>6 DEF EndSession
<1>7. CASE spc = "calling" /\ AuthStep(Wire)
           /\ UNCHANGED <<up, c2s, s2c, servervars, clientvars, trouble>>
  BY <1>7 DEF servervars
<1> QED BY <1>1, <1>2, <1>3, <1>4, <1>5, <1>6, <1>7 DEF ServerStep

\* Only the answer to a call, the end of the session and the start of a call
\* change who is served.
LEMMA ServedStays ==
  ASSUME \/ Accept \/ Say \/ RecvAuth \/ RecvCommand \/ RecvData \/ QueueTask \/ Work
         \/ AuthStep(Wire)
  PROVE  who' = who
<1>1. CASE Accept \/ Say \/ RecvCommand \/ QueueTask \/ Work
  BY <1>1 DEF Accept, Say, RecvCommand, QueueTask, Work, accountvars
<1>2. CASE RecvData
  BY <1>2 DEF RecvData, RecvDataUpTo, accountvars
<1>3. CASE RecvAuth
  BY <1>3 DEF RecvAuth, Begin, accountvars
<1>4. CASE AuthStep(Wire)
  BY <1>4 DEF AuthStep, CheckUser, InsertUser, VerifyPassword, GoTo
<1> QED BY <1>1, <1>2, <1>3, <1>4

\* A recv needs bytes.
LEMMA NothingRead ==
  ASSUME c2s = <<>>, task \in Requests, Len(task.data) <= task.size,
         RecvAuth \/ RecvCommand \/ RecvData, ~ ClientLost
  PROVE  FALSE
<1>1. Received(c2s, Len(c2s)) = {}
  BY NothingReceived, EmptySeq
<1>2. Need \in Nat
  BY LenProperties DEF Need, Requests, Contents
<1>3. Received(c2s, Need) = {}
  BY <1>2, NothingReceived
<1> QED BY <1>1, <1>3 DEF RecvAuth, RecvCommand, RecvData, RecvDataUpTo

\* What the thread has decided to say reaches the client.
LEMMA SaidComes ==
  ASSUME NEW m \in Answers, NEW n \in AfterSaying, Coming(m, n), spc = "say", Say,
         ~ ClientLost
  PROVE  Coming(m, n)' /\ spc' = n /\ s2c' = Text(m) /\ UNCHANGED <<task, file>>
<1>1. spc # n
  BY DEF AfterSaying
<1>2. s2c = <<>> /\ out.data = <<>> /\ out.msg = m /\ out.next = n
  BY <1>1 DEF Coming
<1>3. s2c' = s2c \o Text(out.msg) /\ spc' = out.next /\ UNCHANGED <<task, file>>
  BY <1>2 DEF Say
<1>4. Text(m) \in Seq(Pieces)
  BY AnswerHalves
<1>5. <<>> \o Text(m) = Text(m)
  BY <1>4, ConcatEmptySeq
<1> QED BY <1>2, <1>3, <1>5 DEF Coming

\* What it decides to say is coming.
LEMMA SayingComes ==
  ASSUME NEW m \in Answers, NEW n \in AfterSaying, NEW e, SayThen(m, n, e), s2c' = <<>>
  PROVE  Coming(m, n)'
  BY DEF SayThen, Out, Coming
-----------------------------------------------------------------------------
(* The server until the user is logged in *)

\* It greets the client.
LEMMA ServerGreets ==
  ASSUME Dialogue, Greeting, ~ ClientLost, ServerStep
  PROVE  Greeting' /\ UNCHANGED <<file, trouble>>
<1>1. /\ UNCHANGED <<up, clientvars>> /\ c2s = <<>> /\ who[Wire] = NoName
      /\ task \in Requests /\ Len(task.data) <= task.size
      /\ cpc = "welcome" /\ told = "none" /\ cpc' = "welcome" /\ told' = "none"
  BY ServerAt DEF Greeting, Dialogue, ServerFits, clientvars
<1>2. CASE spc = "accept" /\ s2c = <<>>
  <2>1. Accept /\ UNCHANGED <<c2s, trouble>>
    BY <1>2, ServerAt
  <2>2. who' = who /\ UNCHANGED file
    BY <2>1, ServedStays DEF Accept
  <2>3. Text("busy") \in Seq(Pieces) /\ "welcome" \in Answers /\ "auth" \in AfterSaying
    BY AnswerHalves DEF Answers, AfterSaying
  <2>4. <<>> \o Text("busy") = Text("busy")
    BY <2>3, ConcatEmptySeq
  <2>5. CASE SayThen("welcome", "auth", TRUE) /\ UNCHANGED s2c
    BY <1>1, <1>2, <2>1, <2>2, <2>3, <2>5, SayingComes DEF Greeting
  <2>6. CASE spc' = "gone" /\ s2c' \in {<<>>, Text("busy")}
    BY <1>1, <2>1, <2>2, <2>6 DEF Greeting
  <2> QED BY <1>2, <2>1, <2>4, <2>5, <2>6 DEF Accept
<1>3. CASE Coming("welcome", "auth")
  <2>1. CASE spc = "say"
    <3>1. Say /\ UNCHANGED <<c2s, trouble>>
      BY <2>1, ServerAt
    <3>2. Coming("welcome", "auth")' /\ UNCHANGED file
      BY <1>3, <2>1, <3>1, SaidComes DEF Answers, AfterSaying
    <3>3. who' = who
      BY <3>1, ServedStays
    <3> QED BY <1>1, <3>1, <3>2, <3>3 DEF Greeting
  <2>2. CASE spc = "auth"
    BY <1>1, <2>2, ServerAt, NothingRead
  <2> QED BY <1>3, <2>1, <2>2 DEF Coming
<1>4. CASE spc = "gone"
  BY <1>4, ServerAt
<1> QED BY <1>2, <1>3, <1>4 DEF Greeting

\* It waits for a user to sign up or log in.
LEMMA ServerListens ==
  ASSUME Dialogue, LoggedOut, ~ ClientLost, ServerStep
  PROVE  FALSE
<1>1. c2s = <<>> /\ spc \in {"auth", "gone"} /\ task \in Requests
      /\ Len(task.data) <= task.size
  BY DEF LoggedOut, Silence, Dialogue, ServerFits
<1>2. spc = "auth" /\ RecvAuth
  BY <1>1, ServerAt
<1> QED BY <1>1, <1>2, NothingRead

\* It reads the call.
LEMMA ServerReadsCall ==
  ASSUME Dialogue, NEW c \in Calls, c2s = FullText("auth", c, 0), RecvAuth,
         trouble = "none", trouble' # "torn"
  PROVE  /\ c2s' = <<>> /\ spc' = "calling" /\ UNCHANGED <<s2c, who, file, trouble>>
<1>1. PICK g \in Received(c2s, Len(c2s)) :
        /\ c2s' = Beyond(c2s, g)
        /\ \/ \E d \in CallsIn(g) :
                Begin(Wire, d) /\ spc' = "calling" /\ UNCHANGED out
           \/ /\ CallsIn(g) = {} \/ Cuts(g)
              /\ SayThen("error", "auth", FALSE)
              /\ UNCHANGED accountvars
        /\ Note(IF Cuts(g) THEN {"torn"} ELSE {})
  BY DEF RecvAuth
<1>2. ~ Cuts(g) /\ trouble' = trouble
  BY <1>1, Noted
<1>3. "auth" \in Lines \cup Answers /\ 0 \in Nat /\ c \in Calls \cup {NoCall}
  BY DEF Lines
<1>4. g = FullText("auth", c, 0) /\ Beyond(c2s, g) = <<>>
  BY <1>2, <1>3, TextReceived
<1>5. Len(g) = 2 /\ g[1] = Half("auth", "head", c, 0)
  BY <1>3, <1>4, TextHalves
<1>6. CallsIn(g) = {c}
  BY <1>5 DEF CallsIn, Half
<1>7. spc' = "calling"
  BY <1>1, <1>2, <1>6
<1>8. UNCHANGED <<s2c, file>> /\ who' = who
  BY ServedStays DEF RecvAuth
<1> QED BY <1>1, <1>2, <1>4, <1>7, <1>8

\* It answers the call, sets the user and sends the menu.
LEMMA ServerLogsIn ==
  ASSUME Dialogue, LoggingIn, ~ ClientLost, ServerStep, trouble = "none", trouble' # "torn"
  PROVE  LoggingIn' /\ UNCHANGED <<file, trouble>>
<1>1. /\ UNCHANGED <<up, clientvars>> /\ cpc = "auth" /\ told = "none"
      /\ cpc' = "auth" /\ told' = "none"
      /\ task \in Requests /\ Len(task.data) <= task.size
  BY ServerAt DEF LoggingIn, Dialogue, ServerFits, clientvars
<1>2. /\ {"auth_ok", "auth_error", "menu"} \subseteq Answers
      /\ {"auth", "named", "files"} \subseteq AfterSaying
  BY DEF Answers, AfterSaying
<1>3. CASE /\ spc \in {"auth", "gone"} /\ s2c = <<>> /\ who[Wire] = NoName
           /\ \E c \in Calls : c2s = FullText("auth", c, 0)
  <2>1. spc = "auth" /\ RecvAuth
    BY <1>3, ServerAt
  <2>2. c2s' = <<>> /\ spc' = "calling" /\ UNCHANGED <<s2c, who, file, trouble>>
    BY <1>3, <2>1, ServerReadsCall
  <2> QED BY <1>1, <1>3, <2>2 DEF LoggingIn, Silence
<1>4. CASE spc = "calling" /\ Silence /\ who[Wire] = NoName
  <2>1. UNCHANGED <<c2s, trouble>>
    BY <1>4, ServerAt
  <2>2. CASE AuthStep(Wire) /\ UNCHANGED <<s2c, servervars>>
    BY <1>1, <1>4, <2>1, <2>2, ServedStays DEF LoggingIn, Silence, servervars
  <2>3. CASE CallReturns
    <3>1. UNCHANGED <<s2c, file>> /\ s2c' = <<>> /\ c2s' = <<>>
      BY <1>4, <2>1, <2>3 DEF CallReturns, Silence
    <3>2. CASE stage[Wire] = "ok"
      <4>1. SayThen("auth_ok", "named", TRUE) /\ UNCHANGED accountvars
        BY <2>3, <3>2 DEF CallReturns
      <4>2. Coming("auth_ok", "named")' /\ stage'[Wire] = "ok"
        BY <1>2, <3>1, <3>2, <4>1, SayingComes DEF accountvars
      <4> QED BY <1>1, <2>1, <3>1, <4>2 DEF LoggingIn
    <3>3. CASE stage[Wire] # "ok"
      <4>1. SayThen("auth_error", "auth", FALSE) /\ Answer(Wire)
        BY <2>3, <3>3 DEF CallReturns
      <4>2. Coming("auth_error", "auth")'
        BY <1>2, <3>1, <4>1, SayingComes
      <4>3. who'[Wire] = NoName
        BY <3>3, <4>1, WireAssumption DEF Answer, Dialogue, IInv, AccountsTypeOK
      <4> QED BY <1>1, <2>1, <3>1, <4>2, <4>3 DEF LoggingIn
    <3> QED BY <3>2, <3>3
  <2> QED BY <1>4, <2>2, <2>3, ServerAt
<1>5. CASE c2s = <<>> /\ Coming("auth_error", "auth") /\ who[Wire] = NoName
  <2>1. CASE spc = "say"
    <3>1. Say /\ UNCHANGED <<c2s, trouble>> /\ who' = who
      BY <2>1, ServerAt, ServedStays
    <3>2. Coming("auth_error", "auth")' /\ UNCHANGED file
      BY <1>2, <1>5, <2>1, <3>1, SaidComes
    <3> QED BY <1>1, <1>5, <3>1, <3>2 DEF LoggingIn
  <2>2. CASE spc = "auth"
    BY <1>1, <1>5, <2>2, ServerAt, NothingRead
  <2> QED BY <1>5, <2>1, <2>2 DEF Coming
<1>6. CASE c2s = <<>> /\ Coming("auth_ok", "named") /\ stage[Wire] = "ok"
  <2>1. CASE spc = "say"
    <3>1. Say /\ UNCHANGED <<c2s, trouble>>
      BY <2>1, ServerAt
    <3>2. Coming("auth_ok", "named")' /\ UNCHANGED file
      BY <1>2, <1>6, <2>1, <3>1, SaidComes
    <3>3. stage' = stage
      BY <3>1 DEF Say, accountvars
    <3> QED BY <1>1, <1>6, <3>1, <3>2, <3>3 DEF LoggingIn
  <2>2. CASE spc = "named" /\ s2c = Text("auth_ok")
    <3>1. SetUsername /\ UNCHANGED <<c2s, trouble>>
      BY <2>2, ServerAt
    <3>2. UNCHANGED <<s2c, file>> /\ SayThen("menu", "files", TRUE) /\ Answer(Wire)
      BY <3>1 DEF SetUsername
    <3>3. who'[Wire] # NoName
      <4>1. call[Wire] \in Calls
        BY <1>6, WireAssumption DEF Dialogue, IInv, StageFits, Results
      <4>2. call[Wire].name \in Names
        BY <4>1 DEF Calls
      <4> QED BY <1>6, <3>2, <4>2, WireAssumption, NamesAssumption
              DEF Answer, Dialogue, IInv, AccountsTypeOK
    <3>4. spc' = "say" /\ out'.data = <<>> /\ out'.msg = "menu" /\ out'.next = "files"
      BY <3>2 DEF SayThen, Out
    <3> QED BY <1>1, <1>6, <2>2, <3>1, <3>2, <3>3, <3>4 DEF LoggingIn
  <2> QED BY <1>6, <2>1, <2>2 DEF Coming
<1>7. CASE /\ c2s = <<>> /\ s2c = Text("auth_ok") /\ who[Wire] # NoName
           /\ spc = "say" /\ out.data = <<>> /\ out.msg = "menu" /\ out.next = "files"
  <2>1. Say /\ UNCHANGED <<c2s, trouble>> /\ who' = who
    BY <1>7, ServerAt, ServedStays
  <2>2. s2c' = s2c \o Text("menu") /\ spc' = "files" /\ UNCHANGED file
    BY <1>7, <2>1 DEF Say
  <2> QED BY <1>1, <1>7, <2>1, <2>2 DEF LoggingIn
<1>8. CASE c2s = <<>> /\ spc = "files"
  BY <1>1, <1>8, ServerAt, NothingRead
<1> QED BY <1>3, <1>4, <1>5, <1>6, <1>7, <1>8 DEF LoggingIn

\* ... also when the client has read the "OK" already.
LEMMA ServerSendsMenu ==
  ASSUME Dialogue, LoggedIn, ~ ClientLost, ServerStep
  PROVE  LoggedIn' /\ UNCHANGED <<file, trouble>>
<1>1. /\ UNCHANGED <<up, clientvars>> /\ cpc = "second" /\ told = "none"
      /\ cpc' = "second" /\ told' = "none" /\ c2s = <<>>
      /\ task \in Requests /\ Len(task.data) <= task.size
      /\ "menu" \in Answers /\ "files" \in AfterSaying
  BY ServerAt DEF LoggedIn, Dialogue, ServerFits, clientvars, Answers, AfterSaying
<1>2. CASE spc = "named" /\ s2c = <<>> /\ stage[Wire] = "ok"
  <2>1. SetUsername /\ UNCHANGED <<c2s, trouble>>
    BY <1>2, ServerAt
  <2>2. UNCHANGED <<s2c, file>> /\ SayThen("menu", "files", TRUE) /\ Answer(Wire)
    BY <2>1 DEF SetUsername
  <2>3. who'[Wire] # NoName
    <3>1. call[Wire] \in Calls
      BY <1>2, WireAssumption DEF Dialogue, IInv, StageFits, Results
    <3>2. call[Wire].name \in Names
      BY <3>1 DEF Calls
    <3> QED BY <1>2, <2>2, <3>2, WireAssumption, NamesAssumption
            DEF Answer, Dialogue, IInv, AccountsTypeOK
  <2>4. Coming("menu", "files")'
    BY <1>1, <1>2, <2>2, SayingComes
  <2> QED BY <1>1, <2>1, <2>2, <2>3, <2>4 DEF LoggedIn
<1>3. CASE Coming("menu", "files") /\ who[Wire] # NoName
  <2>1. CASE spc = "say"
    <3>1. Say /\ UNCHANGED <<c2s, trouble>> /\ who' = who
      BY <2>1, ServerAt, ServedStays
    <3>2. Coming("menu", "files")' /\ UNCHANGED file
      BY <1>1, <1>3, <2>1, <3>1, SaidComes
    <3> QED BY <1>1, <1>3, <3>1, <3>2 DEF LoggedIn
  <2>2. CASE spc = "files"
    BY <1>1, <2>2, ServerAt, NothingRead
  <2> QED BY <1>3, <2>1, <2>2 DEF Coming
<1> QED BY <1>2, <1>3 DEF LoggedIn

\* Where a client that is asked for input has sent nothing, the server waits.
LEMMA ServerWaits ==
  ASSUME Dialogue, c2s = <<>>, spc = "files", ~ ClientLost, ServerStep
  PROVE  FALSE
<1>1. RecvCommand /\ task \in Requests /\ Len(task.data) <= task.size
  BY ServerAt DEF Dialogue, ServerFits
<1> QED BY <1>1, NothingRead
-----------------------------------------------------------------------------
(* The server reads a command *)

\* A stream that starts with a line: what a recv returns of it.
LEMMA LineReceived ==
  ASSUME NEW s \in Seq(Pieces), NEW m \in Lines, NEW n \in Nat,
         s = FullText(m, NoCall, n) \o AfterLine(s), IsData(AfterLine(s)),
         NEW g \in Received(s, Len(s))
  PROVE  \/ Len(g) = 1 /\ Cuts(g) /\ g[1] = Half(m, "head", NoCall, n)
         \/ /\ Len(g) >= 2 /\ ~ Cuts(g) /\ g[1] = Half(m, "head", NoCall, n)
            /\ AfterLine(g) \in Seq(Pieces) /\ Len(AfterLine(g)) = Len(g) - 2 /\ IsData(AfterLine(g))
            /\ Len(g) > 2 => g[3] = AfterLine(g)[1]
            /\ Beyond(s, g) \in Seq(Pieces) /\ IsData(Beyond(s, g))
            /\ AfterLine(s) = AfterLine(g) \o Beyond(s, g)
<1> DEFINE t == FullText(m, NoCall, n)  d == AfterLine(s)  b == Beyond(s, g)
<1>1. /\ t \in Seq(Pieces) /\ Len(t) = 2
      /\ t[1] = Half(m, "head", NoCall, n) /\ t[2] = Half(m, "tail", NoCall, n)
  BY TextHalves
<1>2. /\ Len(s) \in Nat /\ \A i \in 1 .. Len(s) : s[i] \in Pieces
  BY LenProperties
<1>3. /\ d \in Seq(Pieces) /\ Len(d) = IF 3 <= Len(s) THEN Len(s) - 2 ELSE 0
      /\ \A i \in 1 .. Len(s) - 2 : d[i] = s[i + 2]
  <2>1. \A i \in 3 .. Len(s) : s[i] \in Pieces
    BY <1>2
  <2>2. /\ SubSeq(s, 3, Len(s)) \in Seq(Pieces)
        /\ Len(SubSeq(s, 3, Len(s))) = IF 3 <= Len(s) THEN Len(s) - 3 + 1 ELSE 0
        /\ \A i \in 1 .. Len(s) - 3 + 1 : SubSeq(s, 3, Len(s))[i] = s[3 + i - 1]
    BY <1>2, <2>1, SubSeqProperties
  <2>3. \A i \in 1 .. Len(s) - 2 : i \in 1 .. Len(s) - 3 + 1 /\ 3 + i - 1 = i + 2
    BY <1>2
  <2> QED BY <1>2, <2>2, <2>3 DEF AfterLine
<1> HIDE DEF t, d
<1>4. /\ Len(s) >= 2 /\ s[1] = t[1] /\ s[2] = t[2]
  <2>1. /\ Len(t \o d) = Len(t) + Len(d)
        /\ \A i \in 1 .. Len(t) + Len(d) : (t \o d)[i] = IF i <= Len(t) THEN t[i] ELSE d[i - Len(t)]
    <3>1. t \in Seq(Pieces) /\ d \in Seq(Pieces)
      BY <1>1, <1>3
    <3> QED BY <3>1, ConcatProperties
  <2>2. s = t \o d /\ Len(d) \in Nat
    BY <1>3, LenProperties DEF t, d
  <2> QED BY <1>1, <2>1, <2>2
<1> DEFINE k == Len(s)
<1>5. g \in Received(s, k) /\ k \in Nat
  BY <1>2
<1> HIDE DEF k
<1>6. /\ g \in Seq(Pieces) /\ b \in Seq(Pieces) /\ Len(g) \in 1 .. Len(s)
      /\ \A i \in 1 .. Len(g) : g[i] = s[i]
  BY <1>5, ReceivedSplits
<1> HIDE DEF b
<1>7. g[1] = Half(m, "head", NoCall, n) /\ g[1].part = "head"
  <2>1. 1 \in 1 .. Len(g)
    BY <1>6
  <2> QED BY <1>1, <1>4, <1>6, <2>1 DEF Half
<1>8. Cuts(g) <=> g[Len(g)].part = "head"
  <2>1. Len(<<>>) = 0
    BY EmptySeq
  <2>2. g # <<>> 
    BY <1>6, <2>1
  <2> QED BY <1>6, <2>2, CutHead
<1>9. CASE Len(g) = 1
  BY <1>7, <1>8, <1>9
<1>10. CASE Len(g) >= 2
  <2> DEFINE e == SubSeq(s, 3, Len(g))
  <2>1. /\ Len(g) \in Nat /\ Len(g) <= Len(s) /\ \A i \in 3 .. Len(g) : s[i] \in Pieces
        /\ \A i \in 3 .. Len(g) : g[i] \in Pieces
    BY <1>2, <1>6
  <2>12. Len(g) = 2 \/ (Len(g) \in Nat /\ Len(g) > 2)
    <3> DEFINE l == Len(g)
    <3>1. l \in Nat /\ l >= 2
      BY <1>10, <2>1
    <3> HIDE DEF l
    <3>2. l = 2 \/ (l \in Nat /\ l > 2)
      BY <3>1
    <3> QED BY Zenon, <3>2 DEF l
  <2>2. /\ e \in Seq(Pieces) /\ Len(e) = IF 3 <= Len(g) THEN Len(g) - 3 + 1 ELSE 0
        /\ \A i \in 1 .. Len(g) - 3 + 1 : e[i] = s[3 + i - 1]
    BY <2>1, SubSeqProperties
  <2>3. /\ AfterLine(g) \in Seq(Pieces) /\ Len(AfterLine(g)) = IF 3 <= Len(g) THEN Len(g) - 3 + 1 ELSE 0
        /\ \A i \in 1 .. Len(g) - 3 + 1 : AfterLine(g)[i] = g[3 + i - 1]
    BY <2>1, SubSeqProperties DEF AfterLine
  <2>4. e \o b = d
    <3>1. /\ Len(s) \in Nat /\ 3 \in 1 .. Len(s) + 1 /\ Len(g) \in 3 - 1 .. Len(s)
          /\ Len(s) \in Len(g) .. Len(s)
      BY <1>2, <1>4, <1>10, <2>1
    <3>2. SubSeq(s, 3, Len(g)) \o SubSeq(s, Len(g) + 1, Len(s)) = SubSeq(s, 3, Len(s))
      BY <3>1, ConcatAdjacentSubSeq
    <3> QED BY <3>2 DEF d, b, AfterLine, Beyond
  <2> HIDE DEF e
  <2>5. AfterLine(g) = e
    <3>1. Len(AfterLine(g)) = Len(e)
      BY <2>2, <2>3
    <3>2. \A i \in 1 .. Len(AfterLine(g)) : AfterLine(g)[i] = e[i]
      <4> SUFFICES ASSUME NEW i \in 1 .. Len(AfterLine(g)) PROVE AfterLine(g)[i] = e[i]
        OBVIOUS
      <4>1. i \in 1 .. Len(g) - 3 + 1 /\ 3 + i - 1 \in 1 .. Len(g)
        BY <2>1, <2>3
      <4> QED BY <1>6, <2>2, <2>3, <4>1
    <3> QED BY <2>2, <2>3, <3>1, <3>2, SeqEqual
  <2>6. IsData(e) /\ IsData(b)
    BY <1>6, <2>2, <2>4, DataOfConcat DEF d
  <2>7. ~ Cuts(g)
    <3>1. CASE Len(g) = 2
      <4>1. g[2] = s[2]
        BY <1>6, <3>1
      <4>2. g[2].part = "tail"
        BY <1>1, <1>4, <4>1 DEF Half
      <4> QED BY <1>8, <3>1, <4>2
    <3>2. CASE Len(g) > 2
      <4>1. /\ Len(e) \in 1 .. Len(g) - 3 + 1 /\ 3 + Len(e) - 1 = Len(g)
            /\ Len(e) = Len(AfterLine(g))
        BY <2>1, <2>2, <2>5, <3>2
      <4>2. e[Len(e)] = g[Len(g)]
        BY <2>3, <2>5, <4>1
      <4>3. Len(e) \in DOMAIN e
        <5>1. DOMAIN e = 1 .. Len(e)
          BY <2>2, LenProperties
        <5> QED BY <2>1, <4>1, <5>1
      <4>4. g[Len(g)].part \in Blocks
        BY <2>6, <4>2, <4>3 DEF IsData
      <4> QED BY <1>8, <4>4 DEF Blocks
    <3> QED BY <2>12, <3>1, <3>2
  <2>8. Len(g) > 2 => g[3] = AfterLine(g)[1]
    BY <2>1, <2>3
  <2>9. Len(AfterLine(g)) = Len(g) - 2
    <3>1. Len(AfterLine(g)) = IF 3 <= Len(g) THEN Len(g) - 3 + 1 ELSE 0
      BY <2>3
    <3> QED BY <2>12, <3>1
  <2>10. AfterLine(g) \in Seq(Pieces) /\ IsData(AfterLine(g))
    BY <2>3, <2>5, <2>6
  <2>11. d = AfterLine(g) \o b
    BY <2>4, <2>5
  <2> QED BY <1>6, <1>7, <1>10, <2>6, <2>7, <2>8, <2>9, <2>10, <2>11 DEF d, b
<1>11. Len(g) = 1 \/ Len(g) >= 2
  <2> DEFINE l == Len(g)
  <2>1. l \in Nat /\ l >= 1
    BY <1>2, <1>6
  <2> HIDE DEF l
  <2>2. l = 1 \/ l >= 2
    BY <2>1
  <2> QED BY <2>2 DEF l
<1> QED BY <1>9, <1>10, <1>11

\* What an upload consists of; when the server has as many bytes as it expects, it
\* has the file.
LEMMA UploadParts ==
  ASSUME NEW a \in Contents, NEW y \in Seq(Pieces), NEW r \in Seq(Blocks)
  PROVE  /\ Len(a \o (Content(y) \o r)) = Len(a) + Len(y) + Len(r)
         /\ Len(y) + Len(r) = 0 => y = <<>> /\ r = <<>> /\ a \o (Content(y) \o r) = a
<1>1. /\ a \in Seq(Parts) /\ Content(y) \in Seq(Parts) /\ r \in Seq(Parts)
      /\ Len(Content(y)) = Len(y)
  BY ContentFits, SeqGrows DEF Contents, Parts
<1>2. Len(a) \in Nat /\ Len(y) \in Nat /\ Len(r) \in Nat
  BY <1>1, LenProperties
<1> DEFINE z == Content(y) \o r
<1>3. z \in Seq(Parts) /\ Len(z) = Len(y) + Len(r)
  <2> DEFINE w == Content(y)
  <2>1. w \in Seq(Parts) /\ Len(w) = Len(y) /\ r \in Seq(Parts)
    BY <1>1
  <2> HIDE DEF w
  <2>2. w \o r \in Seq(Parts) /\ Len(w \o r) = Len(w) + Len(r)
    BY <2>1, ConcatProperties
  <2> QED BY <2>1, <2>2 DEF w
<1> HIDE DEF z
<1>4. Len(a \o z) = Len(a) + Len(y) + Len(r)
  <2>1. Len(a \o z) = Len(a) + Len(z)
    BY <1>1, <1>3, ConcatProperties
  <2> QED BY <1>2, <1>3, <2>1
<1>5. ASSUME Len(y) + Len(r) = 0
      PROVE  y = <<>> /\ r = <<>> /\ a \o z = a
  <2>1. Len(y) = 0 /\ Len(r) = 0 /\ Len(z) = 0
    BY <1>2, <1>3, <1>5
  <2>2. y = <<>> /\ r = <<>> /\ z = <<>>
    BY <1>3, <2>1, EmptySeq
  <2>3. a \o <<>> = a
    BY <1>1, ConcatEmptySeq
  <2> QED BY <2>2, <2>3
<1> QED BY <1>4, <1>5 DEF z

\* What has arrived and what is to come, when more arrives.
LEMMA UploadGrows ==
  ASSUME NEW a \in Contents, NEW x \in Seq(Pieces), NEW y \in Seq(Pieces),
         NEW r \in Seq(Blocks)
  PROVE  a \o (Content(x \o y) \o r) = (a \o Content(x)) \o (Content(y) \o r)
<1> DEFINE cx == Content(x)  cy == Content(y)
<1>1. a \in Seq(Parts) /\ cx \in Seq(Parts) /\ cy \in Seq(Parts) /\ r \in Seq(Parts)
  BY ContentFits, SeqGrows DEF Contents, Parts
<1>2. Content(x \o y) = cx \o cy
  BY ContentOfConcat
<1> HIDE DEF cx, cy
<1>3. (cx \o cy) \o r = cx \o (cy \o r) /\ cy \o r \in Seq(Parts)
  <2>1. (cx \o cy) \o r = cx \o (cy \o r)
    BY <1>1, ConcatAssociative
  <2>2. cy \o r \in Seq(Parts)
    BY <1>1, ConcatProperties
  <2> QED BY <2>1, <2>2
<1>4. a \o (cx \o (cy \o r)) = (a \o cx) \o (cy \o r)
  <2> DEFINE w == cy \o r
  <2>1. w \in Seq(Parts)
    BY <1>3
  <2> HIDE DEF w
  <2>2. (a \o cx) \o w = a \o (cx \o w)
    BY <1>1, <2>1, ConcatAssociative
  <2> QED BY <2>2 DEF w
<1> QED BY <1>2, <1>3, <1>4 DEF cx, cy

\* A whole line is read as what it says.
LEMMA WholeLineRead ==
  ASSUME NEW g, Len(g) \in Nat, Len(g) > 1, g[1].part = "head",
         g[1].msg \in Tasks \cup {"quit"}
  PROVE  CommandsIn(g) = {g[1].msg}
<1> DEFINE p == g[1].part  l == Len(g)  m == g[1].msg  T == Tasks \cup {"quit"}
<1>1. CommandsIn(g) =
        CASE p = "head" /\ l > 1 -> {IF m \in T THEN m ELSE "invalid"}
          [] p = "head" /\ l = 1 -> {m, "invalid"} \ {"auth"}
          [] p = "word" -> Tasks \cup {"quit", "invalid"}
          [] OTHER -> {"invalid"}
  BY Zenon DEF CommandsIn
<1>2. p = "head" /\ l \in Nat /\ l > 1 /\ m \in T
  OBVIOUS
<1> HIDE DEF p, l, m, T
<1> QED BY <1>1, <1>2 DEF m

\* The line of a command and what follows it are read as that command.
LEMMA ServerReadsCommand ==
  ASSUME Dialogue, Commanding, Asked, RecvCommand, UNCHANGED clientvars, trouble = "none"
  PROVE  /\ trouble' \in {"none", "torn", "nul", "refused"}
         /\ trouble' = "none" => Uploading' \/ Queued' \/ Answered'
         /\ trouble' = "nul" => UploadHidden'
<1>1. PICK g \in Received(c2s, Len(c2s)) : \E cmd \in CommandsIn(g) :
        c2s' = Beyond(c2s, g) /\ ReadsAs(g, cmd)
  BY Zenon DEF RecvCommand, ReadsAs
<1>2. PICK cmd \in CommandsIn(g) : c2s' = Beyond(c2s, g) /\ ReadsAs(g, cmd)
  BY <1>1
<1>3. s2c' = <<>> /\ ask \in Tasks /\ ask \in Lines /\ told = "none"
  BY DEF RecvCommand, Asked, Commanding, Lines
<1>4. /\ c2s \in Seq(Pieces) /\ rest \in Seq(Blocks) /\ sent \in Seq(Blocks)
      /\ Len(sent) \in Nat /\ Len(rest) \in Nat
  <2>1. SentPieces \subseteq Pieces
    BY DEF SentPieces, ClientPieces, Pieces
  <2>2. c2s \in Seq(Pieces)
    BY <2>1, SeqGrows DEF Dialogue, ClientSent
  <2> QED BY <2>2, LenProperties DEF Dialogue, ClientFits
<1> DEFINE e == AfterLine(g)  b == Beyond(c2s, g)  n == Len(sent)
<1>5. \/ Len(g) = 1 /\ Cuts(g) /\ g[1] = Half(ask, "head", NoCall, n)
      \/ /\ Len(g) >= 2 /\ ~ Cuts(g) /\ g[1] = Half(ask, "head", NoCall, n)
         /\ e \in Seq(Pieces) /\ Len(e) = Len(g) - 2 /\ IsData(e)
         /\ Len(g) > 2 => g[3] = e[1]
         /\ b \in Seq(Pieces) /\ IsData(b)
         /\ AfterLine(c2s) = e \o b
  <2>1. c2s = FullText(ask, NoCall, n) \o AfterLine(c2s) /\ IsData(AfterLine(c2s)) /\ n \in Nat
    BY <1>4 DEF Asked
  <2>2. ask \in Lines /\ c2s \in Seq(Pieces)
    BY <1>3, <1>4
  <2> HIDE DEF n
  <2> QED BY <2>1, <2>2, LineReceived
<1>6. /\ g[1].msg = ask /\ g[1].part = "head" /\ g[1].size = n
  BY <1>5 DEF Half
<1>7. CASE Len(g) = 1 /\ Cuts(g)
  <2>1. cmd = "invalid" \/ cmd \in Tasks
    BY <1>2, <1>3, <1>6, <1>7 DEF CommandsIn
  <2>2. Note({"torn"})
    <3>1. CASE cmd = "invalid"
      BY <1>2, <1>7, <3>1 DEF ReadsAs
    <3>2. CASE cmd = "upload"
      BY <1>2, <1>7, <3>2 DEF ReadsAs
    <3>3. CASE cmd \in Tasks \ {"upload"}
      BY <1>2, <1>7, <3>3 DEF ReadsAs, Tasks
    <3> QED BY <2>1, <3>1, <3>2, <3>3
  <2> QED BY <2>2, Noted
<1>8. CASE /\ Len(g) >= 2 /\ ~ Cuts(g)
           /\ e \in Seq(Pieces) /\ Len(e) = Len(g) - 2 /\ IsData(e)
           /\ Len(g) > 2 => g[3] = e[1]
           /\ b \in Seq(Pieces) /\ IsData(b)
           /\ AfterLine(c2s) = e \o b
  <2> HIDE DEF e, b
  <2>1. Len(g) \in Nat /\ Len(e) \in Nat /\ Len(b) \in Nat /\ Len(g) > 1 /\ Len(g) # 1
    <3>1. Len(g) \in Nat
      BY <1>4, ReceivedSplits, LenProperties
    <3> QED BY <1>8, <3>1, LenProperties
  <2>2. cmd = ask
    <3>1. CommandsIn(g) = {ask}
      BY <1>3, <1>6, <2>1, WholeLineRead
    <3> QED BY <1>2, <3>1
  <2>3. <<>> \in Contents /\ Content(e) \in Contents /\ Len(Content(e)) = Len(e)
    BY <1>8, ContentFits DEF Contents
  <2>4. sent = Content(e) \o (Content(b) \o rest)
    <3>1. sent = Content(e \o b) \o rest
      BY <1>8 DEF Asked
    <3>2. Content(e \o b) = Content(e) \o Content(b)
      BY <1>8, ContentOfConcat
    <3>3. /\ Content(e) \in Seq(Parts) /\ Content(b) \in Seq(Parts) /\ rest \in Seq(Parts)
      BY <1>4, <1>8, ContentFits, SeqGrows DEF Contents, Parts
    <3> DEFINE x == Content(e)  y == Content(b)
    <3> HIDE DEF x, y
    <3>4. (x \o y) \o rest = x \o (y \o rest)
      BY <3>3, ConcatAssociative DEF x, y
    <3> QED BY <3>1, <3>2, <3>4 DEF x, y
  <2>5. /\ n = Len(e) + Len(b) + Len(rest)
        /\ n <= Len(e) => b = <<>> /\ rest = <<>> /\ sent = Content(e)
    <3> DEFINE x == Content(e)
    <3>1. x \in Contents /\ Len(x) = Len(e) /\ sent = x \o (Content(b) \o rest)
      BY <2>3, <2>4
    <3> HIDE DEF x
    <3>2. /\ Len(x \o (Content(b) \o rest)) = Len(x) + Len(b) + Len(rest)
          /\ Len(b) + Len(rest) = 0 =>
               b = <<>> /\ rest = <<>> /\ x \o (Content(b) \o rest) = x
      BY <1>4, <1>8, <3>1, UploadParts
    <3>3. n = Len(e) + Len(b) + Len(rest)
      BY <3>1, <3>2
    <3>4. n <= Len(e) => Len(b) + Len(rest) = 0
      BY <1>4, <2>1, <3>3
    <3>5. Len(b) + Len(rest) = 0 => b = <<>> /\ rest = <<>> /\ sent = x
      BY <3>1, <3>2
    <3> QED BY <3>3, <3>4, <3>5 DEF x
  <2>6. c2s' = b
    BY <1>2 DEF b
  <2>7. /\ cpc' = cpc /\ ask' = ask /\ rest' = rest /\ sent' = sent /\ local' = local
        /\ told' = told
    BY DEF clientvars
  <2>8. CASE cmd # "upload"
    <3>1. /\ task' = [op |-> cmd, data |-> <<>>, size |-> 0]
          /\ spc' = "queue" /\ Note({})
      BY <1>2, <1>3, <1>8, <2>2, <2>8 DEF ReadsAs, Tasks
    <3>2. sent = <<>> /\ trouble' = "none"
      BY <2>2, <2>8, <3>1, Noted DEF Commanding
    <3>3. Len(sent) = 0
      BY <3>2, EmptySeq
    <3>4. b = <<>> /\ rest = <<>>
      BY <2>1, <2>5, <3>3
    <3>5. Queued'
      BY <1>3, <2>2, <2>6, <2>7, <3>1, <3>2, <3>4 DEF Queued, Silence, Asked
    <3> QED BY <3>2, <3>5
  <2>9. CASE cmd = "upload"
    <3>1. RefuseUpload(e, n) \/ AcceptUpload(e, n)
      <4>1. Behind(g) = {e} /\ Sizes(g) = {n}
        BY <1>6, <2>1 DEF Behind, Sizes, e, AfterLine
      <4>2. cmd = "upload" /\ ~ (Len(g) = 1 /\ Cuts(g))
        BY <1>8, <2>9
      <4>3. \E extra \in Behind(g), size \in Sizes(g) :
              RefuseUpload(extra, size) \/ AcceptUpload(extra, size)
        BY Zenon, <1>2, <4>2 DEF ReadsAs
      <4> QED BY <4>1, <4>3
    <3>2. cpc \in {"sending", "answer"} /\ ask = "upload"
      BY <2>2, <2>9 DEF Commanding
    <3>3. CASE RefuseUpload(e, n)
      <4>1. SayThen("upload_error", "files", FALSE) /\ UNCHANGED task
            /\ Note(IF Len(e) < n THEN {"refused"} ELSE {})
        BY <3>3 DEF RefuseUpload
      <4>2. "upload_error" \in Answers /\ "files" \in AfterSaying
        BY DEF Answers, AfterSaying
      <4>3. Coming("upload_error", "files")' /\ spc' = "say" /\ out'.msg = "upload_error"
        BY <1>3, <4>1, <4>2, SayingComes DEF SayThen, Out
      <4>4. CASE Len(e) < n
        BY <4>1, <4>4, Noted
      <4>5. CASE ~ (Len(e) < n)
        <5>1. trouble' = "none"
          BY <4>1, <4>5, Noted
        <5>2. b = <<>> /\ rest = <<>>
          BY <1>4, <2>1, <2>5, <4>5
        <5>3. Answered'
          BY <2>6, <2>7, <3>2, <4>3, <5>2 DEF Answered, Replies
        <5> QED BY <5>1, <5>3
      <4> QED BY <4>4, <4>5
    <3>4. CASE AcceptUpload(e, n)
      <4> DEFINE d == Leftover(e, n)
      <4>1. /\ task' = [op |-> "upload", data |-> Content(d), size |-> n]
            /\ spc' = IF Len(d) < n THEN "data" ELSE "queue"
            /\ Note(IF e # <<>> /\ n > 0 /\ e[1].part = "nul" THEN {"nul"} ELSE {})
        BY <3>4 DEF AcceptUpload
      <4>2. Len(e) <= n
        BY <1>4, <2>1, <2>5
      <4>3. d = IF e # <<>> /\ e[1].part # "nul" THEN e ELSE <<>>
        <5>2. Min({Len(e), n}) = Len(e)
          <6> DEFINE l == Len(e)
          <6>1. l \in Nat /\ n \in Nat /\ l <= n
            BY <1>4, <2>1, <4>2
          <6> HIDE DEF l, n
          <6>2. Min({l, n}) \in {l, n} /\ Min({l, n}) <= l
            BY <6>1, MinOfTwo
          <6>3. Min({l, n}) = l
            BY <6>1, <6>2
          <6> QED BY <6>3 DEF l
        <5>3. SubSeq(e, 1, Len(e)) = e
          BY <1>8, SubSeqFull
        <5> QED BY <5>2, <5>3 DEF Leftover
      <4> HIDE DEF d
      <4>4. CASE e # <<>> /\ e[1].part = "nul"
        <5>1. e # <<>> /\ n > 0 /\ e[1].part = "nul"
          <6>1. Len(e) # 0
            BY <1>8, <4>4, EmptySeq
          <6> QED BY <1>4, <2>1, <4>2, <4>4, <6>1
        <5>2. trouble' = "nul"
          <6>1. Note({"nul"})
            BY <4>1, <5>1
          <6> QED BY <6>1, Noted
        <5>3. d = <<>> /\ Len(d) = 0 /\ Content(d) = <<>>
          <6>1. d = <<>> /\ Len(<<>>) = 0 /\ <<>> \in Seq(Pieces)
            BY <4>3, <4>4, EmptySeq
          <6>2. Content(<<>>) \in Seq(Parts) /\ Len(Content(<<>>)) = 0
            BY <6>1, ContentFits DEF Contents
          <6> QED BY <6>1, <6>2, EmptySeq
        <5>4. spc' = "data" /\ task'.data = <<>> /\ task'.size = n
          BY <4>1, <5>1, <5>3
        <5>5. Len(task'.data) + Len(c2s') + Len(rest') < task'.size
          <6>1. Len(e) # 0 /\ Len(<<>>) = 0
            BY <1>8, <4>4, EmptySeq
          <6> QED BY <1>4, <2>1, <2>5, <2>6, <2>7, <5>4, <6>1
        <5>6. UploadHidden'
          BY <1>3, <2>7, <3>2, <5>4, <5>5 DEF UploadHidden
        <5> QED BY <5>2, <5>6
      <4>5. CASE e = <<>> \/ e[1].part # "nul"
        <5>1. d = e
          BY <4>3, <4>5
        <5>2. ~ (e # <<>> /\ n > 0 /\ e[1].part = "nul")
          BY <4>5
        <5>3. trouble' = "none"
          BY <4>1, <5>2, Noted
        <5>4. task'.op = "upload" /\ task'.data = Content(e) /\ task'.size = n
          BY <4>1, <5>1
        <5>5. CASE Len(e) < n
          <6>1. spc' = "data"
            BY <4>1, <5>1, <5>5
          <6>2. IsData(c2s') /\ sent = Content(e) \o (Content(c2s') \o rest)
            BY <1>8, <2>4, <2>6
          <6>3. Uploading'
            BY <1>3, <2>7, <3>2, <5>4, <6>1, <6>2 DEF Uploading
          <6> QED BY <5>3, <6>3
        <5>6. CASE ~ (Len(e) < n)
          <6>1. spc' = "queue"
            BY <4>1, <5>1, <5>6
          <6>2. b = <<>> /\ rest = <<>> /\ sent = Content(e)
            BY <1>4, <2>1, <2>5, <5>6
          <6>3. Queued'
            BY <1>3, <2>6, <2>7, <3>2, <5>4, <6>1, <6>2 DEF Queued, Silence
          <6> QED BY <5>3, <6>3
        <5> QED BY <5>5, <5>6
      <4> QED BY <4>4, <4>5
    <3> QED BY <3>1, <3>3, <3>4
  <2> QED BY <2>8, <2>9
<1> QED BY <1>5, <1>7, <1>8

\* The streams and buffers hold pieces and blocks.
LEMMA DialogueFits ==
  ASSUME Dialogue
  PROVE  /\ c2s \in Seq(Pieces) /\ s2c \in Seq(Pieces)
         /\ rest \in Seq(Blocks) /\ sent \in Seq(Blocks)
         /\ task \in Requests /\ task.data \in Contents /\ task.size \in Nat
         /\ Len(task.data) <= task.size /\ Need \in Nat
         /\ out.data \in Contents
         /\ Len(task.data) \in Nat /\ Len(c2s) \in Nat /\ Len(s2c) \in Nat
         /\ Len(rest) \in Nat /\ Len(sent) \in Nat
<1>1. SentPieces \subseteq Pieces
  BY DEF SentPieces, ClientPieces, Pieces
<1>2. c2s \in Seq(Pieces) /\ s2c \in Seq(Pieces)
  BY <1>1, SeqGrows DEF Dialogue, ClientSent, StreamsFit
<1>3. rest \in Seq(Blocks) /\ sent \in Seq(Blocks)
  BY DEF Dialogue, ClientFits
<1>4. /\ task \in Requests /\ task.data \in Contents /\ task.size \in Nat
      /\ Len(task.data) <= task.size /\ out.data \in Contents
  BY DEF Dialogue, ServerFits, Requests, Outs
<1>5. Len(task.data) \in Nat
  BY <1>4, LenProperties DEF Contents
<1> QED BY <1>2, <1>3, <1>4, <1>5, LenProperties DEF Need

\* The rest of an upload arrives.
LEMMA ServerReceives ==
  ASSUME Dialogue, Commanding, Uploading, RecvData, UNCHANGED clientvars, ~ ClientLost
  PROVE  Uploading' \/ Queued'
<1>1. PICK g \in Received(c2s, Need) :
        /\ c2s' = Beyond(c2s, g)
        /\ task' = [task EXCEPT !.data = @ \o Content(g)]
        /\ spc' = IF Len(g) >= Need THEN "queue" ELSE "data"
  BY DEF RecvData, RecvDataUpTo
<1> DEFINE b == Beyond(c2s, g)  a == task.data
<1>2. /\ g \in Seq(Pieces) /\ b \in Seq(Pieces) /\ c2s = g \o b
      /\ Len(g) \in Nat /\ Len(b) \in Nat
  BY DialogueFits, ReceivedSplits, LenProperties
<1>3. IsData(g) /\ IsData(b)
  BY <1>2, DataOfConcat DEF Uploading
<1>4. /\ task'.data = a \o Content(g) /\ task'.op = "upload" /\ task'.size = Len(sent)
  BY <1>1, DialogueFits DEF Requests, Uploading
<1>5. s2c' = <<>> /\ ask = "upload" /\ cpc \in {"sending", "answer"}
  BY DEF RecvData, RecvDataUpTo, Uploading, Commanding
<1>6. /\ cpc' = cpc /\ ask' = ask /\ rest' = rest /\ sent' = sent
  BY DEF clientvars
<1>7. c2s' = b
  BY <1>1
<1>8. /\ a \in Contents /\ Content(g) \in Contents /\ rest \in Seq(Blocks)
      /\ Len(Content(g)) = Len(g) /\ sent = a \o (Content(g \o b) \o rest)
      /\ Need = Len(sent) - Len(a) /\ Len(a) \in Nat /\ Len(sent) \in Nat
      /\ Len(rest) \in Nat
  BY <1>2, DialogueFits, ContentFits DEF Uploading, Need
<1> HIDE DEF a, b
<1> DEFINE z == a \o Content(g)
<1>9. z \in Contents /\ Len(z) = Len(a) + Len(g) /\ Len(z) \in Nat
  <2> DEFINE x == Content(g)
  <2>1. a \in Seq(Parts) /\ x \in Seq(Parts) /\ Len(x) = Len(g)
    BY <1>8 DEF Contents
  <2> HIDE DEF x
  <2>2. a \o x \in Seq(Parts) /\ Len(a \o x) = Len(a) + Len(x)
    BY <2>1, ConcatProperties
  <2> QED BY <1>2, <1>8, <2>1, <2>2 DEF x, Contents
<1>10. sent = z \o (Content(b) \o rest)
  BY <1>2, <1>8, UploadGrows
<1> HIDE DEF z
<1>11. /\ Len(sent) = Len(z) + Len(b) + Len(rest)
       /\ Len(b) + Len(rest) = 0 => b = <<>> /\ rest = <<>> /\ sent = z
  <2>1. /\ Len(z \o (Content(b) \o rest)) = Len(z) + Len(b) + Len(rest)
        /\ Len(b) + Len(rest) = 0 =>
             b = <<>> /\ rest = <<>> /\ z \o (Content(b) \o rest) = z
    BY <1>2, <1>8, <1>9, UploadParts
  <2> QED BY <1>10, <2>1
<1>12. CASE Len(g) >= Need
  <2>1. Len(b) + Len(rest) = 0
    BY <1>2, <1>8, <1>9, <1>11, <1>12
  <2>2. spc' = "queue"
    BY <1>1, <1>12
  <2>3. task'.data = sent
    BY <1>4, <1>11, <2>1 DEF z
  <2> QED BY <1>4, <1>5, <1>6, <1>7, <1>11, <2>1, <2>2, <2>3 DEF Queued, Silence
<1>13. CASE ~ (Len(g) >= Need)
  <2>1. spc' = "data"
    BY <1>1, <1>13
  <2>2. sent = task'.data \o (Content(c2s') \o rest)
    BY <1>4, <1>7, <1>10 DEF z
  <2>3. IsData(c2s')
    BY <1>3, <1>7
  <2> QED BY <1>4, <1>5, <1>6, <2>1, <2>2, <2>3 DEF Uploading
<1> QED BY <1>12, <1>13

\* The command is done, or not, and answered.
LEMMA ServerWorks ==
  ASSUME Dialogue, Commanding, Queued, FileWhole, QueueTask \/ Work,
         UNCHANGED clientvars, UNCHANGED c2s
  PROVE  (Queued' \/ Answered' \/ Downloading') /\ FileWhole'
<1>1. /\ cpc' = cpc /\ ask' = ask /\ rest' = rest /\ sent' = sent /\ local' = local
      /\ rest' = <<>> /\ c2s' = <<>>
  BY DEF clientvars, Queued, Silence
<1>2. s2c' = <<>> /\ s2c = <<>>
  BY DEF Queued, Silence, QueueTask, Work
<1>3. "files" \in AfterSaying /\ Replies(ask) \subseteq Answers
  BY DEF AfterSaying, Answers, Replies, Commanding, Tasks
<1>4. ASSUME NEW m \in Replies(ask), SayThen(m, "files", FALSE),
             m = "upload_ok" => file' = sent, m = "delete_ok" => file' = NoFile
      PROVE  Answered'
  <2>1. Coming(m, "files")'
    BY <1>2, <1>3, <1>4, SayingComes
  <2> QED BY <1>1, <1>4, <2>1 DEF Answered
<1>5. ask \in {"upload", "download", "delete", "list"}
  BY DEF Commanding, Tasks
<1>6. "error" \in Replies(ask)
  BY <1>5 DEF Replies
<1>7. CASE QueueTask
  <2>1. UNCHANGED file
    BY <1>7 DEF QueueTask
  <2>2. CASE spc' = "work" /\ UNCHANGED <<task, out>>
    BY <1>1, <1>2, <1>7, <2>1, <2>2 DEF Queued, Silence, FileWhole, QueueTask
  <2>3. CASE SayThen("error", "files", FALSE)
    BY <1>4, <1>6, <2>1, <2>3 DEF FileWhole
  <2> QED BY <1>7, <2>2, <2>3 DEF QueueTask
<1>8. CASE Work
  <2>1. task.op = ask /\ task.data = sent /\ sent \in Seq(Blocks)
    BY <1>8, DialogueFits DEF Queued, Work
  <2>2. ASSUME NEW f, NEW d, NEW m, Done(f, d, m), spc' = "asleep",
               f = NoFile \/ f \in Seq(Blocks)
        PROVE  Queued' /\ FileWhole'
    BY <1>1, <1>2, <2>2 DEF Done, Queued, Silence, FileWhole
  <2>3. ASSUME NEW f, NEW m \in Replies(ask), Done(f, <<>>, m),
               f = NoFile \/ f \in Seq(Blocks),
               m = "upload_ok" => f = sent, m = "delete_ok" => f = NoFile
        PROVE  (Queued' \/ Answered') /\ FileWhole'
    <3>1. file' = f
      BY <2>3 DEF Done
    <3>2. CASE spc' = "asleep"
      BY <2>2, <2>3, <3>2
    <3>3. CASE spc' = "say" /\ out' = Out(<<>>, m, "files", FALSE)
      <4>1. SayThen(m, "files", FALSE)
        BY <3>3 DEF SayThen
      <4>2. Answered'
        BY <1>4, <2>3, <3>1, <4>1
      <4> QED BY <2>3, <3>1, <4>2 DEF FileWhole
    <3> QED BY <2>3, <3>2, <3>3 DEF Done
  <2>4. file = NoFile \/ file \in Seq(Blocks)
    BY DEF FileWhole
  <2>5. CASE ask = "upload"
    <3>1. \/ Done(sent, <<>>, "upload_ok")
          \/ \E f \in {file, NoFile} : Done(f, <<>>, "upload_error")
      BY <1>8, <2>1, <2>5 DEF Work
    <3>2. {"upload_ok", "upload_error"} \subseteq Replies(ask)
      BY <2>5 DEF Replies
    <3> QED BY <2>1, <2>3, <2>4, <3>1, <3>2
  <2>6. CASE ask = "download"
    <3>1. (file # NoFile /\ Done(file, file, "download_ok"))
          \/ Done(file, <<>>, "download_error")
      BY <1>8, <2>1, <2>6 DEF Work
    <3>2. "download_error" \in Replies(ask)
      BY <2>6 DEF Replies
    <3>3. CASE Done(file, <<>>, "download_error")
      BY <2>3, <2>4, <3>2, <3>3
    <3>4. CASE file # NoFile /\ Done(file, file, "download_ok") /\ spc' = "asleep"
      BY <2>2, <2>4, <3>4
    <3>5. CASE /\ file # NoFile /\ spc' = "say" /\ file' = file
               /\ out' = Out(file, "download_ok", "files", file # <<>>)
      <4>1. file \in Seq(Blocks)
        BY <2>4, <3>5
      <4>2. /\ out'.data = file /\ out'.msg = "download_ok" /\ out'.next = "files"
        BY <3>5 DEF Out
      <4>3. <<>> \in Seq(Pieces) /\ Len(<<>>) = 0 /\ IsData(s2c')
        BY <1>2, EmptySeq DEF IsData
      <4>4. Content(s2c') = <<>>
        <5>1. Content(<<>>) \in Seq(Parts) /\ Len(Content(<<>>)) = 0
          BY <4>3, ContentFits DEF Contents
        <5> QED BY <1>2, <5>1, EmptySeq
      <4>5. <<>> \o (<<>> \o file) = file
        <5>1. <<>> \o file = file
          BY <4>1, ConcatEmptySeq
        <5> QED BY <5>1
      <4>6. cpc = "download" => local' = <<>>
        BY <1>1 DEF Queued
      <4>7. FileWhole'
        BY <4>1, <3>5 DEF FileWhole
      <4> QED BY <1>1, <2>6, <3>5, <4>1, <4>2, <4>3, <4>4, <4>5, <4>6, <4>7
              DEF Downloading
    <3> QED BY <3>1, <3>3, <3>4, <3>5 DEF Done
  <2>7. CASE ask = "delete"
    <3>1. Done(NoFile, <<>>, "delete_ok") \/ Done(file, <<>>, "delete_error")
      BY <1>8, <2>1, <2>7 DEF Work
    <3>2. {"delete_ok", "delete_error"} \subseteq Replies(ask)
      BY <2>7 DEF Replies
    <3> QED BY <2>3, <2>4, <3>1, <3>2
  <2>8. CASE ask = "list"
    <3>1. \E m \in {"list", "list_error"} : Done(file, <<>>, m)
      BY <1>8, <2>1, <2>8 DEF Work
    <3>2. {"list", "list_error"} \subseteq Replies(ask)
      BY <2>8 DEF Replies
    <3> QED BY <2>3, <2>4, <3>1, <3>2
  <2> QED BY <1>5, <2>5, <2>6, <2>7, <2>8
<1> QED BY <1>7, <1>8
-----------------------------------------------------------------------------
(* The server carries out a command *)

\* A block goes from what is to be sent to what is under way.
LEMMA BlockMoves ==
  ASSUME NEW g \in Seq(Pieces), NEW d \in Seq(Blocks), d # <<>>
  PROVE  /\ Head(d) \in Blocks /\ Tail(d) \in Seq(Blocks)
         /\ Content(Append(g, Block(Head(d)))) \o Tail(d) = Content(g) \o d
<1> DEFINE h == Head(d)  t == Tail(d)  c == Content(g)
<1>1. /\ h \in Blocks /\ t \in Seq(Blocks) /\ Len(d) \in Nat
      /\ Len(t) = Len(d) - 1 /\ \A i \in 1 .. Len(t) : t[i] = d[i + 1]
  BY HeadTailProperties, LenProperties
<1>2. c \in Seq(Parts) /\ t \in Seq(Parts) /\ <<h>> \in Seq(Parts) /\ d \in Seq(Parts)
  BY <1>1, ContentFits, SeqGrows DEF Contents, Parts
<1>3. Content(Append(g, Block(h))) = Append(c, h) /\ Append(c, h) = c \o <<h>>
  BY <1>1, <1>2, BlockAppended, AppendIsConcat DEF Parts
<1>4. Len(d) # 0 /\ h = d[1]
  BY EmptySeq
<1> HIDE DEF h, t, c
<1>5. <<h>> \o t = d
  <2>1. <<h>> \in Seq(Blocks) /\ Len(<<h>>) = 1 /\ <<h>>[1] = h
    BY <1>1
  <2> DEFINE k == <<h>>
  <2>2. k \in Seq(Blocks) /\ Len(k) = 1 /\ k[1] = h
    BY <2>1
  <2> HIDE DEF k
  <2>3. /\ k \o t \in Seq(Blocks) /\ Len(k \o t) = Len(k) + Len(t)
        /\ \A i \in 1 .. Len(k) + Len(t) :
             (k \o t)[i] = IF i <= Len(k) THEN k[i] ELSE t[i - Len(k)]
    <3>1. k \in Seq(Blocks) /\ t \in Seq(Blocks)
      BY <1>1, <2>2
    <3> QED BY <3>1, ConcatProperties
  <2>4. Len(k \o t) = Len(d)
    BY <1>1, <1>4, <2>2, <2>3
  <2>5. ASSUME NEW i \in 1 .. Len(d)
        PROVE  (k \o t)[i] = d[i]
    <3>1. i \in 1 .. Len(k) + Len(t)
      BY <2>3, <2>4
    <3>2. CASE i = 1
      BY <1>4, <2>2, <2>3, <3>1, <3>2
    <3>3. CASE i # 1
      <4>1. ~ (i <= 1) /\ i - 1 \in 1 .. Len(t) /\ (i - 1) + 1 = i
        BY <1>1, <3>3
      <4>2. (k \o t)[i] = t[i - 1]
        BY <2>2, <2>3, <3>1, <4>1
      <4>3. t[i - 1] = d[(i - 1) + 1]
        BY <1>1, <4>1
      <4> QED BY <4>1, <4>2, <4>3
    <3> QED BY <3>2, <3>3
  <2> QED BY <2>3, <2>4, <2>5, SeqEqual DEF k
<1>6. (c \o <<h>>) \o t = c \o d
  <2> DEFINE k == <<h>>
  <2>1. k \in Seq(Parts) /\ k \o t = d /\ c \in Seq(Parts) /\ t \in Seq(Parts)
    BY <1>2, <1>5
  <2> HIDE DEF k
  <2>3. k \in Seq(Parts) /\ c \in Seq(Parts) /\ t \in Seq(Parts)
    BY <2>1
  <2>2. (c \o k) \o t = c \o (k \o t)
    BY <2>3, ConcatAssociative
  <2> QED BY <2>1, <2>2 DEF k
<1> QED BY <1>1, <1>3, <1>6 DEF h, t, c

\* What stands before a text that was sent last.
LEMMA TextBehind ==
  ASSUME NEW g \in Seq(Pieces), NEW m \in Answers
  PROVE  Before(g \o Text(m)) = g
<1> DEFINE t == Text(m)
<1>1. t \in Seq(Pieces) /\ Len(t) = 2 /\ Len(g) \in Nat
  BY AnswerHalves, LenProperties
<1> HIDE DEF t
<1>2. Len(g \o t) = Len(g) + 2
  <2>1. t \in Seq(Pieces)
    BY <1>1
  <2>2. Len(g \o t) = Len(g) + Len(t)
    BY <2>1, ConcatProperties
  <2> QED BY <1>1, <2>2
<1>3. Len(g \o t) - 2 = Len(g)
  BY <1>1, <1>2
<1>4. SubSeq(g \o t, 1, Len(g)) = SubSeq(g, 1, Len(g))
  BY <1>1, SubSeqOfConcat1
<1> QED BY <1>3, <1>4, SubSeqFull DEF Before, t

\* It sends a file, block by block.
LEMMA ServerSendsFile ==
  ASSUME Dialogue, Commanding, Downloading, spc = "say", Say, UNCHANGED <<c2s, clientvars>>,
         ~ ClientLost
  PROVE  Downloading'
<1>1. /\ cpc' = cpc /\ ask' = ask /\ local' = local /\ c2s' = <<>> /\ ask = "download"
      /\ file' = file
  BY DEF clientvars, Downloading, Say
<1>2. /\ spc = "say" /\ out.msg = "download_ok" /\ out.next = "files"
      /\ IsData(s2c) /\ out.data \in Seq(Blocks) /\ s2c \in Seq(Pieces)
      /\ cpc = "download" => file = local \o (Content(s2c) \o out.data)
      /\ out \in Outs
  BY DialogueFits DEF Downloading, Dialogue, ServerFits
<1>3. CASE /\ out.data # <<>> /\ s2c' = Append(s2c, Block(Head(out.data)))
           /\ out' = [out EXCEPT !.data = Tail(@)] /\ UNCHANGED spc
  <2> DEFINE d == out.data
  <2>1. d \in Seq(Blocks) /\ d # <<>> /\ s2c' = Append(s2c, Block(Head(d)))
    BY <1>2, <1>3
  <2>2. /\ out'.data = Tail(d) /\ out'.msg = "download_ok" /\ out'.next = "files"
    BY <1>2, <1>3 DEF Outs
  <2>4. cpc = "download" => file = local \o (Content(s2c) \o d)
    BY <1>2
  <2> HIDE DEF d
  <2>3. /\ Head(d) \in Blocks /\ Tail(d) \in Seq(Blocks)
        /\ Content(s2c') \o Tail(d) = Content(s2c) \o d
    BY <1>2, <2>1, BlockMoves
  <2>5. IsData(s2c')
    BY <1>2, <2>1, <2>3, BlockAppended
  <2> QED BY <1>1, <1>2, <1>3, <2>2, <2>3, <2>4, <2>5 DEF Downloading
<1>4. CASE /\ out.data = <<>> /\ s2c' = s2c \o Text("download_ok") /\ spc' = "files"
  <2>1. "download_ok" \in Answers
    BY DEF Answers
  <2>2. Before(s2c') = s2c
    BY <1>2, <1>4, <2>1, TextBehind
  <2>3. Content(s2c) \o <<>> = Content(s2c)
    <3>1. Content(s2c) \in Seq(Parts)
      BY <1>2, ContentFits DEF Contents
    <3> QED BY <3>1, ConcatEmptySeq
  <2>4. cpc = "download" => file = local \o Content(s2c)
    BY <1>2, <1>4, <2>3
  <2> QED BY <1>1, <1>2, <1>4, <2>2, <2>4 DEF Downloading
<1> QED BY <1>2, <1>3, <1>4 DEF Say

\* It sends its answer, or waits for the next command.
LEMMA ServerAnswers ==
  ASSUME Dialogue, Commanding, Answered, ServerStep, ~ ClientLost
  PROVE  Answered' /\ who' = who /\ UNCHANGED <<file, trouble>>
<1>1. UNCHANGED clientvars /\ c2s = <<>> /\ rest = <<>>
  BY ServerAt DEF Answered
<1>2. PICK m \in Replies(ask) :
        /\ Coming(m, "files")
        /\ m = "upload_ok" => file = sent
        /\ m = "delete_ok" => file = NoFile
  BY DEF Answered
<1>3. m \in Answers /\ "files" \in AfterSaying
  BY DEF Replies, Commanding, Tasks, Answers, AfterSaying
<1>4. CASE spc = "files"
  BY <1>1, <1>4, ServerWaits
<1>5. CASE spc = "say"
  <2>1. Say /\ UNCHANGED <<c2s, trouble>>
    BY <1>5, ServerAt
  <2>2. Coming(m, "files")' /\ UNCHANGED file
    BY <1>2, <1>3, <1>5, <2>1, SaidComes
  <2>3. ask' = ask /\ rest' = rest /\ sent' = sent
    BY <1>1 DEF clientvars
  <2>4. who' = who
    BY <2>1, ServedStays
  <2> QED BY <1>1, <1>2, <2>1, <2>2, <2>3, <2>4 DEF Answered
<1> QED BY <1>2, <1>4, <1>5 DEF Coming

\* The client's part of a command under way is the client's.
LEMMA CommandingStays ==
  ASSUME Commanding, UNCHANGED clientvars
  PROVE  Commanding'
  BY DEF Commanding, clientvars

\* Whatever the server does, it stays where the client takes it to be, or it is
\* recorded how that was lost.
LEMMA ServerInStep ==
  ASSUME Dialogue, Together, FileWhole, trouble = "none", ServerStep, ~ ClientLost
  PROVE  Agreed'
<1>1. UNCHANGED <<up, clientvars>>
  BY ServerAt
<1>2. ASSUME Together', UNCHANGED <<file, trouble>>
      PROVE  Agreed'
  BY <1>2 DEF Agreed, FileWhole
<1>3. CASE Greeting
  BY <1>2, <1>3, ServerGreets DEF Together
<1>4. CASE LoggedOut
  BY <1>4, ServerListens
<1>5. CASE LoggingIn
  <2>1. CASE trouble' = "torn"
    BY <2>1 DEF Agreed
  <2>2. CASE trouble' # "torn"
    BY <1>2, <1>5, <2>2, ServerLogsIn DEF Together
  <2> QED BY <2>1, <2>2
<1>6. CASE LoggedIn
  BY <1>2, <1>6, ServerSendsMenu DEF Together
<1>7. CASE Prompted
  BY <1>7, ServerWaits DEF Prompted, Silence
<1>8. CASE Commanding /\ who[Wire] # NoName
                      /\ (Asked \/ Uploading \/ Queued \/ Answered \/ Downloading)
  <2>1. Commanding'
    BY <1>1, <1>8, CommandingStays
  <2>2. CASE Asked
    <3>1. RecvCommand
      BY <2>2, ServerAt DEF Asked
    <3>2. who' = who /\ file' = file
      BY <3>1, ServedStays DEF RecvCommand
    <3>3. /\ trouble' \in {"none", "torn", "nul", "refused"}
          /\ trouble' = "none" => Uploading' \/ Queued' \/ Answered'
          /\ trouble' = "nul" => UploadHidden'
      BY <1>1, <1>8, <2>2, <3>1, ServerReadsCommand
    <3>4. trouble' = "none" => Together' /\ FileWhole'
      BY <1>8, <2>1, <3>2, <3>3 DEF Together, FileWhole
    <3> QED BY <3>3, <3>4 DEF Agreed
  <2>3. CASE Uploading
    <3>1. RecvData
      BY <2>3, ServerAt DEF Uploading
    <3>2. who' = who /\ UNCHANGED <<file, trouble>>
      BY <3>1, ServedStays DEF RecvData, RecvDataUpTo
    <3>3. Uploading' \/ Queued'
      BY <1>1, <1>8, <2>3, <3>1, ServerReceives
    <3> QED BY <1>2, <1>8, <2>1, <3>2, <3>3 DEF Together
  <2>4. CASE Queued
    <3>1. (QueueTask \/ Work) /\ UNCHANGED <<c2s, trouble>>
      BY <2>4, ServerAt DEF Queued
    <3>2. who' = who
      BY <3>1, ServedStays
    <3>3. (Queued' \/ Answered' \/ Downloading') /\ FileWhole'
      BY <1>1, <1>8, <2>4, <3>1, ServerWorks
    <3> QED BY <1>8, <2>1, <3>1, <3>2, <3>3 DEF Agreed, Together
  <2>5. CASE Answered
    BY <1>2, <1>8, <2>1, <2>5, ServerAnswers DEF Together
  <2>6. CASE Downloading
    <3>1. CASE spc = "files"
      BY <2>6, <3>1, ServerWaits DEF Downloading
    <3>2. CASE spc = "say"
      <4>1. Say /\ UNCHANGED <<c2s, trouble>>
        BY <3>2, ServerAt
      <4>2. Downloading'
        BY <1>1, <1>8, <2>6, <3>2, <4>1, ServerSendsFile
      <4>3. who' = who /\ UNCHANGED file
        BY <4>1, ServedStays DEF Say
      <4> QED BY <1>2, <1>8, <2>1, <4>1, <4>2, <4>3 DEF Together
    <3> QED BY <2>6, <3>1, <3>2 DEF Downloading
  <2> QED BY <1>8, <2>2, <2>3, <2>4, <2>5, <2>6
<1> QED BY <1>3, <1>4, <1>5, <1>6, <1>7, <1>8 DEF Together
-----------------------------------------------------------------------------
(* The server once the ends have lost each other *)

\* A recv of data returns data and leaves data.
LEMMA DataReceived ==
  ASSUME NEW s \in Seq(Pieces), IsData(s), NEW k \in Nat, NEW g \in Received(s, k)
  PROVE  /\ g \in Seq(Pieces) /\ IsData(g) /\ Len(g) \in Nat \ {0}
         /\ IsData(Beyond(s, g)) /\ Beyond(s, g) \in Seq(Pieces)
         /\ s = g \o Beyond(s, g)
<1> DEFINE b == Beyond(s, g)
<1>1. g \in Seq(Pieces) /\ b \in Seq(Pieces) /\ s = g \o b /\ Len(g) \in 1 .. Len(s)
  BY ReceivedSplits
<1>2. IsData(g \o b)
  BY <1>1
<1> HIDE DEF b
<1>3. IsData(g) /\ IsData(b)
  BY <1>1, <1>2, DataOfConcat
<1>4. Len(g) \in Nat \ {0}
  BY <1>1, LenProperties
<1> QED BY <1>1, <1>3, <1>4 DEF b

\* A trouble once recorded remains.
LEMMA TroubleStays ==
  ASSUME trouble # "none", [Next]_vars
  PROVE  trouble' = trouble
<1>1. \A C : Note(C) => trouble' = trouble
  BY Noted
<1>2. CASE RecvAuth
  BY <1>1, <1>2 DEF RecvAuth
<1>3. CASE RecvCommand
  <2>1. PICK g \in Received(c2s, Len(c2s)) : \E cmd \in CommandsIn(g) : ReadsAs(g, cmd)
    BY <1>3, CommandsReadAs
  <2>2. PICK cmd \in CommandsIn(g) : ReadsAs(g, cmd)
    BY <2>1
  <2>3. \E C : Note(C)
    BY Zenon, <2>2 DEF ReadsAs, RefuseUpload, AcceptUpload
  <2> QED BY <1>1, <2>3
<1>4. CASE ReadWelcome \/ ReadMenu \/ ReadAnswer \/ ReadAuth
  BY <1>1, <1>4 DEF ReadWelcome, ReadMenu, ReadAnswer, ReadAuth
<1>5. CASE ReadDownload
  BY <1>1, <1>5 DEF ReadDownload
<1>6. CASE DrainDownload
  BY <1>1, <1>6 DEF DrainDownload
<1>7. CASE \/ Accept \/ Say \/ CallReturns \/ SetUsername \/ RecvData \/ QueueTask \/ Work
           \/ EndSession \/ SendBlock \/ SendAuth \/ Leave \/ Reset
  BY <1>7 DEF Accept, Say, CallReturns, SetUsername, RecvData, RecvDataUpTo, QueueTask,
    Work, EndSession, SendBlock, SendAuth, Leave, Reset
<1>8. CASE UNCHANGED vars \/ UNCHANGED <<up, c2s, s2c, servervars, clientvars, trouble>>
           \/ \E s \in Sessions : OtherSession(s)
  BY <1>8 DEF vars, OtherSession
<1>9. CASE \/ \E p \in Payloads : SendCommand("upload", p)
           \/ \E op \in Tasks \ {"upload"} : SendCommand(op, <<>>)
  BY <1>9 DEF SendCommand
<1> QED
  BY <1>2, <1>3, <1>4, <1>5, <1>6, <1>7, <1>8, <1>9 DEF Next, ServerStep, ClientStep

\* The server waits for the bytes of an upload that it did not see.
LEMMA ServerMissesUpload ==
  ASSUME Dialogue, UploadHidden, ServerStep, ~ ClientLost
  PROVE  UploadHidden'
<1>1. RecvData /\ UNCHANGED clientvars
  BY ServerAt DEF UploadHidden
<1>2. PICK g \in Received(c2s, Need) :
        /\ c2s' = Beyond(c2s, g)
        /\ task' = [task EXCEPT !.data = @ \o Content(g)]
        /\ spc' = IF Len(g) >= Need THEN "queue" ELSE "data"
  BY <1>1 DEF RecvData, RecvDataUpTo
<1> DEFINE a == task.data  n == task.size
<1>3. /\ g \in Seq(Pieces) /\ Len(g) \in Nat /\ Len(g) <= Len(c2s)
      /\ Len(c2s') = Len(c2s) - Len(g)
  <2>1. g \in Seq(Pieces) /\ Len(g) \in 1 .. Len(c2s)
    BY DialogueFits, ReceivedSplits
  <2>2. Len(Beyond(c2s, g)) = Len(c2s) - Len(g)
    BY DialogueFits, ReceivedSplits
  <2> QED BY <1>2, <2>1, <2>2, DialogueFits
<1>4. task'.data = a \o Content(g) /\ task'.size = n
  BY <1>2, DialogueFits DEF Requests
<1>5. a \in Seq(Parts) /\ Content(g) \in Seq(Parts) /\ Len(Content(g)) = Len(g)
  BY <1>3, DialogueFits, ContentFits DEF Contents
<1>6. Len(task'.data) = Len(a) + Len(g)
  <2> DEFINE x == Content(g)
  <2>1. x \in Seq(Parts) /\ a \in Seq(Parts) /\ Len(x) = Len(g)
    BY <1>5
  <2> HIDE DEF x, a
  <2>2. Len(a \o x) = Len(a) + Len(x)
    BY <2>1, ConcatProperties
  <2> QED BY <1>4, <2>1, <2>2 DEF x
<1>7. /\ Len(a) \in Nat /\ Len(c2s) \in Nat /\ Len(rest) \in Nat /\ n \in Nat
      /\ Len(a) + Len(c2s) + Len(rest) < n /\ Need = n - Len(a)
  BY DialogueFits DEF UploadHidden, Need
<1>8. spc' = "data"
  BY <1>2, <1>3, <1>7
<1>9. Len(task'.data) + Len(c2s') + Len(rest) < task'.size
  BY <1>3, <1>4, <1>6, <1>7
<1>10. cpc' = cpc /\ rest' = rest /\ s2c' = s2c
  BY <1>1 DEF clientvars, RecvData, RecvDataUpTo
<1> QED BY <1>8, <1>9, <1>10 DEF UploadHidden

\* After a reset the thread receives nothing and reaches nobody; where it waits for a
\* command it ends.
LEMMA ServerAlone ==
  ASSUME Dialogue, ~ up, Silence, ServerStep
  PROVE  /\ UNCHANGED <<up, clientvars, trouble>> /\ Silence'
         /\ spc \in {"files", "gone"} => spc' = "gone" /\ UNCHANGED file
<1>1. c2s = <<>> /\ s2c = <<>> /\ ClientLost /\ Need \in Nat
  BY DialogueFits DEF Silence, ClientLost
<1>2. Received(c2s, Len(c2s)) = {} /\ Received(c2s, Need) = {}
  BY <1>1, NothingReceived, EmptySeq
<1>3. ~ RecvAuth /\ ~ RecvCommand
  BY <1>2 DEF RecvAuth, RecvCommand
<1>4. CASE Accept \/ Say
  BY <1>1, <1>4 DEF Accept, Say, Silence
<1>5. CASE RecvData
  BY <1>1, <1>2, <1>5 DEF RecvData, RecvDataUpTo, Silence
<1>6. CASE CallReturns \/ SetUsername \/ QueueTask \/ Work
  BY <1>1, <1>6 DEF CallReturns, SetUsername, QueueTask, Work, Silence
<1>7. CASE EndSession
  BY <1>1, <1>7 DEF EndSession, Silence
<1>8. CASE spc = "calling" /\ UNCHANGED <<up, c2s, s2c, servervars, clientvars, trouble>>
  BY <1>1, <1>8 DEF servervars, Silence
<1> QED BY <1>3, <1>4, <1>5, <1>6, <1>7, <1>8 DEF ServerStep

\* The client's variables are the client's.
LEMMA ServerKeepsClient ==
  ASSUME ServerStep
  PROVE  UNCHANGED <<up, clientvars>>
<1>1. CASE Accept \/ Say \/ RecvAuth \/ RecvCommand
  BY <1>1 DEF Accept, Say, RecvAuth, RecvCommand
<1>2. CASE CallReturns \/ SetUsername \/ QueueTask \/ Work \/ EndSession
  BY <1>2 DEF CallReturns, SetUsername, QueueTask, Work, EndSession
<1>3. CASE RecvData
  BY <1>3 DEF RecvData, RecvDataUpTo
<1> QED BY <1>1, <1>2, <1>3 DEF ServerStep

\* Every step of the client thread.
LEMMA ServerAgrees ==
  ASSUME Dialogue, Agreement, ServerStep
  PROVE  Agreement'
<1>1. trouble # "none" => trouble' = trouble
  BY TroubleStays DEF Next
<1>2. CASE ~ up
  <2>1. Silence
    BY <1>2 DEF Agreement
  <2>2. /\ UNCHANGED <<up, clientvars, trouble>> /\ Silence'
        /\ spc \in {"files", "gone"} => spc' = "gone" /\ UNCHANGED file
    BY <1>2, <2>1, ServerAlone
  <2>3. CASE cpc = "gone"
    BY <1>2, <2>2, <2>3 DEF Agreement, clientvars
  <2>4. CASE cpc # "gone"
    <3>1. Parted
      BY <1>2, <2>4 DEF Agreement
    <3>2. trouble = "none" /\ cpc = "prompt" /\ told = "ok" => Truth'
      BY <2>2, <3>1 DEF Parted, Truth, clientvars
    <3>3. Parted'
      BY <2>2, <3>1, <3>2 DEF Parted, clientvars
    <3> QED BY <1>2, <2>2, <2>4, <3>3 DEF Agreement
  <2> QED BY <2>3, <2>4
<1>3. CASE up /\ cpc = "gone"
  <2>1. up' /\ cpc' = "gone"
    BY <1>3, ServerKeepsClient DEF clientvars
  <2> QED BY <2>1 DEF Agreement
<1>4. CASE up /\ cpc # "gone"
  <2>1. ~ ClientLost
    BY <1>4 DEF ClientLost
  <2>2. Agreed /\ UNCHANGED <<up, clientvars>>
    BY <1>4, <2>1, ServerAt DEF Agreement
  <2>3. Agreed'
    <3>1. CASE trouble = "none"
      BY <2>1, <2>2, <3>1, ServerInStep DEF Agreed
    <3>2. CASE trouble = "glued"
      BY <2>1, <2>2, <3>2, ServerWaits DEF Agreed, Silence
    <3>3. CASE trouble = "nul"
      <4>1. CASE UploadHidden
        <5>1. UploadHidden'
          BY <2>1, <4>1, ServerMissesUpload
        <5> QED BY <1>1, <3>3, <5>1 DEF Agreed
      <4>2. CASE EndHidden
        BY <2>1, <4>2, ServerWaits DEF EndHidden
      <4> QED BY <2>2, <3>3, <4>1, <4>2 DEF Agreed
    <3>4. CASE trouble \in {"torn", "stale", "word", "refused"}
      BY <1>1, <3>4 DEF Agreed
    <3> QED BY <3>1, <3>2, <3>3, <3>4 DEF Dialogue, Troubles
  <2> QED BY <1>4, <2>2, <2>3 DEF Agreement
<1> QED BY <1>2, <1>3, <1>4
-----------------------------------------------------------------------------
(* What the client reads *)

\* A text is in no stream that lacks it.
LEMMA LacksSays ==
  ASSUME NEW m \in Answers, NEW g \in Seq(Pieces), Lacks(m, g)
  PROVE  ~ Says(m, g)
<1> SUFFICES ASSUME NEW i \in 1 .. Len(g) - 1, g[i] = Text(m)[1] PROVE FALSE
  BY DEF Says, At
<1>1. i \in DOMAIN g
  BY LenProperties
<1>2. g[i] = Half(m, "head", NoCall, 0)
  BY AnswerHalves
<1>3. g[i].msg = m
  BY <1>2 DEF Half
<1> QED BY <1>1, <1>3 DEF Lacks

\* A text is itself and no other.
LEMMA TextSays ==
  ASSUME NEW m \in Answers
  PROVE  /\ DOMAIN Text(m) = 1 .. 2 /\ Says(m, Text(m))
         /\ \A i \in 1 .. 2 : Text(m)[i].msg = m
         /\ \A n \in Answers : n # m => ~ Says(n, Text(m))
<1> DEFINE t == Text(m)
<1>1. /\ t \in Seq(Pieces) /\ Len(t) = 2
      /\ t[1] = Half(m, "head", NoCall, 0) /\ t[2] = Half(m, "tail", NoCall, 0)
  BY AnswerHalves
<1>2. \A i \in 1 .. 2 : t[i].msg = m
  BY <1>1 DEF Half
<1>3. DOMAIN t = 1 .. 2
  BY <1>1, LenProperties
<1>4. Says(m, t)
  <2>1. 1 \in 1 .. Len(t) - 1 /\ t[1 + 1] = t[2]
    BY <1>1
  <2>2. 1 \in At(m, t)
    BY <2>1 DEF At
  <2> QED BY <2>2 DEF Says
<1>5. ASSUME NEW n \in Answers, n # m
      PROVE  ~ Says(n, t)
  <2>1. Lacks(n, t)
    BY <1>2, <1>3, <1>5 DEF Lacks
  <2> QED BY <1>1, <2>1, LacksSays
<1> QED BY <1>2, <1>3, <1>4, <1>5

\* A recv of one answer returns it or cuts it.
LEMMA AnswerReceived ==
  ASSUME NEW m \in Answers, NEW s, s = Text(m), NEW g \in Received(s, Len(s))
  PROVE  \/ g = Text(m) /\ Beyond(s, g) = <<>> /\ ~ Cuts(g)
         \/ Cuts(g) /\ Len(g) = 1 /\ g[1] = Text(m)[1]
<1>1. NoCall \in Calls \cup {NoCall} /\ 0 \in Nat /\ m \in Lines \cup Answers
  OBVIOUS
<1>2. s = FullText(m, NoCall, 0)
  BY DEF Text
<1> QED BY <1>1, <1>2, TextReceived

\* Data cuts no text.
LEMMA DataCutsNothing ==
  ASSUME NEW g \in Seq(Pieces), IsData(g), Len(g) \in Nat \ {0}
  PROVE  ~ Cuts(g)
<1>1. Len(g) \in DOMAIN g
  BY LenProperties
<1>2. g[Len(g)].part \in Blocks
  BY <1>1 DEF IsData
<1> QED BY <1>2 DEF Cuts, Last, Blocks

\* The first recv is the welcome.
LEMMA ClientGreeted ==
  ASSUME Dialogue, Greeting, up, trouble = "none", ReadWelcome
  PROVE  Agreed' \/ (LoggedOut' /\ UNCHANGED <<file, trouble>>)
<1>1. /\ cpc' = "menu" /\ told' = "none" /\ c2s' = <<>> /\ spc' = spc /\ who' = who
      /\ file' = file /\ who[Wire] = NoName
  BY DEF ReadWelcome, Report, servervars, accountvars, Greeting
<1>2. CASE AtEnd /\ UNCHANGED <<s2c, trouble>>
  BY <1>1, <1>2 DEF AtEnd, LoggedOut, Silence
<1>3. CASE \E g \in Received(s2c, Len(s2c)) : s2c' = Beyond(s2c, g) /\ Note(TornIn(g))
  <2>1. PICK g \in Received(s2c, Len(s2c)) : s2c' = Beyond(s2c, g) /\ Note(TornIn(g))
    BY <1>3
  <2>2. s2c # <<>>
    BY NothingReceived, EmptySeq
  <2>3. \E m \in {"welcome", "busy"} : s2c = Text(m) /\ spc \in {"auth", "gone"}
    BY <2>2 DEF Greeting, Coming
  <2>4. PICK m \in {"welcome", "busy"} : s2c = Text(m)
    BY <2>3
  <2>5. m \in Answers
    BY <2>4 DEF Answers
  <2>6. \/ Beyond(s2c, g) = <<>> /\ ~ Cuts(g)
        \/ Cuts(g)
    BY <2>4, <2>5, AnswerReceived
  <2>7. CASE Cuts(g)
    <3>1. Note({"torn"})
      BY <2>1, <2>7 DEF TornIn
    <3>2. trouble' = "torn"
      BY <3>1, Noted
    <3> QED BY <3>2 DEF Agreed
  <2>8. CASE Beyond(s2c, g) = <<>> /\ ~ Cuts(g)
    <3>1. Note({})
      BY <2>1, <2>8 DEF TornIn
    <3>2. trouble' = trouble
      BY <3>1, Noted
    <3> QED BY <1>1, <2>1, <2>3, <2>8, <3>2 DEF LoggedOut, Silence
  <2> QED BY <2>6, <2>7, <2>8
<1> QED BY <1>2, <1>3 DEF ReadWelcome

\* The line of a call goes to the server.
LEMMA ClientCalls ==
  ASSUME Dialogue, LoggedOut, up, SendAuth
  PROVE  LoggingIn' /\ UNCHANGED <<file, trouble>>
<1>1. PICK c \in Calls : c2s' = c2s \o FullText("auth", c, 0)
  BY DEF SendAuth, Sends
<1>2. FullText("auth", c, 0) \in Seq(Pieces)
  BY TextHalves DEF Lines
<1>3. c2s' = FullText("auth", c, 0)
  BY <1>1, <1>2, ConcatEmptySeq DEF LoggedOut, Silence
<1> QED BY <1>3 DEF SendAuth, LoggedOut, LoggingIn, Silence, servervars, accountvars

\* The menu comes after the "OK".
LEMMA ClientSeesMenu ==
  ASSUME Dialogue, LoggedIn, up, trouble = "none", ReadMenu
  PROVE  Agreed' \/ (who'[Wire] # NoName /\ Prompted' /\ UNCHANGED <<file, trouble>>)
<1>1. /\ cpc' = "prompt" /\ told' = "none" /\ c2s' = <<>> /\ spc' = spc /\ who' = who
      /\ file' = file
  BY DEF ReadMenu, Report, servervars, accountvars, LoggedIn
<1>2. CASE AtEnd
  BY <1>2 DEF AtEnd, LoggedIn, Coming
<1>3. CASE \E g \in Received(s2c, Len(s2c)) : s2c' = Beyond(s2c, g) /\ Note(TornIn(g))
  <2>1. PICK g \in Received(s2c, Len(s2c)) : s2c' = Beyond(s2c, g) /\ Note(TornIn(g))
    BY <1>3
  <2>2. s2c # <<>>
    BY NothingReceived, EmptySeq
  <2>3. s2c = Text("menu") /\ spc = "files" /\ who[Wire] # NoName /\ "menu" \in Answers
    BY <2>2 DEF LoggedIn, Coming, Answers
  <2>4. \/ Beyond(s2c, g) = <<>> /\ ~ Cuts(g)
        \/ Cuts(g)
    BY <2>3, AnswerReceived
  <2>5. CASE Cuts(g)
    <3>1. Note({"torn"})
      BY <2>1, <2>5 DEF TornIn
    <3>2. trouble' = "torn"
      BY <3>1, Noted
    <3> QED BY <3>2 DEF Agreed
  <2>6. CASE Beyond(s2c, g) = <<>> /\ ~ Cuts(g)
    <3>1. Note({})
      BY <2>1, <2>6 DEF TornIn
    <3>2. trouble' = trouble
      BY <3>1, Noted
    <3> QED BY <1>1, <2>1, <2>3, <2>6, <3>2 DEF Prompted, Silence, Truth
  <2> QED BY <2>4, <2>5, <2>6
<1> QED BY <1>2, <1>3 DEF ReadMenu

\* The "OK" and the menu, one behind the other.
LEMMA OkAndMenu ==
  ASSUME NEW s, s = Text("auth_ok") \o Text("menu")
  PROVE  /\ s \in Seq(Pieces) /\ Len(s) = 4
         /\ s[1] = Text("auth_ok")[1] /\ s[2] = Text("auth_ok")[2]
         /\ s[3] = Text("menu")[1] /\ s[4] = Text("menu")[2]
<1> DEFINE o == Text("auth_ok")  m == Text("menu")
<1>1. /\ o \in Seq(Pieces) /\ Len(o) = 2 /\ m \in Seq(Pieces) /\ Len(m) = 2
  BY AnswerHalves DEF Answers
<1>2. s = o \o m
  OBVIOUS
<1> HIDE DEF o, m
<1>3. /\ o \o m \in Seq(Pieces) /\ Len(o \o m) = Len(o) + Len(m)
      /\ \A i \in 1 .. Len(o) + Len(m) :
           (o \o m)[i] = IF i <= Len(o) THEN o[i] ELSE m[i - Len(o)]
  <2>1. o \in Seq(Pieces) /\ m \in Seq(Pieces)
    BY <1>1
  <2> QED BY <2>1, ConcatProperties
<1>4. Len(o \o m) = 4 /\ \A i \in 1 .. 4 : (o \o m)[i] = IF i <= 2 THEN o[i] ELSE m[i - 2]
  BY <1>1, <1>3
<1>5. /\ (o \o m)[1] = o[1] /\ (o \o m)[2] = o[2]
      /\ (o \o m)[3] = m[1] /\ (o \o m)[4] = m[2]
  BY <1>4
<1> QED BY <1>2, <1>3, <1>4, <1>5 DEF o, m

\* What a recv returns of them.
LEMMA OkAndMenuReceived ==
  ASSUME NEW s \in Seq(Pieces), Len(s) = 4,
         s[1] = Text("auth_ok")[1], s[2] = Text("auth_ok")[2],
         s[3] = Text("menu")[1], s[4] = Text("menu")[2],
         NEW g \in Received(s, Len(s))
  PROVE  \/ Cuts(g) /\ ~ Says("menu", g)
         \/ g = Text("auth_ok") /\ Beyond(s, g) = Text("menu") /\ ~ Cuts(g)
         \/ Says("auth_ok", g) /\ Says("menu", g) /\ Beyond(s, g) = <<>> /\ ~ Cuts(g)
<1> DEFINE o == Text("auth_ok")  m == Text("menu")
<1>1. /\ o \in Seq(Pieces) /\ Len(o) = 2 /\ m \in Seq(Pieces) /\ Len(m) = 2
  BY AnswerHalves DEF Answers
<1>2. /\ o[1].part = "head" /\ o[2].part = "tail" /\ m[1].part = "head" /\ m[2].part = "tail"
  <2>1. /\ o[1] = Half("auth_ok", "head", NoCall, 0) /\ o[2] = Half("auth_ok", "tail", NoCall, 0)
    BY AnswerHalves DEF Answers
  <2>2. /\ m[1] = Half("menu", "head", NoCall, 0) /\ m[2] = Half("menu", "tail", NoCall, 0)
    BY AnswerHalves DEF Answers
  <2> QED BY <2>1, <2>2 DEF Half
<1>4. /\ s \in Seq(Pieces) /\ Len(s) = 4
      /\ s[1] = o[1] /\ s[2] = o[2] /\ s[3] = m[1] /\ s[4] = m[2]
  OBVIOUS
<1> HIDE DEF o, m
<1> DEFINE k == Len(s)  b == Beyond(s, g)
<1>5. g \in Received(s, k) /\ k \in Nat /\ k = 4
  BY <1>4
<1> HIDE DEF k
<1>6. /\ g \in Seq(Pieces) /\ b \in Seq(Pieces) /\ Len(g) \in 1 .. Len(s)
      /\ Len(b) = Len(s) - Len(g)
      /\ \A i \in 1 .. Len(g) : g[i] = s[i]
      /\ \A i \in 1 .. Len(s) - Len(g) : b[i] = s[Len(g) + i]
  <2>1. s \in Seq(Pieces)
    BY <1>4
  <2>2. g \in Seq(Pieces) /\ b \in Seq(Pieces) /\ Len(g) \in 1 .. Len(s)
    BY <1>5, <2>1, ReceivedSplits
  <2>3. Len(Beyond(s, g)) = Len(s) - Len(g)
    <3>1. g \in Received(s, k) /\ k \in Nat
      BY <1>5
    <3> QED BY <2>1, <3>1, ReceivedParts
  <2>5. \A i \in 1 .. Len(g) : g[i] = s[i]
    BY <1>5, <2>1, ReceivedSplits
  <2>4. \A i \in 1 .. Len(s) - Len(g) : b[i] = s[Len(g) + i]
    BY <1>5, <2>1, ReceivedSplits
  <2> QED BY <2>2, <2>3, <2>4, <2>5
<1> HIDE DEF b
<1>7. Cuts(g) <=> s[Len(g)].part = "head"
  <2> DEFINE l == Len(g)
  <2>1. l \in 1 .. 4 /\ g[l] = s[l] /\ g \in Seq(Pieces)
    BY <1>4, <1>6
  <2>4. Cuts(g) <=> g[l].part = "head"
    BY DEF Cuts, Last
  <2> HIDE DEF l
  <2>5. Cuts(g) <=> s[l].part = "head"
    BY <2>1, <2>4
  <2> QED BY <2>5 DEF l
<1>8. CASE Len(g) \in {1, 3}
  <2>1. Cuts(g)
    BY <1>2, <1>4, <1>7, <1>8
  <2>2. ~ Says("menu", g)
    <3> SUFFICES ASSUME NEW i \in At("menu", g) PROVE FALSE
      BY DEF Says
    <3>1. i \in 1 .. Len(g) - 1 /\ g[i] = m[1] /\ g[i + 1] = m[2]
      BY DEF At, m
    <3>2. i \in {1, 2} /\ i + 1 \in 1 .. Len(g)
      BY <1>8, <3>1
    <3>3. g[i] = s[i] /\ g[i + 1] = s[i + 1]
      BY <1>6, <1>8, <3>2
    <3>4. CASE i = 1
      <4>1. o[1] = m[1]
        BY <1>4, <3>1, <3>3, <3>4
      <4>2. o[1].msg = "auth_ok" /\ m[1].msg = "menu"
        BY TextSays DEF Answers, o, m
      <4> QED BY <4>1, <4>2
    <3>5. CASE i = 2
      BY <1>2, <1>4, <3>1, <3>3, <3>5
    <3> QED BY <3>2, <3>4, <3>5
  <2> QED BY <2>1, <2>2
<1>9. CASE Len(g) = 2
  <2>1. g = o
    <3>1. g[1] = o[1] /\ g[2] = o[2]
      BY <1>4, <1>6, <1>9
    <3>2. Len(g) = Len(o) /\ \A i \in 1 .. Len(g) : g[i] = o[i]
      BY <1>1, <1>9, <3>1
    <3> QED BY <1>1, <1>6, <3>2, SeqEqual
  <2>2. b = m
    <3>1. Len(b) = 2 /\ b[1] = s[2 + 1] /\ b[2] = s[2 + 2]
      BY <1>4, <1>6, <1>9
    <3>2. \A i \in 1 .. Len(b) : b[i] = m[i]
      BY <1>4, <3>1
    <3> QED BY <1>1, <1>6, <3>1, <3>2, SeqEqual
  <2>3. ~ Cuts(g)
    BY <1>2, <1>4, <1>7, <1>9
  <2> QED BY <2>1, <2>2, <2>3 DEF o, m, b
<1>10. CASE Len(g) = 4
  <2>1. /\ g[1] = o[1] /\ g[1 + 1] = o[2] /\ g[3] = m[1] /\ g[3 + 1] = m[2]
    <3>1. \A i \in 1 .. 4 : g[i] = s[i]
      BY <1>6, <1>10
    <3>2. g[1] = s[1] /\ g[2] = s[2] /\ g[3] = s[3] /\ g[4] = s[4]
      BY <3>1
    <3> QED BY <1>4, <3>2
  <2>2. 1 \in 1 .. Len(g) - 1 /\ 3 \in 1 .. Len(g) - 1
    BY <1>10
  <2>3. 1 \in At("auth_ok", g) /\ 3 \in At("menu", g)
    BY <2>1, <2>2 DEF At, o, m
  <2>4. Says("auth_ok", g) /\ Says("menu", g)
    BY <2>3 DEF Says
  <2>5. b = <<>>
    BY <1>4, <1>6, <1>10, EmptySeq
  <2>6. ~ Cuts(g)
    BY <1>2, <1>4, <1>7, <1>10
  <2>7. Beyond(s, g) = <<>>
    BY <2>5 DEF b
  <2> QED BY <2>4, <2>6, <2>7
<1> QED BY <1>4, <1>6, <1>8, <1>9, <1>10

\* The answer to a call; a recv that returns the menu with the "OK" takes it from the
\* recv that waits for it.
LEMMA ClientLogsIn ==
  ASSUME Dialogue, LoggingIn, up, trouble = "none", ReadAuth
  PROVE  \/ Agreed' \/ cpc' = "gone"
         \/ (LoggedOut' \/ LoggedIn') /\ UNCHANGED <<file, trouble>>
<1>1. /\ told' = "none" /\ c2s' = c2s /\ spc' = spc /\ who' = who /\ stage' = stage
      /\ file' = file /\ out' = out
  BY DEF ReadAuth, servervars, accountvars, LoggingIn
<1>2. CASE AtEnd /\ cpc' = "gone"
  BY <1>2
<1>3. CASE \E g \in Received(s2c, Len(s2c)) :
             /\ s2c' = Beyond(s2c, g)
             /\ cpc' = IF Says("auth_ok", g) THEN "second" ELSE "menu"
             /\ Note(TornIn(g) \cup IF Says("menu", g) THEN {"glued"} ELSE {})
  <2>1. PICK g \in Received(s2c, Len(s2c)) :
             /\ s2c' = Beyond(s2c, g)
             /\ cpc' = IF Says("auth_ok", g) THEN "second" ELSE "menu"
             /\ Note(TornIn(g) \cup IF Says("menu", g) THEN {"glued"} ELSE {})
    BY <1>3
  <2>2. s2c # <<>>
    BY NothingReceived, EmptySeq
  <2>3. {"auth_error", "auth_ok", "menu"} \subseteq Answers
    BY DEF Answers
  <2>4. CASE Says("menu", g) /\ ~ Cuts(g)
    <3>1. Note({"glued"})
      BY <2>1, <2>4 DEF TornIn
    <3>2. trouble' = "glued"
      BY <3>1, Noted
    <3>3. CASE s2c = Text("auth_ok") \o Text("menu") /\ spc = "files" /\ c2s = <<>>
      <4>1. \/ Cuts(g)
            \/ g = Text("auth_ok")
            \/ Says("auth_ok", g) /\ Beyond(s2c, g) = <<>>
        BY <3>3, OkAndMenu, OkAndMenuReceived
      <4>2. Says("auth_ok", g) /\ Beyond(s2c, g) = <<>>
        BY <2>3, <2>4, <4>1, TextSays
      <4> QED BY <1>1, <2>1, <3>2, <3>3, <4>2 DEF Agreed, Silence
    <3>4. CASE \E m \in {"auth_error", "auth_ok"} : s2c = Text(m)
      <4>1. PICK m \in {"auth_error", "auth_ok"} : s2c = Text(m)
        BY <3>4
      <4>2. m \in Answers /\ m # "menu"
        BY <2>3, <4>1
      <4>3. g = Text(m)
        BY <2>4, <4>1, <4>2, AnswerReceived
      <4> QED BY <2>3, <2>4, <4>2, <4>3, TextSays
    <3> QED BY <2>2, <3>3, <3>4 DEF LoggingIn, Coming, Silence
  <2>5. CASE Cuts(g)
    <3>1. CASE Says("menu", g)
      <4>1. \/ s2c = Text("auth_ok") \o Text("menu") /\ spc = "files" /\ c2s = <<>>
            \/ \E m \in {"auth_error", "auth_ok"} : s2c = Text(m)
        BY <2>2 DEF LoggingIn, Coming, Silence
      <4>2. CASE s2c = Text("auth_ok") \o Text("menu")
        BY <2>5, <3>1, <4>2, OkAndMenu, OkAndMenuReceived
      <4>3. CASE \E m \in {"auth_error", "auth_ok"} : s2c = Text(m)
        <5>1. PICK m \in {"auth_error", "auth_ok"} : s2c = Text(m)
          BY <4>3
        <5>2. Len(g) = 1
          BY <2>3, <2>5, <5>1, AnswerReceived
        <5> QED BY <3>1, <5>2 DEF Says, At
      <4> QED BY <4>1, <4>2, <4>3
    <3>2. CASE ~ Says("menu", g)
      <4>1. Note({"torn"})
        BY <2>1, <2>5, <3>2 DEF TornIn
      <4>2. trouble' = "torn"
        BY <4>1, Noted
      <4> QED BY <4>2 DEF Agreed
    <3> QED BY <3>1, <3>2
  <2>6. CASE ~ Says("menu", g) /\ ~ Cuts(g)
    <3>1. Note({})
      BY <2>1, <2>6 DEF TornIn
    <3>2. trouble' = trouble
      BY <3>1, Noted
    <3>3. CASE s2c = Text("auth_error") /\ spc = "auth" /\ who[Wire] = NoName /\ c2s = <<>>
      <4>1. g = Text("auth_error") /\ Beyond(s2c, g) = <<>>
        BY <2>3, <2>6, <3>3, AnswerReceived
      <4>2. ~ Says("auth_ok", g)
        BY <2>3, <4>1, TextSays
      <4> QED BY <1>1, <2>1, <3>2, <3>3, <4>1, <4>2 DEF LoggedOut, Silence
    <3>4. CASE /\ s2c = Text("auth_ok") /\ c2s = <<>>
               /\ \/ spc = "named" /\ stage[Wire] = "ok"
                  \/ /\ spc = "say" /\ out.data = <<>> /\ out.msg = "menu"
                     /\ out.next = "files" /\ who[Wire] # NoName
      <4>1. g = Text("auth_ok") /\ Beyond(s2c, g) = <<>>
        BY <2>3, <2>6, <3>4, AnswerReceived
      <4>2. Says("auth_ok", g)
        BY <2>3, <4>1, TextSays
      <4> QED BY <1>1, <2>1, <3>2, <3>4, <4>1, <4>2 DEF LoggedIn, Coming
    <3>5. CASE /\ s2c = Text("auth_ok") \o Text("menu") /\ spc = "files" /\ c2s = <<>>
               /\ who[Wire] # NoName
      <4>1. g = Text("auth_ok") /\ Beyond(s2c, g) = Text("menu")
        BY <2>6, <3>5, OkAndMenu, OkAndMenuReceived
      <4>2. Says("auth_ok", g)
        BY <2>3, <4>1, TextSays
      <4> QED BY <1>1, <2>1, <3>2, <3>5, <4>1, <4>2 DEF LoggedIn, Coming
    <3> QED BY <2>2, <3>3, <3>4, <3>5 DEF LoggingIn, Coming, Silence
  <2> QED BY <2>4, <2>5, <2>6
<1> QED BY <1>2, <1>3 DEF ReadAuth
-----------------------------------------------------------------------------
(* The client sends a command *)

\* Nothing is data without content.
LEMMA NoData == <<>> \in Seq(Pieces) /\ IsData(<<>>) /\ Content(<<>>) = <<>>
<1>1. <<>> \in Seq(Pieces) /\ Len(<<>>) = 0
  BY EmptySeq
<1>2. Content(<<>>) \in Seq(Parts) /\ Len(Content(<<>>)) = 0
  BY <1>1, ContentFits DEF Contents
<1>3. Content(<<>>) = <<>>
  BY <1>2, EmptySeq
<1> QED BY <1>1, <1>3 DEF IsData

\* What stands behind a line.
LEMMA LineBehind ==
  ASSUME NEW t \in Seq(Pieces), Len(t) = 2, NEW d \in Seq(Pieces)
  PROVE  AfterLine(t \o d) = d
<1> DEFINE s == t \o d  e == AfterLine(s)
<1>1. /\ s \in Seq(Pieces) /\ Len(s) = Len(t) + Len(d)
      /\ \A i \in 1 .. Len(t) + Len(d) : s[i] = IF i <= Len(t) THEN t[i] ELSE d[i - Len(t)]
  BY ConcatProperties
<1>2. Len(d) \in Nat /\ Len(s) = Len(d) + 2 /\ \A i \in 1 .. Len(s) : s[i] \in Pieces
  BY <1>1, LenProperties
<1> HIDE DEF s
<1>3. /\ e \in Seq(Pieces) /\ Len(e) = IF 3 <= Len(s) THEN Len(s) - 3 + 1 ELSE 0
      /\ \A i \in 1 .. Len(s) - 3 + 1 : e[i] = s[3 + i - 1]
  <2>1. \A i \in 3 .. Len(s) : s[i] \in Pieces
    BY <1>2
  <2> QED BY <1>2, <2>1, SubSeqProperties DEF AfterLine
<1> HIDE DEF e
<1>4. Len(e) = Len(d)
  BY <1>2, <1>3
<1>5. ASSUME NEW i \in 1 .. Len(e)
      PROVE  e[i] = d[i]
  <2>1. /\ i \in 1 .. Len(s) - 3 + 1 /\ 3 + i - 1 \in 1 .. Len(t) + Len(d)
        /\ ~ (3 + i - 1 <= Len(t)) /\ 3 + i - 1 - Len(t) = i
    BY <1>2, <1>4
  <2>2. s[3 + i - 1] = d[3 + i - 1 - Len(t)]
    BY <1>1, <2>1
  <2> QED BY <1>3, <2>1, <2>2
<1> QED BY <1>3, <1>4, <1>5, SeqEqual DEF e, s

\* The line of a command goes to the server.
LEMMA ClientCommands ==
  ASSUME Dialogue, Prompted, up, NEW op \in Tasks, NEW p \in Seq(Blocks),
         op # "upload" => p = <<>>, SendCommand(op, p)
  PROVE  Commanding' /\ Asked' /\ UNCHANGED <<who, file, trouble>>
<1> DEFINE t == FullText(op, NoCall, Len(p))
<1>1. /\ ask' = op /\ told' = "none" /\ rest' = p /\ sent' = p
      /\ \/ op = "upload" /\ cpc' = "sending" /\ local' = NoFile
         \/ op = "download" /\ cpc' = "download" /\ local' = <<>>
         \/ op = "download" /\ cpc' = "drain" /\ local' = NoFile
         \/ op \in {"delete", "list"} /\ cpc' = "answer" /\ local' = NoFile
      /\ UNCHANGED <<who, file, trouble>> /\ spc' = "files" /\ s2c' = <<>>
      /\ c2s' = c2s \o t
  BY DEF SendCommand, Sends, accountvars, servervars, Prompted, Silence
<1>2. t \in Seq(Pieces) /\ Len(t) = 2
  <2>1. Len(p) \in Nat /\ op \in Lines
    BY LenProperties DEF Lines
  <2> QED BY <2>1, TextHalves
<1> HIDE DEF t
<1>3. c2s' = t
  BY <1>1, <1>2, ConcatEmptySeq DEF Prompted, Silence
<1>4. t \o <<>> = t
  BY <1>2, ConcatEmptySeq
<1>5. AfterLine(t) = <<>>
  <2>1. AfterLine(t \o <<>>) = <<>>
    BY <1>2, NoData, LineBehind
  <2> QED BY <1>4, <2>1
<1>6. <<>> \o p = p
  BY ConcatEmptySeq
<1>7. Commanding'
  BY <1>1 DEF Commanding
<1>8. c2s' = FullText(ask', NoCall, Len(sent')) \o AfterLine(c2s')
  BY <1>1, <1>3, <1>4, <1>5 DEF t
<1>9. IsData(AfterLine(c2s')) /\ sent' = Content(AfterLine(c2s')) \o rest'
  BY <1>1, <1>3, <1>5, <1>6, NoData
<1>10. Asked'
  BY <1>1, <1>8, <1>9 DEF Asked
<1> QED BY <1>1, <1>7, <1>10

\* A block of the upload follows.
LEMMA ClientSendsBlock ==
  ASSUME Dialogue, Commanding, Asked \/ Uploading \/ Queued \/ Answered \/ Downloading,
         up, SendBlock
  PROVE  /\ Commanding' /\ (Asked' \/ Uploading' \/ Queued' \/ Answered')
         /\ UNCHANGED <<who, file, trouble>>
<1>1. /\ UNCHANGED <<up, s2c, ask, sent, local, trouble, told, spc, task, out, file, who>>
      /\ cpc = "sending" /\ ask = "upload" /\ told = "none"
      /\ \/ rest = <<>> /\ cpc' = "answer" /\ UNCHANGED <<c2s, rest>>
         \/ /\ rest # <<>> /\ c2s' = Append(c2s, Block(Head(rest)))
            /\ rest' = Tail(rest) /\ UNCHANGED cpc
  BY DEF SendBlock, servervars, accountvars, Commanding
<1>2. ~ Downloading
  BY <1>1 DEF Downloading
<1>3. Commanding'
  BY <1>1 DEF Commanding
<1>4. CASE rest = <<>> /\ cpc' = "answer" /\ UNCHANGED <<c2s, rest>>
  <2>1. Asked => Asked'
    BY <1>1, <1>4 DEF Asked
  <2>2. Uploading => Uploading'
    BY <1>1, <1>4 DEF Uploading
  <2>3. Queued => Queued'
    BY <1>1, <1>4 DEF Queued, Silence
  <2>4. Answered => Answered'
    BY <1>1, <1>4 DEF Answered, Coming
  <2> QED BY <1>1, <1>2, <1>3, <2>1, <2>2, <2>3, <2>4
<1>5. CASE /\ rest # <<>> /\ c2s' = Append(c2s, Block(Head(rest)))
           /\ rest' = Tail(rest) /\ UNCHANGED cpc
  <2> DEFINE h == Block(Head(rest))
  <2>1. rest \in Seq(Blocks) /\ c2s \in Seq(Pieces) /\ rest # <<>>
    BY <1>5, DialogueFits
  <2>2. Head(rest) \in Blocks /\ Tail(rest) \in Seq(Blocks)
    BY <2>1, BlockMoves
  <2>3. ~ Queued /\ ~ Answered
    BY <1>5 DEF Queued, Answered
  <2>4. CASE Uploading
    <3>1. IsData(c2s')
      BY <1>5, <2>1, <2>2, <2>4, BlockAppended DEF Uploading
    <3>2. Content(c2s') \o rest' = Content(c2s) \o rest
      BY <1>5, <2>1, BlockMoves
    <3>3. Uploading'
      BY <1>1, <2>4, <3>1, <3>2 DEF Uploading
    <3> QED BY <1>1, <1>3, <3>3
  <2>5. CASE Asked
    <3> DEFINE t == FullText(ask, NoCall, Len(sent))  d == AfterLine(c2s)  e == Append(d, h)
    <3>1. t \in Seq(Pieces) /\ Len(t) = 2
      <4>1. Len(sent) \in Nat /\ ask \in Lines
        BY <1>1, DialogueFits DEF Lines, Tasks
      <4> QED BY <4>1, TextHalves
    <3>2. d \in Seq(Pieces)
      <4>1. /\ Len(c2s) \in Nat /\ \A i \in 3 .. Len(c2s) : c2s[i] \in Pieces
        BY <2>1, LenProperties
      <4> QED BY <4>1, SubSeqProperties DEF AfterLine
    <3>3. c2s = t \o d /\ IsData(d) /\ sent = Content(d) \o rest
      BY <2>5 DEF Asked
    <3>4. h \in Pieces /\ c2s' = Append(c2s, h) /\ rest' = Tail(rest)
      <4>1. h \in Pieces
        BY <2>2 DEF Block, Half, Pieces, Parts
      <4> QED BY <1>5, <4>1
    <3>5. /\ e \in Seq(Pieces) /\ IsData(e) /\ Content(e) \o Tail(rest) = Content(d) \o rest
      BY <2>1, <2>2, <3>2, <3>3, BlockAppended, BlockMoves
    <3> HIDE DEF t, d, h
    <3>6. Append(t \o d, h) = t \o e
      <4>1. Append(d, h) = d \o <<h>>
        BY <3>2, <3>4, AppendIsConcat
      <4>2. t \o d \in Seq(Pieces)
        BY <3>1, <3>2, ConcatProperties
      <4>3. Append(t \o d, h) = (t \o d) \o <<h>>
        <5> DEFINE q == t \o d
        <5>1. q \in Seq(Pieces)
          BY <4>2
        <5> HIDE DEF q
        <5>2. Append(q, h) = q \o <<h>>
          BY <3>4, <5>1, AppendIsConcat
        <5> QED BY <5>2 DEF q
      <4>4. (t \o d) \o <<h>> = t \o (d \o <<h>>)
        <5> DEFINE q == <<h>>
        <5>1. q \in Seq(Pieces) /\ t \in Seq(Pieces) /\ d \in Seq(Pieces)
          BY <3>1, <3>2, <3>4
        <5> HIDE DEF q
        <5>2. (t \o d) \o q = t \o (d \o q)
          BY <5>1, ConcatAssociative
        <5> QED BY <5>2 DEF q
      <4> QED BY <4>1, <4>3, <4>4
    <3> HIDE DEF e
    <3>7. c2s' = t \o e
      BY <3>3, <3>4, <3>6
    <3>8. AfterLine(c2s') = e
      BY <3>1, <3>5, <3>7, LineBehind
    <3>9. c2s' = FullText(ask', NoCall, Len(sent')) \o AfterLine(c2s')
      BY <1>1, <3>7, <3>8 DEF t
    <3>10. IsData(AfterLine(c2s')) /\ sent' = Content(AfterLine(c2s')) \o rest'
      BY <1>1, <3>3, <3>4, <3>5, <3>8
    <3>11. Asked'
      BY <1>1, <1>5, <2>5, <3>9, <3>10 DEF Asked
    <3> QED BY <1>1, <1>3, <3>11
  <2> QED BY <1>2, <2>3, <2>4, <2>5
<1> QED BY <1>1, <1>4, <1>5
-----------------------------------------------------------------------------
(* The client reads the answer *)

\* The client does what its place says and leaves the server's variables alone.
LEMMA ClientAt ==
  ASSUME ClientStep
  PROVE  /\ UNCHANGED <<up, who, stage, spc, task, out, file>>
         /\ \/ cpc = "welcome" /\ ReadWelcome
            \/ cpc = "auth" /\ ReadAuth
            \/ cpc = "second" /\ ReadMenu
            \/ cpc = "sending" /\ SendBlock
            \/ cpc = "answer" /\ ReadAnswer
            \/ cpc = "download" /\ ReadDownload
            \/ cpc = "drain" /\ DrainDownload
<1>1. CASE ReadWelcome \/ ReadAuth
  BY <1>1 DEF ReadWelcome, ReadAuth, accountvars, servervars
<1>2. CASE ReadMenu \/ SendBlock \/ ReadAnswer
  BY <1>2 DEF ReadMenu, SendBlock, ReadAnswer, accountvars, servervars
<1>3. CASE ReadDownload
  BY <1>3 DEF ReadDownload, accountvars, servervars
<1>4. CASE DrainDownload
  BY <1>4 DEF DrainDownload, accountvars, servervars
<1> QED BY <1>1, <1>2, <1>3, <1>4 DEF ClientStep

\* An answer as a whole is told to the user as what it says.
LEMMA ClientAnswered ==
  ASSUME Dialogue, Commanding, Asked \/ Uploading \/ Queued \/ Answered \/ Downloading,
         up, trouble = "none", ReadAnswer
  PROVE  Agreed' \/ (Prompted' /\ UNCHANGED <<who, file, trouble>>)
<1>1. /\ UNCHANGED <<up, c2s, ask, rest, sent, local, spc, task, out, file, who>>
      /\ cpc = "answer" /\ ask \in Tasks \ {"download"} /\ cpc' = "prompt"
  BY DEF ReadAnswer, Report, servervars, accountvars, Commanding
<1>2. ~ Downloading
  BY <1>1 DEF Downloading
<1>3. CASE AtEnd
  BY <1>2, <1>3 DEF AtEnd, Asked, Uploading, Queued, Answered, Coming
<1>4. CASE \E g \in Received(s2c, Len(s2c)) :
             /\ s2c' = Beyond(s2c, g)
             /\ Report("prompt", IF Succeeds(g) THEN "ok" ELSE "failed")
             /\ Note(TornIn(g))
  <2>1. PICK g \in Received(s2c, Len(s2c)) :
             /\ s2c' = Beyond(s2c, g)
             /\ Report("prompt", IF Succeeds(g) THEN "ok" ELSE "failed")
             /\ Note(TornIn(g))
    BY <1>4
  <2>2. s2c # <<>>
    BY NothingReceived, EmptySeq
  <2>3. Answered
    BY <1>2, <2>2 DEF Asked, Uploading, Queued, Silence
  <2>4. PICK m \in Replies(ask) :
          /\ Coming(m, "files")
          /\ m = "upload_ok" => file = sent
          /\ m = "delete_ok" => file = NoFile
    BY <2>3 DEF Answered
  <2>5. s2c = Text(m) /\ spc = "files" /\ c2s = <<>> /\ rest = <<>>
    BY <2>2, <2>3, <2>4 DEF Coming, Answered
  <2>6. m \in Answers /\ {"upload_ok", "delete_ok"} \subseteq Answers
    BY <1>1 DEF Replies, Tasks, Answers
  <2>7. CASE Cuts(g)
    <3>1. Note({"torn"})
      BY <2>1, <2>7 DEF TornIn
    <3>2. trouble' = "torn"
      BY <3>1, Noted
    <3> QED BY <3>2 DEF Agreed
  <2>8. CASE ~ Cuts(g)
    <3>1. Note({})
      BY <2>1, <2>8 DEF TornIn
    <3>2. trouble' = trouble
      BY <3>1, Noted
    <3>3. g = Text(m) /\ s2c' = <<>>
      BY <2>1, <2>5, <2>6, <2>8, AnswerReceived
    <3>4. ASSUME told' = "ok"
          PROVE  /\ ask = "upload" => file = sent
                 /\ ask = "delete" => file = NoFile
      <4>1. Succeeds(g)
        BY <2>1, <3>4 DEF Report
      <4>2. ask = "upload" => m = "upload_ok"
        BY <2>6, <3>3, <4>1, TextSays DEF Succeeds
      <4>3. ask = "delete" => m = "delete_ok"
        BY <2>6, <3>3, <4>1, TextSays DEF Succeeds
      <4> QED BY <2>4, <4>2, <4>3
    <3>5. Truth'
      BY <1>1, <3>4 DEF Truth
    <3>6. Prompted'
      BY <1>1, <2>5, <3>3, <3>5 DEF Prompted, Silence
    <3> QED BY <1>1, <3>2, <3>6
  <2> QED BY <2>7, <2>8
<1> QED BY <1>3, <1>4 DEF ReadAnswer

-----------------------------------------------------------------------------
(* What a recv of a download returns *)

\* strstr sees a prefix of the recv.
LEMMA VisibleIsPrefix ==
  ASSUME NEW g \in Seq(Pieces)
  PROVE  /\ Visible(g) \in Seq(Pieces) /\ Len(Visible(g)) \in 0 .. Len(g)
         /\ \A i \in 1 .. Len(Visible(g)) : Visible(g)[i] = g[i]
<1> DEFINE n == {i \in DOMAIN g : g[i].part = "nul"}
<1>1. DOMAIN g = 1 .. Len(g) /\ Len(g) \in Nat /\ \A i \in 1 .. Len(g) : g[i] \in Pieces
  BY LenProperties
<1>2. CASE n = {}
  BY <1>1, <1>2 DEF Visible
<1>3. CASE n # {}
  <2> DEFINE l == Min(n) - 1
  <2>1. n \in SUBSET Nat
    BY <1>1
  <2>2. Min(n) \in n
    BY <1>3, <2>1, MinOfNumbers
  <2>3. l \in 0 .. Len(g)
    BY <1>1, <2>2
  <2>4. Visible(g) = SubSeq(g, 1, l)
    BY <1>3 DEF Visible
  <2> HIDE DEF l, n
  <2>5. \A i \in 1 .. l : g[i] \in Pieces
    BY <1>1, <2>3
  <2>6. /\ SubSeq(g, 1, l) \in Seq(Pieces)
        /\ Len(SubSeq(g, 1, l)) = IF 1 <= l THEN l - 1 + 1 ELSE 0
        /\ \A i \in 1 .. l - 1 + 1 : SubSeq(g, 1, l)[i] = g[1 + i - 1]
    BY <1>1, <2>3, <2>5, SubSeqProperties
  <2>7. Len(Visible(g)) = l
    BY <1>1, <2>3, <2>4, <2>6
  <2>8. \A i \in 1 .. l : i \in 1 .. l - 1 + 1 /\ 1 + i - 1 = i
    BY <1>1, <2>3
  <2>9. \A i \in 1 .. l : SubSeq(g, 1, l)[i] = g[i]
    BY <2>6, <2>8
  <2> QED BY <2>3, <2>4, <2>6, <2>7, <2>9
<1> QED BY <1>2, <1>3

\* A text the recv lacks is not seen in it.
LEMMA LacksUnseen ==
  ASSUME NEW m \in Answers, NEW g \in Seq(Pieces), Lacks(m, g)
  PROVE  ~ Says(m, Visible(g))
<1> DEFINE v == Visible(g)
<1>1. /\ v \in Seq(Pieces) /\ Len(v) \in 0 .. Len(g) /\ \A i \in 1 .. Len(v) : v[i] = g[i]
      /\ DOMAIN g = 1 .. Len(g) /\ DOMAIN v = 1 .. Len(v) /\ Len(g) \in Nat
  BY VisibleIsPrefix, LenProperties
<1> HIDE DEF v
<1>2. Lacks(m, v)
  BY <1>1 DEF Lacks
<1> QED BY <1>1, <1>2, LacksSays DEF v

\* Where the client sees an end there is one, or the end of an error text.
LEMMA MarkersMean ==
  ASSUME NEW g \in Seq(Pieces), NEW i \in EndMarkers(g)
  PROVE  /\ i \in 1 .. Len(g)
         /\ \/ /\ Says("download_ok", Visible(g)) /\ i \in 1 .. Len(g) - 1
               /\ g[i] = Text("download_ok")[1] /\ g[i + 1] = Text("download_ok")[2]
            \/ ~ Says("download_ok", Visible(g)) /\ g[i] \in ErrorEnds
<1> DEFINE v == Visible(g)
           e == {j \in DOMAIN v : v[j] \in ErrorEnds}
           ok == At("download_ok", v)
<1>1. /\ v \in Seq(Pieces) /\ Len(v) \in 0 .. Len(g) /\ \A j \in 1 .. Len(v) : v[j] = g[j]
      /\ DOMAIN v = 1 .. Len(v) /\ Len(g) \in Nat
  BY VisibleIsPrefix, LenProperties
<1>2. CASE Says("download_ok", v)
  <2>1. ok # {} /\ i = Min(ok)
    BY <1>2 DEF EndMarkers, Says
  <2>2. ok \in SUBSET Nat
    BY <1>1 DEF At
  <2>3. i \in ok
    <3> HIDE DEF ok
    <3> QED BY <2>1, <2>2, MinOfNumbers
  <2>4. /\ i \in 1 .. Len(v) - 1
        /\ v[i] = Text("download_ok")[1] /\ v[i + 1] = Text("download_ok")[2]
    BY <2>3 DEF At
  <2> HIDE DEF v
  <2>5. i \in 1 .. Len(v) /\ i + 1 \in 1 .. Len(v) /\ i \in 1 .. Len(g) - 1 /\ i \in 1 .. Len(g)
    BY <1>1, <2>4
  <2> QED BY <1>1, <1>2, <2>4, <2>5 DEF v
<1>3. CASE ~ Says("download_ok", v)
  <2>1. e # {} /\ i = Min(e)
    BY <1>3 DEF EndMarkers, Says
  <2>2. e \in SUBSET Nat
    BY <1>1
  <2>3. i \in e
    BY <2>1, <2>2, MinOfNumbers
  <2>4. i \in 1 .. Len(v) /\ v[i] \in ErrorEnds
    BY <1>1, <2>3
  <2> HIDE DEF v, e
  <2> QED BY <1>1, <1>3, <2>4 DEF v
<1> QED BY <1>2, <1>3

\* A recv of data has no end in it.
LEMMA MarkersInData ==
  ASSUME NEW g \in Seq(Pieces), IsData(g)
  PROVE  EndMarkers(g) = {} /\ ~ \E i \in DOMAIN g : g[i].msg # "data"
<1>1. Lacks("download_ok", g) /\ "download_ok" \in Answers
  BY DEF IsData, Lacks, Answers
<1>2. ~ Says("download_ok", Visible(g))
  BY <1>1, LacksUnseen
<1>3. ASSUME NEW i \in EndMarkers(g)
      PROVE  FALSE
  <2>1. i \in DOMAIN g /\ g[i] \in ErrorEnds
    BY <1>2, MarkersMean, LenProperties
  <2>2. g[i].msg = "data"
    BY <2>1 DEF IsData
  <2>3. \A p \in ErrorEnds : p.msg # "data"
    BY AnswerHalves DEF ErrorEnds, Half, Answers
  <2> QED BY <2>1, <2>2, <2>3
<1> QED BY <1>3 DEF IsData

\* The stream s is the data x and the end of a download.
DownloadOf(x, s) ==
  /\ s \in Seq(Pieces) /\ Len(s) = Len(x) + 2 /\ Len(x) \in Nat
  /\ \A i \in 1 .. Len(x) : s[i] = x[i]
  /\ s[Len(x) + 1] = Text("download_ok")[1] /\ s[Len(x) + 2] = Text("download_ok")[2]

\* Data with the text behind it is such a stream,
LEMMA DownloadPieces ==
  ASSUME NEW x \in Seq(Pieces)
  PROVE  DownloadOf(x, x \o Text("download_ok"))
<1> DEFINE t == Text("download_ok")  s == x \o t
<1>1. t \in Seq(Pieces) /\ Len(t) = 2 /\ Len(x) \in Nat
  BY AnswerHalves, LenProperties DEF Answers
<1> HIDE DEF t
<1>2. /\ s \in Seq(Pieces) /\ Len(s) = Len(x) + Len(t)
      /\ \A i \in 1 .. Len(x) + Len(t) :
           s[i] = IF i <= Len(x) THEN x[i] ELSE t[i - Len(x)]
  <2>1. t \in Seq(Pieces)
    BY <1>1
  <2> QED BY <2>1, ConcatProperties
<1> HIDE DEF s
<1>3. Len(s) = Len(x) + 2
  BY <1>1, <1>2
<1>4. \A i \in 1 .. Len(x) : s[i] = x[i]
  BY <1>1, <1>2
<1>5. s[Len(x) + 1] = t[1]
  <2>1. /\ Len(x) + 1 \in 1 .. Len(x) + Len(t) /\ ~ (Len(x) + 1 <= Len(x))
        /\ Len(x) + 1 - Len(x) = 1
    BY <1>1
  <2> QED BY <1>2, <2>1
<1>6. s[Len(x) + 2] = t[2]
  <2>1. /\ Len(x) + 2 \in 1 .. Len(x) + Len(t) /\ ~ (Len(x) + 2 <= Len(x))
        /\ Len(x) + 2 - Len(x) = 2
    BY <1>1
  <2> QED BY <1>2, <2>1
<1>7. DownloadOf(x, s)
  BY <1>1, <1>2, <1>3, <1>4, <1>5, <1>6 DEF DownloadOf, t
<1> QED BY <1>7 DEF s, t

\* ... and nothing else is.
LEMMA DownloadIs ==
  ASSUME NEW x \in Seq(Pieces), NEW s, DownloadOf(x, s)
  PROVE  s = x \o Text("download_ok")
<1> DEFINE u == x \o Text("download_ok")
<1>1. DownloadOf(x, u)
  BY DownloadPieces
<1> HIDE DEF u
<1>2. s \in Seq(Pieces) /\ u \in Seq(Pieces) /\ Len(s) = Len(u)
      /\ Len(s) = Len(x) + 2 /\ Len(x) \in Nat
  BY <1>1 DEF DownloadOf
<1>3. ASSUME NEW i \in 1 .. Len(s)
      PROVE  s[i] = u[i]
  <2>1. i \in 1 .. Len(x) \/ i = Len(x) + 1 \/ i = Len(x) + 2
    BY <1>2
  <2> QED BY <1>1, <2>1 DEF DownloadOf
<1>4. s = u
  BY <1>2, <1>3, SeqEqual
<1> QED BY <1>4 DEF u

\* A recv that stops before the end returns data.
LEMMA PartOfDownload ==
  ASSUME NEW x \in Seq(Pieces), IsData(x), NEW s, DownloadOf(x, s),
         NEW g \in Received(s, Len(s)), Len(g) <= Len(x)
  PROVE  /\ g \in Seq(Pieces) /\ IsData(g) /\ ~ Cuts(g)
         /\ Beyond(x, g) \in Seq(Pieces) /\ IsData(Beyond(x, g)) /\ x = g \o Beyond(x, g)
         /\ Beyond(s, g) = Beyond(x, g) \o Text("download_ok")
<1> DEFINE k == Len(s)  b == Beyond(s, g)  n == Len(g)  y == Beyond(x, g)  l == Len(x)
<1>1. s \in Seq(Pieces) /\ k \in Nat /\ g \in Received(s, k) /\ k = l + 2 /\ l \in Nat
  BY LenProperties DEF DownloadOf
<1>2. g \in Seq(Pieces) /\ b \in Seq(Pieces) /\ n \in 1 .. Len(s)
  <2> HIDE DEF k
  <2> QED BY <1>1, ReceivedSplits
<1>3. Len(b) = Len(s) - n
  <2> HIDE DEF k
  <2>1. s \in Seq(Pieces) /\ k \in Nat /\ g \in Received(s, k)
    BY <1>1
  <2> QED BY <2>1, ReceivedParts
<1>4. \A i \in 1 .. n : g[i] = s[i]
  <2> HIDE DEF k
  <2> QED BY <1>1, ReceivedSplits
<1>5. \A i \in 1 .. Len(s) - n : b[i] = s[n + i]
  <2> HIDE DEF k
  <2> QED BY <1>1, ReceivedSplits
<1>6. n \in 1 .. l /\ n \in Nat
  BY <1>1, <1>2
<1>7. \A i \in 1 .. l : s[i] = x[i] /\ x[i] \in Pieces
  BY LenProperties DEF DownloadOf
<1>8. g = SubSeq(x, 1, n)
  <2> HIDE DEF n
  <2>1. \A i \in 1 .. n : x[i] \in Pieces
    BY <1>1, <1>6, <1>7
  <2>2. /\ SubSeq(x, 1, n) \in Seq(Pieces)
        /\ Len(SubSeq(x, 1, n)) = IF 1 <= n THEN n - 1 + 1 ELSE 0
        /\ \A i \in 1 .. n - 1 + 1 : SubSeq(x, 1, n)[i] = x[1 + i - 1]
    BY <1>6, <2>1, SubSeqProperties
  <2>3. Len(SubSeq(x, 1, n)) = n
    BY <1>6, <2>2
  <2>4. ASSUME NEW i \in 1 .. n PROVE g[i] = SubSeq(x, 1, n)[i]
    <3>1. i \in 1 .. n - 1 + 1 /\ 1 + i - 1 = i /\ i \in 1 .. l
      BY <1>6
    <3> QED BY <1>4, <1>7, <2>2, <3>1
  <2>5. Len(g) = n
    BY DEF n
  <2> QED BY <1>2, <2>2, <2>3, <2>4, <2>5, SeqEqual
<1>9. g \in Received(x, l)
  <2> HIDE DEF l, n
  <2>1. Min({l, l}) = l
    BY <1>1, MinOfTwo
  <2>2. n \in 1 .. Min({Len(x), l})
    BY <1>6, <2>1 DEF l
  <2> QED BY <1>8, <2>2 DEF Received
<1>10. /\ y \in Seq(Pieces) /\ x = g \o y
  <2> HIDE DEF l
  <2>1. l \in Nat
    BY <1>1
  <2> QED BY <1>9, <2>1, ReceivedSplits
<1>11. Len(y) = l - n
  <2> DEFINE m == l
  <2>1. m \in Nat /\ g \in Received(x, m)
    BY <1>1, <1>9
  <2> HIDE DEF m
  <2> QED BY <2>1, ReceivedParts
<1>12. \A i \in 1 .. l - n : y[i] = x[n + i]
  <2> DEFINE m == l
  <2>1. m \in Nat /\ g \in Received(x, m)
    BY <1>1, <1>9
  <2> HIDE DEF m
  <2> QED BY <2>1, ReceivedSplits
<1> HIDE DEF b, y
<1>13. IsData(g) /\ IsData(y)
  BY <1>2, <1>10, DataOfConcat
<1>14. DownloadOf(y, b)
  <2> DEFINE r == Len(y)
  <2>1. r = l - n /\ Len(b) = r + 2 /\ r \in Nat /\ Len(s) - n = r + 2
    BY <1>1, <1>3, <1>6, <1>11
  <2> HIDE DEF r
  <2>2. ASSUME NEW i \in 1 .. r
        PROVE  b[i] = y[i]
    <3>1. i \in 1 .. l - n /\ i \in 1 .. Len(s) - n /\ n + i \in 1 .. l
      BY <1>1, <1>6, <2>1
    <3> QED BY <1>5, <1>7, <1>12, <3>1
  <2>3. b[r + 1] = s[l + 1]
    <3>1. r + 1 \in 1 .. Len(s) - n /\ n + (r + 1) = l + 1
      BY <1>1, <1>6, <2>1
    <3> QED BY <1>5, <3>1
  <2>4. b[r + 2] = s[l + 2]
    <3>1. r + 2 \in 1 .. Len(s) - n /\ n + (r + 2) = l + 2
      BY <1>1, <1>6, <2>1
    <3> QED BY <1>5, <3>1
  <2>5. s[l + 1] = Text("download_ok")[1] /\ s[l + 2] = Text("download_ok")[2]
    BY DEF DownloadOf
  <2> QED BY <1>2, <2>1, <2>2, <2>3, <2>4, <2>5 DEF DownloadOf, r
<1>15. b = y \o Text("download_ok")
  BY <1>10, <1>14, DownloadIs
<1>16. ~ Cuts(g)
  BY <1>2, <1>6, <1>13, DataCutsNothing
<1> QED BY <1>2, <1>10, <1>13, <1>15, <1>16 DEF b, y

\* A recv of a download, by how much it returns.
LEMMA DownloadRecv ==
  ASSUME NEW x \in Seq(Pieces), NEW s, DownloadOf(x, s), NEW g \in Received(s, Len(s))
  PROVE  /\ g \in Seq(Pieces) /\ Len(g) \in 1 .. Len(x) + 2
         /\ \A i \in 1 .. Len(g) : g[i] = s[i]
         /\ Beyond(s, g) \in Seq(Pieces)
         /\ Len(Beyond(s, g)) = Len(x) + 2 - Len(g)
         /\ \A i \in 1 .. Len(x) + 2 - Len(g) : Beyond(s, g)[i] = s[Len(g) + i]
<1> DEFINE k == Len(s)
<1>1. s \in Seq(Pieces) /\ k \in Nat /\ g \in Received(s, k) /\ Len(s) = Len(x) + 2
  BY LenProperties DEF DownloadOf
<1> HIDE DEF k
<1>2. g \in Seq(Pieces) /\ Beyond(s, g) \in Seq(Pieces) /\ Len(g) \in 1 .. Len(s)
  BY <1>1, ReceivedSplits
<1>3. \A i \in 1 .. Len(g) : g[i] = s[i]
  BY <1>1, ReceivedSplits
<1>4. Len(Beyond(s, g)) = Len(s) - Len(g)
  BY <1>1, ReceivedParts
<1>5. \A i \in 1 .. Len(s) - Len(g) : Beyond(s, g)[i] = s[Len(g) + i]
  BY <1>1, ReceivedSplits
<1> QED BY <1>1, <1>2, <1>3, <1>4, <1>5

\* ... one that stops within the text leaves its second half.
LEMMA CutDownload ==
  ASSUME NEW x \in Seq(Pieces), IsData(x), NEW s, DownloadOf(x, s),
         NEW g \in Received(s, Len(s)), Len(g) = Len(x) + 1
  PROVE  /\ Cuts(g) /\ Beyond(s, g) = <<Text("download_ok")[2]>>
<1> DEFINE t == Text("download_ok")  l == Len(x)  b == Beyond(s, g)
<1>1. t[1].part = "head" /\ t[2].part = "tail" /\ t[2].msg = "download_ok" /\ t[2] \in Pieces
  <2>1. t[1] = Half("download_ok", "head", NoCall, 0) /\ t[2] = Half("download_ok", "tail", NoCall, 0)
    BY AnswerHalves DEF Answers
  <2>2. t \in Seq(Pieces) /\ Len(t) = 2
    BY AnswerHalves DEF Answers
  <2>3. t[2] \in Pieces
    BY <2>2, LenProperties
  <2> QED BY <2>1, <2>3 DEF Half
<1>2. /\ l \in Nat /\ \A i \in 1 .. l : s[i] = x[i]
      /\ s[l + 1] = t[1] /\ s[l + 2] = t[2]
  BY DEF DownloadOf
<1>3. /\ g \in Seq(Pieces) /\ \A i \in 1 .. l + 1 : g[i] = s[i]
      /\ b \in Seq(Pieces) /\ Len(g) = l + 1
  BY DownloadRecv
<1>4. \A i \in 1 .. l : x[i].msg = "data"
  BY LenProperties DEF IsData
<1>5. Len(b) = 1 /\ b[1] = s[l + 2]
  <2>1. Len(b) = l + 2 - Len(g)
    BY DownloadRecv
  <2>2. \A i \in 1 .. l + 2 - Len(g) : b[i] = s[Len(g) + i]
    BY DownloadRecv
  <2>3. l + 2 - Len(g) = 1 /\ Len(g) + 1 = l + 2
    BY <1>2
  <2>4. b[1] = s[Len(g) + 1]
    BY <2>2, <2>3
  <2> QED BY <2>1, <2>3, <2>4
<1> HIDE DEF t, l, b
<1>6. Cuts(g)
  <2>1. g[l + 1] = t[1]
    BY <1>2, <1>3
  <2>2. g[Len(g)].part = "head"
    BY <1>1, <1>3, <2>1
  <2> QED BY <2>2 DEF Cuts, Last
<1>7. b = <<t[2]>>
  <2> DEFINE p == t[2]
  <2>1. p \in Pieces /\ b[1] = p
    BY <1>1, <1>2, <1>5
  <2> HIDE DEF p
  <2>2. <<p>> \in Seq(Pieces) /\ Len(<<p>>) = 1 /\ <<p>>[1] = p
    BY <2>1
  <2>3. b = <<p>>
    BY <1>3, <1>5, <2>1, <2>2, SeqEqual
  <2> QED BY <2>3 DEF p
<1> QED BY <1>6, <1>7 DEF t, b

\* ... and one that returns all of it ends the file where it ends.
LEMMA WholeDownload ==
  ASSUME NEW x \in Seq(Pieces), IsData(x), NEW s, DownloadOf(x, s),
         NEW g \in Received(s, Len(s)), Len(g) = Len(x) + 2
  PROVE  /\ ~ Cuts(g) /\ Beyond(s, g) = <<>> /\ g \in Seq(Pieces)
         /\ \E i \in DOMAIN g : g[i].msg = "download_ok"
         /\ \A i \in EndMarkers(g) :
              Says("download_ok", Visible(g)) /\ SubSeq(g, 1, i - 1) = x
<1> DEFINE t == Text("download_ok")  l == Len(x)  b == Beyond(s, g)
<1>1. /\ t[1].part = "head" /\ t[1].msg = "download_ok"
      /\ t[2].part = "tail" /\ t[2].msg = "download_ok"
  <2>1. t[1] = Half("download_ok", "head", NoCall, 0) /\ t[2] = Half("download_ok", "tail", NoCall, 0)
    BY AnswerHalves DEF Answers
  <2> QED BY <2>1 DEF Half
<1>2. /\ l \in Nat /\ \A i \in 1 .. l : s[i] = x[i]
      /\ s[l + 1] = t[1] /\ s[l + 2] = t[2]
  BY DEF DownloadOf
<1>3. /\ g \in Seq(Pieces) /\ \A i \in 1 .. l + 2 : g[i] = s[i]
      /\ b \in Seq(Pieces) /\ Len(g) = l + 2
  BY DownloadRecv
<1>4. \A i \in 1 .. l : x[i].msg = "data" /\ x[i] \in Pieces
  BY LenProperties DEF IsData
<1>5. b = <<>>
  <2>1. Len(b) = l + 2 - Len(g)
    BY DownloadRecv
  <2>2. Len(b) = 0
    BY <1>2, <2>1
  <2> QED BY <1>3, <2>2, EmptySeq
<1> HIDE DEF t, l, b
<1>6. g[l + 1] = t[1] /\ g[l + 2] = t[2]
  BY <1>2, <1>3
<1>7. ~ Cuts(g)
  <2>1. g[Len(g)].part = "tail"
    BY <1>1, <1>3, <1>6
  <2> QED BY <2>1 DEF Cuts, Last
<1>8. \E i \in DOMAIN g : g[i].msg = "download_ok"
  <2>1. l + 1 \in DOMAIN g
    BY <1>2, <1>3, LenProperties
  <2> QED BY <1>1, <1>6, <2>1
<1>9. ASSUME NEW i \in EndMarkers(g), Says("download_ok", Visible(g))
      PROVE  SubSeq(g, 1, i - 1) = x
  <2>1. i \in 1 .. Len(g) - 1 /\ g[i] = t[1] /\ g[i + 1] = t[2]
    BY <1>3, <1>9, MarkersMean DEF t
  <2>2. i \notin 1 .. l
    <3> SUFFICES ASSUME i \in 1 .. l PROVE FALSE
      OBVIOUS
    <3>1. g[i] = x[i] /\ x[i].msg = "data"
      BY <1>2, <1>3, <1>4
    <3> QED BY <1>1, <2>1, <3>1
  <2>3. i = l + 1 /\ i - 1 = l
    BY <1>2, <1>3, <2>1, <2>2
  <2>4. SubSeq(g, 1, l) = x
    <3>1. \A j \in 1 .. l : g[j] = x[j] /\ g[j] \in Pieces
      BY <1>2, <1>3, <1>4
    <3>2. /\ SubSeq(g, 1, l) \in Seq(Pieces)
          /\ Len(SubSeq(g, 1, l)) = IF 1 <= l THEN l - 1 + 1 ELSE 0
          /\ \A j \in 1 .. l - 1 + 1 : SubSeq(g, 1, l)[j] = g[1 + j - 1]
      BY <1>2, <3>1, SubSeqProperties
    <3>3. Len(SubSeq(g, 1, l)) = l /\ Len(x) = l
      BY <1>2, <3>2 DEF l
    <3>4. ASSUME NEW j \in 1 .. l PROVE SubSeq(g, 1, l)[j] = x[j]
      <4>1. j \in 1 .. l - 1 + 1 /\ 1 + j - 1 = j
        BY <1>2
      <4> QED BY <3>1, <3>2, <4>1
    <3> QED BY <3>2, <3>3, <3>4, SeqEqual
  <2> QED BY <1>1, <2>1, <2>3, <2>4
<1>10. ASSUME NEW i \in EndMarkers(g), ~ Says("download_ok", Visible(g))
       PROVE  FALSE
  <2>1. i \in 1 .. Len(g) /\ g[i] \in ErrorEnds
    BY <1>3, <1>10, MarkersMean
  <2>2. g[i].msg \in {"data", "download_ok"}
    <3>1. i \in 1 .. l \/ i = l + 1 \/ i = l + 2
      BY <1>2, <1>3, <2>1
    <3>2. CASE i \in 1 .. l
      BY <1>2, <1>3, <1>4, <3>2
    <3> QED BY <1>1, <1>6, <3>1, <3>2
  <2>3. \A p \in ErrorEnds : p.msg \notin {"data", "download_ok"}
    BY AnswerHalves DEF ErrorEnds, Half, Answers
  <2> QED BY <2>1, <2>2, <2>3
<1> QED BY <1>3, <1>5, <1>7, <1>8, <1>9, <1>10 DEF b
-----------------------------------------------------------------------------
(* The client receives a download *)

\* An error text, or its head, is seen as what it is.
LEMMA ErrorReceived ==
  ASSUME NEW m \in {"download_error", "error"}, NEW s, s = Text(m),
         NEW g \in Received(s, Len(s))
  PROVE  /\ g \in Seq(Pieces) /\ Visible(g) = g /\ Lacks("download_ok", g)
         /\ ~ Says("download_ok", g)
         /\ \E i \in DOMAIN g : g[i].msg # "data"
         /\ \/ Cuts(g)
            \/ /\ ~ Cuts(g) /\ Beyond(s, g) = <<>> /\ 2 \in DOMAIN g /\ g[2] \in ErrorEnds
<1> DEFINE t == Text(m)
<1>1. m \in Answers /\ "download_ok" \in Answers /\ m # "download_ok" /\ m # "data"
  BY DEF Answers
<1>2. /\ t \in Seq(Pieces) /\ Len(t) = 2
      /\ t[1] = Half(m, "head", NoCall, 0) /\ t[2] = Half(m, "tail", NoCall, 0)
  BY <1>1, AnswerHalves
<1>3. t[1].msg = m /\ t[1].part = "head" /\ t[2].msg = m /\ t[2].part = "tail"
  BY <1>2 DEF Half
<1>4. t[2] \in ErrorEnds
  BY DEF ErrorEnds
<1> HIDE DEF t
<1>5. s = t
  BY DEF t
<1>6. \/ g = t /\ Beyond(s, g) = <<>> /\ ~ Cuts(g)
      \/ Cuts(g) /\ Len(g) = 1 /\ g[1] = t[1]
  BY <1>1, AnswerReceived DEF t
<1>7. g \in Seq(Pieces)
  <2> DEFINE k == Len(s)
  <2>1. s \in Seq(Pieces) /\ k \in Nat /\ g \in Received(s, k)
    BY <1>2, <1>5, LenProperties
  <2> HIDE DEF k
  <2> QED BY <2>1, ReceivedSplits
<1>8. /\ DOMAIN g = 1 .. Len(g) /\ Len(g) \in 1 .. 2
      /\ \A i \in DOMAIN g : g[i].msg = m /\ g[i].part \in {"head", "tail"}
  <2>1. DOMAIN g = 1 .. Len(g)
    BY <1>7, LenProperties
  <2>2. CASE g = t
    BY <1>2, <1>3, <2>1, <2>2
  <2>3. CASE Len(g) = 1 /\ g[1] = t[1]
    BY <1>3, <2>1, <2>3
  <2> QED BY <1>6, <2>2, <2>3
<1>9. Visible(g) = g
  <2>1. {i \in DOMAIN g : g[i].part = "nul"} = {}
    BY <1>8
  <2> QED BY <2>1 DEF Visible
<1>10. Lacks("download_ok", g)
  BY <1>1, <1>8 DEF Lacks
<1>11. ~ Says("download_ok", g)
  BY <1>1, <1>7, <1>10, LacksSays
<1>12. \E i \in DOMAIN g : g[i].msg # "data"
  <2>1. 1 \in DOMAIN g
    BY <1>8
  <2> QED BY <1>1, <1>8, <2>1
<1>13. g = t => 2 \in DOMAIN g /\ g[2] \in ErrorEnds
  BY <1>2, <1>4, <1>8
<1> QED BY <1>6, <1>7, <1>9, <1>10, <1>11, <1>12, <1>13

\* What a waiting client has received something of.
LEMMA DownloadComes ==
  ASSUME Dialogue, Commanding, cpc \in {"download", "drain"}, s2c # <<>>,
         Asked \/ Uploading \/ Queued \/ Answered \/ Downloading
  PROVE  /\ c2s = <<>> /\ rest = <<>> /\ ask = "download" /\ told = "none"
         /\ \/ /\ spc = "files"
               /\ \E m \in {"download_error", "error"} : s2c = Text(m)
            \/ Downloading /\ spc = "say"
            \/ Downloading /\ spc = "files"
<1>1. ask = "download" /\ rest = <<>> /\ told = "none"
  BY DEF Commanding
<1>2. ~ Asked /\ ~ Uploading /\ ~ Queued
  BY <1>1 DEF Asked, Uploading, Queued, Silence
<1>3. CASE Answered
  <2>1. PICK m \in Replies(ask) : Coming(m, "files")
    BY <1>3 DEF Answered
  <2>2. m \in {"download_error", "error"}
    BY <1>1 DEF Replies
  <2>3. s2c = Text(m) /\ spc = "files" /\ c2s = <<>>
    BY <1>3, <2>1 DEF Coming, Answered
  <2> QED BY <1>1, <2>2, <2>3
<1>4. CASE Downloading
  BY <1>1, <1>4 DEF Downloading
<1> QED BY <1>2, <1>3, <1>4

\* The stream of a download whose end has been sent.
LEMMA DownloadStands ==
  ASSUME Dialogue, Downloading, spc = "files"
  PROVE  \E x \in Seq(Pieces) :
           /\ DownloadOf(x, s2c) /\ IsData(x) /\ x = Before(s2c)
           /\ cpc = "download" => file = local \o Content(x)
<1> DEFINE x == Before(s2c)
<1>1. /\ s2c = x \o Text("download_ok") /\ IsData(x)
      /\ cpc = "download" => file = local \o Content(x)
  BY DEF Downloading
<1>2. x \in Seq(Pieces)
  <2>1. s2c \in Seq(Pieces) /\ Len(s2c) \in Nat /\ \A i \in 1 .. Len(s2c) : s2c[i] \in Pieces
    BY DialogueFits, LenProperties
  <2>2. \A i \in 1 .. Len(s2c) - 2 : s2c[i] \in Pieces
    BY <2>1
  <2>3. Len(s2c) - 2 \in Int
    BY <2>1
  <2>4. SubSeq(s2c, 1, Len(s2c) - 2) \in Seq(Pieces)
    BY <2>2, <2>3, SubSeqProperties
  <2> QED BY <2>4 DEF Before
<1> HIDE DEF x
<1>3. DownloadOf(x, x \o Text("download_ok"))
  BY <1>2, DownloadPieces
<1>4. DownloadOf(x, s2c)
  BY <1>1, <1>3
<1> QED BY <1>1, <1>2, <1>4 DEF x

\* Once a text was torn, bytes were read that nobody had sent, or data was taken for
\* a text, nothing is claimed.
LEMMA LostIsLost ==
  ASSUME trouble' \in {"torn", "stale", "word"}
  PROVE  Agreed'
  BY DEF Agreed

\* What was received and what is still to come make up the file.
LEMMA DownloadGrows ==
  ASSUME NEW x \in Seq(Pieces), IsData(x), NEW s, DownloadOf(x, s),
         NEW g \in Received(s, Len(s)), Len(g) <= Len(x), NEW d \in Contents
  PROVE  d \o Content(x) = (d \o Content(g)) \o Content(Beyond(x, g))
<1> DEFINE y == Beyond(x, g)  a == Content(g)  b == Content(y)
<1>1. g \in Seq(Pieces) /\ y \in Seq(Pieces) /\ x = g \o y
  BY PartOfDownload
<1> HIDE DEF y
<1>2. a \in Seq(Parts) /\ b \in Seq(Parts) /\ d \in Seq(Parts)
  BY <1>1, ContentFits DEF Contents
<1>3. Content(x) = a \o b
  BY <1>1, ContentOfConcat
<1> HIDE DEF a, b
<1>4. (d \o a) \o b = d \o (a \o b)
  BY <1>2, ConcatAssociative
<1> QED BY <1>3, <1>4 DEF a, b, y

\* The local file grows by what was received.
LEMMA ClientWrites ==
  ASSUME NEW x \in Seq(Pieces), IsData(x), DownloadOf(x, s2c), Dialogue,
         Commanding, cpc = "download", up, spc = "files", c2s = <<>>, ask = "download",
         file = local \o Content(x),
         NEW g \in Received(s2c, Len(s2c)), Len(g) <= Len(x),
         s2c' = Beyond(s2c, g), local' = local \o Content(g),
         UNCHANGED <<cpc, told, c2s, ask, rest, sent, spc, out, file, up>>
  PROVE  Commanding' /\ Downloading'
<1> DEFINE y == Beyond(x, g)
<1>1. local \in Contents
  BY DEF Dialogue, ClientFits
<1>2. y \in Seq(Pieces) /\ IsData(y) /\ Beyond(s2c, g) = y \o Text("download_ok")
  BY PartOfDownload
<1>3. local \o Content(x) = (local \o Content(g)) \o Content(y)
  BY <1>1, DownloadGrows
<1> HIDE DEF y
<1>4. file' = local' \o Content(y) /\ s2c' = y \o Text("download_ok")
  BY <1>2, <1>3
<1>5. Before(s2c') = y
  <2>1. "download_ok" \in Answers
    BY DEF Answers
  <2> QED BY <1>2, <1>4, <2>1, TextBehind
<1>6. Downloading'
  BY <1>2, <1>4, <1>5 DEF Downloading
<1> QED BY <1>6 DEF Commanding

\* The client writes what it receives to the local file until it sees an end.
LEMMA ClientDownloads ==
  ASSUME Dialogue, Commanding, Asked \/ Uploading \/ Queued \/ Answered \/ Downloading,
         up, trouble = "none", who[Wire] # NoName, ReadDownload
  PROVE  Agreed' \/ ((Prompted' \/ (Commanding' /\ Downloading')) /\ UNCHANGED <<who, file, trouble>>)
<1> DEFINE
     R == Agreed' \/ ((Prompted' \/ (Commanding' /\ Downloading')) /\ UNCHANGED <<who, file, trouble>>)
     Ends(g) == \E i \in EndMarkers(g) :
                  /\ local' = local \o Content(SubSeq(g, 1, i - 1))
                  /\ cpc' = "prompt"
                  /\ told' = IF /\ local \o Content(SubSeq(g, 1, i - 1)) # <<>>
                                /\ Says("download_ok", Visible(g))
                             THEN "ok" ELSE "failed"
                  /\ Note(TornIn(g))
     Writes(g) == /\ local' = local \o Content(g)
                  /\ Note(IF \E i \in DOMAIN g : g[i].msg # "data"
                          THEN IF Visible(g) # g THEN {"nul"} ELSE {"torn"} ELSE {})
                  /\ UNCHANGED <<cpc, told>>
<1>1. /\ UNCHANGED <<up, c2s, ask, rest, sent, spc, task, out, file, who>>
      /\ cpc = "download" /\ local \in Contents /\ s2c \in Seq(Pieces)
  BY DialogueFits DEF ReadDownload, servervars, accountvars, Dialogue, ClientFits
<1>2. CASE AtEnd
  BY <1>2 DEF AtEnd, Asked, Uploading, Queued, Answered, Coming, Downloading
<1>3. CASE \E g \in Received(s2c, Len(s2c)) :
             /\ s2c' = Beyond(s2c, g) /\ (Ends(g) \/ Writes(g) \/ Note({"word"}) \/ Note({"stale"}))
  <2>1. PICK g \in Received(s2c, Len(s2c)) :
             /\ s2c' = Beyond(s2c, g) /\ (Ends(g) \/ Writes(g) \/ Note({"word"}) \/ Note({"stale"}))
    BY <1>3
  <2> HIDE DEF R, Ends, Writes
  <2> SUFFICES R
    BY DEF R
  <2>2. CASE Note({"word"}) \/ Note({"stale"})
    <3>1. trouble' \in {"word", "stale"}
      BY <2>2, Noted
    <3> QED BY <3>1, LostIsLost DEF R
  <2>3. s2c # <<>>
    BY NothingReceived, EmptySeq
  <2>4. /\ c2s = <<>> /\ rest = <<>> /\ ask = "download" /\ told = "none"
        /\ \/ spc = "files" /\ \E m \in {"download_error", "error"} : s2c = Text(m)
           \/ Downloading /\ spc = "say"
           \/ Downloading /\ spc = "files"
    BY <1>1, <2>3, DownloadComes
  <2>5. CASE spc = "files" /\ \E m \in {"download_error", "error"} : s2c = Text(m)
    <3>1. PICK m \in {"download_error", "error"} : s2c = Text(m)
      BY <2>5
    <3>2. /\ g \in Seq(Pieces) /\ Visible(g) = g /\ ~ Says("download_ok", g)
          /\ \E i \in DOMAIN g : g[i].msg # "data"
          /\ Cuts(g) \/ (~ Cuts(g) /\ Beyond(s2c, g) = <<>>)
      BY <3>1, ErrorReceived
    <3>3. CASE Writes(g)
      <4>1. Note({"torn"})
        BY <3>2, <3>3 DEF Writes
      <4>2. trouble' = "torn"
        BY <4>1, Noted
      <4> QED BY <4>2, LostIsLost DEF R
    <3>4. CASE Ends(g)
      <4>1. PICK i \in EndMarkers(g) :
                  /\ cpc' = "prompt"
                  /\ told' = IF /\ local \o Content(SubSeq(g, 1, i - 1)) # <<>>
                                /\ Says("download_ok", Visible(g))
                             THEN "ok" ELSE "failed"
                  /\ Note(TornIn(g))
        BY <3>4 DEF Ends
      <4>2. told' = "failed" /\ cpc' = "prompt"
        BY <3>2, <4>1
      <4>3. CASE Cuts(g)
        <5>1. Note({"torn"})
          BY <4>1, <4>3 DEF TornIn
        <5>2. trouble' = "torn"
          BY <5>1, Noted
        <5> QED BY <5>2, LostIsLost DEF R
      <4>4. CASE ~ Cuts(g)
        <5>1. Note({})
          BY <4>1, <4>4 DEF TornIn
        <5>2. trouble' = trouble
          BY <5>1, Noted
        <5>3. Prompted'
          BY <1>1, <2>1, <2>4, <2>5, <3>2, <4>2, <4>4 DEF Prompted, Silence, Truth
        <5> QED BY <1>1, <5>2, <5>3 DEF R
      <4> QED BY <4>3, <4>4
    <3> QED BY <2>1, <2>2, <3>3, <3>4
  <2>6. ASSUME IsData(g), g \in Seq(Pieces), ~ Cuts(g), Writes(g) => Commanding' /\ Downloading'
        PROVE  R
    <3>1. CASE Writes(g)
      <4>1. Note({})
        BY <2>6, <3>1, MarkersInData DEF Writes
      <4>2. trouble' = trouble
        BY <4>1, Noted
      <4> QED BY <1>1, <2>6, <3>1, <4>2 DEF R
    <3>2. ~ Ends(g)
      BY <2>6, MarkersInData DEF Ends
    <3> QED BY <2>1, <2>2, <3>1, <3>2
  <2>7. CASE Downloading /\ spc = "say"
    <3> DEFINE k == Len(s2c)  b == Beyond(s2c, g)
    <3>1. /\ IsData(s2c) /\ out.data \in Seq(Blocks) /\ out.msg = "download_ok" /\ out.next = "files"
          /\ file = local \o (Content(s2c) \o out.data)
      BY <1>1, <2>7 DEF Downloading
    <3>2. s2c \in Seq(Pieces) /\ k \in Nat /\ g \in Received(s2c, k)
      BY <1>1, LenProperties
    <3> HIDE DEF k, b
    <3>3. /\ g \in Seq(Pieces) /\ IsData(g) /\ Len(g) \in Nat \ {0}
          /\ IsData(b) /\ b \in Seq(Pieces) /\ s2c = g \o b
      BY <3>1, <3>2, DataReceived DEF b
    <3>4. ~ Cuts(g)
      BY <3>3, DataCutsNothing
    <3>5. ASSUME Writes(g)
          PROVE  Commanding' /\ Downloading'
      <4>1. s2c' = b /\ local' = local \o Content(g) /\ UNCHANGED <<cpc, told>>
        BY <2>1, <3>5 DEF Writes, b
      <4>2. local \o (Content(g \o b) \o out.data) = (local \o Content(g)) \o (Content(b) \o out.data)
        BY <1>1, <3>1, <3>3, UploadGrows
      <4>3. file' = local' \o (Content(s2c') \o out'.data)
        BY <1>1, <3>1, <3>3, <4>1, <4>2
      <4>4. Downloading'
        BY <1>1, <2>4, <2>7, <3>1, <3>3, <4>1, <4>3 DEF Downloading
      <4> QED BY <1>1, <4>1, <4>4 DEF Commanding
    <3> QED BY <2>6, <3>3, <3>4, <3>5
  <2>8. CASE Downloading /\ spc = "files"
    <3>1. PICK x \in Seq(Pieces) : DownloadOf(x, s2c) /\ IsData(x) /\ file = local \o Content(x)
      BY <1>1, <2>8, DownloadStands
    <3>2. /\ g \in Seq(Pieces) /\ Len(g) \in 1 .. Len(x) + 2 /\ Len(x) \in Nat
          /\ \A i \in 1 .. Len(g) : g[i] = s2c[i]
          /\ s2c[Len(x) + 1] = Text("download_ok")[1]
      BY <3>1, DownloadRecv DEF DownloadOf
    <3>3. CASE Len(g) <= Len(x)
      <4>1. IsData(g) /\ ~ Cuts(g)
        BY <3>1, <3>3, PartOfDownload
      <4>2. ASSUME Writes(g)
            PROVE  Commanding' /\ Downloading'
        <5>1. s2c' = Beyond(s2c, g) /\ local' = local \o Content(g) /\ UNCHANGED <<cpc, told>>
          BY <2>1, <4>2 DEF Writes
        <5>2. UNCHANGED <<cpc, told, c2s, ask, rest, sent, spc, out, file, up>>
          BY <1>1, <5>1
        <5>3. IsData(x) /\ DownloadOf(x, s2c) /\ cpc = "download" /\ spc = "files" /\ c2s = <<>>
              /\ ask = "download" /\ file = local \o Content(x)
          BY <1>1, <2>4, <2>8, <3>1
        <5> QED BY <3>3, <5>1, <5>2, <5>3, ClientWrites
      <4> QED BY <2>6, <3>2, <4>1, <4>2
    <3>4. CASE Len(g) = Len(x) + 1
      <4>1. Cuts(g) /\ Beyond(s2c, g) = <<Text("download_ok")[2]>>
        BY <3>1, <3>4, CutDownload
      <4>2. CASE Ends(g)
        <5>1. Note(TornIn(g)) /\ TornIn(g) = {"torn"}
          BY <4>1, <4>2 DEF Ends, TornIn
        <5>2. trouble' = "torn"
          BY <5>1, Noted
        <5> QED BY <5>2, LostIsLost DEF R
      <4>3. CASE Writes(g)
        <5>1. \E i \in DOMAIN g : g[i].msg # "data"
          <6>1. Len(x) + 1 \in DOMAIN g /\ g[Len(x) + 1] = Text("download_ok")[1]
            BY <3>2, <3>4, LenProperties
          <6>2. "download_ok" \in Answers /\ Text("download_ok")[1].msg # "data"
            BY AnswerHalves DEF Half, Answers
          <6> QED BY <6>1, <6>2
        <5> DEFINE C == IF Visible(g) # g THEN {"nul"} ELSE {"torn"}
        <5>2. Note(C) /\ C # {} /\ C \subseteq {"nul", "torn"} /\ cpc' = cpc
          BY <4>3, <5>1 DEF Writes
        <5> HIDE DEF C
        <5>3. trouble' \in {"nul", "torn"}
          BY <5>2, Noted
        <5>4. EndHidden'
          BY <1>1, <2>1, <2>4, <2>8, <4>1, <5>2 DEF EndHidden
        <5>5. Agreed'
          BY <5>3, <5>4 DEF Agreed
        <5> QED BY <5>5 DEF R
      <4> QED BY <2>1, <2>2, <4>2, <4>3
    <3>5. CASE Len(g) = Len(x) + 2
      <4>1. /\ ~ Cuts(g) /\ Beyond(s2c, g) = <<>>
            /\ \E i \in DOMAIN g : g[i].msg = "download_ok"
        BY <3>1, <3>5, WholeDownload
      <4>2. CASE Ends(g)
        <5>1. PICK i \in EndMarkers(g) :
                  /\ local' = local \o Content(SubSeq(g, 1, i - 1))
                  /\ cpc' = "prompt"
                  /\ told' = IF /\ local \o Content(SubSeq(g, 1, i - 1)) # <<>>
                                /\ Says("download_ok", Visible(g))
                             THEN "ok" ELSE "failed"
                  /\ Note(TornIn(g))
          BY <4>2 DEF Ends
        <5>2. Says("download_ok", Visible(g)) /\ SubSeq(g, 1, i - 1) = x
          BY <3>1, <3>5, WholeDownload
        <5>3. Note({})
          BY <4>1, <5>1 DEF TornIn
        <5>4. trouble' = trouble
          BY <5>3, Noted
        <5>5. local' = file'
          BY <1>1, <3>1, <5>1, <5>2
        <5>6. Prompted'
          BY <1>1, <2>1, <2>4, <2>8, <4>1, <5>1, <5>5 DEF Prompted, Silence, Truth
        <5> QED BY <1>1, <5>4, <5>6 DEF R
      <4>3. CASE Writes(g)
        <5>1. \E i \in DOMAIN g : g[i].msg # "data"
          BY <4>1
        <5> DEFINE C == IF Visible(g) # g THEN {"nul"} ELSE {"torn"}
        <5>2. Note(C) /\ C # {} /\ C \subseteq {"nul", "torn"} /\ cpc' = cpc
          BY <4>3, <5>1 DEF Writes
        <5> HIDE DEF C
        <5>3. trouble' \in {"nul", "torn"}
          BY <5>2, Noted
        <5>4. EndHidden'
          BY <1>1, <2>1, <2>4, <2>8, <4>1, <5>2 DEF EndHidden
        <5>5. Agreed'
          BY <5>3, <5>4 DEF Agreed
        <5> QED BY <5>5 DEF R
      <4> QED BY <2>1, <2>2, <4>2, <4>3
    <3>6. Len(g) <= Len(x) \/ Len(g) = Len(x) + 1 \/ Len(g) = Len(x) + 2
      BY <3>2
    <3> QED BY <3>3, <3>4, <3>5, <3>6
  <2> QED BY <2>4, <2>5, <2>7, <2>8
<1>4. AtEnd \/ \E g \in Received(s2c, Len(s2c)) :
             /\ s2c' = Beyond(s2c, g) /\ (Ends(g) \/ Writes(g) \/ Note({"word"}) \/ Note({"stale"}))
  <2>1. \/ \E g \in Received(s2c, Len(s2c)) :
             /\ s2c' = Beyond(s2c, g)
             /\ \/ \E i \in EndMarkers(g) :
                     LET d == local \o Content(SubSeq(g, 1, i - 1)) IN
                     /\ local' = d
                     /\ Report("prompt",
                          IF d # <<>> /\ Says("download_ok", Visible(g))
                          THEN "ok" ELSE "failed")
                     /\ Note(TornIn(g))
                \/ Note({"word"})
                \/ Writes(g)
                \/ Note({"stale"})
        \/ AtEnd
    BY Zenon DEF ReadDownload
  <2> QED BY <2>1, Zenon DEF Report
<1> QED BY <1>2, <1>3, <1>4

\* A client that cannot write the file reads until it sees an end all the same.
LEMMA ClientDrains ==
  ASSUME Dialogue, Commanding, Asked \/ Uploading \/ Queued \/ Answered \/ Downloading,
         up, trouble = "none", who[Wire] # NoName, DrainDownload
  PROVE  Agreed' \/ ((Prompted' \/ (Commanding' /\ Downloading')) /\ UNCHANGED <<who, file, trouble>>)
<1> DEFINE
     R == Agreed' \/ ((Prompted' \/ (Commanding' /\ Downloading')) /\ UNCHANGED <<who, file, trouble>>)
     Word(g) == \E i \in DOMAIN Visible(g) : Visible(g)[i].part = "word"
     End(g) == \E i \in DOMAIN Visible(g) :
                 \/ Visible(g)[i] \in ErrorEnds
                 \/ Visible(g)[i].msg \in {"download_ok", "download_error"}
     Hides(g) == Visible(g) # g /\ \E i \in DOMAIN g : g[i].msg # "data"
     Drains(g) ==
       \/ End(g) /\ cpc' = "prompt" /\ told' = "failed" /\ Note(TornIn(g))
       \/ /\ Word(g) /\ ~ End(g) /\ cpc' = "prompt" /\ told' = "failed"
          /\ Note(IF Cuts(g) THEN {"torn"} ELSE {"word"})
       \/ /\ ~ End(g) /\ UNCHANGED <<cpc, told>>
          /\ Note(IF Cuts(g) THEN {"torn"} ELSE IF Hides(g) THEN {"nul"} ELSE {})
<1>1. /\ UNCHANGED <<up, c2s, ask, rest, sent, local, spc, task, out, file, who>>
      /\ cpc = "drain" /\ s2c \in Seq(Pieces)
  BY DialogueFits DEF DrainDownload, servervars, accountvars
<1>2. CASE AtEnd
  BY <1>2 DEF AtEnd, Asked, Uploading, Queued, Answered, Coming, Downloading
<1>3. CASE \E g \in Received(s2c, Len(s2c)) :
             s2c' = Beyond(s2c, g) /\ (Drains(g) \/ Note({"stale"}))
  <2>1. PICK g \in Received(s2c, Len(s2c)) :
             s2c' = Beyond(s2c, g) /\ (Drains(g) \/ Note({"stale"}))
    BY <1>3
  <2> DEFINE end == End(g)  hides == Hides(g)
  <2>2. ASSUME Drains(g)
        PROVE  \/ trouble' \in {"torn", "word"}
               \/ /\ ~ Cuts(g) /\ end /\ cpc' = "prompt" /\ told' = "failed"
                  /\ trouble' = trouble
               \/ ~ Cuts(g) /\ ~ end /\ UNCHANGED <<cpc, told>> /\ hides /\ trouble' = "nul"
               \/ ~ Cuts(g) /\ ~ end /\ UNCHANGED <<cpc, told>> /\ ~ hides /\ trouble' = trouble
    <3>1. \/ end /\ cpc' = "prompt" /\ told' = "failed" /\ Note(TornIn(g))
          \/ Note(IF Cuts(g) THEN {"torn"} ELSE {"word"})
          \/ /\ ~ end /\ UNCHANGED <<cpc, told>>
             /\ Note(IF Cuts(g) THEN {"torn"} ELSE IF hides THEN {"nul"} ELSE {})
      BY <2>2
    <3> HIDE DEF end, hides
    <3>2. \/ Note({"torn"}) \/ Note({"word"})
          \/ ~ Cuts(g) /\ end /\ cpc' = "prompt" /\ told' = "failed" /\ Note({})
          \/ ~ Cuts(g) /\ ~ end /\ UNCHANGED <<cpc, told>> /\ hides /\ Note({"nul"})
          \/ ~ Cuts(g) /\ ~ end /\ UNCHANGED <<cpc, told>> /\ ~ hides /\ Note({})
      <4>1. CASE Cuts(g)
        BY <3>1, <4>1 DEF TornIn
      <4>2. CASE ~ Cuts(g)
        BY <3>1, <4>2 DEF TornIn
      <4> QED BY <4>1, <4>2
    <3> QED BY <3>2, Noted
  <2> HIDE DEF R, Drains, end, hides
  <2> SUFFICES R
    BY DEF R
  <2>3. CASE Note({"stale"})
    <3>1. trouble' = "stale"
      BY <2>3, Noted
    <3> QED BY <3>1, LostIsLost DEF R
  <2>4. s2c # <<>>
    BY NothingReceived, EmptySeq
  <2>5. /\ c2s = <<>> /\ rest = <<>> /\ ask = "download" /\ told = "none"
        /\ \/ spc = "files" /\ \E m \in {"download_error", "error"} : s2c = Text(m)
           \/ Downloading /\ spc = "say"
           \/ Downloading /\ spc = "files"
    BY <1>1, <2>4, DownloadComes
  <2>6. CASE spc = "files" /\ \E m \in {"download_error", "error"} : s2c = Text(m)
    <3> SUFFICES ASSUME Drains(g) PROVE R
      BY <2>1, <2>3
    <3>1. PICK m \in {"download_error", "error"} : s2c = Text(m)
      BY <2>6
    <3>2. /\ g \in Seq(Pieces) /\ Visible(g) = g
          /\ \/ Cuts(g)
             \/ ~ Cuts(g) /\ Beyond(s2c, g) = <<>> /\ 2 \in DOMAIN g /\ g[2] \in ErrorEnds
      BY <3>1, ErrorReceived
    <3>3. CASE Cuts(g)
      BY <2>2, <3>3, LostIsLost DEF R
    <3>4. CASE ~ Cuts(g)
      <4>1. end
        BY <3>2, <3>4 DEF end
      <4>2. \/ trouble' \in {"torn", "word"}
            \/ cpc' = "prompt" /\ told' = "failed" /\ trouble' = trouble
        BY <2>2, <4>1
      <4>3. ASSUME cpc' = "prompt", told' = "failed" PROVE Prompted'
        BY <1>1, <2>1, <2>5, <2>6, <3>2, <3>4, <4>3 DEF Prompted, Silence, Truth
      <4> QED BY <1>1, <4>2, <4>3, LostIsLost DEF R
    <3> QED BY <3>3, <3>4
  <2>7. ASSUME IsData(g), g \in Seq(Pieces), ~ Cuts(g), cpc' = "drain" => Downloading'
        PROVE  R
    <3> SUFFICES ASSUME Drains(g) PROVE R
      BY <2>1, <2>3
    <3>1. ~ end
      <4> SUFFICES ASSUME end PROVE FALSE
        OBVIOUS
      <4> DEFINE v == Visible(g)
      <4>1. PICK i \in DOMAIN v :
              v[i] \in ErrorEnds \/ v[i].msg \in {"download_ok", "download_error"}
        BY DEF end
      <4>2. DOMAIN v = 1 .. Len(v) /\ \A j \in 1 .. Len(v) : v[j] = g[j]
        BY <2>7, VisibleIsPrefix, LenProperties
      <4>3. DOMAIN v \subseteq DOMAIN g
        BY <2>7, VisibleFits
      <4>4. v[i].msg = "data"
        BY <2>7, <4>2, <4>3 DEF IsData
      <4>5. \A p \in ErrorEnds : p.msg # "data"
        BY AnswerHalves DEF ErrorEnds, Half, Answers
      <4> QED BY <4>1, <4>4, <4>5
    <3>2. ~ hides
      BY <2>7, MarkersInData DEF hides
    <3>3. \/ trouble' \in {"torn", "word"}
          \/ UNCHANGED <<cpc, told>> /\ trouble' = trouble
      BY <2>2, <3>1, <3>2
    <3>4. ASSUME UNCHANGED <<cpc, told>> PROVE Commanding' /\ Downloading'
      BY <1>1, <2>7, <3>4 DEF Commanding
    <3> QED BY <1>1, <3>3, <3>4, LostIsLost DEF R
  <2>8. CASE Downloading /\ spc = "say"
    <3> DEFINE k == Len(s2c)  b == Beyond(s2c, g)
    <3>1. IsData(s2c) /\ out.data \in Seq(Blocks) /\ out.msg = "download_ok" /\ out.next = "files"
      BY <2>8 DEF Downloading
    <3>2. s2c \in Seq(Pieces) /\ k \in Nat /\ g \in Received(s2c, k)
      BY <1>1, LenProperties
    <3>3. s2c' = b
      BY <2>1
    <3> HIDE DEF k, b
    <3>4. g \in Seq(Pieces) /\ IsData(g) /\ Len(g) \in Nat \ {0} /\ IsData(b)
      BY <3>1, <3>2, DataReceived DEF b
    <3>5. ~ Cuts(g)
      BY <3>4, DataCutsNothing
    <3>6. cpc' = "drain" => Downloading'
      BY <1>1, <2>5, <2>8, <3>1, <3>3, <3>4 DEF Downloading
    <3> QED BY <2>7, <3>4, <3>5, <3>6
  <2>9. CASE Downloading /\ spc = "files"
    <3>1. PICK x \in Seq(Pieces) : DownloadOf(x, s2c) /\ IsData(x)
      BY <2>9, DownloadStands
    <3>2. g \in Seq(Pieces) /\ Len(g) \in 1 .. Len(x) + 2 /\ Len(x) \in Nat
      BY <3>1, DownloadRecv DEF DownloadOf
    <3>3. CASE Len(g) <= Len(x)
      <4> DEFINE y == Beyond(x, g)
      <4>1. IsData(g) /\ ~ Cuts(g)
        BY <3>1, <3>3, PartOfDownload
      <4>2. y \in Seq(Pieces) /\ IsData(y) /\ Beyond(s2c, g) = y \o Text("download_ok")
        BY <3>1, <3>3, PartOfDownload
      <4> HIDE DEF y
      <4>3. s2c' = y \o Text("download_ok")
        BY <2>1, <4>2
      <4>4. Before(s2c') = y
        <5>1. "download_ok" \in Answers
          BY DEF Answers
        <5> QED BY <4>2, <4>3, <5>1, TextBehind
      <4>5. cpc' = "drain" => Downloading'
        BY <1>1, <2>5, <2>9, <4>2, <4>3, <4>4 DEF Downloading
      <4> QED BY <2>7, <3>2, <4>1, <4>5
    <3>4. CASE Len(g) = Len(x) + 1
      <4> SUFFICES ASSUME Drains(g) PROVE R
        BY <2>1, <2>3
      <4>1. Cuts(g)
        BY <3>1, <3>4, CutDownload
      <4> QED BY <2>2, <4>1, LostIsLost DEF R
    <3>5. CASE Len(g) = Len(x) + 2
      <4> SUFFICES ASSUME Drains(g) PROVE R
        BY <2>1, <2>3
      <4>1. /\ ~ Cuts(g) /\ Beyond(s2c, g) = <<>>
            /\ \E i \in DOMAIN g : g[i].msg = "download_ok"
        BY <3>1, <3>5, WholeDownload
      <4>2. ~ end => hides
        BY <4>1 DEF end, hides
      <4>3. CASE trouble' \in {"torn", "word"}
        BY <4>3, LostIsLost DEF R
      <4>4. CASE cpc' = "prompt" /\ told' = "failed" /\ trouble' = trouble
        <5>1. Prompted'
          BY <1>1, <2>1, <2>5, <2>9, <4>1, <4>4 DEF Prompted, Silence, Truth
        <5> QED BY <1>1, <4>4, <5>1 DEF R
      <4>5. CASE trouble' = "nul" /\ UNCHANGED <<cpc, told>>
        <5>1. EndHidden'
          BY <1>1, <2>1, <2>5, <2>9, <4>1, <4>5 DEF EndHidden
        <5>2. Agreed'
          BY <4>5, <5>1 DEF Agreed
        <5> QED BY <5>2 DEF R
      <4> QED BY <2>2, <4>2, <4>3, <4>4, <4>5
    <3>6. Len(g) <= Len(x) \/ Len(g) = Len(x) + 1 \/ Len(g) = Len(x) + 2
      BY <3>2
    <3> QED BY <3>3, <3>4, <3>5, <3>6
  <2> QED BY <2>5, <2>6, <2>8, <2>9
<1>4. AtEnd \/ \E g \in Received(s2c, Len(s2c)) :
             s2c' = Beyond(s2c, g) /\ (Drains(g) \/ Note({"stale"}))
  BY Zenon DEF DrainDownload, Report
<1> QED BY <1>2, <1>3, <1>4
-----------------------------------------------------------------------------
(* Every step of the client program *)

\* Where nothing went wrong the client stays where the server takes it to be, or
\* it is recorded how that was lost.
LEMMA ClientInStep ==
  ASSUME Dialogue, Together, FileWhole, trouble = "none", ClientStep, up
  PROVE  Agreed' \/ cpc' = "gone"
<1>1. UNCHANGED file /\ FileWhole'
  BY ClientAt DEF FileWhole
<1>2. ASSUME Together', trouble' = trouble
      PROVE  Agreed'
  BY <1>1, <1>2 DEF Agreed
<1>3. CASE Greeting
  <2>1. ReadWelcome
    BY <1>3, ClientAt DEF Greeting
  <2>2. Agreed' \/ (LoggedOut' /\ UNCHANGED <<file, trouble>>)
    BY <1>3, <2>1, ClientGreeted
  <2> QED BY <1>2, <2>2 DEF Together
<1>4. CASE LoggedOut
  BY <1>4, ClientAt DEF LoggedOut
<1>5. CASE LoggingIn
  <2>1. ReadAuth
    BY <1>5, ClientAt DEF LoggingIn
  <2>2. Agreed' \/ cpc' = "gone" \/ ((LoggedOut' \/ LoggedIn') /\ UNCHANGED <<file, trouble>>)
    BY <1>5, <2>1, ClientLogsIn
  <2> QED BY <1>2, <2>2 DEF Together
<1>6. CASE LoggedIn
  <2>1. ReadMenu
    BY <1>6, ClientAt DEF LoggedIn
  <2>2. Agreed' \/ (who'[Wire] # NoName /\ Prompted' /\ UNCHANGED <<file, trouble>>)
    BY <1>6, <2>1, ClientSeesMenu
  <2> QED BY <1>2, <2>2 DEF Together
<1>7. CASE Prompted
  BY <1>7, ClientAt DEF Prompted
<1>8. CASE /\ who[Wire] # NoName /\ Commanding
           /\ Asked \/ Uploading \/ Queued \/ Answered \/ Downloading
  <2>1. ASSUME \/ Prompted'
               \/ Commanding' /\ (Asked' \/ Uploading' \/ Queued' \/ Answered' \/ Downloading'),
               UNCHANGED <<who, trouble>>
        PROVE  Agreed'
    <3>1. who'[Wire] # NoName
      BY <1>8, <2>1
    <3>2. Together'
      BY <2>1, <3>1 DEF Together
    <3> QED BY <1>2, <2>1, <3>2
  <2>2. CASE SendBlock
    BY <1>8, <2>1, <2>2, ClientSendsBlock
  <2>3. CASE ReadAnswer
    BY <1>8, <2>1, <2>3, ClientAnswered
  <2>4. CASE ReadDownload
    BY <1>8, <2>1, <2>4, ClientDownloads
  <2>5. CASE DrainDownload
    BY <1>8, <2>1, <2>5, ClientDrains
  <2> QED BY <1>8, <2>2, <2>3, <2>4, <2>5, ClientAt DEF Commanding
<1> QED BY <1>3, <1>4, <1>5, <1>6, <1>7, <1>8 DEF Together

\* Nothing is left behind a recv of a single piece.
LEMMA LastReceived ==
  ASSUME NEW p \in Pieces, NEW s, s = <<p>>, NEW g \in Received(s, Len(s))
  PROVE  Beyond(s, g) = <<>>
<1> DEFINE k == Len(s)  b == Beyond(s, g)
<1>1. s \in Seq(Pieces) /\ k = 1 /\ k \in Nat /\ g \in Received(s, k)
  OBVIOUS
<1> HIDE DEF k
<1>2. Len(g) \in 1 .. Len(s) /\ b \in Seq(Pieces)
  BY <1>1, ReceivedSplits
<1>3. Len(b) = Len(s) - Len(g)
  BY <1>1, ReceivedParts
<1>4. Len(s) = 1
  BY <1>1 DEF k
<1> HIDE DEF b
<1>5. Len(b) = 0
  <2> DEFINE l == Len(s)  m == Len(g)  n == Len(b)
  <2>1. m \in 1 .. l /\ n = l - m /\ l = 1
    BY <1>2, <1>3, <1>4
  <2> HIDE DEF l, m, n
  <2>2. n = 0
    BY <2>1
  <2> QED BY <2>2 DEF n
<1> QED BY <1>2, <1>5, EmptySeq DEF b

\* A NUL byte hid bytes from the server: whatever the client still sends of the
\* upload, it waits for more than comes.
LEMMA ClientMissesUpload ==
  ASSUME Dialogue, UploadHidden, ClientStep, up
  PROVE  UploadHidden'
<1>1. /\ spc = "data" /\ s2c = <<>> /\ cpc \in {"sending", "answer"}
      /\ UNCHANGED <<spc, task>> /\ (SendBlock \/ ReadAnswer)
      /\ Len(task.data) + Len(c2s) + Len(rest) < task.size
  BY ClientAt DEF UploadHidden
<1>2. ~ ReadAnswer
  <2>1. Received(s2c, Len(s2c)) = {}
    BY <1>1, NothingReceived, EmptySeq
  <2> QED BY <1>1, <2>1 DEF ReadAnswer, AtEnd
<1>3. /\ c2s \in Seq(Pieces) /\ rest \in Seq(Blocks) /\ Len(c2s) \in Nat /\ Len(rest) \in Nat
      /\ Len(task.data) \in Nat /\ task.size \in Nat
  BY DialogueFits
<1>4. /\ s2c' = s2c
      /\ \/ cpc' = "answer" /\ UNCHANGED <<c2s, rest>>
         \/ /\ rest # <<>> /\ c2s' = Append(c2s, Block(Head(rest))) /\ rest' = Tail(rest)
            /\ UNCHANGED cpc
  BY <1>1, <1>2 DEF SendBlock
<1>5. CASE cpc' = "answer" /\ UNCHANGED <<c2s, rest>>
  BY <1>1, <1>4, <1>5 DEF UploadHidden
<1>6. CASE /\ rest # <<>> /\ c2s' = Append(c2s, Block(Head(rest))) /\ rest' = Tail(rest)
           /\ UNCHANGED cpc
  <2> DEFINE h == Block(Head(rest))
  <2>1. h \in Pieces
    BY <1>3, <1>6, BlockMoves DEF Block, Half, Pieces, Parts
  <2> HIDE DEF h
  <2>2. Len(Append(c2s, h)) = Len(c2s) + 1
    BY <1>3, <2>1, AppendProperties
  <2>3. Len(Tail(rest)) = Len(rest) - 1
    BY <1>3, <1>6, HeadTailProperties
  <2>4. Len(c2s') = Len(c2s) + 1 /\ Len(rest') = Len(rest) - 1
    BY <1>6, <2>2, <2>3 DEF h
  <2>5. Len(task.data) + Len(c2s') + Len(rest') < task.size
    <3> DEFINE a == Len(task.data)  b == Len(c2s)  c == Len(rest)  d == task.size
               e == Len(c2s')  f == Len(rest')
    <3>1. a \in Nat /\ b \in Nat /\ c \in Nat /\ d \in Nat /\ a + b + c < d
      BY <1>1, <1>3
    <3>2. e = b + 1 /\ f = c - 1
      BY <2>4
    <3> HIDE DEF a, b, c, d, e, f
    <3>3. a + e + f < d
      BY <3>1, <3>2
    <3> QED BY <3>3 DEF a, d, e, f
  <2>6. task' = task
    BY <1>1
  <2> QED BY <1>1, <1>4, <1>6, <2>5, <2>6 DEF UploadHidden
<1> QED BY <1>4, <1>5, <1>6

\* A NUL byte hid the end of a download: the client waits for it, or its user is
\* asked for a command the server is ready for.
LEMMA ClientMissesEnd ==
  ASSUME Dialogue, EndHidden, ClientStep, up
  PROVE  EndHidden'
<1> DEFINE p == Text("download_ok")[2]
<1>1. /\ UNCHANGED <<up, who, spc>> /\ spc = "files" /\ c2s = <<>> /\ who[Wire] # NoName
      /\ ReadDownload \/ DrainDownload
      /\ s2c = <<>> \/ s2c = <<p>>
  BY ClientAt DEF EndHidden
<1>2. p \in Pieces
  <2>1. "download_ok" \in Answers
    BY DEF Answers
  <2>2. Text("download_ok") \in Seq(Pieces) /\ Len(Text("download_ok")) = 2
    BY <2>1, AnswerHalves
  <2> QED BY <2>2, LenProperties
<1> HIDE DEF p
<1>3. ~ AtEnd
  BY <1>1 DEF AtEnd
<1>4. /\ cpc' \in {"download", "drain", "prompt"} /\ UNCHANGED c2s
      /\ \E g \in Received(s2c, Len(s2c)) : s2c' = Beyond(s2c, g)
  <2>1. CASE ReadDownload
    BY <1>3, <2>1 DEF ReadDownload, Report
  <2>2. CASE DrainDownload
    BY <1>3, <2>2 DEF DrainDownload, Report
  <2> QED BY <1>1, <2>1, <2>2
<1>5. s2c = <<p>>
  BY <1>1, <1>4, NothingReceived, EmptySeq
<1>6. s2c' = <<>>
  <2>1. PICK g \in Received(s2c, Len(s2c)) : s2c' = Beyond(s2c, g)
    BY <1>4
  <2>2. Beyond(s2c, g) = <<>>
    BY <1>2, <1>5, LastReceived
  <2> QED BY <2>1, <2>2
<1> QED BY <1>1, <1>4, <1>6 DEF EndHidden

\* Without a connection the client finds its end, and claims nothing.
LEMMA ClientAlone ==
  ASSUME Dialogue, ~ up, Silence, ClientStep
  PROVE  /\ UNCHANGED <<up, trouble>> /\ Silence'
         /\ cpc' = "prompt" => told' # "ok"
         /\ cpc = "second" => cpc' = "prompt" /\ told' = "none"
         /\ cpc # "prompt"
<1>1. c2s = <<>> /\ s2c = <<>> /\ Received(s2c, Len(s2c)) = {}
  BY NothingReceived, EmptySeq DEF Silence
<1>2. UNCHANGED up
  BY ClientAt
<1>3. CASE ReadWelcome \/ ReadAuth \/ ReadMenu
  BY <1>1, <1>2, <1>3 DEF ReadWelcome, ReadAuth, ReadMenu, Report, Silence
<1>4. CASE SendBlock
  BY <1>1, <1>2, <1>4 DEF SendBlock, Report, Silence
<1>5. CASE ReadAnswer
  BY <1>1, <1>2, <1>5 DEF ReadAnswer, Report, Silence
<1>6. CASE ReadDownload
  BY <1>1, <1>2, <1>6 DEF ReadDownload, Report, Silence
<1>7. CASE DrainDownload
  BY <1>1, <1>2, <1>7 DEF DrainDownload, Report, Silence
<1> QED BY <1>3, <1>4, <1>5, <1>6, <1>7 DEF ClientStep

\* Every step of the client program.
LEMMA ClientAgrees ==
  ASSUME Dialogue, Agreement, ClientStep
  PROVE  Agreement'
<1>1. trouble # "none" => trouble' = trouble
  BY TroubleStays DEF Next
<1>2. UNCHANGED <<up, spc>> /\ cpc # "gone"
  BY ClientAt
<1>3. CASE ~ up
  <2>1. Silence /\ Parted
    BY <1>2, <1>3 DEF Agreement
  <2>2. /\ UNCHANGED <<up, trouble>> /\ Silence'
        /\ cpc' = "prompt" => told' # "ok"
        /\ cpc = "second" => cpc' = "prompt" /\ told' = "none"
        /\ cpc # "prompt"
    BY <1>3, <2>1, ClientAlone
  <2>3. Parted'
    BY <2>1, <2>2 DEF Parted
  <2> QED BY <1>3, <2>2, <2>3 DEF Agreement
<1>4. CASE up
  <2>1. Agreed
    BY <1>2, <1>4 DEF Agreement
  <2>2. Agreed' \/ cpc' = "gone"
    <3>1. CASE trouble = "none"
      BY <1>4, <2>1, <3>1, ClientInStep DEF Agreed
    <3>2. CASE trouble = "glued"
      <4>1. cpc = "second" /\ spc = "files" /\ Silence
        BY <2>1, <3>2 DEF Agreed
      <4>2. ReadMenu
        BY <4>1, ClientAt
      <4>3. Received(s2c, Len(s2c)) = {}
        BY <4>1, NothingReceived, EmptySeq DEF Silence
      <4> QED BY <1>4, <4>1, <4>2, <4>3 DEF ReadMenu, AtEnd
    <3>3. CASE trouble = "nul"
      <4>1. UploadHidden' \/ EndHidden'
        BY <1>4, <2>1, <3>3, ClientMissesUpload, ClientMissesEnd DEF Agreed
      <4> QED BY <1>1, <3>3, <4>1 DEF Agreed
    <3>4. CASE trouble \in {"torn", "stale", "word", "refused"}
      BY <1>1, <3>4 DEF Agreed
    <3> QED BY <3>1, <3>2, <3>3, <3>4 DEF Dialogue, Troubles
  <2> QED BY <1>2, <1>4, <2>2 DEF Agreement
<1> QED BY <1>3, <1>4
-----------------------------------------------------------------------------
(* The user, the network and the other sessions *)

\* The user signs up or logs in.
LEMMA AuthAgrees ==
  ASSUME Dialogue, Agreement, SendAuth
  PROVE  Agreement'
<1>1. /\ cpc = "menu" /\ trouble = "none" /\ cpc' = "auth"
      /\ UNCHANGED <<up, s2c, file, trouble>> /\ (~ up => UNCHANGED c2s)
  BY DEF SendAuth, Sends, servervars
<1>2. CASE ~ up
  <2>1. Silence /\ Parted
    BY <1>1, <1>2 DEF Agreement
  <2>2. Silence' /\ Parted'
    BY <1>1, <1>2, <2>1 DEF Silence, Parted
  <2> QED BY <1>1, <1>2, <2>2 DEF Agreement
<1>3. CASE up
  <2>1. Together /\ FileWhole
    BY <1>1, <1>3 DEF Agreement, Agreed
  <2>2. LoggedOut
    BY <1>1, <2>1 DEF Together, Greeting, LoggingIn, LoggedIn, Prompted, Commanding
  <2>3. LoggingIn' /\ UNCHANGED <<file, trouble>>
    BY <1>3, <2>2, ClientCalls
  <2>4. Together' /\ FileWhole'
    BY <2>1, <2>3 DEF Together, FileWhole
  <2>5. Agreed'
    BY <1>1, <2>4 DEF Agreed
  <2> QED BY <1>1, <1>3, <2>5 DEF Agreement
<1> QED BY <1>2, <1>3

\* The user enters a command.
LEMMA CommandAgrees ==
  ASSUME Dialogue, Agreement, NEW op \in Tasks, NEW p \in Seq(Blocks),
         op # "upload" => p = <<>>, SendCommand(op, p)
  PROVE  Agreement'
<1>1. /\ cpc = "prompt" /\ trouble = "none" /\ told' = "none"
      /\ UNCHANGED <<up, s2c, file, trouble>> /\ (~ up => UNCHANGED c2s)
  BY DEF SendCommand, Sends, servervars
<1>2. CASE ~ up
  <2>1. Silence /\ Parted
    BY <1>1, <1>2 DEF Agreement
  <2>2. Silence' /\ Parted'
    BY <1>1, <1>2, <2>1 DEF Silence, Parted
  <2> QED BY <1>1, <1>2, <2>2 DEF Agreement
<1>3. CASE up
  <2>1. Together /\ FileWhole
    BY <1>1, <1>3 DEF Agreement, Agreed
  <2>2. Prompted /\ who[Wire] # NoName
    BY <1>1, <2>1 DEF Together, Greeting, LoggedOut, LoggingIn, LoggedIn, Commanding
  <2>3. Commanding' /\ Asked' /\ UNCHANGED <<who, file, trouble>>
    BY <1>3, <2>2, ClientCommands
  <2>4. Together' /\ FileWhole'
    BY <2>1, <2>2, <2>3 DEF Together, FileWhole
  <2>5. Agreed'
    BY <1>1, <2>4 DEF Agreed
  <2> QED BY <1>1, <1>3, <2>5 DEF Agreement
<1> QED BY <1>2, <1>3

\* The connection breaks, and what is under way is lost.
LEMMA ResetAgrees ==
  ASSUME Agreement, Reset
  PROVE  Agreement'
<1>1. /\ up /\ ~ up' /\ c2s' = <<>> /\ s2c' = <<>>
      /\ UNCHANGED <<who, stage, spc, task, out, file, cpc, ask, rest, sent, local, told, trouble>>
  BY DEF Reset, accountvars, servervars, clientvars
<1>2. Agreed
  BY <1>1 DEF Reset, Agreement
<1>3. ASSUME trouble = "none", cpc = "prompt"
      PROVE  spc = "files" /\ Truth
  BY <1>2, <1>3
  DEF Agreed, Together, Greeting, LoggedOut, LoggingIn, LoggedIn, Prompted, Commanding
<1>4. Truth => Truth'
  BY <1>1 DEF Truth
<1>5. Parted'
  BY <1>1, <1>2, <1>3, <1>4 DEF Agreed, Parted
<1> QED BY <1>1, <1>5 DEF Agreement, Silence

\* The client ends.
LEMMA LeaveAgrees ==
  ASSUME Agreement, Leave
  PROVE  Agreement'
<1>1. cpc' = "gone" /\ s2c' = <<>> /\ UNCHANGED up /\ (~ up => UNCHANGED c2s)
  BY DEF Leave, Report
<1> QED BY <1>1 DEF Agreement, Silence

\* Nothing of what the two ends agree on is about the other sessions.
LEMMA ElsewhereAgrees ==
  ASSUME Agreement, UNCHANGED <<up, c2s, s2c, servervars, clientvars, trouble>>,
         who'[Wire] = who[Wire], stage'[Wire] = stage[Wire]
  PROVE  Agreement'
<1>1. UNCHANGED <<up, c2s, s2c, spc, task, out, file, cpc, ask, rest, sent, local, told, trouble>>
  BY DEF servervars, clientvars
<1>2. Silence' = Silence /\ Truth' = Truth
  BY <1>1 DEF Silence, Truth
<1>3. ASSUME NEW m, NEW n
      PROVE  Coming(m, n)' = Coming(m, n)
  BY <1>1 DEF Coming
<1>4. Greeting => Greeting'
  BY <1>1, <1>3 DEF Greeting
<1>5. LoggedOut => LoggedOut'
  BY <1>1, <1>2 DEF LoggedOut
<1>6. LoggingIn => LoggingIn'
  BY <1>1, <1>2, <1>3 DEF LoggingIn
<1>7. LoggedIn => LoggedIn'
  BY <1>1, <1>3 DEF LoggedIn
<1>8. Prompted => Prompted'
  BY <1>1, <1>2 DEF Prompted
<1>9. Commanding => Commanding'
  BY <1>1 DEF Commanding
<1>10. /\ Asked => Asked'
       /\ Uploading => Uploading'
       /\ Queued => Queued'
       /\ Downloading => Downloading'
  BY <1>1, <1>2 DEF Asked, Uploading, Queued, Downloading
<1>11. Answered => Answered'
  BY <1>1, <1>3 DEF Answered
<1>12. Together => Together'
  BY <1>4, <1>5, <1>6, <1>7, <1>8, <1>9, <1>10, <1>11 DEF Together
<1>13. /\ UploadHidden => UploadHidden'
       /\ EndHidden => EndHidden'
       /\ FileWhole => FileWhole'
  BY <1>1 DEF UploadHidden, EndHidden, FileWhole
<1>14. Agreed => Agreed'
  BY <1>1, <1>2, <1>12, <1>13 DEF Agreed
<1>15. Parted => Parted'
  BY <1>1, <1>2, <1>13 DEF Parted
<1> QED BY <1>1, <1>2, <1>14, <1>15 DEF Agreement

\* What another session does, this one does not see.
LEMMA OthersAgree ==
  ASSUME Dialogue, Agreement, NEW s \in Sessions \ {Wire}, OtherSession(s)
  PROVE  Agreement'
<1>1. /\ stage \in [Sessions -> Stages] /\ who \in [Sessions -> Names \cup {NoName}]
      /\ Wire \in Sessions
  BY WireAssumption DEF Dialogue, IInv, AccountsTypeOK
<1>2. \/ \E c \in OtherCalls : Begin(s, c)
      \/ CheckUser(s) \/ InsertUser(s) \/ VerifyPassword(s) \/ Answer(s) \/ EndOfSession(s)
  BY DEF OtherSession, AuthStep
<1>3. ASSUME NEW t, GoTo(s, t)
      PROVE  who'[Wire] = who[Wire] /\ stage'[Wire] = stage[Wire]
  BY <1>1, <1>3 DEF GoTo
<1>4. who'[Wire] = who[Wire] /\ stage'[Wire] = stage[Wire]
  <2>1. CASE \E c \in OtherCalls : Begin(s, c)
    BY <1>1, <2>1 DEF Begin
  <2>2. CASE CheckUser(s)
    BY <1>3, <2>2 DEF CheckUser
  <2>3. CASE InsertUser(s)
    BY <1>1, <1>3, <2>3 DEF InsertUser
  <2>4. CASE VerifyPassword(s)
    BY <1>3, <2>4 DEF VerifyPassword
  <2>5. CASE Answer(s) \/ EndOfSession(s)
    BY <1>1, <2>5 DEF Answer, EndOfSession
  <2> QED BY <1>2, <2>1, <2>2, <2>3, <2>4, <2>5
<1> QED BY <1>4, ElsewhereAgrees DEF OtherSession
-----------------------------------------------------------------------------
(* In step *)

\* At first the client waits for the welcome.
LEMMA AgreementInit == Init => Agreement
<1> SUFFICES ASSUME Init PROVE Agreement
  OBVIOUS
<1>1. up = TRUE /\ c2s = <<>> /\ s2c = <<>> /\ spc = "accept" /\ file = NoFile
      /\ cpc = "welcome" /\ told = "none" /\ trouble = "none"
  BY DEF Init
<1>2. who[Wire] = NoName
  BY WireAssumption DEF Init, AccountsInit
<1>3. Together /\ FileWhole
  BY <1>1, <1>2 DEF Together, Greeting, FileWhole
<1> QED BY <1>1, <1>3 DEF Agreement, Agreed

\* Each side by its own lemma.
LEMMA AgreementStep ==
  ASSUME Dialogue, Agreement, [Next]_vars
  PROVE  Agreement'
<1>1. CASE Reset \/ Leave
  BY <1>1, ResetAgrees, LeaveAgrees
<1>2. CASE ServerStep \/ ClientStep
  BY <1>2, ServerAgrees, ClientAgrees
<1>3. CASE SendAuth
  BY <1>3, AuthAgrees
<1>4. ASSUME NEW p \in Payloads, SendCommand("upload", p)
      PROVE  Agreement'
  <2>1. p \in Seq(Blocks) /\ "upload" \in Tasks
    BY PayloadsAssumption DEF Tasks
  <2> QED BY <1>4, <2>1, CommandAgrees
<1>5. ASSUME NEW op \in Tasks \ {"upload"}, SendCommand(op, <<>>)
      PROVE  Agreement'
  <2>1. <<>> \in Seq(Blocks)
    BY EmptySeq
  <2> QED BY <1>5, <2>1, CommandAgrees
<1>6. ASSUME NEW s \in Sessions \ {Wire}, OtherSession(s)
      PROVE  Agreement'
  BY <1>6, OthersAgree
<1>7. CASE UNCHANGED vars
  BY <1>7, ElsewhereAgrees DEF vars, accountvars
<1> QED BY <1>1, <1>2, <1>3, <1>4, <1>5, <1>6, <1>7 DEF Next

\* In every state of a connection both ends are at one place of the dialogue,
\* or trouble says how they lost each other and what is left of it.
THEOREM BothAgree == Spec => [](Dialogue /\ Agreement)
<1>1. Init => Dialogue /\ Agreement
  BY DialogueInit, AgreementInit
<1>2. Dialogue /\ Agreement /\ [Next]_vars => (Dialogue /\ Agreement)'
  BY DialogueStep, AgreementStep
<1> QED BY <1>1, <1>2, PTL DEF Spec

\* Without framing the client program and the client thread agree by counting
\* alone: unless a recv cut a text, an upload was refused with its data under way,
\* or the client took something else for the end of a download, nothing is under
\* way and the server is in the recv for it when the client asks its user for
\* input.
THEOREM BothInStep == Spec => []InStep
<1>1. ASSUME Dialogue, Agreement
      PROVE  InStep
  <2> SUFFICES ASSUME up, trouble \notin {"torn", "refused", "word", "stale"}, cpc # "gone"
               PROVE  InStep
    BY DEF InStep
  <2>1. Agreed
    BY <1>1 DEF Agreement
  <2>2. CASE trouble = "none"
    <3>1. Together
      BY <2>1, <2>2 DEF Agreed
    <3> QED BY <3>1 DEF Together, Greeting, LoggedOut, LoggingIn, LoggedIn, Prompted, Commanding,
              Silence, InStep
  <2>3. CASE trouble = "glued"
    BY <2>1, <2>3 DEF Agreed, InStep
  <2>4. CASE trouble = "nul"
    BY <2>1, <2>4 DEF Agreed, UploadHidden, EndHidden, InStep
  <2> QED BY <1>1, <2>2, <2>3, <2>4 DEF Dialogue, Troubles
<1> QED BY <1>1, BothAgree, PTL

\* What handle_upload, handle_download and handle_delete tell the user is what
\* happened, also when a file system call failed or the connection was reset, until a
\* recv cuts a text, meets a NUL byte or reads past what it received, or data is taken
\* for a text: then nothing is claimed.
THEOREM ToldWhatHappened == Spec => []ToldTruly
<1>1. ASSUME Dialogue, Agreement
      PROVE  ToldTruly
  <2> SUFFICES ASSUME trouble \in {"none", "glued"}, cpc = "prompt", told = "ok"
               PROVE  Truth
    BY DEF ToldTruly, Truth
  <2>1. (up => Agreed) /\ (~ up => Parted)
    BY <1>1 DEF Agreement
  <2>2. trouble = "none"
    BY <1>1, <2>1 DEF Agreed, Parted
  <2>3. CASE up
    BY <2>1, <2>2, <2>3
    DEF Agreed, Together, Greeting, LoggedOut, LoggingIn, LoggedIn, Prompted, Commanding
  <2>4. CASE ~ up
    BY <2>1, <2>2, <2>4 DEF Parted
  <2> QED BY <2>3, <2>4
<1> QED BY <1>1, BothAgree, PTL
=============================================================================
