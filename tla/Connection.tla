----------------------------- MODULE Connection -----------------------------
(***************************************************************************)
(* One connection from end to end: the client program (client/client.c) on *)
(* one side, the client thread that serves it (client_worker, with the     *)
(* send and receive loops of network_utils.c) on the other, and two byte   *)
(* streams in between.  The account calls of the session Wire are those of *)
(* Accounts; the other sessions use the accounts without being looked at.  *)
(* The workers, the queue and the disk are one step here (Pipeline and     *)
(* FileStore look inside).                                                 *)
(*                                                                         *)
(* Nothing on the wire separates messages, and most of the code takes one  *)
(* recv for one message.  A stream is a sequence of pieces: a text is two  *)
(* pieces, its head and its tail, a file is a piece per block, and recv    *)
(* returns any prefix.  What this can do to the dialogue is recorded in    *)
(* trouble, the first of these that happened:                              *)
(*   torn     a recv returned part of a text                               *)
(*   glued    the client's recv of "OK" returned the menu as well          *)
(*   refused  the server refused an upload whose data it had not all got   *)
(*   nul      a NUL byte hid bytes that were there                         *)
(*   word     the client took a word in a file for the end of the file     *)
(*   stale    the client searched bytes that recv had not written          *)
(* Bound: the user enters no further command after that; the command in    *)
(* progress goes on, and the client may be ended.  Nothing else reads it.  *)
(***************************************************************************)
EXTENDS Accounts, Sequences, SequencesExt, FiniteSetsExt

CONSTANTS Wire,        \* the session looked at
          OtherCalls,  \* the calls made in other sessions
          Payloads,    \* contents of files, sequences of blocks
          NoFile,      \* the user has no such file
          Capacity     \* how many pieces fit into a stream

\* A block of a file: it starts with a NUL byte; it holds words that one of the
\* programs looks for, a command or the end of a download, which ones is left
\* open; or neither.
Blocks == {"plain", "nul", "word"}

ASSUME WireAssumption == Wire \in Sessions /\ OtherCalls \subseteq Calls
ASSUME PayloadsAssumption == \A p \in Payloads : p \in Seq(Blocks)
ASSUME CapacityAssumption == Capacity \in Nat \ {0, 1}

VARIABLES
  up,         \* the connection has not been reset
  c2s, s2c,   \* the bytes under way to the server and to the client
  spc, task,  \* the client thread: where it is, the task it builds
  out,        \* ... and what it sends next
  file,       \* the user's file in storage
  cpc, ask,   \* the client program: where it is, the command in progress
  rest,       \* ... the blocks of the upload it has not sent yet
  sent,       \* ... the content it uploads
  local,      \* ... the local file a download writes
  told,       \* ... what it told the user about the command
  trouble     \* history

clientvars == <<cpc, ask, rest, sent, local, told>>
servervars == <<spc, task, out, file>>
vars == <<accountvars, up, c2s, s2c, servervars, clientvars, trouble>>

-----------------------------------------------------------------------------
(* Pieces and streams *)

Half(m, h, c, n) == [msg |-> m, part |-> h, call |-> c, size |-> n]
FullText(m, c, n) == <<Half(m, "head", c, n), Half(m, "tail", c, n)>>
Text(m) == FullText(m, NoCall, 0)
Block(b) == Half("data", b, NoCall, 0)

\* What a sequence of pieces is as the content of a file.
Content(g) == [i \in DOMAIN g |-> g[i].part]

\* The text m is in g as a whole; At is where its head is.
At(m, g) == {i \in 1 .. Len(g) - 1 : g[i] = Text(m)[1] /\ g[i + 1] = Text(m)[2]}
Says(m, g) == At(m, g) # {}

\* The prefixes a recv may return.
Received(stream, most) ==
  {SubSeq(stream, 1, n) : n \in 1 .. Min({Len(stream), most})}
Beyond(stream, g) == SubSeq(stream, Len(g) + 1, Len(stream))

Fits(stream, g) == Len(stream) + Len(g) <= Capacity

\* The client thread has nobody to talk to any more.
ClientLost == cpc = "gone" \/ ~ up

\* recv returned g and g ends in the middle of a text.
Cuts(g) == Last(g).part = "head"

\* trouble after a step in which the causes in C arose.
Note(C) ==
  trouble' = IF trouble = "none" /\ C # {} THEN CHOOSE c \in C : TRUE ELSE trouble

-----------------------------------------------------------------------------
(* The client thread *)

Tasks == {"upload", "download", "delete", "list"}
NoTask == [op |-> "none", data |-> <<>>, size |-> 0]

\* What is to be sent: data, then a text; where the thread goes after that;
\* and whether a failed send ends the session.
Out(d, m, n, e) == [data |-> d, msg |-> m, next |-> n, ends |-> e]
Nothing == Out(<<>>, "none", "none", FALSE)

SayThen(m, n, e) == spc' = "say" /\ out' = Out(<<>>, m, n, e)

\* send_full of the response data, a block at a time as there is room, and
\* send_full, send_success or send_error of the text.  To a client that is gone
\* a send succeeds or fails.
Say ==
  /\ spc = "say"
  /\ \/ /\ ~ ClientLost /\ out.data # <<>>
        /\ Fits(s2c, <<Head(out.data)>>)
        /\ s2c' = Append(s2c, Block(Head(out.data)))
        /\ out' = [out EXCEPT !.data = Tail(@)]
        /\ UNCHANGED spc
     \/ /\ ~ ClientLost /\ out.data = <<>>
        /\ Fits(s2c, Text(out.msg))
        /\ s2c' = s2c \o Text(out.msg)
        /\ spc' = out.next /\ out' = Nothing
     \/ /\ ClientLost
        /\ spc' \in {out.next} \cup IF out.ends THEN {"end"} ELSE {}
        /\ out' = Nothing /\ UNCHANGED s2c
  /\ UNCHANGED <<up, accountvars, c2s, task, file, clientvars, trouble>>

\* main accepts the connection and pushes it, for which it waits while the client
\* queue is full.  A client thread takes it when one is free, creates a session
\* and greets; or the session cannot be created and the socket is closed; or the
\* queue has been shut down, and main says it is busy and closes it.
Accept ==
  /\ spc = "accept"
  /\ \/ SayThen("welcome", "auth", TRUE) /\ UNCHANGED s2c
     \/ spc' = "gone" /\ UNCHANGED <<out, s2c>>
     \/ /\ spc' = "gone" /\ UNCHANGED out
        /\ s2c' = IF ClientLost THEN s2c ELSE s2c \o Text("busy")
  /\ UNCHANGED <<up, accountvars, c2s, task, file, clientvars, trouble>>

\* The calls the server may read from g: a whole SIGNUP or LOGIN, or the
\* first half of one, which has its name and a shorter password.
CallsIn(g) ==
  IF g[1].msg # "auth" \/ g[1].part # "head" THEN {}
  ELSE IF Len(g) > 1 THEN {g[1].call}
  ELSE {c \in Calls : c.op = g[1].call.op /\ c.name = g[1].call.name
                        /\ c.password # g[1].call.password}

\* The authentication loop reads a line.
RecvAuth ==
  /\ spc = "auth"
  /\ \E g \in Received(c2s, Len(c2s)) :
       /\ c2s' = Beyond(c2s, g)
       /\ \/ \E c \in CallsIn(g) :
               Begin(Wire, c) /\ spc' = "calling" /\ UNCHANGED out
          \/ /\ CallsIn(g) = {} \/ Cuts(g)
             /\ SayThen("error", "auth", FALSE)
             /\ UNCHANGED accountvars
       /\ Note(IF Cuts(g) THEN {"torn"} ELSE {})
  /\ UNCHANGED <<up, s2c, task, file, clientvars>>

\* user_signup or user_login returned; after a success the thread sends "OK"
\* and sets the username only then.
CallReturns ==
  /\ spc = "calling" /\ stage[Wire] \in Results
  /\ IF stage[Wire] = "ok"
     THEN SayThen("auth_ok", "named", TRUE) /\ UNCHANGED accountvars
     ELSE Answer(Wire) /\ SayThen("auth_error", "auth", FALSE)
  /\ UNCHANGED <<up, c2s, s2c, task, file, clientvars, trouble>>

\* session_set_username, and the loop ends: the menu comes next.
SetUsername ==
  /\ spc = "named"
  /\ Answer(Wire)
  /\ SayThen("menu", "files", TRUE)
  /\ UNCHANGED <<up, c2s, s2c, task, file, clientvars, trouble>>


\* The data behind the line of an UPLOAD in the same recv: it is looked for as
\* a string, so a NUL byte in the first place hides it.
Leftover(extra, size) ==
  IF extra # <<>> /\ extra[1].part # "nul"
  THEN SubSeq(extra, 1, Min({Len(extra), size})) ELSE <<>>

\* The commands the server may read from g: the line it starts with; part of
\* a line may be no command; a block of a file may spell any of them.
CommandsIn(g) ==
  CASE g[1].part = "head" /\ Len(g) > 1 ->
         {IF g[1].msg \in Tasks \cup {"quit"} THEN g[1].msg ELSE "invalid"}
    [] g[1].part = "head" /\ Len(g) = 1 -> {g[1].msg, "invalid"} \ {"auth"}
    [] g[1].part = "word" -> Tasks \cup {"quit", "invalid"}
    [] OTHER -> {"invalid"}

\* The sizes an UPLOAD read from g may claim: its own, of which only the first
\* digits may be there, or any (bound: Capacity) if a block spells it.
Sizes(g) ==
  CASE g[1].part = "head" /\ Len(g) > 1 -> {g[1].size}
    [] g[1].part = "head" /\ Len(g) = 1 -> 0 .. g[1].size
    [] OTHER -> 0 .. Capacity

\* What is behind that line.  A block that spells it need not end the line, and
\* then what follows is taken for part of it.
Behind(g) ==
  IF g[1].part = "head" THEN {SubSeq(g, 3, Len(g))} ELSE {SubSeq(g, 2, Len(g)), <<>>}

\* user_check_quota says no, or malloc fails, before the data is read.
RefuseUpload(extra, size) ==
  /\ SayThen("upload_error", "files", FALSE)
  /\ Note(IF Len(extra) < size THEN {"refused"} ELSE {})
  /\ UNCHANGED task

\* The buffer is allocated and what came with the line is copied into it.
AcceptUpload(extra, size) ==
  LET d == Leftover(extra, size) IN
  /\ task' = [op |-> "upload", data |-> Content(d), size |-> size]
  /\ spc' = IF Len(d) < size THEN "data" ELSE "queue"
  /\ Note(IF extra # <<>> /\ size > 0 /\ extra[1].part = "nul" THEN {"nul"} ELSE {})
  /\ UNCHANGED out

\* The file operation loop reads a command.
RecvCommand ==
  /\ spc = "files"
  /\ \E g \in Received(c2s, Len(c2s)) : \E cmd \in CommandsIn(g) :
       /\ c2s' = Beyond(c2s, g)
       /\ CASE cmd = "invalid" ->
                 /\ SayThen("error", "files", FALSE) /\ UNCHANGED task
                 /\ Note(IF Cuts(g) THEN {"torn"} ELSE {})
            [] cmd = "quit" ->
                 /\ SayThen("bye", "end", FALSE) /\ UNCHANGED task
                 /\ Note(IF Cuts(g) THEN {"torn"} ELSE {})
            [] cmd = "upload" /\ Len(g) = 1 /\ Cuts(g) ->
                 /\ \/ SayThen("upload_error", "files", FALSE) /\ UNCHANGED task
                    \/ \E n \in Sizes(g) :
                         /\ task' = [op |-> "upload", data |-> <<>>, size |-> n]
                         /\ spc' = IF n > 0 THEN "data" ELSE "queue"
                         /\ UNCHANGED out
                 /\ Note({"torn"})
            [] cmd = "upload" /\ ~ (Len(g) = 1 /\ Cuts(g)) ->
                 \E extra \in Behind(g), n \in Sizes(g) :
                   RefuseUpload(extra, n) \/ AcceptUpload(extra, n)
            [] OTHER ->
                 /\ task' = [op |-> cmd, data |-> <<>>, size |-> 0]
                 /\ spc' = "queue" /\ UNCHANGED out
                 /\ Note(IF Cuts(g) THEN {"torn"} ELSE {})
  /\ UNCHANGED <<up, accountvars, s2c, file, clientvars>>

\* A loop over recv that asks for at most so many pieces each time and ends
\* when one recv has returned enough.
RecvDataUpTo(most, enough) ==
  /\ spc = "data"
  /\ \/ \E g \in Received(c2s, most) :
          /\ c2s' = Beyond(c2s, g)
          /\ task' = [task EXCEPT !.data = @ \o Content(g)]
          /\ spc' = IF Len(g) >= enough THEN "queue" ELSE "data"
          /\ UNCHANGED out
     \/ /\ ClientLost /\ c2s = <<>>
        /\ SayThen("upload_error", "files", FALSE)
        /\ task' = NoTask /\ UNCHANGED c2s
  /\ UNCHANGED <<up, accountvars, s2c, file, clientvars, trouble>>

\* What recv_full still has to receive.
Need == task.size - Len(task.data)

\* Variant: one recv is taken for the whole rest.
RecvDataOnce == RecvDataUpTo(Need, 1)

\* Variant: the length is not reduced by what was received.
RecvDataOver == RecvDataUpTo(task.size, Need)

\* Variant: the end of the connection is not an end of the loop.
RecvDataForever == RecvDataUpTo(Need, Need) /\ c2s # <<>>

\* recv_full: the rest of the upload, as much at a time as there is; an end
\* of the connection in between is answered and the loop goes on.
RecvData == RecvDataUpTo(Need, Need)

\* task_queue_push waits while the queue is full and refuses the task once the
\* queue has been shut down; then its data is freed.
QueueTask ==
  /\ spc = "queue"
  /\ \/ spc' = "work" /\ UNCHANGED <<task, out>>
     \/ SayThen("error", "files", FALSE) /\ task' = NoTask
  /\ UNCHANGED <<up, accountvars, c2s, s2c, file, clientvars, trouble>>

\* A worker: op does what it should, or fails; a failed upload may have removed
\* the file.  The worker answers; or it does not find the session any more and
\* drops the response (Pipeline shows when), and the thread sleeps for ever.
Done(f, d, m) ==
  /\ file' = f
  /\ \/ spc' = "say" /\ out' = Out(d, m, "files", d # <<>>)
     \/ spc' = "asleep" /\ UNCHANGED out

Work ==
  /\ spc = "work"
  /\ \/ /\ task.op = "upload"
        /\ \/ Done(task.data, <<>>, "upload_ok")
           \/ \E f \in {file, NoFile} : Done(f, <<>>, "upload_error")
     \/ /\ task.op = "download"
        /\ \/ file # NoFile /\ Done(file, file, "download_ok")
           \/ Done(file, <<>>, "download_error")
     \/ /\ task.op = "delete"
        /\ \/ file # NoFile /\ Done(NoFile, <<>>, "delete_ok")
           \/ Done(file, <<>>, "delete_error")
     \/ task.op = "list" /\ \E m \in {"list", "list_error"} : Done(file, <<>>, m)
  /\ task' = NoTask
  /\ UNCHANGED <<up, accountvars, c2s, s2c, clientvars, trouble>>

\* The client is gone (what it had still sent may be lost), or it said QUIT:
\* session_mark_inactive and session_destroy.
EndSession ==
  /\ \/ spc = "end"
     \/ spc \in {"auth", "files"} /\ ClientLost
  /\ EndOfSession(Wire)
  /\ spc' = "gone" /\ task' = NoTask /\ out' = Nothing
  /\ UNCHANGED <<up, c2s, s2c, file, clientvars, trouble>>

ServerStep ==
  \/ Accept \/ Say \/ RecvAuth \/ CallReturns \/ SetUsername
  \/ RecvCommand \/ RecvData \/ QueueTask \/ Work \/ EndSession
  \/ spc = "calling" /\ AuthStep(Wire)
       /\ UNCHANGED <<up, c2s, s2c, servervars, clientvars, trouble>>

-----------------------------------------------------------------------------
(* The client program *)

\* The client goes on to p having told the user t about its command.
Report(p, t) == cpc' = p /\ told' = t

\* send of a line: what is sent into a connection that was reset is lost.
Sends(line) ==
  IF up THEN Fits(c2s, line) /\ c2s' = c2s \o line ELSE UNCHANGED c2s

\* recv returned g: the causes that arise when g is a text or part of one.
TornIn(g) == IF Cuts(g) THEN {"torn"} ELSE {}

\* The end of the stream: the thread has closed the socket.
AtEnd == (spc = "gone" \/ ~ up) /\ s2c = <<>>

\* authenticate: the first recv is taken for the welcome.
ReadWelcome ==
  /\ cpc = "welcome"
  /\ \/ \E g \in Received(s2c, Len(s2c)) : s2c' = Beyond(s2c, g) /\ Note(TornIn(g))
     \/ AtEnd /\ UNCHANGED <<s2c, trouble>>
  /\ Report("menu", "none")
  /\ UNCHANGED <<up, accountvars, c2s, servervars, ask, rest, sent, local>>

\* The user signs up or logs in.
SendAuth ==
  /\ cpc = "menu" /\ trouble = "none"
  /\ \E c \in Calls : Sends(FullText("auth", c, 0))
  /\ cpc' = "auth"
  /\ UNCHANGED <<up, accountvars, s2c, servervars>>
  /\ UNCHANGED <<ask, rest, sent, local, told, trouble>>

\* The answer; after an "OK" one more recv is done for the menu.
ReadAuth ==
  /\ cpc = "auth"
  /\ \/ \E g \in Received(s2c, Len(s2c)) :
          /\ s2c' = Beyond(s2c, g)
          /\ cpc' = IF Says("auth_ok", g) THEN "second" ELSE "menu"
          /\ Note(TornIn(g) \cup IF Says("menu", g) THEN {"glued"} ELSE {})
     \/ AtEnd /\ cpc' = "gone" /\ UNCHANGED <<s2c, trouble>>
  /\ UNCHANGED <<up, accountvars, c2s, servervars, ask, rest, sent, local, told>>

ReadMenu ==
  /\ cpc = "second"
  /\ \/ \E g \in Received(s2c, Len(s2c)) : s2c' = Beyond(s2c, g) /\ Note(TornIn(g))
     \/ AtEnd /\ UNCHANGED <<s2c, trouble>>
  /\ Report("prompt", "none")
  /\ UNCHANGED <<up, accountvars, c2s, servervars, ask, rest, sent, local>>

\* interactive_session: the user enters a command.  A download opens the
\* local file, which empties it, or cannot open it.
SendCommand(op, p) ==
  /\ cpc = "prompt" /\ trouble = "none"
  /\ Sends(FullText(op, NoCall, Len(p)))
  /\ ask' = op /\ told' = "none" /\ rest' = p /\ sent' = p
  /\ \/ op = "upload" /\ cpc' = "sending" /\ local' = NoFile
     \/ op = "download" /\ cpc' = "download" /\ local' = <<>>
     \/ op = "download" /\ cpc' = "drain" /\ local' = NoFile
     \/ op \in {"delete", "list"} /\ cpc' = "answer" /\ local' = NoFile
  /\ UNCHANGED <<up, accountvars, s2c, servervars, trouble>>

\* handle_upload: the blocks, one send each, then the answer is waited for;
\* a send that fails ends the command.
SendBlock ==
  /\ cpc = "sending"
  /\ \/ rest = <<>> /\ cpc' = "answer" /\ UNCHANGED <<c2s, rest, told>>
     \/ /\ rest # <<>> /\ up /\ Fits(c2s, <<Head(rest)>>)
        /\ c2s' = Append(c2s, Block(Head(rest)))
        /\ rest' = Tail(rest)
        /\ UNCHANGED <<cpc, told>>
     \/ rest # <<>> /\ ~ up /\ Report("prompt", "failed") /\ UNCHANGED <<c2s, rest>>
  /\ UNCHANGED <<up, accountvars, s2c, servervars, ask, sent, local, trouble>>

\* Variant: any answer is taken for a success.
SucceedsAlways(g) == TRUE

\* handle_upload, handle_delete: the recv holds the words of a success.
Succeeds(g) ==
  \/ ask = "upload" /\ Says("upload_ok", g)
  \/ ask = "delete" /\ Says("delete_ok", g)
  \/ ask = "list" /\ Says("list", g)

ReadAnswer ==
  /\ cpc = "answer"
  /\ \/ \E g \in Received(s2c, Len(s2c)) :
          /\ s2c' = Beyond(s2c, g)
          /\ Report("prompt", IF Succeeds(g) THEN "ok" ELSE "failed")
          /\ Note(TornIn(g))
     \/ AtEnd /\ Report("prompt", "failed") /\ UNCHANGED <<s2c, trouble>>
  /\ UNCHANGED <<up, accountvars, c2s, servervars, ask, rest, sent, local>>

\* What strstr sees of a recv: everything up to the first NUL byte.
Visible(g) ==
  LET n == {i \in DOMAIN g : g[i].part = "nul"}
  IN IF n = {} THEN g ELSE SubSeq(g, 1, Min(n) - 1)

\* The word ERROR (or FAILED) is in the second half of an error text.
ErrorEnds == {Text("download_error")[2], Text("error")[2]}

\* Where the server ended the download, as far as the client sees it in a recv:
\* at the first text that ends a download, else at one that looks like an error.
EndMarkers(g) ==
  LET v == Visible(g)
      ok == At("download_ok", v)
      e == {i \in DOMAIN v : v[i] \in ErrorEnds}
  IN IF ok # {} THEN {Min(ok)} ELSE IF e # {} THEN {Min(e)} ELSE {}

\* Where a block of the file may hold the first end of a download, or, if there
\* is no such text, the word of an error.
FalseEnds(g) ==
  LET v == Visible(g)
  IN {i \in DOMAIN v : v[i].part = "word" /\ \A j \in At("download_ok", v) : i < j}

\* handle_download: up to the end marker everything is written to the file, and
\* the command has succeeded if that was something and the text found says so; a
\* block that holds such a text, and bytes before it, passes for both.
\* The buffer is not terminated: where no NUL byte stops it, the search may go
\* on into bytes that this recv has not written and find anything.
ReadDownload ==
  /\ cpc = "download"
  /\ \/ \E g \in Received(s2c, Len(s2c)) :
          /\ s2c' = Beyond(s2c, g)
          /\ \/ \E i \in EndMarkers(g) :
                  LET d == local \o Content(SubSeq(g, 1, i - 1)) IN
                  /\ local' = d
                  /\ Report("prompt",
                       IF d # <<>> /\ Says("download_ok", Visible(g))
                       THEN "ok" ELSE "failed")
                  /\ Note(TornIn(g))
             \/ \E i \in FalseEnds(g) :
                  /\ local' = local \o Content(SubSeq(g, 1, i - 1))
                  /\ \E t \in {"ok", "failed"} : Report("prompt", t)
                  /\ Note({"word"})
             \/ /\ EndMarkers(g) = {}
                /\ local' = local \o Content(g)
                /\ Note(IF \E i \in DOMAIN g : g[i].msg # "data"
                        THEN IF Visible(g) # g THEN {"nul"} ELSE {"torn"} ELSE {})
                /\ UNCHANGED <<cpc, told>>
             \/ /\ Visible(g) = g /\ ~ Says("download_ok", g)
                /\ local' = local \o Content(g)
                /\ \E t \in {"ok", "failed"} : Report("prompt", t)
                /\ Note({"stale"})
     \/ AtEnd /\ Report("prompt", "failed") /\ UNCHANGED <<s2c, local, trouble>>
  /\ UNCHANGED <<up, accountvars, c2s, servervars, ask, rest, sent>>

\* ... and when it cannot write the file it reads until it sees "DOWNLOAD" or
\* "ERROR".
DrainDownload ==
  /\ cpc = "drain"
  /\ \/ \E g \in Received(s2c, Len(s2c)) :
          LET v == Visible(g)
              word == \E i \in DOMAIN v : v[i].part = "word"
              end == \E i \in DOMAIN v :
                       \/ v[i] \in ErrorEnds
                       \/ v[i].msg \in {"download_ok", "download_error"}
              hides == v # g /\ \E i \in DOMAIN g : g[i].msg # "data"
          IN
          /\ s2c' = Beyond(s2c, g)
          /\ \/ /\ end /\ Report("prompt", "failed") /\ Note(TornIn(g))
             \/ /\ word /\ ~ end /\ Report("prompt", "failed")
                /\ Note(IF Cuts(g) THEN {"torn"} ELSE {"word"})
             \/ /\ ~ end /\ UNCHANGED <<cpc, told>>
                /\ Note(IF Cuts(g) THEN {"torn"} ELSE IF hides THEN {"nul"} ELSE {})
     \/ \E g \in Received(s2c, Len(s2c)) :
          /\ Visible(g) = g /\ s2c' = Beyond(s2c, g)
          /\ Report("prompt", "failed") /\ Note({"stale"})
     \/ AtEnd /\ Report("prompt", "failed") /\ UNCHANGED <<s2c, trouble>>
  /\ UNCHANGED <<up, accountvars, c2s, servervars, ask, rest, sent, local>>

\* The client ends: QUIT is sent if there is room, or the user kills it.
Leave ==
  /\ cpc # "gone"
  /\ \/ /\ cpc = "prompt" /\ up /\ Fits(c2s, Text("quit"))
        /\ c2s' = c2s \o Text("quit")
     \/ UNCHANGED c2s
  /\ Report("gone", "none") /\ s2c' = <<>>
  /\ ask' = "none" /\ rest' = <<>> /\ sent' = <<>> /\ local' = NoFile
  /\ UNCHANGED <<up, accountvars, servervars, trouble>>

\* What the client does without its user.
ClientStep ==
  \/ ReadWelcome \/ ReadAuth \/ ReadMenu \/ SendBlock
  \/ ReadAnswer \/ ReadDownload \/ DrainDownload

-----------------------------------------------------------------------------

Init ==
  /\ AccountsInit
  /\ up = TRUE /\ c2s = <<>> /\ s2c = <<>>
  /\ spc = "accept" /\ task = NoTask /\ out = Nothing
  /\ file = NoFile
  /\ cpc = "welcome" /\ ask = "none" /\ rest = <<>> /\ sent = <<>>
  /\ local = NoFile /\ told = "none"
  /\ trouble = "none"

\* The connection is reset; what neither end has received yet is lost.
Reset ==
  /\ up /\ cpc # "gone"
  /\ up' = FALSE /\ c2s' = <<>> /\ s2c' = <<>>
  /\ UNCHANGED <<accountvars, servervars, clientvars, trouble>>

\* The sessions on other connections.
OtherSession(s) ==
  /\ \/ \E c \in OtherCalls : Begin(s, c)
     \/ AuthStep(s) \/ Answer(s) \/ EndOfSession(s)
  /\ UNCHANGED <<up, c2s, s2c, servervars, clientvars, trouble>>

Next ==
  \/ Reset
  \/ ServerStep \/ ClientStep
  \/ SendAuth
  \/ \E p \in Payloads : SendCommand("upload", p)
  \/ \E op \in Tasks \ {"upload"} : SendCommand(op, <<>>)
  \/ Leave
  \/ \E s \in Sessions \ {Wire} : OtherSession(s)

\* The threads of both programs keep running, and what is sent arrives; what
\* the user enters, and whether, is left open.  So is whether a client thread is
\* ever free to take the connection: other clients may keep all of them.
Spec ==
  /\ Init /\ [][Next]_vars
  /\ WF_vars(ServerStep /\ spc # "accept")
  /\ WF_vars(ClientStep)

-----------------------------------------------------------------------------
(* Properties *)

Lines == {"auth", "quit"} \cup Tasks
Answers ==
  {"welcome", "busy", "menu", "bye", "error", "auth_ok", "auth_error", "upload_ok",
   "upload_error", "download_ok", "download_error", "delete_ok", "delete_error", "list", "list_error"}
Parts == Blocks \cup {"head", "tail"}
Pieces ==
  [msg : Lines \cup Answers \cup {"data"}, part : Parts, call : Calls \cup {NoCall},
   size : Nat]
Contents == Seq(Parts)

TypeOK ==
  /\ AccountsTypeOK
  /\ c2s \in Seq(Pieces) /\ s2c \in Seq(Pieces)
  /\ Len(c2s) <= Capacity /\ Len(s2c) <= Capacity
  /\ up \in BOOLEAN
  /\ spc \in {"accept", "say", "auth", "calling", "named", "files", "data", "queue",
              "work", "asleep", "end", "gone"}
  /\ task \in [op : Tasks \cup {"none"}, data : Contents, size : Nat]
  /\ Len(task.data) <= task.size
  /\ out \in [data : Contents, msg : Answers \cup {"none"},
              next : {"none", "auth", "named", "files", "end"}, ends : BOOLEAN]
  /\ file \in Contents \cup {NoFile}
  /\ cpc \in {"welcome", "menu", "auth", "second", "prompt", "sending",
              "answer", "download", "drain", "gone"}
  /\ ask \in Tasks \cup {"none"} /\ told \in {"none", "ok", "failed"}
  /\ rest \in Seq(Blocks) /\ sent \in Seq(Blocks)
  /\ local \in Contents \cup {NoFile}
  /\ trouble \in {"none", "torn", "glued", "refused", "nul", "word", "stale"}

\* Without framing both ends must agree by counting alone.  They do, unless a
\* recv returned part of a text, an upload was refused with its data under
\* way, or the client took something else for the end of a download: when the
\* client asks its user for input nothing is under way and the server is in
\* the recv for that input, with a user in exactly the file session.
InStep ==
  up /\ trouble \notin {"torn", "refused", "word", "stale"} =>
    /\ cpc \in {"menu", "prompt"} => c2s = <<>> /\ s2c = <<>>
    /\ cpc = "menu" => spc \in {"auth", "gone"} /\ who[Wire] = NoName
    /\ cpc = "prompt" => spc = "files" /\ who[Wire] # NoName

\* What the client tells its user about a command is what happened: an upload
\* reported as done is the file in storage, a download reported as done has
\* left that file on the client's disk, a deleted file is gone.  Bytes torn
\* off, hidden by a NUL or never written can make it tell wrong, and so can data
\* that one of the programs takes for a text of the other: that of an upload the
\* server had refused, and that of a file.
ToldTruly ==
  /\ trouble \in {"none", "glued"}
  /\ cpc = "prompt" /\ told = "ok"
  =>
  /\ ask = "upload" => file = sent
  /\ ask = "download" => local = file
  /\ ask = "delete" => file = NoFile

\* A client whose connection a client thread has taken, and that waits, is
\* answered or loses its connection, or its user gives up; or the response was
\* dropped and the thread sleeps for ever; or one of the causes listed here has
\* both programs wait for each other.  Full streams do not, nor an upload in
\* several pieces, a refused task, or a file that holds the words the client
\* searches for.  (A connection that breaks without a word to either end is not
\* in the model.)
Waiting ==
  cpc \in {"welcome", "auth", "second", "sending", "answer", "download", "drain"}

\* Whatever went wrong before, and wherever the client stops or the connection
\* is reset, the client thread that took it notices and is free for the next
\* connection, unless it waits for a response that has been dropped.
ThreadFreed == ClientLost /\ spc # "accept" ~> spc \in {"gone", "asleep"}
=============================================================================
