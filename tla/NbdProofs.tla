----------------------------- MODULE NbdProofs ------------------------------
(***************************************************************************)
(* Proofs about NbdClient and NbdTls, for every set of offsets and counts, *)
(* every timeout and every size of the streams.  ClientInv is what both    *)
(* clients keep, whatever the server does.  As long as no read gave up,    *)
(* StreamInv is what the client without TLS keeps, and SessionInv what the *)
(* client over TLS does.                                                   *)
(***************************************************************************)
EXTENDS NbdTls, SequenceTheorems, TLAPS

-----------------------------------------------------------------------------
(* What the streams carry. *)
Message ==
  [cmd : {"go", "starttls", "disconnect", "cut"}]
    \cup [cmd : {"read"}, offset : Nat, count : Nat]

Cell ==
  [kind : {"greeting"}, style : {"fixed newstyle", "other"}]
    \cup [kind : {"reply"}, type : {"info", "ack", "error"}]
    \cup [kind : {"info"}, info : {"export", "name", "other"}]
    \cup [kind : {"magic"}, error : BOOLEAN] \cup [kind : {"handle"}]
    \cup [kind : {"data"}, at : Nat] \cup [kind : {"ticket", "close"}]
    \cup [kind : {"clear"}, type : {"info", "ack", "name"}]

Streams ==
  /\ c2s \in Seq(Message) /\ s2c \in Seq(Cell)
  /\ head \in Seq(Cell) /\ got \in Seq(Cell)

(* n->fd and the socket, all the way to the end of main. *)
FdInv ==
  /\ pc # "exited" =>
       /\ hasfd = (sock = "open")
       /\ closes = IF sock = "closed" THEN 1 ELSE 0
  /\ pc \in {"idle"} \cup Reading \cup Writing => sock = "open"
  /\ pc = "start" => sock = "none"
  /\ pc = "exited" => sock # "open" /\ closes \in {0, 1}

(* How far a read is. *)
ReadInv ==
  /\ pc \in InRead => result = "none" /\ asked.count > 0
  /\ pc = "request" => head = <<>>
  /\ pc \in {"request", "head"} => got = <<>>
  /\ pc = "head" => Len(head) < 2
  /\ pc = "data" => Len(got) < asked.count

ClientInv == TypeOK /\ Streams /\ FdInv /\ ReadInv

-----------------------------------------------------------------------------
(* Replies to the option: descriptions, each of a reply and its text, and
   perhaps a last reply. *)
IsReply(cell, type) == cell.kind = "reply" /\ cell.type = type

Negotiation(s) ==
  \A i \in 1..Len(s) :
    \/ s[i].kind = "info" /\ (i < Len(s) => s[i + 1].kind = "reply")
    \/ IsReply(s[i], "info") /\ i < Len(s) /\ s[i + 1].kind = "info"
    \/ IsReply(s[i], "ack") /\ i = Len(s)
    \/ IsReply(s[i], "error") /\ i = Len(s)

(* The server and the streams while the client greets and negotiates. *)
GreetingInv ==
  /\ pc = "start" =>
       c2s = <<>> /\ s2c = <<>> /\ srv = "hello" /\ ~broken
  /\ pc = "greeting" => c2s = <<>>
  /\ pc = "greeting" /\ ~broken =>
       \/ srv = "hello" /\ s2c = <<>>
       \/ srv = "options" /\ s2c = <<[kind |-> "greeting", style |-> "fixed newstyle"]>>
       \/ srv = "options" /\ s2c = <<[kind |-> "greeting", style |-> "other"]>>
  /\ pc = "greeting" => Len(s2c) <= 1
  /\ pc = "option" => c2s = <<>> /\ s2c = <<>> /\ (~broken => srv = "options")

OptionInv ==
  pc \in {"reply", "export", "replies", "name"} =>
    /\ Negotiation(s2c)
    /\ s2c # <<>> => (s2c[1].kind = "info" <=> pc \in {"export", "name"})
    /\ ~broken =>
         \/ /\ pc = "reply" /\ srv = "options" /\ s2c = <<>>
            /\ c2s = <<[cmd |-> "go"]>>
         \/ /\ c2s = <<>> /\ srv = "replies"
            /\ s2c # <<>> => s2c[Len(s2c)].kind = "info"
            /\ pc \in {"export", "name"} => s2c # <<>>
         \/ c2s = <<>> /\ srv = "options" /\ s2c # <<>> /\ IsReply(s2c[Len(s2c)], "error")
         \/ c2s = <<>> /\ srv = "transmission" /\ s2c # <<>> /\ IsReply(s2c[Len(s2c)], "ack")

(* Between reads, and with a request under way. *)
Request == [cmd |-> "read", offset |-> asked.offset, count |-> asked.count]
Answer(error) == Header(error) \o (IF error THEN <<>> ELSE Cells(asked))

IdleInv ==
  pc \in {"idle", "request", "bye"} =>
    s2c = <<>> /\ (~broken => c2s = <<>> /\ srv = "transmission")

(* What has been read and what is still in the stream make up s. *)
Splits(done, rest, s) ==
  /\ Len(done) + Len(rest) = Len(s)
  /\ \A i \in 1..Len(done) : done[i] = s[i]
  /\ \A i \in 1..Len(rest) : rest[i] = s[Len(done) + i]

AnswerInv ==
  /\ pc = "head" =>
       /\ s2c # <<>> => \E error \in BOOLEAN : Splits(head, s2c, Answer(error))
       /\ ~broken =>
            /\ srv = "transmission"
            /\ \/ c2s = <<Request>> /\ s2c = <<>> /\ head = <<>>
               \/ c2s = <<>> /\ s2c # <<>>
  /\ pc = "data" =>
       /\ s2c # <<>> => Splits(got, s2c, Cells(asked))
       /\ ~broken => srv = "transmission" /\ c2s = <<>> /\ s2c # <<>>

StreamInv ==
  /\ srv = "transmission" => told
  /\ ~lost => GreetingInv /\ OptionInv /\ IdleInv /\ AnswerInv /\ ReadsRight

IInv == ClientInv /\ StreamInv

-----------------------------------------------------------------------------
(* What sending, receiving and the server do to a stream. *)
LEMMA SendTyped ==
  ASSUME TypeOK, Streams, NEW m \in Message, Send(m)
  PROVE  /\ c2s' \in Seq(Message) /\ Len(c2s') \in Nat /\ Len(c2s') <= Window
         /\ ~broken => Len(c2s') = Len(c2s) + 1 /\ c2s'[Len(c2s) + 1] = m
         /\ ~broken /\ c2s = <<>> => c2s' = <<m>>
<1>1. CASE broken
  BY <1>1, NbdAssumption DEF Send, TypeOK, Streams
<1>2. CASE ~broken
  <2>1. c2s' = Append(c2s, m) /\ Len(c2s) < Window BY <1>2 DEF Send
  <2>2. c2s' \in Seq(Message) /\ Len(c2s') = Len(c2s) + 1 /\ c2s'[Len(c2s) + 1] = m
    BY <2>1, AppendProperties DEF Streams
  <2>3. c2s = <<>> => c2s' = <<m>> BY <2>1 DEF Streams
  <2>4. Len(c2s) \in Nat BY LenProperties DEF Streams
  <2>. QED BY <1>2, <2>1, <2>2, <2>3, <2>4, NbdAssumption
<1>. QED BY <1>1, <1>2

LEMMA TailTyped ==
  ASSUME TypeOK, Streams, s2c # <<>>, s2c' = Tail(s2c)
  PROVE  /\ s2c' \in Seq(Cell) /\ Len(s2c') = Len(s2c) - 1 /\ Len(s2c') <= Buffer
         /\ Head(s2c) = s2c[1] /\ s2c[1] \in Cell /\ Len(s2c) \in Nat \ {0}
         /\ \A i \in 1..Len(s2c') : s2c'[i] = s2c[i + 1]
BY HeadTailProperties, EmptySeq, NbdAssumption DEF TypeOK, Streams

LEMMA ServerTyped ==
  ASSUME TypeOK, Streams, NEW cells \in Seq(Cell), ServerSends(cells)
  PROVE  /\ s2c' \in Seq(Cell) /\ Len(s2c') = Len(s2c) + Len(cells)
         /\ Len(s2c') <= Buffer
         /\ \A i \in 1..Len(s2c) : s2c'[i] = s2c[i]
         /\ \A i \in 1..Len(cells) : s2c'[Len(s2c) + i] = cells[i]
BY ConcatProperties, NbdAssumption DEF TypeOK, Streams, ServerSends

LEMMA TakeTyped ==
  ASSUME TypeOK, Streams, c2s # <<>>, c2s' = Tail(c2s)
  PROVE  c2s' \in Seq(Message) /\ Len(c2s') <= Window /\ Head(c2s) \in Message
BY HeadTailProperties, EmptySeq, NbdAssumption DEF TypeOK, Streams

(* The cells that a server sends. *)
LEMMA CellsTyped ==
  ASSUME NEW r, r.offset \in Nat, r.count \in Nat
  PROVE  /\ Cells(r) \in Seq(Cell) /\ Len(Cells(r)) = r.count
         /\ \A i \in 1..r.count : Cells(r)[i] = [kind |-> "data", at |-> r.offset + i - 1]
<1>1. \A i \in 1..r.count : [kind |-> "data", at |-> r.offset + i - 1] \in Cell
  BY DEF Cell
<1>. QED BY <1>1 DEF Cells

LEMMA AfterTwo ==
  ASSUME NEW S, NEW h \in Seq(S), Len(h) = 2, NEW d \in Seq(S)
  PROVE  /\ h \o d \in Seq(S) /\ Len(h \o d) = 2 + Len(d)
         /\ \A i \in 1..2 + Len(d) :
               (h \o d)[i] = IF i <= 2 THEN h[i] ELSE d[i - 2]
<1>1. Len(d) \in Nat BY LenProperties
<1>2. h \o d \in Seq(S) /\ Len(h \o d) = Len(h) + Len(d) BY ConcatProperties
<1>3. \A i \in 1..Len(h) + Len(d) :
        (h \o d)[i] = IF i <= Len(h) THEN h[i] ELSE d[i - Len(h)]
  BY ConcatProperties
<1>. QED BY <1>1, <1>2, <1>3

LEMMA AnswerTyped ==
  ASSUME NEW r, r.offset \in Nat, r.count \in Nat, NEW error \in BOOLEAN
  PROVE  LET s == Header(error) \o (IF error THEN <<>> ELSE Cells(r))
         IN  /\ s \in Seq(Cell) /\ Len(s) = IF error THEN 2 ELSE 2 + r.count
             /\ s[1] = [kind |-> "magic", error |-> error]
             /\ s[2] = [kind |-> "handle"]
             /\ ~error => \A i \in 1..r.count : s[i + 2] = Cells(r)[i]
<1>. DEFINE d == IF error THEN <<>> ELSE Cells(r)
<1>1. d \in Seq(Cell) /\ Len(d) = (IF error THEN 0 ELSE r.count) BY CellsTyped
<1>2. Header(error) \in Seq(Cell) /\ Len(Header(error)) = 2
      /\ Header(error)[1] = [kind |-> "magic", error |-> error]
      /\ Header(error)[2] = [kind |-> "handle"]
  BY DEF Header, Cell
<1>3. ~error => d = Cells(r) OBVIOUS
<1>. HIDE DEF d
<1>4. Header(error) \o d \in Seq(Cell)
      /\ Len(Header(error) \o d) = 2 + Len(d)
      /\ \A i \in 1..2 + Len(d) : (Header(error) \o d)[i] =
            IF i <= 2 THEN Header(error)[i] ELSE d[i - 2]
  BY <1>1, <1>2, AfterTwo
<1>5. (Header(error) \o d)[1] = [kind |-> "magic", error |-> error]
      /\ (Header(error) \o d)[2] = [kind |-> "handle"]
  BY <1>1, <1>2, <1>4
<1>6. ~error => \A i \in 1..r.count : (Header(error) \o d)[i + 2] = Cells(r)[i]
  BY <1>1, <1>3, <1>4
<1>7. Len(Header(error) \o d) = IF error THEN 2 ELSE 2 + r.count
  <2>1. CASE error BY <1>1, <1>4, <2>1
  <2>2. CASE ~error BY <1>1, <1>4, <2>2
  <2>. QED BY <2>1, <2>2
<1>. QED BY <1>4, <1>5, <1>6, <1>7 DEF d

-----------------------------------------------------------------------------
(* What is typed, and n->fd and the socket, are kept by every step of either
   client and of the server. *)
LEMMA StartReadKeeps ==
  ASSUME ClientInv, NEW o \in Offset, NEW n \in Count, StartRead(o, n)
  PROVE  ClientInv'
<1>1. TypeOK'
  BY NbdAssumption, SMTT(30) DEF ClientInv, TypeOK, StartRead, serverVars, Reading, Writing
<1>2. Streams' BY DEF ClientInv, Streams, StartRead
<1>3. FdInv' BY DEF ClientInv, FdInv, StartRead, serverVars, Reading, Writing
<1>4. ReadInv' BY NbdAssumption DEF ClientInv, ReadInv, StartRead, InRead
<1>. QED BY <1>1, <1>2, <1>3, <1>4 DEF ClientInv

LEMMA QuitKeeps ==
  ASSUME ClientInv, Quit \/ Abort
  PROVE  ClientInv'
<1>1. TypeOK'
  BY NbdAssumption, SMTT(30) DEF ClientInv, TypeOK, Quit, Abort, serverVars, Reading, Writing
<1>2. Streams' BY DEF ClientInv, Streams, Quit, Abort
<1>3. FdInv' BY DEF ClientInv, FdInv, Quit, Abort, Reading, Writing
<1>4. ReadInv' BY DEF ClientInv, ReadInv, Quit, Abort, InRead
<1>. QED BY <1>1, <1>2, <1>3, <1>4 DEF ClientInv

LEMMA ConnectKeeps ==
  ASSUME ClientInv, Connect
  PROVE  ClientInv'
<1>1. \/ sock' = "open" /\ hasfd' = TRUE /\ pc' = "greeting"
      \/ sock' \in {"closed", "none"} /\ hasfd' = FALSE /\ pc' = "deinit"
  BY DEF ClientInv, FdInv, Connect
<1>2. closes' = IF sock' = "closed" THEN 1 ELSE 0
  BY DEF ClientInv, FdInv, TypeOK, Connect
<1>3. left' \in 0..Patience BY NbdAssumption DEF ClientInv, TypeOK, Connect
<1>4. closes' \in Nat BY <1>2
<1>5. TypeOK'
  BY <1>1, <1>3, <1>4 DEF ClientInv, TypeOK, Connect, serverVars, Reading, Writing
<1>6. Streams' BY DEF ClientInv, Streams, Connect
<1>7. FdInv' BY <1>1, <1>2 DEF FdInv, Reading, Writing
<1>8. ReadInv' BY <1>1 DEF ReadInv, InRead
<1>. QED BY <1>5, <1>6, <1>7, <1>8 DEF ClientInv

(* A cell of the negotiation is read. *)
LEMMA ReplyKeeps ==
  ASSUME ClientInv, pc \in Reading, s2c' \in Seq(Cell), Len(s2c') <= Buffer,
         pc' \in {pc, "option", "export", "replies", "name", "idle", "deinit"},
         UNCHANGED <<left, hasfd, sock, closes, asked, head, got, result, lost,
                     c2s, broken, serverVars>>
  PROVE  ClientInv'
<1>1. TypeOK' BY DEF ClientInv, TypeOK, serverVars, Reading, Writing
<1>2. Streams' BY DEF ClientInv, Streams
<1>3. FdInv' BY DEF ClientInv, FdInv, Reading, Writing
<1>4. ReadInv' BY DEF ClientInv, ReadInv, InRead
<1>. QED BY <1>1, <1>2, <1>3, <1>4 DEF ClientInv

LEMMA NegotiateKeeps ==
  ASSUME ClientInv, pc \in Reading, s2c # <<>>, s2c' = Tail(s2c),
         pc' \in {pc, "option", "export", "replies", "name", "idle", "deinit"},
         UNCHANGED <<left, hasfd, sock, closes, asked, head, got, result, lost,
                     c2s, broken, serverVars>>
  PROVE  ClientInv'
<1>1. s2c' \in Seq(Cell) /\ Len(s2c') <= Buffer BY TailTyped DEF ClientInv
<1>. QED BY <1>1, ReplyKeeps

(* An option is sent, or the handshake ends. *)
LEMMA OptionKeeps ==
  ASSUME ClientInv, pc = "option", pc' \in {"option", "reply", "deinit"},
         c2s' \in Seq(Message), Len(c2s') <= Window,
         UNCHANGED <<left, hasfd, sock, closes, asked, head, got, result, lost,
                     s2c, broken, serverVars>>
  PROVE  ClientInv'
<1>1. TypeOK' BY DEF ClientInv, TypeOK, serverVars, Reading, Writing
<1>2. Streams' BY DEF ClientInv, Streams
<1>3. FdInv' BY DEF ClientInv, FdInv, Reading, Writing
<1>4. ReadInv' BY DEF ClientInv, ReadInv, InRead
<1>. QED BY <1>1, <1>2, <1>3, <1>4 DEF ClientInv

LEMMA SendOptionKeeps ==
  ASSUME ClientInv, SendOption
  PROVE  ClientInv'
<1>1. c2s' \in Seq(Message) /\ Len(c2s') <= Window
  BY SendTyped DEF ClientInv, SendOption, Message
<1>. QED BY <1>1, OptionKeeps DEF SendOption

LEMMA SendRequestKeeps ==
  ASSUME ClientInv, SendRequest
  PROVE  ClientInv'
<1>1. [cmd |-> "read", offset |-> asked.offset, count |-> asked.count] \in Message
  BY DEF ClientInv, TypeOK, Message
<1>2. c2s' \in Seq(Message) /\ Len(c2s') <= Window
  BY <1>1, SendTyped DEF ClientInv, SendRequest
<1>3. TypeOK'
  BY <1>2 DEF ClientInv, TypeOK, SendRequest, serverVars, Reading, Writing
<1>4. Streams' BY <1>2 DEF ClientInv, Streams, SendRequest
<1>5. FdInv' BY DEF ClientInv, FdInv, SendRequest, Reading, Writing
<1>6. ReadInv'
  BY DEF ClientInv, ReadInv, SendRequest, InRead
<1>. QED BY <1>3, <1>4, <1>5, <1>6 DEF ClientInv

LEMMA TakeHeadKeeps ==
  ASSUME ClientInv, TakeHead, s2c # <<>>, s2c' = Tail(s2c), left' = left
  PROVE  ClientInv'
<1>2. s2c' \in Seq(Cell) /\ Len(s2c') <= Buffer /\ Head(s2c) \in Cell
  BY TailTyped DEF ClientInv
<1>3. head' \in Seq(Cell) /\ Len(head') = Len(head) + 1
  BY <1>2, AppendProperties DEF ClientInv, Streams, TakeHead
<1>4. Len(head) \in Nat BY LenProperties DEF ClientInv, Streams
<1>5. Len(head') <= 2 BY <1>3, <1>4 DEF ClientInv, ReadInv, TakeHead
<1>6. /\ pc' \in {"head", "data", "idle"} /\ result' \in {"none", "failed"}
      /\ pc' # "idle" => result' = "none"
      /\ pc' = "head" => Len(head') < 2
  BY DEF ClientInv, ReadInv, TakeHead, InRead
<1>7. TypeOK'
  BY <1>2, <1>5, <1>6 DEF ClientInv, TypeOK, TakeHead, serverVars, Reading, Writing
<1>8. Streams' BY <1>2, <1>3 DEF ClientInv, Streams, TakeHead
<1>9. FdInv' BY <1>6 DEF ClientInv, FdInv, TakeHead, Reading, Writing
<1>10. ReadInv'
  BY <1>6, EmptySeq DEF ClientInv, ReadInv, TakeHead, InRead, TypeOK
<1>. QED BY <1>7, <1>8, <1>9, <1>10 DEF ClientInv

LEMMA TakeDataKeeps ==
  ASSUME ClientInv, TakeData, s2c # <<>>, s2c' = Tail(s2c), left' = left
  PROVE  ClientInv'
<1>2. s2c' \in Seq(Cell) /\ Len(s2c') <= Buffer /\ Head(s2c) \in Cell
  BY TailTyped DEF ClientInv
<1>3. got' \in Seq(Cell) /\ Len(got') = Len(got) + 1
  BY <1>2, AppendProperties DEF ClientInv, Streams, TakeData
<1>4. Len(got) \in Nat BY LenProperties DEF ClientInv, Streams
<1>5. asked.count \in Nat BY DEF ClientInv, TypeOK
<1>6. Len(got') <= asked.count
  BY <1>3, <1>4, <1>5 DEF ClientInv, ReadInv, TakeData
<1>7. /\ pc' \in {"data", "idle"} /\ result' \in {"none", "ok"}
      /\ pc' # "idle" => result' = "none" /\ Len(got') # asked.count
  BY DEF ClientInv, ReadInv, TakeData, InRead, Complete
<1>8. TypeOK'
  BY <1>2, <1>6, <1>7 DEF ClientInv, TypeOK, TakeData, serverVars, Reading, Writing
<1>9. Streams' BY <1>2, <1>3 DEF ClientInv, Streams, TakeData
<1>10. FdInv' BY <1>7 DEF ClientInv, FdInv, TakeData, Reading, Writing
<1>11. ReadInv'
  BY <1>3, <1>4, <1>5, <1>6, <1>7 DEF ClientInv, ReadInv, TakeData, InRead
<1>. QED BY <1>8, <1>9, <1>10, <1>11 DEF ClientInv

(* The end of the run, the error paths and the clock. *)
LEMMA SendByeKeeps ==
  ASSUME ClientInv, SendBye
  PROVE  ClientInv'
<1>1. c2s' \in Seq(Message) /\ Len(c2s') <= Window
  BY SendTyped DEF ClientInv, SendBye, Message
<1>2. pc = "bye" /\ pc' = "deinit" /\ sock' = "closed" BY DEF SendBye
<1>3. hasfd' = FALSE BY DEF SendBye, ForgetFd
<1>4. hasfd' \in BOOLEAN BY <1>3
<1>5. sock = "open" BY <1>2 DEF ClientInv, FdInv, Writing
<1>6. closes' = 1 BY <1>2, <1>5 DEF ClientInv, FdInv, SendBye
<1>7. TypeOK'
  <2>1. /\ UNCHANGED <<left, asked, head, got, result, lost, s2c, broken, srv, told>>
    BY DEF SendBye, serverVars
  <2>. QED BY <1>1, <1>2, <1>4, <1>6, <2>1 DEF ClientInv, TypeOK, Reading, Writing
<1>8. Streams' BY <1>1 DEF ClientInv, Streams, SendBye
<1>9. FdInv' BY <1>2, <1>3, <1>6 DEF FdInv, Reading, Writing
<1>10. ReadInv' BY <1>2 DEF ReadInv, InRead
<1>. QED BY <1>7, <1>8, <1>9, <1>10 DEF ClientInv

LEMMA DeinitKeeps ==
  ASSUME ClientInv, Deinit
  PROVE  ClientInv'
<1>1. pc = "deinit" /\ pc' = "exited" BY DEF Deinit
<1>2. sock' \in {"closed", "none"} /\ closes' \in {0, 1}
  <2>1. CASE hasfd
    <3>1. sock = "open" BY <1>1, <2>1 DEF ClientInv, FdInv
    <3>2. closes = 0 BY <1>1, <3>1 DEF ClientInv, FdInv
    <3>. QED BY <2>1, <3>2 DEF Deinit
  <2>2. CASE ~hasfd
    <3>1. sock # "open" BY <1>1, <2>2 DEF ClientInv, FdInv
    <3>2. sock \in {"closed", "none"} BY <1>1, <3>1 DEF ClientInv, FdInv, TypeOK
    <3>3. closes \in {0, 1} BY <1>1, <3>2 DEF ClientInv, FdInv
    <3>. QED BY <2>2, <3>2, <3>3 DEF Deinit
  <2>. QED BY <2>1, <2>2
<1>3. TypeOK'
  BY <1>1, <1>2 DEF ClientInv, TypeOK, Deinit, serverVars, Reading, Writing
<1>4. Streams' BY DEF ClientInv, Streams, Deinit
<1>5. FdInv' BY <1>1, <1>2 DEF FdInv, Reading, Writing
<1>6. ReadInv' BY <1>1 DEF ReadInv, InRead
<1>. QED BY <1>3, <1>4, <1>5, <1>6 DEF ClientInv

LEMMA FailCallKeeps ==
  ASSUME ClientInv, FailCall, pc \in Reading \cup Writing,
         c2s' \in Seq(Message), Len(c2s') <= Window,
         s2c' \in Seq(Cell), Len(s2c') <= Buffer,
         UNCHANGED <<left, hasfd, sock, closes, asked, head, got, broken, serverVars>>
  PROVE  ClientInv'
<1>1. pc' \in {"idle", "deinit"} /\ result' \in {"none", "ok", "failed"}
  BY DEF FailCall, ClientInv, TypeOK
<1>2. lost' \in BOOLEAN BY DEF FailCall, ClientInv, TypeOK
<1>3. TypeOK'
  BY <1>1, <1>2 DEF ClientInv, TypeOK, serverVars, Reading, Writing
<1>4. Streams' BY DEF ClientInv, Streams
<1>5. FdInv' BY <1>1 DEF ClientInv, FdInv, Reading, Writing
<1>6. ReadInv' BY <1>1 DEF ReadInv, InRead
<1>. QED BY <1>3, <1>4, <1>5, <1>6 DEF ClientInv

LEMMA GiveUpKeeps ==
  ASSUME ClientInv, NEW nothing \in BOOLEAN, GiveUpOn(nothing)
  PROVE  ClientInv'
<1>1. c2s' \in Seq(Message) /\ Len(c2s') <= Window
  <2>1. CASE UNCHANGED c2s BY <2>1 DEF ClientInv, TypeOK, Streams
  <2>2. CASE Len(c2s) < Window /\ c2s' = Append(c2s, [cmd |-> "cut"])
    <3>1. [cmd |-> "cut"] \in Message BY DEF Message
    <3>2. c2s' \in Seq(Message) /\ Len(c2s') = Len(c2s) + 1
      BY <2>2, <3>1, AppendProperties DEF ClientInv, Streams
    <3>3. Len(c2s) \in Nat BY LenProperties DEF ClientInv, Streams
    <3>. QED BY <2>2, <3>2, <3>3, NbdAssumption
  <2>. QED BY <2>1, <2>2 DEF GiveUpOn
<1>2. pc \in Reading \cup Writing /\ FailCall
      /\ UNCHANGED <<left, hasfd, sock, closes, asked, head, got, s2c, broken,
                     serverVars>>
  BY DEF GiveUpOn
<1>3. s2c' \in Seq(Cell) /\ Len(s2c') <= Buffer
  BY <1>2 DEF ClientInv, TypeOK, Streams
<1>. QED BY <1>1, <1>2, <1>3, FailCallKeeps

LEMMA KilledKeeps ==
  ASSUME ClientInv, Killed
  PROVE  ClientInv'
<1>1. pc \in Writing /\ pc' = "exited" /\ sock' = "closed" BY DEF Killed
<1>2. sock = "open" BY <1>1 DEF ClientInv, FdInv
<1>3. closes = 0 /\ closes' = closes BY <1>1, <1>2 DEF ClientInv, FdInv, Killed, Writing
<1>4. TypeOK'
  BY <1>1 DEF ClientInv, TypeOK, Killed, serverVars, Reading, Writing
<1>5. Streams' BY DEF ClientInv, Streams, Killed
<1>6. FdInv' BY <1>1, <1>3 DEF FdInv, Reading, Writing
<1>7. ReadInv' BY <1>1 DEF ReadInv, InRead
<1>. QED BY <1>4, <1>5, <1>6, <1>7 DEF ClientInv

LEMMA TickKeeps ==
  ASSUME ClientInv, Tick
  PROVE  ClientInv'
<1>1. left' \in 0..Patience BY NbdAssumption DEF ClientInv, TypeOK, Tick
<1>2. TypeOK' BY <1>1 DEF ClientInv, TypeOK, Tick, serverVars
<1>3. Streams' BY DEF ClientInv, Streams, Tick
<1>4. FdInv' BY DEF ClientInv, FdInv, Tick
<1>5. ReadInv' BY DEF ClientInv, ReadInv, Tick
<1>. QED BY <1>2, <1>3, <1>4, <1>5 DEF ClientInv

(* The server: its steps leave the client's variables alone. *)
LEMMA ServerKeeps ==
  ASSUME ClientInv, UNCHANGED clientVars,
         c2s' \in Seq(Message), Len(c2s') <= Window,
         s2c' \in Seq(Cell), Len(s2c') <= Buffer,
         broken' \in BOOLEAN, told' \in BOOLEAN,
         srv' \in {"hello", "options", "replies", "transmission"}
  PROVE  ClientInv'
<1>1. TypeOK' BY DEF ClientInv, TypeOK, clientVars
<1>2. Streams' BY DEF ClientInv, Streams, clientVars
<1>3. FdInv' BY DEF ClientInv, FdInv, clientVars
<1>4. ReadInv' BY DEF ClientInv, ReadInv, clientVars
<1>. QED BY <1>1, <1>2, <1>3, <1>4 DEF ClientInv

LEMMA SendsKeep ==
  ASSUME ClientInv, NEW cells \in Seq(Cell), ServerSends(cells),
         c2s' = c2s \/ (c2s # <<>> /\ c2s' = Tail(c2s)), told' \in BOOLEAN,
         srv' \in {"hello", "options", "replies", "transmission"}
  PROVE  ClientInv'
<1>1. c2s' \in Seq(Message) /\ Len(c2s') <= Window
  BY TakeTyped DEF ClientInv, TypeOK, Streams
<1>2. s2c' \in Seq(Cell) /\ Len(s2c') <= Buffer BY ServerTyped DEF ClientInv
<1>3. UNCHANGED clientVars /\ broken' \in BOOLEAN
  BY DEF ServerSends, ClientInv, TypeOK
<1>. QED BY <1>1, <1>2, <1>3, ServerKeeps

LEMMA DisconnectKeeps ==
  ASSUME ClientInv, NEW received \in Seq(Cell), Len(received) <= Buffer,
         DisconnectFrom(received)
  PROVE  ClientInv'
<1>1. s2c' \in Seq(Cell) /\ Len(s2c') <= Buffer
  <2>1. CASE s2c' = s2c BY <2>1 DEF ClientInv, TypeOK, Streams
  <2>2. CASE s2c' = received BY <2>2
  <2>. QED BY <2>1, <2>2 DEF DisconnectFrom
<1>2. UNCHANGED <<clientVars, c2s, told, srv>> BY DEF DisconnectFrom, serverVars
<1>3. broken' \in BOOLEAN BY DEF DisconnectFrom
<1>4. /\ c2s' \in Seq(Message) /\ Len(c2s') <= Window /\ told' \in BOOLEAN
      /\ srv' \in {"hello", "options", "replies", "transmission"}
  BY <1>2 DEF ClientInv, TypeOK, Streams
<1>. QED BY <1>1, <1>2, <1>3, <1>4, ServerKeeps

(* What it sends has the type of the stream. *)
LEMMA RepliesTyped ==
  /\ \A style \in {"fixed newstyle", "other"} :
       <<[kind |-> "greeting", style |-> style]>> \in Seq(Cell)
  /\ \A type \in {"info", "ack", "error"} :
       <<[kind |-> "reply", type |-> type]>> \in Seq(Cell)
  /\ \A info \in {"export", "name", "other"} :
       <<[kind |-> "reply", type |-> "info"],
         [kind |-> "info", info |-> info]>> \in Seq(Cell)
  /\ \A kind \in {"ticket", "close"} : <<[kind |-> kind]>> \in Seq(Cell)
  /\ \A type \in {"info", "ack", "name"} :
       <<[kind |-> "clear", type |-> type]>> \in Seq(Cell)
BY DEF Cell

(* Every step of NbdClient. *)
LEMMA NextKeeps ==
  ASSUME ClientInv, Next
  PROVE  ClientInv'
<1>1. CASE Caller
  BY <1>1, StartReadKeeps, QuitKeeps DEF Caller
<1>2. CASE ReadGreeting \/ ReadReply \/ ReadExport \/ ReadReplies \/ ReadName
  <2>1. pc \in Reading /\ s2c # <<>> /\ s2c' = Tail(s2c) /\ left' = left
    BY <1>2 DEF ReadGreeting, ReadReply, ReadExport, ReadReplies, ReadName,
                Negotiate, Judge, Receive, Reading
  <2>2. UNCHANGED <<hasfd, sock, closes, asked, head, got, result, lost, c2s,
                    broken, serverVars>>
    BY <1>2 DEF ReadGreeting, ReadReply, ReadExport, ReadReplies, ReadName,
                Negotiate, Judge
  <2>3. pc' \in {"option", "export", "replies", "name", "idle", "deinit"}
    BY <1>2 DEF ReadGreeting, ReadReply, ReadExport, ReadReplies, ReadName,
                Negotiate, Judge, AfterExport
  <2>. QED BY <2>1, <2>2, <2>3, NegotiateKeeps
<1>3. CASE Client /\ ~(ReadGreeting \/ ReadReply \/ ReadExport \/ ReadReplies \/ ReadName)
  <2>1. CASE ReadHead BY <2>1, TakeHeadKeeps DEF ReadHead, Receive
  <2>2. CASE ReadData BY <2>2, TakeDataKeeps DEF ReadData, Receive
  <2>3. CASE GiveUp BY <2>3, GiveUpKeeps DEF GiveUp
  <2>. QED BY <1>3, <2>1, <2>2, <2>3, ConnectKeeps, SendOptionKeeps,
              SendRequestKeeps, SendByeKeeps, DeinitKeeps DEF Client
<1>4. CASE Killed \/ Tick
  BY <1>4, KilledKeeps, TickKeeps
<1>5. CASE Server
  <2>1. ASSUME NEW style \in {"fixed newstyle", "other"}, Greet(style)
        PROVE  ClientInv'
    BY <2>1, RepliesTyped, SendsKeep DEF Greet, ClientInv, TypeOK
  <2>2. CASE TakeOption
    <3>1. c2s' \in Seq(Message) /\ Len(c2s') <= Window
      BY <2>2, TakeTyped DEF ClientInv, TakeOption
    <3>. QED BY <2>2, <3>1, ServerKeeps DEF TakeOption, ClientInv, TypeOK, Streams
  <2>3. ASSUME NEW info \in {"export", "name", "other"}, Inform(info)
        PROVE  ClientInv'
    <3>1. told' \in BOOLEAN BY <2>3 DEF Inform, ClientInv, TypeOK
    <3>. QED BY <2>3, <3>1, RepliesTyped, SendsKeep DEF Inform, ClientInv, TypeOK
  <2>4. CASE Refuse \/ Acknowledge
    BY <2>4, RepliesTyped, SendsKeep DEF Refuse, Acknowledge, ClientInv, TypeOK
  <2>5. ASSUME NEW error \in BOOLEAN, Serve(error)
        PROVE  ClientInv'
    <3>1. Head(c2s) \in Message /\ Head(c2s).cmd = "read"
      BY <2>5, TakeTyped DEF Serve, ClientInv
    <3>2. Head(c2s).offset \in Nat /\ Head(c2s).count \in Nat
      BY <3>1 DEF Message
    <3>3. (Header(error) \o (IF error THEN <<>> ELSE Cells(Head(c2s)))) \in Seq(Cell)
      BY <3>2, AnswerTyped
    <3>4. /\ told' \in BOOLEAN /\ c2s # <<>> /\ c2s' = Tail(c2s)
          /\ srv' \in {"hello", "options", "replies", "transmission"}
      BY <2>5 DEF Serve, serverVars, ClientInv, TypeOK
    <3>. QED BY <2>5, <3>3, <3>4, SendsKeep DEF Serve
  <2>6. CASE Disconnect
    <3>1. <<>> \in Seq(Cell) /\ Len(<<>>) <= Buffer BY NbdAssumption
    <3>. QED BY <2>6, <3>1, DisconnectKeeps DEF Disconnect
  <2>. QED BY <1>5, <2>1, <2>2, <2>3, <2>4, <2>5, <2>6 DEF Server
<1>. QED BY <1>1, <1>2, <1>3, <1>4, <1>5 DEF Next

LEMMA StutterKeeps ==
  ASSUME ClientInv, UNCHANGED vars
  PROVE  ClientInv'
BY DEF ClientInv, TypeOK, Streams, FdInv, ReadInv, vars, clientVars, serverVars

LEMMA InitClient == Init => ClientInv
<1>. SUFFICES ASSUME Init PROVE ClientInv OBVIOUS
<1>1. TypeOK
  <2>1. Len(head) = 0 /\ Len(got) = 0 /\ Len(c2s) = 0 /\ Len(s2c) = 0 BY DEF Init
  <2>2. hasfd \in BOOLEAN /\ broken \in BOOLEAN /\ told \in BOOLEAN /\ lost \in BOOLEAN
    BY DEF Init
  <2>3. asked \in [offset : Nat, count : Nat] /\ asked.count = 0 BY DEF Init
  <2>4. left \in 0..Patience BY NbdAssumption DEF Init
  <2>5. pc = "start" /\ sock = "none" /\ closes = 0 /\ result = "none" /\ srv = "hello"
    BY DEF Init
  <2>. QED BY <2>1, <2>2, <2>3, <2>4, <2>5, NbdAssumption DEF TypeOK
<1>2. Streams BY DEF Init, Streams
<1>3. FdInv BY DEF Init, FdInv, Reading, Writing
<1>4. ReadInv BY DEF Init, ReadInv, InRead
<1>. QED BY <1>1, <1>2, <1>3, <1>4 DEF ClientInv

-----------------------------------------------------------------------------
(* The client over TLS: what is decrypted already is a part of the stream. *)
PendingInv ==
  /\ pending \in 0..Len(s2c)
  /\ stage \in {"clear", "asked", "handshake"} => pending = 0
  /\ pc \in {"start", "greeting"} => stage = "clear"

(* A cell is taken from the session or from the socket. *)
LEMMA SocketTyped ==
  ASSUME TypeOK, Streams, PendingInv, ReceiveSocket
  PROVE  /\ s2c' \in Seq(Cell) /\ Len(s2c') = Len(s2c) - 1 /\ Len(s2c') <= Buffer
         /\ \A i \in 1..Len(s2c') : \E j \in 1..Len(s2c) : s2c'[i] = s2c[j]
         /\ pending' \in 0..Len(s2c') /\ s2c # <<>>
<1>1. /\ pending \in Nat /\ Len(s2c) \in Nat /\ pending < Len(s2c)
      /\ s2c \in Seq(Cell) /\ s2c' = RemoveAt(s2c, pending + 1)
      /\ pending' = pending
  BY LenProperties DEF PendingInv, Streams, ReceiveSocket
<1>2. pending + 1 \in 1..Len(s2c) BY <1>1
<1>. DEFINE a == SubSeq(s2c, 1, pending)
            b == SubSeq(s2c, (pending + 1) + 1, Len(s2c))
<1>3. s2c' = a \o b
  <2>1. (pending + 1) - 1 = pending BY <1>1
  <2>. QED BY <1>1, <2>1 DEF RemoveAt
<1>4. a \in Seq(Cell) /\ Len(a) = pending /\ \A i \in 1..pending : a[i] = s2c[i]
  BY <1>1, SubSeqProperties
<1>5. /\ b \in Seq(Cell) /\ Len(b) = Len(s2c) - (pending + 1)
      /\ \A i \in 1..Len(b) : b[i] = s2c[pending + 1 + i]
  <2>1. CASE pending + 1 = Len(s2c) BY <1>1, <2>1, SubSeqProperties
  <2>2. CASE pending + 1 # Len(s2c) BY <1>1, <2>2, SubSeqProperties
  <2>. QED BY <2>1, <2>2
<1>. HIDE DEF a, b
<1>6. /\ s2c' \in Seq(Cell) /\ Len(s2c') = Len(a) + Len(b)
      /\ \A i \in 1..Len(a) + Len(b) :
           s2c'[i] = IF i <= Len(a) THEN a[i] ELSE b[i - Len(a)]
  BY <1>3, <1>4, <1>5, ConcatProperties
<1>7. Len(s2c') = Len(s2c) - 1
  <2>1. pending \in Nat /\ Len(s2c) \in Nat BY <1>1
  <2>2. Len(s2c') = pending + (Len(s2c) - (pending + 1))
    <3>1. Len(s2c') = Len(a) + Len(b) BY <1>6
    <3>2. Len(a) = pending /\ Len(b) = Len(s2c) - (pending + 1) BY <1>4, <1>5
    <3>. QED BY <3>1, <3>2, Zenon
  <2>. QED BY <2>1, <2>2
<1>8. ASSUME NEW i \in 1..Len(s2c')
      PROVE  \E j \in 1..Len(s2c) : s2c'[i] = s2c[j]
  <2>1. CASE i <= pending
    <3>1. s2c'[i] = s2c[i] /\ i \in 1..Len(s2c) BY <1>1, <1>4, <1>6, <1>7, <2>1
    <3>. QED BY <3>1
  <2>2. CASE i > pending
    <3>1. i - pending \in 1..Len(b) BY <1>1, <1>5, <1>7, <2>2
    <3>2. s2c'[i] = b[i - pending] BY <1>1, <1>4, <1>6, <1>7, <2>2
    <3>3. s2c'[i] = s2c[pending + 1 + (i - pending)] BY <1>5, <3>1, <3>2
    <3>4. pending + 1 + (i - pending) \in 1..Len(s2c) BY <1>1, <1>7, <2>2
    <3>. QED BY <3>3, <3>4
  <2>. QED BY <1>1, <2>1, <2>2
<1>9. Len(s2c) <= Buffer /\ s2c # <<>> BY <1>1 DEF TypeOK
<1>. QED BY <1>1, <1>6, <1>7, <1>8, <1>9, NbdAssumption

LEMMA SessionTyped ==
  ASSUME TypeOK, Streams, PendingInv, ReceiveTls
  PROVE  /\ s2c # <<>> /\ s2c' = Tail(s2c) /\ left' = left
         /\ stage = "session" /\ IsData(Head(s2c))
         /\ pending' \in 0..Len(s2c')
<1>1. /\ s2c # <<>> /\ s2c' = Tail(s2c) /\ left' = left
      /\ stage = "session" /\ IsData(Head(s2c))
      /\ NextRecord \/ (pending > 0 /\ pending' = pending - 1)
  BY DEF ReceiveTls
<1>2. Len(s2c') = Len(s2c) - 1 /\ Len(s2c) \in Nat BY <1>1, TailTyped
<1>3. pending' \in 0..Len(s2c) - 1
  BY <1>1, <1>2 DEF NextRecord, PendingInv
<1>. QED BY <1>1, <1>2, <1>3

LEMMA DecryptedTyped ==
  ASSUME TypeOK, Streams, PendingInv
  PROVE  LET s == SubSeq(s2c, 1, pending)
         IN  /\ s \in Seq(Cell) /\ Len(s) = pending /\ Len(s) <= Buffer
             /\ \A i \in 1..Len(s) : s[i] = s2c[i]
<1>1. s2c \in Seq(Cell) /\ Len(s2c) \in Nat /\ Len(s2c) <= Buffer /\ pending \in 0..Len(s2c)
  BY LenProperties DEF TypeOK, Streams, PendingInv
<1>. QED BY <1>1, SubSeqProperties, NbdAssumption

(* Every step of the client over TLS. *)
LEMMA TlsClientKeeps ==
  ASSUME ClientInv, PendingInv, TlsClient
  PROVE  ClientInv'
<1>. DEFINE same == UNCHANGED <<left, hasfd, sock, closes, asked, head, got,
                                result, lost, c2s, broken, serverVars>>
<1>1. CASE ReadGreeting \/ ReadTlsReply \/ SkipRecord
  <2>1. pc \in Reading /\ s2c # <<>> /\ s2c' = Tail(s2c) /\ left' = left
    BY <1>1 DEF ReadGreeting, ReadTlsReply, SkipRecord, Negotiate, Judge,
                Receive, Reading
  <2>2. same
    BY <1>1 DEF ReadGreeting, ReadTlsReply, SkipRecord, Negotiate, Judge, Receive
  <2>3. pc' \in {pc, "option", "deinit"}
    BY <1>1 DEF ReadGreeting, ReadTlsReply, SkipRecord, Negotiate, Judge
  <2>. QED BY <2>1, <2>2, <2>3, NegotiateKeeps
<1>2. CASE SendStartTls
  <2>1. [cmd |-> "starttls"] \in Message BY DEF Message
  <2>2. c2s' \in Seq(Message) /\ Len(c2s') <= Window
    BY <1>2, <2>1, SendTyped DEF ClientInv, SendStartTls
  <2>3. pc = "option" /\ pc' = "reply"
        /\ UNCHANGED <<left, hasfd, sock, closes, asked, head, got, result, lost,
                       s2c, broken, serverVars>>
    BY <1>2 DEF SendStartTls
  <2>. QED BY <2>2, <2>3, OptionKeeps
<1>3. CASE Handshake
  <2>1. pc = "option" /\ pc' \in {"option", "deinit"}
        /\ UNCHANGED <<left, hasfd, sock, closes, asked, head, got, result, lost,
                       c2s, s2c, broken, serverVars>>
    BY <1>3 DEF Handshake
  <2>. QED BY <2>1, OptionKeeps DEF ClientInv, TypeOK, Streams
<1>4. CASE TlsReadReply \/ TlsReadExport \/ ReadSession
  <2>1. ReceiveTls BY <1>4 DEF TlsReadReply, TlsReadExport, ReadSession
  <2>2. s2c # <<>> /\ s2c' = Tail(s2c) /\ left' = left
    BY <2>1, SessionTyped DEF ClientInv
  <2>3. pc \in Reading /\ pc' \in {"export", "replies", "deinit"}
    BY <1>4 DEF TlsReadReply, TlsReadExport, ReadSession, Judge, AfterExport, Reading
  <2>4. UNCHANGED <<hasfd, sock, closes, asked, head, got, result, lost, c2s,
                    broken, serverVars>>
    BY <1>4 DEF TlsReadReply, TlsReadExport, ReadSession, Judge
  <2>. QED BY <2>2, <2>3, <2>4, NegotiateKeeps
<1>5. CASE ReadSocket \/ ReadSocketName
  <2>1. ReceiveSocket BY <1>5 DEF ReadSocket, ReadSocketName
  <2>2. s2c' \in Seq(Cell) /\ Len(s2c') <= Buffer BY <2>1, SocketTyped DEF ClientInv
  <2>3. pc \in Reading /\ pc' \in {"name", "replies", "idle", "deinit"}
    BY <1>5 DEF ReadSocket, ReadSocketName, Judge, Reading
  <2>4. same
    <3>1. left' = left BY <2>1 DEF ReceiveSocket
    <3>. QED BY <1>5, <3>1 DEF ReadSocket, ReadSocketName, Judge
  <2>. QED BY <2>2, <2>3, <2>4, ReplyKeeps
<1>6. CASE TlsReadHead
  <2>1. ReceiveTls BY <1>6 DEF TlsReadHead
  <2>2. s2c # <<>> /\ s2c' = Tail(s2c) /\ left' = left
    BY <2>1, SessionTyped DEF ClientInv
  <2>3. CASE TakeHead BY <2>2, <2>3, TakeHeadKeeps
  <2>4. CASE ~TakeHead
    <3>1. /\ pc = "head" /\ FailCall
          /\ UNCHANGED <<hasfd, sock, closes, asked, head, got, c2s, broken, serverVars>>
      BY <1>6, <2>4 DEF TlsReadHead
    <3>2. s2c' \in Seq(Cell) /\ Len(s2c') <= Buffer BY <2>2, TailTyped DEF ClientInv
    <3>3. c2s' \in Seq(Message) /\ Len(c2s') <= Window
      BY <3>1 DEF ClientInv, TypeOK, Streams
    <3>4. pc \in Reading \cup Writing BY <3>1 DEF Reading
    <3>. QED BY <2>2, <3>1, <3>2, <3>3, <3>4, FailCallKeeps
  <2>. QED BY <2>3, <2>4
<1>7. CASE TlsReadData
  <2>1. ReceiveTls /\ TakeData BY <1>7 DEF TlsReadData
  <2>. QED BY <2>1, SessionTyped, TakeDataKeeps DEF ClientInv
<1>8. CASE BadRecord \/ InvalidSession
  <2>1. s2c' \in Seq(Cell) /\ Len(s2c') <= Buffer
    <3>1. CASE s2c' = s2c BY <3>1 DEF ClientInv, TypeOK, Streams
    <3>2. CASE s2c # <<>> /\ s2c' = Tail(s2c) BY <3>2, TailTyped DEF ClientInv
    <3>. QED BY <1>8, <3>1, <3>2 DEF BadRecord, InvalidSession, Receive
  <2>2. /\ pc \in Reading \cup Writing /\ FailCall
        /\ UNCHANGED <<left, hasfd, sock, closes, asked, head, got, c2s, broken,
                       serverVars>>
    BY <1>8 DEF BadRecord, InvalidSession, Receive
  <2>3. c2s' \in Seq(Message) /\ Len(c2s') <= Window
    BY <2>2 DEF ClientInv, TypeOK, Streams
  <2>. QED BY <2>1, <2>2, <2>3, FailCallKeeps
<1>9. CASE TlsGiveUp
  BY <1>9, GiveUpKeeps DEF TlsGiveUp
<1>10. CASE Connect \/ Deinit \/ SendGo \/ TlsSendRequest \/ TlsSendBye
  BY <1>10, ConnectKeeps, DeinitKeeps, SendOptionKeeps, SendRequestKeeps,
     SendByeKeeps DEF SendGo, TlsSendRequest, TlsSendBye
<1>. QED BY <1>1, <1>2, <1>3, <1>4, <1>5, <1>6, <1>7, <1>8, <1>9, <1>10
         DEF TlsClient

LEMMA TlsServerKeeps ==
  ASSUME ClientInv, PendingInv, TlsServer
  PROVE  ClientInv'
<1>1. CASE (\E style \in {"fixed newstyle", "other"} : Greet(style)) \/ InSession
  <2>1. Next BY <1>1 DEF Next, Server, InSession
  <2>. QED BY <2>1, NextKeeps
<1>2. ASSUME NEW type \in {"ack", "error"}, TakeStartTls(type)
      PROVE  ClientInv'
  <2>1. /\ told' \in BOOLEAN /\ c2s # <<>> /\ c2s' = Tail(c2s)
        /\ srv' \in {"hello", "options", "replies", "transmission"}
    BY <1>2 DEF TakeStartTls, serverVars, ClientInv, TypeOK
  <2>. QED BY <1>2, <2>1, RepliesTyped, SendsKeep DEF TakeStartTls
<1>3. ASSUME NEW cells \in Seq(Cell), ServerSends(cells), UNCHANGED <<c2s, serverVars>>
      PROVE  ClientInv'
  <2>1. /\ told' \in BOOLEAN
        /\ srv' \in {"hello", "options", "replies", "transmission"}
    BY <1>3 DEF serverVars, ClientInv, TypeOK
  <2>. QED BY <1>3, <2>1, SendsKeep
<1>4. CASE SendTicket \/ CloseSession
  BY <1>3, <1>4, RepliesTyped DEF SendTicket, CloseSession, serverVars
<1>5. ASSUME NEW type \in Cleartext, SendClear(type)
      PROVE  ClientInv'
  BY <1>3, <1>5, RepliesTyped, TlsAssumption DEF SendClear, serverVars
<1>6. CASE TlsDisconnect
  <2>1. /\ SubSeq(s2c, 1, pending) \in Seq(Cell)
        /\ Len(SubSeq(s2c, 1, pending)) <= Buffer
    BY DecryptedTyped DEF ClientInv
  <2>. QED BY <1>6, <2>1, DisconnectKeeps DEF TlsDisconnect
<1>. QED BY <1>1, <1>2, <1>4, <1>5, <1>6 DEF TlsServer

LEMMA TlsNextKeeps ==
  ASSUME ClientInv, PendingInv, [TlsNext]_allVars
  PROVE  ClientInv'
<1>1. CASE TlsNext
  <2>1. Caller \/ Tick \/ Killed => Next BY DEF Next
  <2>. QED BY <1>1, <2>1, NextKeeps, TlsClientKeeps, TlsServerKeeps DEF TlsNext
<1>2. CASE UNCHANGED allVars
  BY <1>2, StutterKeeps DEF allVars
<1>. QED BY <1>1, <1>2

-----------------------------------------------------------------------------
(* The replies of a negotiation, and the parts of an answer. *)
LEMMA NegotiationTail ==
  ASSUME NEW s \in Seq(Cell), NEW t \in Seq(Cell), Len(s) \in Nat \ {0},
         Len(t) = Len(s) - 1, \A i \in 1..Len(t) : t[i] = s[i + 1],
         Negotiation(s)
  PROVE  Negotiation(t)
<1>. SUFFICES ASSUME NEW i \in 1..Len(t)
     PROVE  \/ t[i].kind = "info" /\ (i < Len(t) => t[i + 1].kind = "reply")
            \/ IsReply(t[i], "info") /\ i < Len(t) /\ t[i + 1].kind = "info"
            \/ IsReply(t[i], "ack") /\ i = Len(t)
            \/ IsReply(t[i], "error") /\ i = Len(t)
  BY DEF Negotiation
<1>1. i + 1 \in 1..Len(s) /\ t[i] = s[i + 1] OBVIOUS
<1>2. i < Len(t) <=> i + 1 < Len(s) OBVIOUS
<1>3. i = Len(t) <=> i + 1 = Len(s) OBVIOUS
<1>4. i < Len(t) => t[i + 1] = s[i + 1 + 1] OBVIOUS
<1>. QED BY <1>1, <1>2, <1>3, <1>4 DEF Negotiation

LEMMA NegotiationGrows ==
  ASSUME NEW s \in Seq(Cell), NEW t \in Seq(Cell), NEW u \in Seq(Cell),
         Len(u) = Len(s) + Len(t), Len(t) \in Nat \ {0}, Len(s) \in Nat,
         \A i \in 1..Len(s) : u[i] = s[i],
         \A i \in 1..Len(t) : u[Len(s) + i] = t[i],
         Negotiation(s), Negotiation(t), t[1].kind = "reply",
         Len(s) # 0 => s[Len(s)].kind = "info"
  PROVE  Negotiation(u)
<1>. SUFFICES ASSUME NEW i \in 1..Len(u)
     PROVE  \/ u[i].kind = "info" /\ (i < Len(u) => u[i + 1].kind = "reply")
            \/ IsReply(u[i], "info") /\ i < Len(u) /\ u[i + 1].kind = "info"
            \/ IsReply(u[i], "ack") /\ i = Len(u)
            \/ IsReply(u[i], "error") /\ i = Len(u)
  BY DEF Negotiation
<1>1. CASE i < Len(s)
  <2>1. i \in 1..Len(s) /\ i + 1 \in 1..Len(s) /\ i < Len(u) BY <1>1
  <2>2. u[i] = s[i] /\ u[i + 1] = s[i + 1] BY <2>1
  <2>. QED BY <1>1, <2>1, <2>2 DEF Negotiation
<1>2. CASE i = Len(s)
  <2>1. u[i] = s[i] /\ s[i].kind = "info" BY <1>2
  <2>2. u[Len(s) + 1] = t[1] OBVIOUS
  <2>. QED BY <1>2, <2>1, <2>2
<1>3. CASE i > Len(s)
  <2>. DEFINE j == i - Len(s)
  <2>1. j \in 1..Len(t) /\ i = Len(s) + j BY <1>3
  <2>2. u[i] = t[j] BY <2>1
  <2>3. j < Len(t) => u[i + 1] = t[j + 1]
    <3>1. j < Len(t) => j + 1 \in 1..Len(t) /\ i + 1 = Len(s) + (j + 1) BY <2>1
    <3>. QED BY <3>1
  <2>4. (i < Len(u) <=> j < Len(t)) /\ (i = Len(u) <=> j = Len(t)) BY <2>1
  <2>. QED BY <2>1, <2>2, <2>3, <2>4 DEF Negotiation
<1>. QED BY <1>1, <1>2, <1>3

LEMMA SplitsNext ==
  ASSUME NEW done \in Seq(Cell), NEW rest \in Seq(Cell), NEW s,
         NEW more \in Seq(Cell), NEW less \in Seq(Cell),
         rest # <<>>, Splits(done, rest, s), Len(s) \in Nat,
         more = Append(done, Head(rest)), less = Tail(rest)
  PROVE  Splits(more, less, s) /\ Len(more) = Len(done) + 1
<1>1. Len(done) \in Nat /\ Len(rest) \in Nat \ {0} BY EmptySeq, LenProperties
<1>2. /\ Head(rest) = rest[1] /\ Len(less) = Len(rest) - 1
      /\ \A i \in 1..Len(less) : less[i] = rest[i + 1]
  BY HeadTailProperties
<1>3. rest[1] \in Cell BY <1>1, ElementOfSeq
<1>4. /\ Len(more) = Len(done) + 1 /\ more[Len(done) + 1] = rest[1]
      /\ \A i \in 1..Len(done) : more[i] = done[i]
  BY <1>2, <1>3, AppendProperties
<1>5. rest[1] = s[Len(done) + 1] BY <1>1 DEF Splits
<1>6. ASSUME NEW i \in 1..Len(less) PROVE less[i] = s[Len(more) + i]
  <2>1. i + 1 \in 1..Len(rest) /\ less[i] = rest[i + 1] BY <1>1, <1>2
  <2>2. rest[i + 1] = s[Len(done) + (i + 1)] BY <2>1 DEF Splits
  <2>3. Len(done) + (i + 1) = Len(more) + i BY <1>1, <1>4
  <2>. QED BY <2>1, <2>2, <2>3
<1>7. ASSUME NEW i \in 1..Len(more) PROVE more[i] = s[i]
  <2>1. CASE i = Len(done) + 1 BY <2>1, <1>4, <1>5
  <2>2. CASE i # Len(done) + 1
    <3>1. i \in 1..Len(done) BY <2>2, <1>1, <1>4
    <3>. QED BY <3>1, <1>4 DEF Splits
  <2>. QED BY <2>1, <2>2
<1>8. Len(more) + Len(less) = Len(s) BY <1>1, <1>2, <1>4 DEF Splits
<1>. QED BY <1>4, <1>6, <1>7, <1>8 DEF Splits

-----------------------------------------------------------------------------
(* The streams are kept in step by every step of NbdClient.  A step to the
   end of main leaves nothing to show but what the last read returned. *)
LEMMA LeaveInStep ==
  ASSUME StreamInv, pc' \in {"deinit", "exited"}, lost => lost',
         UNCHANGED <<result, got, asked, srv, told>>
  PROVE  StreamInv'
<1>1. (srv = "transmission" => told)' BY DEF StreamInv
<1>2. ASSUME ~lost' PROVE ReadsRight'
  BY <1>2 DEF StreamInv, ReadsRight, Wanted, Cells
<1>3. GreetingInv' /\ OptionInv' /\ IdleInv' /\ AnswerInv'
  BY DEF GreetingInv, OptionInv, IdleInv, AnswerInv
<1>. QED BY <1>1, <1>2, <1>3 DEF StreamInv

LEMMA StartReadInStep ==
  ASSUME ClientInv, StreamInv, NEW o \in Offset, NEW n \in Count, StartRead(o, n)
  PROVE  StreamInv'
<1>1. (srv = "transmission" => told)' BY DEF StartRead, StreamInv, serverVars
<1>. SUFFICES ASSUME ~lost'
     PROVE  GreetingInv' /\ OptionInv' /\ IdleInv' /\ AnswerInv' /\ ReadsRight'
  BY <1>1 DEF StreamInv
<1>2. IdleInv /\ ~lost /\ pc = "idle" BY DEF StreamInv, StartRead
<1>3. pc' \in {"idle", "request"} BY <1>2 DEF StartRead
<1>4. IdleInv' BY <1>2, <1>3 DEF IdleInv, StartRead, serverVars
<1>5. ReadsRight'
  <2>. SUFFICES ASSUME result' = "ok" PROVE got' = Cells(asked')
    BY DEF ReadsRight, Wanted, Cells
  <2>1. n = 0 /\ got' = <<>> /\ asked' = [offset |-> o, count |-> n]
    BY DEF StartRead
  <2>2. asked'.count = 0 /\ asked'.offset \in Nat BY <2>1, NbdAssumption
  <2>3. Cells(asked') \in Seq(Cell) /\ Len(Cells(asked')) = 0
    BY <2>2, CellsTyped
  <2>. QED BY <2>1, <2>3, EmptySeq
<1>6. GreetingInv' /\ OptionInv' /\ AnswerInv'
  BY <1>3 DEF GreetingInv, OptionInv, AnswerInv
<1>. QED BY <1>4, <1>5, <1>6

LEMMA QuitInStep ==
  ASSUME ClientInv, StreamInv, Quit
  PROVE  StreamInv'
<1>1. (srv = "transmission" => told)' BY DEF Quit, StreamInv, serverVars
<1>. SUFFICES ASSUME ~lost'
     PROVE  GreetingInv' /\ OptionInv' /\ IdleInv' /\ AnswerInv' /\ ReadsRight'
  BY <1>1 DEF StreamInv
<1>2. IdleInv /\ ReadsRight /\ pc = "idle" /\ pc' = "bye" BY DEF StreamInv, Quit
<1>3. IdleInv' BY <1>2 DEF IdleInv, Quit, serverVars
<1>4. ReadsRight' BY <1>2 DEF ReadsRight, Wanted, Cells, Quit
<1>5. GreetingInv' /\ OptionInv' /\ AnswerInv'
  BY <1>2 DEF GreetingInv, OptionInv, AnswerInv
<1>. QED BY <1>3, <1>4, <1>5

LEMMA ConnectInStep ==
  ASSUME ClientInv, StreamInv, Connect
  PROVE  StreamInv'
<1>1. CASE pc' = "deinit" BY <1>1, LeaveInStep DEF Connect, serverVars
<1>2. CASE pc' = "greeting"
  <2>1. (srv = "transmission" => told)' BY DEF Connect, StreamInv, serverVars
  <2>. SUFFICES ASSUME ~lost'
       PROVE  GreetingInv' /\ OptionInv' /\ IdleInv' /\ AnswerInv' /\ ReadsRight'
    BY <2>1 DEF StreamInv
  <2>2. GreetingInv /\ ReadsRight /\ pc = "start" BY DEF StreamInv, Connect
  <2>3. Len(s2c') = 0 BY <2>2 DEF GreetingInv, Connect
  <2>4. GreetingInv' BY <1>2, <2>2, <2>3 DEF GreetingInv, Connect, serverVars
  <2>5. ReadsRight' BY <2>2 DEF ReadsRight, Wanted, Cells, Connect
  <2>6. IdleInv' /\ OptionInv' /\ AnswerInv'
    BY <1>2 DEF IdleInv, OptionInv, AnswerInv
  <2>. QED BY <2>4, <2>5, <2>6
<1>. QED BY <1>1, <1>2 DEF Connect

LEMMA ReadGreetingInStep ==
  ASSUME ClientInv, StreamInv, ReadGreeting
  PROVE  StreamInv'
<1>1. CASE pc' = "deinit"
  BY <1>1, LeaveInStep DEF ReadGreeting, Negotiate, Judge, serverVars
<1>2. CASE pc' = "option"
  <2>1. (srv = "transmission" => told)'
    BY DEF ReadGreeting, Negotiate, Judge, StreamInv, serverVars
  <2>. SUFFICES ASSUME ~lost'
       PROVE  GreetingInv' /\ OptionInv' /\ IdleInv' /\ AnswerInv' /\ ReadsRight'
    BY <2>1 DEF StreamInv
  <2>2. GreetingInv /\ ReadsRight /\ pc = "greeting"
    BY DEF StreamInv, ReadGreeting, Negotiate, Judge
  <2>3. s2c # <<>> /\ s2c' = Tail(s2c)
    BY DEF ReadGreeting, Negotiate, Judge, Receive
  <2>4. s2c' \in Seq(Cell) /\ Len(s2c') = Len(s2c) - 1 /\ Len(s2c) \in Nat \ {0}
    BY <2>3, TailTyped DEF ClientInv
  <2>5. s2c' = <<>>
    <3>1. Len(s2c) <= 1 BY <2>2 DEF GreetingInv
    <3>2. Len(s2c') = 0 BY <2>4, <3>1
    <3>. QED BY <2>4, <3>2, EmptySeq
  <2>6. c2s' = <<>> /\ (~broken' => srv' = "options")
    BY <2>2, <2>3 DEF GreetingInv, ReadGreeting, Negotiate, Judge, serverVars
  <2>7. GreetingInv' BY <1>2, <2>5, <2>6 DEF GreetingInv
  <2>8. ReadsRight'
    BY <2>2 DEF ReadsRight, Wanted, Cells, ReadGreeting, Negotiate, Judge
  <2>9. IdleInv' /\ OptionInv' /\ AnswerInv'
    BY <1>2 DEF IdleInv, OptionInv, AnswerInv
  <2>. QED BY <2>7, <2>8, <2>9
<1>. QED BY <1>1, <1>2 DEF ReadGreeting, Negotiate, Judge

LEMMA SendOptionInStep ==
  ASSUME ClientInv, StreamInv, SendOption
  PROVE  StreamInv'
<1>1. (srv = "transmission" => told)' BY DEF SendOption, StreamInv, serverVars
<1>. SUFFICES ASSUME ~lost'
     PROVE  GreetingInv' /\ OptionInv' /\ IdleInv' /\ AnswerInv' /\ ReadsRight'
  BY <1>1 DEF StreamInv
<1>2. GreetingInv /\ ReadsRight /\ pc = "option" /\ pc' = "reply"
  BY DEF StreamInv, SendOption
<1>3. c2s = <<>> /\ s2c = <<>> /\ (~broken => srv = "options")
  BY <1>2 DEF GreetingInv
<1>4. UNCHANGED <<s2c, broken, srv>> BY DEF SendOption, serverVars
<1>5. [cmd |-> "go"] \in Message BY DEF Message
<1>6. ~broken => c2s' = <<[cmd |-> "go"]>>
  BY <1>3, <1>5, SendTyped DEF SendOption, ClientInv
<1>7. Len(s2c') = 0 BY <1>3, <1>4
<1>8. Negotiation(s2c') BY <1>7 DEF Negotiation
<1>9. OptionInv' BY <1>2, <1>3, <1>4, <1>6, <1>8 DEF OptionInv
<1>10. ReadsRight' BY <1>2 DEF ReadsRight, Wanted, Cells, SendOption
<1>11. GreetingInv' /\ IdleInv' /\ AnswerInv'
  BY <1>2 DEF GreetingInv, IdleInv, AnswerInv
<1>. QED BY <1>9, <1>10, <1>11

(* A description, or the text of one, is read; at least the text remains. *)
LEMMA ReplyInStep ==
  ASSUME ClientInv, OptionInv, pc \in {"reply", "export", "replies", "name"},
         s2c # <<>>, s2c' = Tail(s2c), UNCHANGED <<c2s, broken, srv>>,
         \/ pc \in {"export", "name"} /\ pc' = "replies"
         \/ /\ pc \in {"reply", "replies"} /\ pc' \in {"export", "name"}
            /\ s2c[1].type = "info"
  PROVE  OptionInv'
<1>1. /\ s2c' \in Seq(Cell) /\ Len(s2c') = Len(s2c) - 1 /\ Len(s2c) \in Nat \ {0}
      /\ \A i \in 1..Len(s2c') : s2c'[i] = s2c[i + 1]
  BY TailTyped DEF ClientInv
<1>2. Negotiation(s2c) /\ (s2c[1].kind = "info" <=> pc \in {"export", "name"})
  BY DEF OptionInv
<1>3. Negotiation(s2c')
  BY <1>1, <1>2, NegotiationTail DEF ClientInv, Streams
<1>4. s2c' # <<>> <=> Len(s2c) > 1
  <2>1. s2c' = <<>> <=> Len(s2c') = 0 BY <1>1, EmptySeq
  <2>2. Len(s2c') = 0 <=> ~(Len(s2c) > 1) BY <1>1
  <2>. QED BY <2>1, <2>2
<1>5. Len(s2c) > 1 => s2c'[1] = s2c[1 + 1] /\ s2c'[Len(s2c')] = s2c[Len(s2c)]
  BY <1>1
<1>6. CASE pc \in {"export", "name"}
  <2>1. s2c[1].kind = "info" /\ pc' = "replies" BY <1>2, <1>6
  <2>2. Len(s2c) > 1 => s2c[1 + 1].kind = "reply"
    <3>1. 1 \in 1..Len(s2c) BY <1>1
    <3>2. \A type : ~IsReply(s2c[1], type) BY <2>1 DEF IsReply
    <3>. QED BY <1>2, <3>1, <3>2 DEF Negotiation
  <2>3. s2c' # <<>> => s2c'[1].kind = "reply" BY <1>4, <1>5, <2>2
  <2>4. ASSUME ~broken
        PROVE  \/ /\ c2s = <<>> /\ srv = "replies"
                  /\ s2c' # <<>> => s2c'[Len(s2c')].kind = "info"
               \/ c2s = <<>> /\ srv = "options" /\ s2c' # <<>>
                  /\ IsReply(s2c'[Len(s2c')], "error")
               \/ c2s = <<>> /\ srv = "transmission" /\ s2c' # <<>>
                  /\ IsReply(s2c'[Len(s2c')], "ack")
    <3>1. Len(s2c) = 1 => ~IsReply(s2c[Len(s2c)], "error") /\ ~IsReply(s2c[Len(s2c)], "ack")
      BY <2>1 DEF IsReply
    <3>2. Len(s2c) = 1 \/ Len(s2c) > 1 BY <1>1
    <3>. QED BY <1>4, <1>5, <1>6, <2>4, <3>1, <3>2 DEF OptionInv
  <2>. QED BY <1>3, <2>1, <2>3, <2>4 DEF OptionInv
<1>7. CASE pc \in {"reply", "replies"}
  <2>1. s2c[1].type = "info" /\ pc' \in {"export", "name"} BY <1>7
  <2>2. 1 \in 1..Len(s2c) /\ s2c[1].kind # "info" BY <1>1, <1>2, <1>7
  <2>3. Len(s2c) > 1 /\ s2c[1 + 1].kind = "info"
    BY <1>2, <2>1, <2>2 DEF Negotiation, IsReply
  <2>4. s2c' # <<>> /\ s2c'[1].kind = "info" /\ s2c'[Len(s2c')] = s2c[Len(s2c)]
    BY <1>4, <1>5, <2>3
  <2>. QED BY <1>3, <2>1, <2>4 DEF OptionInv
<1>. QED BY <1>6, <1>7

LEMMA NegotiateInStep ==
  ASSUME ClientInv, StreamInv, ReadReply \/ ReadExport \/ ReadReplies \/ ReadName
  PROVE  StreamInv'
<1>1. /\ pc \in {"reply", "export", "replies", "name"}
      /\ s2c # <<>> /\ s2c' = Tail(s2c)
      /\ UNCHANGED <<c2s, broken, srv, told, result, got, asked, lost>>
  BY DEF ReadReply, ReadExport, ReadReplies, ReadName, Negotiate, Judge, Receive,
         serverVars
<1>2. Head(s2c) = s2c[1] BY <1>1, TailTyped DEF ClientInv
<1>3. CASE pc' = "deinit" BY <1>1, <1>3, LeaveInStep
<1>4. CASE pc' # "deinit"
  <2>1. (srv = "transmission" => told)' BY <1>1 DEF StreamInv
  <2>. SUFFICES ASSUME ~lost'
       PROVE  GreetingInv' /\ OptionInv' /\ IdleInv' /\ AnswerInv' /\ ReadsRight'
    BY <2>1 DEF StreamInv
  <2>2. OptionInv /\ ReadsRight BY <1>1 DEF StreamInv
  <2>3. ReadsRight' BY <1>1, <2>2 DEF ReadsRight, Wanted, Cells
  <2>4. CASE pc' # "idle"
    <3>1. \/ pc \in {"export", "name"} /\ pc' = "replies"
          \/ /\ pc \in {"reply", "replies"} /\ pc' \in {"export", "name"}
             /\ s2c[1].type = "info"
      BY <1>2, <1>4, <2>4 DEF ReadReply, ReadExport, ReadReplies, ReadName,
                              Negotiate, Judge, AfterExport
    <3>2. OptionInv' BY <1>1, <2>2, <3>1, ReplyInStep
    <3>3. GreetingInv' /\ IdleInv' /\ AnswerInv'
      BY <3>1 DEF GreetingInv, IdleInv, AnswerInv
    <3>. QED BY <2>3, <3>2, <3>3
  <2>5. CASE pc' = "idle"
    <3>1. pc = "replies" /\ s2c[1].type = "ack"
      <4>1. ReadReplies
        BY <2>5 DEF ReadReply, ReadExport, ReadReplies, ReadName, Negotiate, Judge,
                    AfterExport
      <4>2. s2c[1].type \in {"info", "ack"} /\ s2c[1].type # "info"
        BY <1>2, <1>4, <2>5, <4>1 DEF ReadReplies, Negotiate, Judge
      <4>. QED BY <4>1, <4>2 DEF ReadReplies, Negotiate, Judge
    <3>2. Len(s2c) \in Nat \ {0} /\ s2c[1].kind # "info" /\ Negotiation(s2c)
      BY <1>1, <2>2, <3>1, TailTyped DEF OptionInv, ClientInv
    <3>3. IsReply(s2c[1], "ack") /\ Len(s2c) = 1
      BY <3>1, <3>2 DEF Negotiation, IsReply
    <3>4. s2c' = <<>> BY <1>1, <3>3, TailTyped, EmptySeq DEF ClientInv
    <3>5. ~broken => c2s = <<>> /\ srv = "transmission"
      BY <1>1, <2>2, <3>1, <3>3 DEF OptionInv, IsReply
    <3>6. IdleInv' BY <1>1, <2>5, <3>4, <3>5 DEF IdleInv
    <3>7. GreetingInv' /\ OptionInv' /\ AnswerInv'
      BY <2>5 DEF GreetingInv, OptionInv, AnswerInv
    <3>. QED BY <2>3, <3>6, <3>7
  <2>. QED BY <2>4, <2>5
<1>. QED BY <1>3, <1>4

LEMMA SendRequestInStep ==
  ASSUME ClientInv, StreamInv, SendRequest
  PROVE  StreamInv'
<1>1. (srv = "transmission" => told)' BY DEF SendRequest, StreamInv, serverVars
<1>. SUFFICES ASSUME ~lost'
     PROVE  GreetingInv' /\ OptionInv' /\ IdleInv' /\ AnswerInv' /\ ReadsRight'
  BY <1>1 DEF StreamInv
<1>2. IdleInv /\ ReadsRight /\ pc = "request" /\ pc' = "head"
  BY DEF StreamInv, SendRequest
<1>3. s2c = <<>> /\ (~broken => c2s = <<>> /\ srv = "transmission")
  BY <1>2 DEF IdleInv
<1>4. UNCHANGED <<s2c, broken, srv, asked, head>> BY DEF SendRequest, serverVars
<1>5. head' = <<>> BY <1>2, <1>4 DEF ClientInv, ReadInv
<1>6. Request \in Message BY DEF Request, Message, ClientInv, TypeOK
<1>7. ~broken => c2s' = <<Request>>
  BY <1>3, <1>6, SendTyped DEF SendRequest, ClientInv, Request
<1>8. Request' = Request BY <1>4 DEF Request
<1>9. AnswerInv' BY <1>2, <1>3, <1>4, <1>5, <1>7, <1>8 DEF AnswerInv
<1>10. ReadsRight' BY <1>2 DEF ReadsRight, Wanted, Cells, SendRequest
<1>11. GreetingInv' /\ OptionInv' /\ IdleInv'
  BY <1>2 DEF GreetingInv, OptionInv, IdleInv
<1>. QED BY <1>9, <1>10, <1>11

LEMMA ReadHeadInStep ==
  ASSUME ClientInv, StreamInv, ReadHead
  PROVE  StreamInv'
<1>1. (srv = "transmission" => told)' BY DEF ReadHead, TakeHead, StreamInv, serverVars
<1>. SUFFICES ASSUME ~lost'
     PROVE  GreetingInv' /\ OptionInv' /\ IdleInv' /\ AnswerInv' /\ ReadsRight'
  BY <1>1 DEF StreamInv
<1>2. /\ AnswerInv /\ ReadsRight /\ pc = "head" /\ result = "none" /\ got = <<>>
      /\ s2c # <<>> /\ s2c' = Tail(s2c) /\ head' = Append(head, Head(s2c))
      /\ UNCHANGED <<c2s, broken, srv, asked, got>>
  BY DEF StreamInv, ReadHead, TakeHead, Receive, serverVars, ClientInv, ReadInv, InRead
<1>3. /\ head \in Seq(Cell) /\ s2c \in Seq(Cell) /\ asked.offset \in Nat
      /\ head' \in Seq(Cell) /\ s2c' \in Seq(Cell) /\ asked.count \in Nat \ {0}
  BY <1>2, TakeHeadKeeps DEF ReadHead, Receive, ClientInv, Streams, TypeOK, ReadInv, InRead
<1>4. PICK error \in BOOLEAN : Splits(head, s2c, Answer(error))
  BY <1>2 DEF AnswerInv
<1>5. /\ Len(Answer(error)) = (IF error THEN 2 ELSE 2 + asked.count)
      /\ Answer(error)[1] = [kind |-> "magic", error |-> error]
      /\ Answer(error)[2] = [kind |-> "handle"]
      /\ ~error => \A i \in 1..asked.count : Answer(error)[i + 2] = Cells(asked)[i]
  BY <1>3, AnswerTyped DEF Answer
<1>6. Len(Answer(error)) \in Nat /\ Len(Answer(error)) >= 2 BY <1>3, <1>5
<1>7. Splits(head', s2c', Answer(error)) /\ Len(head') = Len(head) + 1
  BY <1>2, <1>3, <1>4, <1>6, SplitsNext
<1>8. Len(head) \in Nat /\ Len(head') \in Nat /\ Len(s2c') \in Nat /\ Len(head) < 2
  BY <1>2, <1>3, LenProperties DEF ClientInv, ReadInv
<1>9. Len(s2c') = Len(Answer(error)) - Len(head') BY <1>6, <1>7, <1>8 DEF Splits
<1>10. s2c' = <<>> <=> Len(s2c') = 0 BY <1>3, EmptySeq
<1>11. ~broken => srv = "transmission" /\ c2s = <<>> BY <1>2 DEF AnswerInv
<1>12. Answer(error)' = Answer(error) BY <1>2 DEF Answer, Cells, Header
<1>13. ReadsRight' BY <1>2 DEF ReadsRight, ReadHead, TakeHead
<1>14. GreetingInv' /\ OptionInv'
  BY <1>2 DEF GreetingInv, OptionInv, ReadHead, TakeHead
<1>15. CASE Len(head') < 2
  <2>1. pc' = "head" BY <1>2, <1>15 DEF ReadHead, TakeHead
  <2>2. s2c' # <<>> BY <1>6, <1>8, <1>9, <1>10, <1>15
  <2>3. \E e \in BOOLEAN : Splits(head', s2c', Answer(e)')
    BY <1>7, <1>12
  <2>4. AnswerInv' BY <1>2, <1>11, <2>1, <2>2, <2>3 DEF AnswerInv
  <2>5. IdleInv' BY <2>1 DEF IdleInv
  <2>. QED BY <1>13, <1>14, <2>4, <2>5
<1>16. CASE ~(Len(head') < 2)
  <2>1. Len(head') = 2 BY <1>7, <1>8, <1>16
  <2>2. head'[1] = Answer(error)[1] /\ head'[2] = Answer(error)[2]
    BY <1>7, <2>1 DEF Splits
  <2>3. MagicOK(head') /\ (head'[1].error <=> error)
    BY <1>5, <2>2 DEF MagicOK
  <2>4. CASE error
    <3>1. pc' = "idle" BY <1>16, <2>3, <2>4 DEF ReadHead, TakeHead
    <3>2. s2c' = <<>> BY <1>5, <1>9, <1>10, <2>1, <2>4
    <3>3. IdleInv' BY <1>2, <1>11, <3>1, <3>2 DEF IdleInv
    <3>4. AnswerInv' BY <3>1 DEF AnswerInv
    <3>. QED BY <1>13, <1>14, <3>3, <3>4
  <2>5. CASE ~error
    <3>1. pc' = "data" BY <1>16, <2>3, <2>5 DEF ReadHead, TakeHead
    <3>2. Len(s2c') = asked.count BY <1>3, <1>5, <1>9, <2>1, <2>5
    <3>3. ASSUME NEW i \in 1..Len(s2c') PROVE s2c'[i] = Cells(asked)[i]
      <4>1. s2c'[i] = Answer(error)[2 + i] BY <1>7, <2>1 DEF Splits
      <4>2. 2 + i = i + 2 /\ i \in 1..asked.count BY <1>3, <3>2
      <4>. QED BY <1>5, <2>5, <4>1, <4>2
    <3>4. Len(Cells(asked)) = asked.count BY <1>3, CellsTyped
    <3>5. Len(got') = 0 /\ \A i \in 1..Len(s2c') : 0 + i = i
      BY <1>2, <1>8
    <3>6. Splits(got', s2c', Cells(asked))
      BY <1>3, <3>2, <3>3, <3>4, <3>5 DEF Splits
    <3>7. s2c' # <<>> BY <1>3, <1>10, <3>2
    <3>8. Cells(asked)' = Cells(asked) BY <1>2 DEF Cells
    <3>9. AnswerInv' BY <1>2, <1>11, <3>1, <3>6, <3>7, <3>8 DEF AnswerInv
    <3>10. IdleInv' BY <3>1 DEF IdleInv
    <3>. QED BY <1>13, <1>14, <3>9, <3>10
  <2>. QED BY <2>4, <2>5
<1>. QED BY <1>15, <1>16

LEMMA ReadDataInStep ==
  ASSUME ClientInv, StreamInv, ReadData
  PROVE  StreamInv'
<1>1. (srv = "transmission" => told)' BY DEF ReadData, TakeData, StreamInv, serverVars
<1>. SUFFICES ASSUME ~lost'
     PROVE  GreetingInv' /\ OptionInv' /\ IdleInv' /\ AnswerInv' /\ ReadsRight'
  BY <1>1 DEF StreamInv
<1>2. /\ AnswerInv /\ pc = "data" /\ result = "none"
      /\ s2c # <<>> /\ s2c' = Tail(s2c) /\ got' = Append(got, Head(s2c))
      /\ UNCHANGED <<c2s, broken, srv, asked>>
  BY DEF StreamInv, ReadData, TakeData, Receive, serverVars, ClientInv, ReadInv, InRead
<1>3. /\ got \in Seq(Cell) /\ s2c \in Seq(Cell) /\ asked.offset \in Nat
      /\ got' \in Seq(Cell) /\ s2c' \in Seq(Cell) /\ asked.count \in Nat
  BY <1>2, TakeDataKeeps DEF ReadData, Receive, ClientInv, Streams, TypeOK
<1>4. Cells(asked) \in Seq(Cell) /\ Len(Cells(asked)) = asked.count
  BY <1>3, CellsTyped
<1>5. Splits(got, s2c, Cells(asked)) BY <1>2 DEF AnswerInv
<1>6. Splits(got', s2c', Cells(asked)) BY <1>2, <1>3, <1>4, <1>5, SplitsNext
<1>7. Cells(asked)' = Cells(asked) BY <1>2 DEF Cells
<1>8. Len(got') \in Nat /\ Len(s2c') \in Nat BY <1>3, LenProperties
<1>9. Len(got') + Len(s2c') = asked.count BY <1>4, <1>6 DEF Splits
<1>10. s2c' = <<>> <=> Len(s2c') = 0 BY <1>3, EmptySeq
<1>11. ~broken => srv = "transmission" /\ c2s = <<>> BY <1>2 DEF AnswerInv
<1>12. GreetingInv' /\ OptionInv'
  BY <1>2 DEF GreetingInv, OptionInv, ReadData, TakeData
<1>13. CASE Len(got') = asked.count
  <2>1. pc' = "idle" BY <1>13 DEF ReadData, TakeData, Complete
  <2>2. s2c' = <<>> BY <1>3, <1>8, <1>9, <1>10, <1>13
  <2>3. got' = Cells(asked)
    BY <1>3, <1>4, <1>6, <1>13, SeqEqual DEF Splits
  <2>4. ReadsRight' BY <1>7, <2>3 DEF ReadsRight, Wanted
  <2>5. IdleInv' BY <1>2, <1>11, <2>1, <2>2 DEF IdleInv
  <2>6. AnswerInv' BY <2>1 DEF AnswerInv
  <2>. QED BY <1>12, <2>4, <2>5, <2>6
<1>14. CASE Len(got') # asked.count
  <2>1. pc' = "data" /\ result' = "none" BY <1>2, <1>14 DEF ReadData, TakeData, Complete
  <2>2. s2c' # <<>> BY <1>3, <1>8, <1>9, <1>10, <1>14
  <2>3. AnswerInv' BY <1>2, <1>6, <1>7, <1>11, <2>1, <2>2 DEF AnswerInv
  <2>4. ReadsRight' BY <2>1 DEF ReadsRight
  <2>5. IdleInv' BY <2>1 DEF IdleInv
  <2>. QED BY <1>12, <2>3, <2>4, <2>5
<1>. QED BY <1>13, <1>14

(* Time passes, or nothing happens. *)
LEMMA TickInStep ==
  ASSUME StreamInv, UNCHANGED <<pc, asked, head, got, result, lost, c2s, s2c,
                               broken, srv, told>>
  PROVE  StreamInv'
BY DEF StreamInv, GreetingInv, OptionInv, IdleInv, AnswerInv, ReadsRight,
       Wanted, Cells, Request, Answer, Header

(* The server.  What the last read returned is left alone, and so is where the
   client is: it remains to show what the streams carry. *)
LEMMA ServerInStep ==
  ASSUME StreamInv, UNCHANGED clientVars,
         (srv = "transmission" => told)',
         ~lost => GreetingInv' /\ OptionInv' /\ IdleInv' /\ AnswerInv'
  PROVE  StreamInv'
BY DEF StreamInv, clientVars, ReadsRight, Wanted, Cells

LEMMA LenOfOne == \A cell : Len(<<cell>>) <= 1
OBVIOUS

LEMMA GreetInStep ==
  ASSUME ClientInv, StreamInv, NEW style \in {"fixed newstyle", "other"}, Greet(style)
  PROVE  StreamInv'
<1>. DEFINE greeting == <<[kind |-> "greeting", style |-> style]>>
<1>1. srv = "hello" /\ srv' = "options" /\ sock = "open" /\ ~broken
      /\ s2c' = s2c \o greeting /\ UNCHANGED <<clientVars, broken, c2s>>
  BY DEF Greet, ServerSends
<1>2. UNCHANGED <<pc, head, got, asked>> BY <1>1 DEF clientVars
<1>. SUFFICES ASSUME ~lost
     PROVE  GreetingInv' /\ OptionInv' /\ IdleInv' /\ AnswerInv'
  BY <1>1, ServerInStep
<1>3. GreetingInv /\ OptionInv /\ IdleInv /\ AnswerInv BY DEF StreamInv
<1>4. pc # "start" BY <1>1 DEF ClientInv, FdInv
<1>5. pc \notin {"option", "reply", "export", "replies", "name"}
  BY <1>1, <1>3 DEF GreetingInv, OptionInv
<1>6. pc \notin {"idle", "request", "bye", "head", "data"}
  BY <1>1, <1>3 DEF IdleInv, AnswerInv
<1>7. OptionInv' /\ IdleInv' /\ AnswerInv'
  BY <1>2, <1>5, <1>6 DEF OptionInv, IdleInv, AnswerInv
<1>8. GreetingInv'
  <2>1. CASE pc = "greeting"
    <3>1. s2c = <<>> /\ c2s = <<>> BY <1>1, <1>3, <2>1 DEF GreetingInv
    <3>2. greeting \in Seq(Cell) BY RepliesTyped
    <3>3. s2c' = greeting
      <4>. HIDE DEF greeting
      <4>. QED BY <1>1, <3>1, <3>2, ConcatEmptySeq
    <3>4. Len(s2c') <= 1 BY <3>3, LenOfOne
    <3>5. \/ s2c' = <<[kind |-> "greeting", style |-> "fixed newstyle"]>>
          \/ s2c' = <<[kind |-> "greeting", style |-> "other"]>>
      BY <3>3
    <3>. QED BY <1>1, <1>2, <2>1, <3>1, <3>4, <3>5 DEF GreetingInv
  <2>2. CASE pc # "greeting"
    BY <1>2, <1>4, <1>5, <2>2 DEF GreetingInv
  <2>. QED BY <2>1, <2>2
<1>. QED BY <1>7, <1>8

LEMMA TakeOptionInStep ==
  ASSUME ClientInv, StreamInv, TakeOption
  PROVE  StreamInv'
<1>1. /\ srv = "options" /\ srv' = "replies" /\ c2s # <<>> /\ c2s' = Tail(c2s)
      /\ UNCHANGED <<clientVars, s2c, broken, told>>
  BY DEF TakeOption
<1>2. UNCHANGED <<pc, head, got, asked, s2c, broken>> BY <1>1 DEF clientVars
<1>. SUFFICES ASSUME ~lost
     PROVE  GreetingInv' /\ OptionInv' /\ IdleInv' /\ AnswerInv'
  BY <1>1, ServerInStep
<1>3. GreetingInv /\ OptionInv /\ IdleInv /\ AnswerInv BY DEF StreamInv
<1>4. pc \notin {"start", "greeting", "option"} BY <1>1, <1>3 DEF GreetingInv
<1>5. pc \in {"idle", "request", "bye", "head", "data"} => broken
  BY <1>1, <1>3 DEF IdleInv, AnswerInv
<1>6. GreetingInv' BY <1>2, <1>4 DEF GreetingInv
<1>7. IdleInv' BY <1>2, <1>3, <1>5 DEF IdleInv
<1>8. AnswerInv'
  BY <1>2, <1>3, <1>5 DEF AnswerInv, Answer, Header, Cells, Request
<1>9. OptionInv'
  <2>1. CASE pc \in {"reply", "export", "replies", "name"} /\ ~broken
    <3>1. pc = "reply" /\ s2c = <<>> /\ c2s = <<[cmd |-> "go"]>>
      BY <1>1, <1>3, <2>1 DEF OptionInv
    <3>2. c2s' = <<>> BY <1>1, <3>1
    <3>. QED BY <1>1, <1>2, <1>3, <2>1, <3>1, <3>2 DEF OptionInv
  <2>2. CASE ~(pc \in {"reply", "export", "replies", "name"} /\ ~broken)
    BY <1>2, <1>3, <2>2 DEF OptionInv
  <2>. QED BY <2>1, <2>2
<1>. QED BY <1>6, <1>7, <1>8, <1>9

(* The server answers the option, with whatever reply. *)
LEMMA RepliesInStep ==
  ASSUME ClientInv, StreamInv, NEW cells \in Seq(Cell), Len(cells) \in Nat \ {0},
         Negotiation(cells), cells[1].kind = "reply", srv = "replies",
         ServerSends(cells), UNCHANGED c2s, (srv = "transmission" => told)',
         \/ srv' = "replies" /\ cells[Len(cells)].kind = "info"
         \/ srv' = "options" /\ IsReply(cells[Len(cells)], "error")
         \/ srv' = "transmission" /\ IsReply(cells[Len(cells)], "ack")
  PROVE  StreamInv'
<1>1. sock = "open" /\ ~broken /\ UNCHANGED <<clientVars, broken>>
  BY DEF ServerSends
<1>2. UNCHANGED <<pc, head, got, asked>> BY <1>1 DEF clientVars
<1>. SUFFICES ASSUME ~lost
     PROVE  GreetingInv' /\ OptionInv' /\ IdleInv' /\ AnswerInv'
  BY <1>1, ServerInStep
<1>3. GreetingInv /\ OptionInv /\ IdleInv /\ AnswerInv BY DEF StreamInv
<1>4. pc \notin {"start", "greeting", "option", "idle", "request", "bye", "head", "data"}
  BY <1>1, <1>3 DEF GreetingInv, IdleInv, AnswerInv
<1>5. GreetingInv' /\ IdleInv' /\ AnswerInv'
  BY <1>2, <1>4 DEF GreetingInv, IdleInv, AnswerInv
<1>6. OptionInv'
  <2>. SUFFICES ASSUME pc \in {"reply", "export", "replies", "name"}
       PROVE  OptionInv'
    BY <1>2 DEF OptionInv
  <2>1. /\ c2s = <<>> /\ Negotiation(s2c)
        /\ s2c # <<>> => s2c[Len(s2c)].kind = "info"
        /\ s2c # <<>> => (s2c[1].kind = "info" <=> pc \in {"export", "name"})
        /\ pc \in {"export", "name"} => s2c # <<>>
    BY <1>1, <1>3 DEF OptionInv
  <2>2. /\ s2c' \in Seq(Cell) /\ Len(s2c') = Len(s2c) + Len(cells)
        /\ \A i \in 1..Len(s2c) : s2c'[i] = s2c[i]
        /\ \A i \in 1..Len(cells) : s2c'[Len(s2c) + i] = cells[i]
    BY ServerTyped DEF ClientInv
  <2>3. s2c \in Seq(Cell) /\ Len(s2c) \in Nat /\ (s2c = <<>> <=> Len(s2c) = 0)
    BY EmptySeq, LenProperties DEF ClientInv, Streams
  <2>4. Negotiation(s2c') BY <2>1, <2>2, <2>3, NegotiationGrows
  <2>5. Len(s2c') # 0 BY <2>2, <2>3
  <2>6. s2c' # <<>> BY <2>5
  <2>7. s2c'[Len(s2c')] = cells[Len(cells)]
    <3>1. Len(cells) \in 1..Len(cells) OBVIOUS
    <3>. QED BY <2>2, <3>1
  <2>8. s2c'[1].kind = "info" <=> pc \in {"export", "name"}
    <3>1. CASE s2c = <<>>
      <4>1. s2c'[0 + 1] = cells[1] BY <2>2, <2>3, <3>1
      <4>. QED BY <2>1, <3>1, <4>1
    <3>2. CASE s2c # <<>>
      <4>1. s2c'[1] = s2c[1] BY <2>2, <2>3, <3>2
      <4>. QED BY <2>1, <3>2, <4>1
    <3>. QED BY <3>1, <3>2
  <2>. QED BY <1>2, <2>1, <2>4, <2>6, <2>7, <2>8 DEF OptionInv
<1>. QED BY <1>5, <1>6

LEMMA ServeInStep ==
  ASSUME ClientInv, StreamInv, NEW error \in BOOLEAN, Serve(error)
  PROVE  StreamInv'
<1>1. /\ srv = "transmission" /\ c2s # <<>> /\ c2s' = Tail(c2s)
      /\ sock = "open" /\ ~broken
      /\ s2c' = s2c \o (Header(error) \o (IF error THEN <<>> ELSE Cells(Head(c2s))))
      /\ UNCHANGED <<clientVars, broken, srv, told>>
  BY DEF Serve, ServerSends, serverVars
<1>2. UNCHANGED <<pc, head, got, asked>> BY <1>1 DEF clientVars
<1>. SUFFICES ASSUME ~lost
     PROVE  GreetingInv' /\ OptionInv' /\ IdleInv' /\ AnswerInv'
  BY <1>1, ServerInStep DEF StreamInv
<1>3. GreetingInv /\ OptionInv /\ IdleInv /\ AnswerInv BY DEF StreamInv
<1>4. pc \notin {"start", "greeting", "option", "idle", "request", "bye", "data"}
  BY <1>1, <1>3 DEF GreetingInv, IdleInv, AnswerInv
<1>5. pc \notin {"reply", "export", "replies", "name"}
  BY <1>1, <1>3 DEF OptionInv
<1>6. GreetingInv' /\ OptionInv' /\ IdleInv'
  BY <1>2, <1>4, <1>5 DEF GreetingInv, OptionInv, IdleInv
<1>7. AnswerInv'
  <2>1. CASE pc = "head"
    <3>1. c2s = <<Request>> /\ s2c = <<>> /\ head = <<>>
      BY <1>1, <1>3, <2>1 DEF AnswerInv
    <3>2. c2s' = <<>> /\ Head(c2s) = Request BY <1>1, <3>1
    <3>3. Cells(Request) = Cells(asked) BY DEF Cells, Request
    <3>4. asked.offset \in Nat /\ asked.count \in Nat BY DEF ClientInv, TypeOK
    <3>5. Answer(error) \in Seq(Cell)
          /\ Len(Answer(error)) = IF error THEN 2 ELSE 2 + asked.count
      BY <3>4, AnswerTyped DEF Answer
    <3>6. s2c' = <<>> \o Answer(error) BY <1>1, <3>1, <3>2, <3>3 DEF Answer
    <3>7. s2c' = Answer(error) BY <3>5, <3>6, ConcatEmptySeq
    <3>8. Len(Answer(error)) \in Nat /\ Len(Answer(error)) # 0 BY <3>4, <3>5
    <3>9. s2c' # <<>> BY <3>7, <3>8
    <3>10. Splits(<<>>, s2c', Answer(error)) BY <3>7, <3>8 DEF Splits
    <3>11. Answer(error)' = Answer(error) BY <1>2 DEF Answer, Cells, Header
    <3>12. \E e \in BOOLEAN : Splits(head', s2c', Answer(e)')
      BY <1>2, <3>1, <3>10, <3>11
    <3>. QED BY <1>1, <1>2, <2>1, <3>2, <3>9, <3>12 DEF AnswerInv
  <2>2. CASE pc # "head" BY <1>2, <1>4, <2>2 DEF AnswerInv
  <2>. QED BY <2>1, <2>2
<1>. QED BY <1>6, <1>7

LEMMA DisconnectInStep ==
  ASSUME ClientInv, StreamInv, Disconnect
  PROVE  StreamInv'
<1>1. /\ sock = "open" /\ broken' /\ s2c' \in {s2c, <<>>}
      /\ UNCHANGED <<clientVars, c2s, srv, told>>
  BY DEF Disconnect, DisconnectFrom, serverVars
<1>2. UNCHANGED <<pc, head, got, asked>> BY <1>1 DEF clientVars
<1>. SUFFICES ASSUME ~lost
     PROVE  GreetingInv' /\ OptionInv' /\ IdleInv' /\ AnswerInv'
  BY <1>1, ServerInStep DEF StreamInv
<1>3. GreetingInv /\ OptionInv /\ IdleInv /\ AnswerInv BY DEF StreamInv
<1>4. pc # "start" BY <1>1 DEF ClientInv, FdInv
<1>5. CASE s2c' = s2c
  <2>1. GreetingInv' BY <1>1, <1>2, <1>3, <1>4, <1>5 DEF GreetingInv
  <2>2. OptionInv' BY <1>1, <1>2, <1>3, <1>5 DEF OptionInv
  <2>3. IdleInv' BY <1>1, <1>2, <1>3, <1>5 DEF IdleInv
  <2>4. AnswerInv'
    BY <1>1, <1>2, <1>3, <1>5 DEF AnswerInv, Answer, Header, Cells
  <2>. QED BY <2>1, <2>2, <2>3, <2>4
<1>6. CASE s2c' = <<>>
  <2>1. Len(s2c') = 0 BY <1>6
  <2>2. Negotiation(s2c') BY <2>1 DEF Negotiation
  <2>3. GreetingInv'
    <3>1. Len(s2c') <= 1 BY <2>1
    <3>. QED BY <1>1, <1>2, <1>3, <1>4, <1>6, <3>1 DEF GreetingInv
  <2>4. OptionInv' BY <1>1, <1>6, <2>2 DEF OptionInv
  <2>5. IdleInv' BY <1>1, <1>6 DEF IdleInv
  <2>6. AnswerInv' BY <1>1, <1>6 DEF AnswerInv
  <2>. QED BY <2>3, <2>4, <2>5, <2>6
<1>. QED BY <1>1, <1>5, <1>6

LEMMA NextInStep ==
  ASSUME ClientInv, StreamInv, Next
  PROVE  StreamInv'
<1>1. CASE Caller
  BY <1>1, StartReadInStep, QuitInStep, LeaveInStep DEF Caller, Abort, serverVars
<1>2. CASE SendBye \/ Deinit \/ Killed
  <2>1. pc' \in {"deinit", "exited"}
        /\ UNCHANGED <<result, got, asked, lost, srv, told>>
    BY <1>2 DEF SendBye, Deinit, Killed, serverVars
  <2>. QED BY <2>1, LeaveInStep
<1>3. CASE GiveUp
  <2>1. UNCHANGED <<got, asked, srv, told>> BY <1>3 DEF GiveUp, GiveUpOn, serverVars
  <2>2. CASE pc \in InRead
    <3>1. lost' BY <1>3, <2>2 DEF GiveUp, GiveUpOn, FailCall
    <3>. QED BY <2>1, <3>1 DEF StreamInv
  <2>3. CASE pc \notin InRead
    <3>1. pc' = "deinit" /\ result' = result /\ (lost => lost')
      BY <1>3, <2>3 DEF GiveUp, GiveUpOn, FailCall
    <3>. QED BY <2>1, <3>1, LeaveInStep
  <2>. QED BY <2>2, <2>3
<1>4. CASE Client
  BY <1>2, <1>3, <1>4, ConnectInStep, ReadGreetingInStep, SendOptionInStep,
     NegotiateInStep, SendRequestInStep, ReadHeadInStep, ReadDataInStep DEF Client
<1>5. CASE Tick
  BY <1>5, TickInStep DEF Tick, serverVars
<1>6. CASE Server
  <2>1. ASSUME NEW info \in {"export", "name", "other"}, Inform(info)
        PROVE  StreamInv'
    <3>. DEFINE cells == <<[kind |-> "reply", type |-> "info"],
                           [kind |-> "info", info |-> info]>>
    <3>1. cells \in Seq(Cell) BY RepliesTyped
    <3>2. /\ Len(cells) = 2 /\ cells[1] = [kind |-> "reply", type |-> "info"]
          /\ cells[2] = [kind |-> "info", info |-> info]
      OBVIOUS
    <3>3. /\ srv = "replies" /\ srv' = "replies" /\ ServerSends(cells)
          /\ UNCHANGED c2s
      BY <2>1 DEF Inform
    <3>. HIDE DEF cells
    <3>4. Negotiation(cells) BY <3>2 DEF Negotiation, IsReply
    <3>5. Len(cells) \in Nat \ {0} /\ cells[1].kind = "reply"
          /\ cells[Len(cells)].kind = "info"
      BY <3>2
    <3>6. (srv = "transmission" => told)' BY <3>3
    <3>. QED BY <3>1, <3>3, <3>4, <3>5, <3>6, RepliesInStep
  <2>2. ASSUME NEW type \in {"error", "ack"},
               srv = "replies", ServerSends(<<[kind |-> "reply", type |-> type]>>),
               UNCHANGED c2s, (srv = "transmission" => told)',
               srv' = IF type = "ack" THEN "transmission" ELSE "options"
        PROVE  StreamInv'
    <3>. DEFINE cells == <<[kind |-> "reply", type |-> type]>>
    <3>1. cells \in Seq(Cell) BY RepliesTyped
    <3>2. Len(cells) = 1 /\ cells[1] = [kind |-> "reply", type |-> type] OBVIOUS
    <3>3. ServerSends(cells) BY <2>2
    <3>. HIDE DEF cells
    <3>4. Negotiation(cells) BY <3>2 DEF Negotiation, IsReply
    <3>. QED BY <2>2, <3>1, <3>2, <3>3, <3>4, RepliesInStep DEF IsReply
  <2>3. CASE Refuse \/ Acknowledge
    BY <2>2, <2>3 DEF Refuse, Acknowledge
  <2>. QED BY <1>6, <2>1, <2>3, GreetInStep, TakeOptionInStep, ServeInStep,
              DisconnectInStep DEF Server
<1>. QED BY <1>1, <1>2, <1>4, <1>5, <1>6 DEF Next

LEMMA InitInStep == Init => StreamInv
<1>. SUFFICES ASSUME Init PROVE StreamInv OBVIOUS
<1>1. pc = "start" /\ c2s = <<>> /\ s2c = <<>> /\ srv = "hello" /\ broken = FALSE
      /\ result = "none"
  BY DEF Init
<1>2. GreetingInv BY <1>1 DEF GreetingInv
<1>3. OptionInv /\ IdleInv /\ AnswerInv BY <1>1 DEF OptionInv, IdleInv, AnswerInv
<1>4. ReadsRight BY <1>1 DEF ReadsRight
<1>. QED BY <1>1, <1>2, <1>3, <1>4 DEF StreamInv

-----------------------------------------------------------------------------
(* The client without TLS: the inductive invariant, and what it gives. *)
LEMMA InitIInv == Init => IInv
BY InitClient, InitInStep DEF IInv

LEMMA NextIInv == IInv /\ [Next]_vars => IInv'
<1>. SUFFICES ASSUME IInv, [Next]_vars PROVE IInv' OBVIOUS
<1>1. CASE Next BY <1>1, NextKeeps, NextInStep DEF IInv
<1>2. CASE UNCHANGED vars
  <2>1. UNCHANGED <<pc, asked, head, got, result, lost, c2s, s2c, broken, srv, told>>
    BY <1>2 DEF vars, clientVars, serverVars
  <2>2. StreamInv' BY <2>1, TickInStep DEF IInv
  <2>3. ClientInv' BY <1>2, StutterKeeps DEF IInv
  <2>. QED BY <2>2, <2>3 DEF IInv
<1>. QED BY <1>1, <1>2

LEMMA ClientSuffices == ClientInv => TypeOK /\ ClosedOnce
<1>. SUFFICES ASSUME ClientInv PROVE TypeOK /\ ClosedOnce OBVIOUS
<1>1. closes \in {0, 1} BY DEF ClientInv, FdInv
<1>2. closes <= 1 BY <1>1
<1>. QED BY <1>2 DEF ClientInv, FdInv, ClosedOnce

LEMMA IInvSuffices == IInv => TypeOK /\ ReadsRight /\ StreamInStep /\ ClosedOnce
BY ClientSuffices DEF IInv, StreamInv, IdleInv, StreamInStep, ReadsRight

-----------------------------------------------------------------------------
(* The client over TLS.  The replies that eatreplies has left may come before
   the answer to a read, and tickets may come around it; so the answer is
   somewhere in the stream, in one piece. *)
IsAnswer(cell) == cell.kind \in {"magic", "handle", "data"}
NoAnswer(s) == \A i \in 1..Len(s) : ~IsAnswer(s[i])
NoRead(s) == \A i \in 1..Len(s) : s[i].cmd # "read"
LastRead(s, request) ==
  \A i \in 1..Len(s) : s[i].cmd = "read" => i = Len(s) /\ s[i] = request

(* After p other cells, s has the cells of whole that come after the first n,
   and then others again.  The last of whole are there unless s was cut. *)
Rest(p, n, s, whole) ==
  \A i \in 1..Len(s) :
    IF p < i /\ i + n <= p + Len(whole)
      THEN s[i] = whole[(n + i) - p]
      ELSE ~IsAnswer(s[i])

Ahead(p, n, s, whole, cut) ==
  Rest(p, n, s, whole) /\ (cut \/ p + Len(whole) <= Len(s) + n)

(* Of whole, done has been read, and the rest is to come. *)
Begins(done, whole) == \A i \in 1..Len(done) : done[i] = whole[i]

ArrivingAfter(p, done, s, whole, cut) ==
  /\ Len(done) < Len(whole) /\ Begins(done, whole)
  /\ Ahead(p, Len(done), s, whole, cut)

Arriving(done, s, whole, cut) ==
  \E p \in Nat : ArrivingAfter(p, done, s, whole, cut)

TlsReadInv ==
  /\ pc \notin {"head", "data", "deinit", "exited"} => NoAnswer(s2c) /\ NoRead(c2s)
  /\ pc = "head" =>
       \/ NoAnswer(s2c) /\ head = <<>> /\ LastRead(c2s, Request)
       \/ /\ NoRead(c2s)
          /\ \E error \in BOOLEAN : Arriving(head, s2c, Answer(error), broken)
  /\ pc = "data" => NoRead(c2s) /\ ArrivingAfter(0, got, s2c, Cells(asked), broken)

TlsReads == ~lost => TlsReadInv /\ ReadsRight

(* The server has described the export before the client goes by it. *)
Export == [kind |-> "info", info |-> "export"]
TextInv == \A i \in 1..Len(s2c) : s2c[i] = Export => told
After == {"replies", "name", "idle"} \cup InRead
ToldInv == TextInv /\ (pc \in After => told)

(* If the server sends nothing past the session, eatreplies finds no header
   at the socket. *)
ClearInv ==
  Cleartext = {} =>
    /\ \A i \in 1..Len(s2c) : s2c[i].kind # "clear"
    /\ pc \in {"start", "greeting", "option", "reply", "export", "replies",
               "deinit", "exited"}

SessionInv == ClientInv /\ PendingInv /\ ToldInv /\ ClearInv /\ TlsReads

-----------------------------------------------------------------------------
(* An answer that arrives. *)
LEMMA AnswerCells ==
  ASSUME NEW r, r.offset \in Nat, r.count \in Nat, NEW error \in BOOLEAN
  PROVE  /\ LET s == Header(error) \o (IF error THEN <<>> ELSE Cells(r))
            IN  \A i \in 1..Len(s) : IsAnswer(s[i])
         /\ \A i \in 1..Len(Cells(r)) : IsAnswer(Cells(r)[i])
<1>. DEFINE s == Header(error) \o (IF error THEN <<>> ELSE Cells(r))
<1>1. /\ Len(s) = IF error THEN 2 ELSE 2 + r.count
      /\ s[1] = [kind |-> "magic", error |-> error]
      /\ s[2] = [kind |-> "handle"]
      /\ ~error => \A i \in 1..r.count : s[i + 2] = Cells(r)[i]
  BY AnswerTyped
<1>. HIDE DEF s
<1>2. ASSUME NEW i \in 1..Len(Cells(r)) PROVE IsAnswer(Cells(r)[i])
  <2>1. Len(Cells(r)) = r.count BY CellsTyped
  <2>2. Cells(r)[i] = [kind |-> "data", at |-> r.offset + i - 1] BY <2>1, CellsTyped
  <2>3. Cells(r)[i].kind = "data" BY <2>2
  <2>. QED BY <2>3 DEF IsAnswer
<1>3. ASSUME NEW i \in 1..Len(s) PROVE IsAnswer(s[i])
  <2>1. CASE i = 1 \/ i = 2 BY <1>1, <2>1 DEF IsAnswer
  <2>2. CASE i > 2
    <3>1. ~error /\ i - 2 \in 1..r.count BY <1>1, <2>2
    <3>2. s[(i - 2) + 2] = Cells(r)[i - 2] BY <1>1, <3>1
    <3>3. Len(Cells(r)) = r.count /\ (i - 2) + 2 = i BY <3>1, CellsTyped
    <3>. QED BY <1>2, <3>1, <3>2, <3>3
  <2>3. Len(s) \in Nat BY <1>1
  <2>. QED BY <2>1, <2>2, <2>3
<1>. QED BY <1>2, <1>3 DEF s

(* Its next cell is read. *)
Moves(done, s, more, less) == more = Append(done, Head(s)) /\ less = Tail(s)

LEMMA ArrivingNext ==
  ASSUME NEW done \in Seq(Cell), NEW s \in Seq(Cell), NEW whole \in Seq(Cell),
         NEW cut \in BOOLEAN, NEW more \in Seq(Cell), NEW less \in Seq(Cell),
         s # <<>>, IsAnswer(Head(s)), Arriving(done, s, whole, cut),
         Moves(done, s, more, less)
  PROVE  /\ Begins(more, whole)
         /\ Ahead(0, Len(more), less, whole, cut)
         /\ Len(more) = Len(done) + 1
<1>1. Len(done) \in Nat /\ Len(s) \in Nat \ {0} /\ Len(whole) \in Nat
  BY EmptySeq, LenProperties
<1>2. /\ Head(s) = s[1] /\ Len(less) = Len(s) - 1
      /\ \A i \in 1..Len(less) : less[i] = s[i + 1]
  BY HeadTailProperties DEF Moves
<1>3. s[1] \in Cell BY <1>1, ElementOfSeq
<1>4. /\ Len(more) = Len(done) + 1 /\ more[Len(done) + 1] = s[1]
      /\ \A i \in 1..Len(done) : more[i] = done[i]
  BY <1>2, <1>3, AppendProperties DEF Moves
<1>5. PICK p \in Nat : ArrivingAfter(p, done, s, whole, cut) BY DEF Arriving
<1>6. /\ Len(done) < Len(whole) /\ \A i \in 1..Len(done) : done[i] = whole[i]
      /\ Rest(p, Len(done), s, whole)
      /\ cut \/ p + Len(whole) <= Len(s) + Len(done)
  BY <1>5 DEF ArrivingAfter, Ahead, Begins
<1>7. p < 1 /\ s[1] = whole[(Len(done) + 1) - p]
  <2>1. 1 \in 1..Len(s) BY <1>1
  <2>. QED BY <1>2, <1>6, <2>1 DEF Rest
<1>8. p = 0 BY <1>7
<1>9. s[1] = whole[Len(done) + 1] BY <1>1, <1>7, <1>8
<1>10. ASSUME NEW i \in 1..Len(more) PROVE more[i] = whole[i]
  <2>1. CASE i = Len(done) + 1 BY <1>4, <1>9, <2>1
  <2>2. CASE i # Len(done) + 1
    <3>1. i \in 1..Len(done) BY <1>1, <1>4, <2>2
    <3>. QED BY <1>4, <1>6, <3>1
  <2>. QED BY <2>1, <2>2
<1>11. ASSUME NEW i \in 1..Len(less)
       PROVE  IF 0 < i /\ i + Len(more) <= 0 + Len(whole)
                THEN less[i] = whole[(Len(more) + i) - 0]
                ELSE ~IsAnswer(less[i])
  <2>1. i + 1 \in 1..Len(s) /\ less[i] = s[i + 1] /\ i \in Nat \ {0} BY <1>1, <1>2
  <2>2. IF p < i + 1 /\ (i + 1) + Len(done) <= p + Len(whole)
          THEN s[i + 1] = whole[(Len(done) + (i + 1)) - p]
          ELSE ~IsAnswer(s[i + 1])
    BY <1>6, <2>1 DEF Rest
  <2>3. (Len(done) + (i + 1)) - p = (Len(more) + i) - 0 BY <1>1, <1>4, <1>8, <2>1
  <2>4. (i + 1) + Len(done) <= p + Len(whole) <=> i + Len(more) <= 0 + Len(whole)
    BY <1>1, <1>4, <1>8, <2>1
  <2>. QED BY <1>8, <2>1, <2>2, <2>3, <2>4
<1>12. Rest(0, Len(more), less, whole) BY <1>11 DEF Rest
<1>13. cut \/ 0 + Len(whole) <= Len(less) + Len(more)
  BY <1>1, <1>2, <1>4, <1>6, <1>8
<1>. QED BY <1>4, <1>10, <1>12, <1>13 DEF Begins, Ahead

(* Another cell is read. *)
LEMMA ArrivingSkip ==
  ASSUME NEW done \in Seq(Cell), NEW s \in Seq(Cell), NEW whole \in Seq(Cell),
         NEW cut \in BOOLEAN, s # <<>>, ~IsAnswer(Head(s)),
         \A i \in 1..Len(whole) : IsAnswer(whole[i]),
         Arriving(done, s, whole, cut)
  PROVE  Arriving(done, Tail(s), whole, cut)
<1>. DEFINE less == Tail(s)
<1>1. Len(done) \in Nat /\ Len(s) \in Nat \ {0} /\ Len(whole) \in Nat
  BY EmptySeq, LenProperties
<1>2. /\ Head(s) = s[1] /\ Len(less) = Len(s) - 1
      /\ \A i \in 1..Len(less) : less[i] = s[i + 1]
  BY HeadTailProperties
<1>3. PICK p \in Nat : ArrivingAfter(p, done, s, whole, cut) BY DEF Arriving
<1>4. /\ Len(done) < Len(whole) /\ \A i \in 1..Len(done) : done[i] = whole[i]
      /\ Rest(p, Len(done), s, whole)
      /\ cut \/ p + Len(whole) <= Len(s) + Len(done)
  BY <1>3 DEF ArrivingAfter, Ahead, Begins
<1>. HIDE DEF less
<1>5. p # 0
  <2>. SUFFICES ASSUME p = 0 PROVE FALSE OBVIOUS
  <2>1. 1 \in 1..Len(s) /\ Len(done) + 1 \in 1..Len(whole) BY <1>1, <1>4
  <2>2. (Len(done) + 1) - p = Len(done) + 1 /\ 1 + Len(done) <= p + Len(whole) /\ p < 1
    BY <1>1, <1>4
  <2>3. s[1] = whole[Len(done) + 1] BY <1>4, <2>1, <2>2 DEF Rest
  <2>. QED BY <1>2, <2>1, <2>3
<1>. DEFINE q == p - 1
<1>6. q \in Nat /\ p = q + 1 BY <1>5
<1>. HIDE DEF q
<1>7. ASSUME NEW i \in 1..Len(less)
      PROVE  IF q < i /\ i + Len(done) <= q + Len(whole)
               THEN less[i] = whole[(Len(done) + i) - q]
               ELSE ~IsAnswer(less[i])
  <2>1. i + 1 \in 1..Len(s) /\ less[i] = s[i + 1] /\ i \in Nat BY <1>1, <1>2
  <2>2. IF p < i + 1 /\ (i + 1) + Len(done) <= p + Len(whole)
          THEN s[i + 1] = whole[(Len(done) + (i + 1)) - p]
          ELSE ~IsAnswer(s[i + 1])
    BY <1>4, <2>1 DEF Rest
  <2>3. (Len(done) + (i + 1)) - p = (Len(done) + i) - q BY <1>1, <1>6, <2>1
  <2>4. /\ p < i + 1 <=> q < i
        /\ (i + 1) + Len(done) <= p + Len(whole) <=> i + Len(done) <= q + Len(whole)
    BY <1>1, <1>6, <2>1
  <2>. QED BY <2>1, <2>2, <2>3, <2>4
<1>8. Rest(q, Len(done), less, whole) BY <1>7 DEF Rest
<1>9. cut \/ q + Len(whole) <= Len(less) + Len(done)
  BY <1>1, <1>2, <1>4, <1>6
<1>10. Arriving(done, less, whole, cut)
  BY <1>4, <1>6, <1>8, <1>9 DEF Arriving, ArrivingAfter, Ahead, Begins
<1>. QED BY <1>10 DEF less

(* Others are sent after it. *)
LEMMA ArrivingMore ==
  ASSUME NEW done \in Seq(Cell), NEW s \in Seq(Cell), NEW whole \in Seq(Cell),
         NEW cells \in Seq(Cell), NEW t, Len(t) = Len(s) + Len(cells),
         \A i \in 1..Len(s) : t[i] = s[i],
         \A i \in 1..Len(cells) : t[Len(s) + i] = cells[i],
         NoAnswer(cells), NEW p \in Nat, ArrivingAfter(p, done, s, whole, FALSE)
  PROVE  ArrivingAfter(p, done, t, whole, FALSE)
<1>1. Len(done) \in Nat /\ Len(s) \in Nat /\ Len(whole) \in Nat /\ Len(cells) \in Nat
  BY LenProperties
<1>2. Rest(p, Len(done), s, whole) /\ p + Len(whole) <= Len(s) + Len(done)
  BY DEF ArrivingAfter, Ahead
<1>3. ASSUME NEW i \in 1..Len(t)
      PROVE  IF p < i /\ i + Len(done) <= p + Len(whole)
               THEN t[i] = whole[(Len(done) + i) - p]
               ELSE ~IsAnswer(t[i])
  <2>1. CASE i <= Len(s)
    <3>1. i \in 1..Len(s) /\ t[i] = s[i] BY <1>1, <2>1
    <3>. QED BY <1>2, <3>1 DEF Rest
  <2>2. CASE i > Len(s)
    <3>1. i - Len(s) \in 1..Len(cells) /\ Len(s) + (i - Len(s)) = i BY <1>1, <2>2
    <3>2. t[i] = cells[i - Len(s)] BY <3>1
    <3>3. ~IsAnswer(t[i]) BY <3>1, <3>2 DEF NoAnswer
    <3>4. ~(i + Len(done) <= p + Len(whole)) BY <1>1, <1>2, <2>2
    <3>. QED BY <3>3, <3>4
  <2>. QED BY <1>1, <2>1, <2>2
<1>4. Rest(p, Len(done), t, whole) BY <1>3 DEF Rest
<1>5. p + Len(whole) <= Len(t) + Len(done) BY <1>1, <1>2
<1>. QED BY <1>4, <1>5 DEF ArrivingAfter, Ahead

(* The connection is cut. *)
LEMMA ArrivingCut ==
  ASSUME NEW done, NEW s \in Seq(Cell), NEW whole, NEW t \in Seq(Cell), NEW cut,
         Len(t) <= Len(s), \A i \in 1..Len(t) : t[i] = s[i],
         NEW p \in Nat, ArrivingAfter(p, done, s, whole, cut)
  PROVE  ArrivingAfter(p, done, t, whole, TRUE)
<1>1. Rest(p, Len(done), s, whole) BY DEF ArrivingAfter, Ahead
<1>2. Len(s) \in Nat /\ Len(t) \in Nat BY LenProperties
<1>3. \A i \in 1..Len(t) : i \in 1..Len(s) /\ t[i] = s[i] BY <1>2
<1>4. Rest(p, Len(done), t, whole) BY <1>1, <1>3 DEF Rest
<1>. QED BY <1>4 DEF ArrivingAfter, Ahead

(* There is nothing before it. *)
LEMMA ArrivingFirst ==
  ASSUME NEW done \in Seq(Cell), NEW s \in Seq(Cell), NEW whole \in Seq(Cell),
         NEW cut, s # <<>>, \A i \in 1..Len(whole) : IsAnswer(whole[i]),
         ArrivingAfter(0, done, s, whole, cut)
  PROVE  IsAnswer(Head(s))
<1>1. Len(done) \in Nat /\ Len(s) \in Nat \ {0} /\ Len(whole) \in Nat
  BY EmptySeq, LenProperties
<1>2. Head(s) = s[1] OBVIOUS
<1>3. Len(done) < Len(whole) /\ Rest(0, Len(done), s, whole) BY DEF ArrivingAfter, Ahead
<1>4. 1 \in 1..Len(s) /\ Len(done) + 1 \in 1..Len(whole) BY <1>1, <1>3
<1>5. (Len(done) + 1) - 0 = Len(done) + 1 /\ 1 + Len(done) <= 0 + Len(whole)
  BY <1>1, <1>3
<1>6. s[1] = whole[Len(done) + 1] BY <1>3, <1>4, <1>5 DEF Rest
<1>. QED BY <1>2, <1>4, <1>6

-----------------------------------------------------------------------------
(* What a step does to TlsReads.  First the steps that no read is under way
   in, or that end it. *)
Fewer == \A i \in 1..Len(s2c') : \E j \in 1..Len(s2c) : s2c'[i] = s2c[j]

LEMMA LostReads ==
  ASSUME lost'
  PROVE  TlsReads'
BY DEF TlsReads

LEMMA LeaveReads ==
  ASSUME TlsReads, pc' \in {"deinit", "exited"}, lost => lost',
         UNCHANGED <<result, got, asked>>
  PROVE  TlsReads'
BY DEF TlsReads, TlsReadInv, ReadsRight, Wanted, Cells

LEMMA QuietReads ==
  ASSUME TlsReads, pc \notin {"head", "data", "deinit", "exited"},
         pc' \notin {"head", "data"}, Fewer, NoRead(c2s) => NoRead(c2s'),
         lost => lost', UNCHANGED <<result, got, asked>>
  PROVE  TlsReads'
<1>. SUFFICES ASSUME ~lost' PROVE TlsReadInv' /\ ReadsRight' BY DEF TlsReads
<1>1. NoAnswer(s2c) /\ NoRead(c2s) /\ ReadsRight BY DEF TlsReads, TlsReadInv
<1>2. NoAnswer(s2c') BY <1>1 DEF Fewer, NoAnswer
<1>3. ReadsRight' BY <1>1 DEF ReadsRight, Wanted, Cells
<1>. QED BY <1>1, <1>2, <1>3 DEF TlsReadInv

LEMMA SameReads ==
  ASSUME TlsReads,
         UNCHANGED <<pc, asked, head, got, result, lost, c2s, s2c, broken>>
  PROVE  TlsReads'
BY DEF TlsReads, TlsReadInv, ReadsRight, Wanted, Cells, Request, Answer, Header

LEMMA StartReadReads ==
  ASSUME ClientInv, TlsReads, NEW o \in Offset, NEW n \in Count, StartRead(o, n)
  PROVE  TlsReads'
<1>. SUFFICES ASSUME ~lost' PROVE TlsReadInv' /\ ReadsRight' BY DEF TlsReads
<1>1. ~lost /\ pc = "idle" /\ pc' \in {"idle", "request"} /\ UNCHANGED <<c2s, s2c>>
  BY DEF StartRead
<1>2. NoAnswer(s2c) /\ NoRead(c2s) BY <1>1 DEF TlsReads, TlsReadInv
<1>3. TlsReadInv' BY <1>1, <1>2 DEF TlsReadInv
<1>4. ReadsRight'
  <2>. SUFFICES ASSUME result' = "ok" PROVE got' = Cells(asked')
    BY DEF ReadsRight, Wanted, Cells
  <2>1. n = 0 /\ got' = <<>> /\ asked' = [offset |-> o, count |-> n]
    BY DEF StartRead
  <2>2. asked'.count = 0 /\ asked'.offset \in Nat BY <2>1, NbdAssumption
  <2>3. Cells(asked') \in Seq(Cell) /\ Len(Cells(asked')) = 0
    BY <2>2, CellsTyped
  <2>. QED BY <2>1, <2>3, EmptySeq
<1>. QED BY <1>3, <1>4

(* A message is sent that is no read, or taken. *)
LEMMA SendNoRead ==
  ASSUME TypeOK, Streams, NEW m \in Message, m.cmd # "read",
         c2s' = c2s \/ c2s' = Append(c2s, m), NoRead(c2s)
  PROVE  NoRead(c2s')
<1>1. CASE c2s' = c2s BY <1>1
<1>2. CASE c2s' = Append(c2s, m)
  <2>1. /\ Len(c2s') = Len(c2s) + 1 /\ Len(c2s) \in Nat
        /\ c2s'[Len(c2s) + 1] = m /\ \A i \in 1..Len(c2s) : c2s'[i] = c2s[i]
    BY <1>2, AppendProperties, LenProperties DEF Streams
  <2>2. ASSUME NEW i \in 1..Len(c2s') PROVE c2s'[i].cmd # "read"
    <3>1. i \in 1..Len(c2s) \/ i = Len(c2s) + 1 BY <2>1
    <3>. QED BY <2>1, <3>1 DEF NoRead
  <2>. QED BY <2>2 DEF NoRead
<1>. QED BY <1>1, <1>2

LEMMA RequestReads ==
  ASSUME ClientInv, TlsReads, SendRequest
  PROVE  TlsReads'
<1>. SUFFICES ASSUME ~lost' PROVE TlsReadInv' /\ ReadsRight' BY DEF TlsReads
<1>1. /\ ~lost /\ pc = "request" /\ pc' = "head"
      /\ UNCHANGED <<s2c, asked, head, got, result>>
  BY DEF SendRequest
<1>2. NoAnswer(s2c) /\ NoRead(c2s) /\ ReadsRight BY <1>1 DEF TlsReads, TlsReadInv
<1>3. head' = <<>> BY <1>1 DEF ClientInv, ReadInv
<1>4. Request' = Request BY <1>1 DEF Request
<1>5. c2s' = c2s \/ c2s' = Append(c2s, Request)
  BY DEF SendRequest, Send, Request
<1>6. Request \in Message BY DEF Request, Message, ClientInv, TypeOK
<1>7. ASSUME NEW i \in 1..Len(c2s'), c2s'[i].cmd = "read"
      PROVE  i = Len(c2s') /\ c2s'[i] = Request'
  <2>1. CASE c2s' = c2s BY <1>2, <1>7, <2>1 DEF NoRead
  <2>2. CASE c2s' = Append(c2s, Request)
    <3>1. /\ Len(c2s') = Len(c2s) + 1 /\ Len(c2s) \in Nat
          /\ c2s'[Len(c2s) + 1] = Request /\ \A k \in 1..Len(c2s) : c2s'[k] = c2s[k]
      BY <1>6, <2>2, AppendProperties, LenProperties DEF ClientInv, Streams
    <3>2. i \in 1..Len(c2s) \/ i = Len(c2s) + 1 BY <3>1
    <3>3. i \notin 1..Len(c2s) BY <1>2, <1>7, <3>1 DEF NoRead
    <3>. QED BY <1>4, <3>1, <3>2, <3>3
  <2>. QED BY <1>5, <2>1, <2>2
<1>8. TlsReadInv' BY <1>1, <1>2, <1>3, <1>7 DEF TlsReadInv, LastRead
<1>9. ReadsRight' BY <1>1, <1>2 DEF ReadsRight, Wanted, Cells
<1>. QED BY <1>8, <1>9

-----------------------------------------------------------------------------
(* The steps of a read. *)
LEMMA HeadReads ==
  ASSUME ClientInv, PendingInv, TlsReads, ReceiveTls, TakeHead, IsAnswer(Head(s2c))
  PROVE  TlsReads'
<1>0. s2c # <<>> /\ s2c' = Tail(s2c) /\ left' = left
  BY SessionTyped DEF ClientInv
<1>. SUFFICES ASSUME ~lost' PROVE TlsReadInv' /\ ReadsRight' BY DEF TlsReads
<1>1. /\ TlsReadInv /\ pc = "head" /\ result = "none" /\ got = <<>>
      /\ head' = Append(head, Head(s2c)) /\ UNCHANGED <<c2s, broken, asked, got>>
  BY DEF TlsReads, TakeHead, ClientInv, ReadInv, InRead
<1>2. /\ head \in Seq(Cell) /\ s2c \in Seq(Cell) /\ asked.offset \in Nat
      /\ head' \in Seq(Cell) /\ s2c' \in Seq(Cell) /\ asked.count \in Nat \ {0}
      /\ broken \in BOOLEAN
  BY <1>0, <1>1, TakeHeadKeeps DEF ClientInv, Streams, TypeOK, ReadInv, InRead
<1>3. ~NoAnswer(s2c)
  <2>1. Len(s2c) \in Nat \ {0} BY <1>0, <1>2, EmptySeq, LenProperties
  <2>2. 1 \in 1..Len(s2c) /\ Head(s2c) = s2c[1] BY <1>2, <2>1
  <2>. QED BY <2>2 DEF NoAnswer
<1>4. PICK error \in BOOLEAN : Arriving(head, s2c, Answer(error), broken)
  BY <1>1, <1>3 DEF TlsReadInv
<1>5. NoRead(c2s) BY <1>1, <1>3 DEF TlsReadInv
<1>6. /\ Answer(error) \in Seq(Cell)
      /\ Len(Answer(error)) = (IF error THEN 2 ELSE 2 + asked.count)
      /\ Answer(error)[1] = [kind |-> "magic", error |-> error]
      /\ Answer(error)[2] = [kind |-> "handle"]
      /\ ~error => \A i \in 1..asked.count : Answer(error)[i + 2] = Cells(asked)[i]
  BY <1>2, AnswerTyped DEF Answer
<1>. DEFINE whole == Answer(error)
<1>. HIDE DEF whole
<1>7. /\ Begins(head', whole)
      /\ Ahead(0, Len(head'), s2c', whole, broken)
      /\ Len(head') = Len(head) + 1
  <2>1. whole \in Seq(Cell) /\ Arriving(head, s2c, whole, broken)
    BY <1>4, <1>6 DEF whole
  <2>2. /\ head \in Seq(Cell) /\ s2c \in Seq(Cell) /\ broken \in BOOLEAN
        /\ head' \in Seq(Cell) /\ s2c' \in Seq(Cell)
        /\ Moves(head, s2c, head', s2c')
    BY <1>0, <1>1, <1>2 DEF Moves
  <2>3. s2c # <<>> BY <1>0
  <2>. QED BY <2>1, <2>2, <2>3, ArrivingNext
<1>8. Len(head) \in Nat /\ Len(head) < 2 /\ Len(s2c') \in Nat /\ Len(head') \in Nat
  BY <1>1, <1>2, LenProperties DEF ClientInv, ReadInv
<1>9. /\ Len(whole) = (IF error THEN 2 ELSE 2 + asked.count)
      /\ whole[1] = [kind |-> "magic", error |-> error]
      /\ whole[2] = [kind |-> "handle"]
      /\ ~error => \A i \in 1..asked.count : whole[i + 2] = Cells(asked)[i]
  BY <1>6 DEF whole
<1>10. ReadsRight'
  BY <1>1 DEF ReadsRight, TakeHead
<1>11. CASE Len(head') < 2
  <2>1. pc' = "head" BY <1>1, <1>11 DEF TakeHead
  <2>2. Len(head') < Len(whole) BY <1>2, <1>9, <1>11
  <2>3. ArrivingAfter(0, head', s2c', whole, broken)
    BY <1>7, <2>2 DEF ArrivingAfter
  <2>4. Arriving(head', s2c', whole, broken) BY <2>3 DEF Arriving
  <2>5. Answer(error)' = whole BY <1>1 DEF Answer, Cells, Header, whole
  <2>6. \E e \in BOOLEAN : Arriving(head', s2c', Answer(e)', broken')
    BY <1>1, <2>4, <2>5
  <2>. QED BY <1>1, <1>5, <1>10, <2>1, <2>6 DEF TlsReadInv
<1>12. CASE ~(Len(head') < 2)
  <2>1. Len(head') = 2 BY <1>7, <1>8, <1>12
  <2>2. head'[1] = whole[1] /\ head'[2] = whole[2]
    <3>1. 1 \in 1..Len(head') /\ 2 \in 1..Len(head') BY <2>1
    <3>. QED BY <1>7, <3>1 DEF Begins
  <2>3. MagicOK(head') /\ (head'[1].error <=> error) BY <1>9, <2>2 DEF MagicOK
  <2>4. CASE error
    <3>1. pc' = "idle" BY <1>12, <2>3, <2>4 DEF TakeHead
    <3>2. ASSUME NEW i \in 1..Len(s2c') PROVE ~IsAnswer(s2c'[i])
      <4>1. ~(i + Len(head') <= 0 + Len(whole)) BY <1>8, <1>9, <2>1, <2>4
      <4>. QED BY <1>7, <4>1 DEF Ahead, Rest
    <3>. QED BY <1>1, <1>5, <1>10, <3>1, <3>2 DEF TlsReadInv, NoAnswer
  <2>5. CASE ~error
    <3>1. pc' = "data" BY <1>12, <2>3, <2>5 DEF TakeHead
    <3>2. Len(Cells(asked)) = asked.count /\ Len(got) = 0 BY <1>1, <1>2, CellsTyped
    <3>3. Len(whole) = 2 + asked.count BY <1>9, <2>5
    <3>4. ASSUME NEW i \in 1..Len(s2c')
          PROVE  IF 0 < i /\ i + 0 <= 0 + Len(Cells(asked))
                   THEN s2c'[i] = Cells(asked)[(0 + i) - 0]
                   ELSE ~IsAnswer(s2c'[i])
      <4>1. IF 0 < i /\ i + 2 <= 0 + Len(whole)
              THEN s2c'[i] = whole[(2 + i) - 0] ELSE ~IsAnswer(s2c'[i])
        BY <1>7, <2>1 DEF Ahead, Rest
      <4>2. i \in Nat \ {0} /\ (2 + i) - 0 = i + 2 /\ (0 + i) - 0 = i BY <1>8
      <4>3. i + 2 <= 0 + Len(whole) <=> i + 0 <= 0 + Len(Cells(asked))
        BY <1>2, <3>2, <3>3, <4>2
      <4>4. i + 0 <= 0 + Len(Cells(asked)) => whole[i + 2] = Cells(asked)[i]
        BY <1>2, <1>9, <2>5, <3>2, <4>2
      <4>. QED BY <4>1, <4>2, <4>3, <4>4
    <3>5. Rest(0, Len(got), s2c', Cells(asked)) BY <3>2, <3>4 DEF Rest
    <3>6. broken \/ 0 + Len(Cells(asked)) <= Len(s2c') + Len(got)
      <4>1. broken \/ 0 + Len(whole) <= Len(s2c') + Len(head') BY <1>7 DEF Ahead
      <4>. QED BY <1>2, <1>8, <2>1, <3>2, <3>3, <4>1
    <3>7. Len(got) < Len(Cells(asked)) /\ \A i \in 1..Len(got) : got[i] = Cells(asked)[i]
      BY <1>2, <3>2
    <3>8. ArrivingAfter(0, got, s2c', Cells(asked), broken)
      BY <3>5, <3>6, <3>7 DEF ArrivingAfter, Begins, Ahead
    <3>9. Cells(asked)' = Cells(asked) BY <1>1 DEF Cells
    <3>10. ArrivingAfter(0, got', s2c', Cells(asked)', broken') BY <1>1, <3>8, <3>9
    <3>. QED BY <1>1, <1>5, <1>10, <3>1, <3>10 DEF TlsReadInv
  <2>. QED BY <2>4, <2>5
<1>. QED BY <1>11, <1>12

LEMMA DataReads ==
  ASSUME ClientInv, PendingInv, TlsReads, ReceiveTls, TakeData
  PROVE  TlsReads'
<1>0. s2c # <<>> /\ s2c' = Tail(s2c) /\ left' = left
  BY SessionTyped DEF ClientInv
<1>. SUFFICES ASSUME ~lost' PROVE TlsReadInv' /\ ReadsRight' BY DEF TlsReads
<1>1. /\ TlsReadInv /\ pc = "data" /\ result = "none"
      /\ got' = Append(got, Head(s2c)) /\ UNCHANGED <<c2s, broken, asked>>
  BY DEF TlsReads, TakeData, ClientInv, ReadInv, InRead
<1>2. /\ got \in Seq(Cell) /\ s2c \in Seq(Cell) /\ asked.offset \in Nat
      /\ got' \in Seq(Cell) /\ s2c' \in Seq(Cell) /\ asked.count \in Nat
      /\ broken \in BOOLEAN
  BY <1>0, <1>1, TakeDataKeeps DEF ClientInv, Streams, TypeOK
<1>. DEFINE whole == Cells(asked)
<1>3. /\ whole \in Seq(Cell) /\ Len(whole) = asked.count
      /\ \A i \in 1..Len(whole) : IsAnswer(whole[i])
  BY <1>2, CellsTyped, AnswerCells
<1>4. NoRead(c2s) /\ ArrivingAfter(0, got, s2c, whole, broken)
  BY <1>1 DEF TlsReadInv
<1>5. whole' = whole BY <1>1 DEF Cells
<1>. HIDE DEF whole
<1>6. Arriving(got, s2c, whole, broken) BY <1>4 DEF Arriving
<1>7. IsAnswer(Head(s2c)) BY <1>0, <1>2, <1>3, <1>4, ArrivingFirst
<1>8. /\ Begins(got', whole)
      /\ Ahead(0, Len(got'), s2c', whole, broken)
      /\ Len(got') = Len(got) + 1
  <2>1. /\ got \in Seq(Cell) /\ s2c \in Seq(Cell) /\ broken \in BOOLEAN
        /\ got' \in Seq(Cell) /\ s2c' \in Seq(Cell) /\ whole \in Seq(Cell)
        /\ Moves(got, s2c, got', s2c')
    BY <1>0, <1>1, <1>2, <1>3 DEF Moves
  <2>2. s2c # <<>> BY <1>0
  <2>. QED BY <1>6, <1>7, <2>1, <2>2, ArrivingNext
<1>9. Len(got) \in Nat /\ Len(got) < asked.count /\ Len(s2c') \in Nat
      /\ Len(got') \in Nat
  BY <1>1, <1>2, LenProperties DEF ClientInv, ReadInv
<1>10. CASE Len(got') = asked.count
  <2>1. pc' = "idle" BY <1>10 DEF TakeData, Complete
  <2>2. ASSUME NEW i \in 1..Len(s2c') PROVE ~IsAnswer(s2c'[i])
    <3>1. ~(i + Len(got') <= 0 + Len(whole)) BY <1>3, <1>9, <1>10
    <3>. QED BY <1>8, <3>1 DEF Ahead, Rest
  <2>3. got' = whole BY <1>2, <1>3, <1>8, <1>10, SeqEqual DEF Begins
  <2>4. ReadsRight' BY <1>5, <2>3 DEF ReadsRight, Wanted, whole
  <2>. QED BY <1>1, <1>4, <2>1, <2>2, <2>4 DEF TlsReadInv, NoAnswer
<1>11. CASE Len(got') # asked.count
  <2>1. pc' = "data" /\ result' = "none" BY <1>1, <1>11 DEF TakeData, Complete
  <2>2. Len(got') < Len(whole) BY <1>2, <1>3, <1>8, <1>9, <1>11
  <2>4. ArrivingAfter(0, got', s2c', whole, broken)
    BY <1>8, <2>2 DEF ArrivingAfter
  <2>5. ArrivingAfter(0, got', s2c', whole', broken') BY <1>1, <1>5, <2>4
  <2>6. ReadsRight' BY <2>1 DEF ReadsRight
  <2>. QED BY <1>1, <1>4, <2>1, <2>5, <2>6 DEF TlsReadInv, whole
<1>. QED BY <1>10, <1>11

(* A record is skipped while a read is under way. *)
LEMMA SkipReads ==
  ASSUME ClientInv, TlsReads, pc \in {"head", "data"},
         s2c # <<>>, s2c' = Tail(s2c), ~IsAnswer(Head(s2c)),
         UNCHANGED <<pc, asked, head, got, result, lost, c2s, broken>>
  PROVE  TlsReads'
<1>. SUFFICES ASSUME ~lost' PROVE TlsReadInv' /\ ReadsRight' BY DEF TlsReads
<1>1. TlsReadInv /\ ReadsRight BY DEF TlsReads
<1>2. /\ head \in Seq(Cell) /\ got \in Seq(Cell) /\ s2c \in Seq(Cell)
      /\ asked.offset \in Nat /\ asked.count \in Nat /\ broken \in BOOLEAN
  BY DEF ClientInv, Streams, TypeOK
<1>3. ReadsRight' BY <1>1 DEF ReadsRight, Wanted, Cells
<1>4. CASE pc = "data"
  <2>1. Cells(asked) \in Seq(Cell) /\ \A i \in 1..Len(Cells(asked)) : IsAnswer(Cells(asked)[i])
    BY <1>2, CellsTyped, AnswerCells
  <2>2. ArrivingAfter(0, got, s2c, Cells(asked), broken)
    BY <1>1, <1>4 DEF TlsReadInv
  <2>3. IsAnswer(Head(s2c)) BY <1>2, <2>1, <2>2, ArrivingFirst
  <2>. QED BY <2>3
<1>5. CASE pc = "head" /\ NoAnswer(s2c) /\ head = <<>> /\ LastRead(c2s, Request)
  <2>1. NoAnswer(s2c')
    <3>1. \A i \in 1..Len(s2c') : s2c'[i] = s2c[i + 1] /\ i + 1 \in 1..Len(s2c)
      BY TailTyped DEF ClientInv
    <3>. QED BY <1>5, <3>1 DEF NoAnswer
  <2>2. Request' = Request BY DEF Request
  <2>. QED BY <1>3, <1>5, <2>1, <2>2 DEF TlsReadInv
<1>6. CASE pc = "head" /\ NoRead(c2s)
              /\ \E error \in BOOLEAN : Arriving(head, s2c, Answer(error), broken)
  <2>1. PICK error \in BOOLEAN : Arriving(head, s2c, Answer(error), broken) BY <1>6
  <2>. DEFINE whole == Answer(error)
  <2>2. whole \in Seq(Cell) /\ \A i \in 1..Len(whole) : IsAnswer(whole[i])
    BY <1>2, AnswerTyped, AnswerCells DEF Answer
  <2>3. whole' = whole BY DEF Answer, Cells, Header
  <2>4. Arriving(head, s2c, whole, broken) BY <2>1
  <2>. HIDE DEF whole
  <2>5. Arriving(head, Tail(s2c), whole, broken)
    BY <1>2, <2>2, <2>4, ArrivingSkip
  <2>6. Arriving(head', s2c', whole', broken') BY <2>3, <2>5
  <2>. QED BY <1>3, <1>6, <2>6 DEF TlsReadInv, whole
<1>. QED BY <1>1, <1>4, <1>5, <1>6 DEF TlsReadInv

-----------------------------------------------------------------------------
(* The steps of the server. *)
LEMMA ServerReads ==
  ASSUME ClientInv, TlsReads, UNCHANGED <<pc, asked, head, got, result, lost>>,
         NoAnswer(s2c) => NoAnswer(s2c'), NoRead(c2s) => NoRead(c2s'),
         LastRead(c2s, Request) => LastRead(c2s', Request),
         \A p \in Nat, done \in Seq(Cell), whole \in Seq(Cell) :
           ArrivingAfter(p, done, s2c, whole, broken) =>
             ArrivingAfter(p, done, s2c', whole, broken')
  PROVE  TlsReads'
<1>. SUFFICES ASSUME ~lost' PROVE TlsReadInv' /\ ReadsRight' BY DEF TlsReads
<1>1. TlsReadInv /\ ReadsRight BY DEF TlsReads
<1>2. /\ head \in Seq(Cell) /\ got \in Seq(Cell)
      /\ asked.offset \in Nat /\ asked.count \in Nat
  BY DEF ClientInv, Streams, TypeOK
<1>3. ReadsRight' BY <1>1 DEF ReadsRight, Wanted, Cells
<1>4. CASE pc = "data"
  <2>1. Cells(asked) \in Seq(Cell) /\ Cells(asked)' = Cells(asked)
    BY <1>2, CellsTyped DEF Cells
  <2>2. ArrivingAfter(0, got, s2c, Cells(asked), broken) /\ NoRead(c2s)
    BY <1>1, <1>4 DEF TlsReadInv
  <2>3. ArrivingAfter(0, got, s2c', Cells(asked), broken') BY <1>2, <2>1, <2>2
  <2>4. ArrivingAfter(0, got', s2c', Cells(asked)', broken') BY <2>1, <2>3
  <2>. QED BY <1>3, <1>4, <2>2, <2>4 DEF TlsReadInv
<1>5. CASE pc = "head" /\ NoAnswer(s2c) /\ head = <<>> /\ LastRead(c2s, Request)
  <2>1. Request' = Request BY DEF Request
  <2>. QED BY <1>3, <1>5, <2>1 DEF TlsReadInv
<1>6. CASE pc = "head" /\ NoRead(c2s)
              /\ \E error \in BOOLEAN : Arriving(head, s2c, Answer(error), broken)
  <2>1. PICK error \in BOOLEAN : Arriving(head, s2c, Answer(error), broken) BY <1>6
  <2>2. Answer(error) \in Seq(Cell) BY <1>2, AnswerTyped DEF Answer
  <2>3. Answer(error)' = Answer(error) BY DEF Answer, Cells, Header
  <2>4. PICK p \in Nat : ArrivingAfter(p, head, s2c, Answer(error), broken)
    BY <2>1 DEF Arriving
  <2>5. ArrivingAfter(p, head, s2c', Answer(error), broken') BY <1>2, <2>2, <2>4
  <2>6. Arriving(head, s2c', Answer(error), broken') BY <2>5 DEF Arriving
  <2>7. Arriving(head', s2c', Answer(error)', broken') BY <2>3, <2>6
  <2>. QED BY <1>3, <1>6, <2>7 DEF TlsReadInv
<1>7. CASE pc \notin {"head", "data"} BY <1>1, <1>3, <1>7 DEF TlsReadInv
<1>. QED BY <1>1, <1>4, <1>5, <1>6, <1>7 DEF TlsReadInv

(* A message is taken. *)
LEMMA TakeNoRead ==
  ASSUME Streams, c2s' = c2s \/ (c2s # <<>> /\ c2s' = Tail(c2s)), NEW m
  PROVE  /\ NoRead(c2s) => NoRead(c2s')
         /\ LastRead(c2s, m) => LastRead(c2s', m)
<1>1. CASE c2s' = c2s BY <1>1
<1>2. CASE c2s # <<>> /\ c2s' = Tail(c2s)
  <2>1. /\ Len(c2s') = Len(c2s) - 1 /\ Len(c2s) \in Nat
        /\ \A i \in 1..Len(c2s') : c2s'[i] = c2s[i + 1]
    BY <1>2, HeadTailProperties, LenProperties DEF Streams
  <2>2. \A i \in 1..Len(c2s') :
          i + 1 \in 1..Len(c2s) /\ (i = Len(c2s') <=> i + 1 = Len(c2s))
    BY <2>1
  <2>3. NoRead(c2s) => NoRead(c2s') BY <2>1, <2>2 DEF NoRead
  <2>4. LastRead(c2s, m) => LastRead(c2s', m) BY <2>1, <2>2 DEF LastRead
  <2>. QED BY <2>3, <2>4
<1>. QED BY <1>1, <1>2

LEMMA SendsReads ==
  ASSUME ClientInv, TlsReads, NEW cells \in Seq(Cell), NoAnswer(cells),
         ServerSends(cells), c2s' = c2s \/ (c2s # <<>> /\ c2s' = Tail(c2s))
  PROVE  TlsReads'
<1>1. ~broken /\ UNCHANGED <<pc, asked, head, got, result, lost, broken>>
  BY DEF ServerSends, clientVars
<1>2. /\ s2c \in Seq(Cell) /\ Len(s2c) \in Nat /\ Len(cells) \in Nat
      /\ Len(s2c') = Len(s2c) + Len(cells)
      /\ \A i \in 1..Len(s2c) : s2c'[i] = s2c[i]
      /\ \A i \in 1..Len(cells) : s2c'[Len(s2c) + i] = cells[i]
  BY ServerTyped, LenProperties DEF ClientInv, Streams
<1>3. NoAnswer(s2c) => NoAnswer(s2c')
  <2>. SUFFICES ASSUME NoAnswer(s2c), NEW i \in 1..Len(s2c') PROVE ~IsAnswer(s2c'[i])
    BY DEF NoAnswer
  <2>1. CASE i <= Len(s2c)
    <3>1. i \in 1..Len(s2c) BY <1>2, <2>1
    <3>. QED BY <1>2, <3>1 DEF NoAnswer
  <2>2. CASE i > Len(s2c)
    <3>1. i - Len(s2c) \in 1..Len(cells) /\ Len(s2c) + (i - Len(s2c)) = i
      BY <1>2, <2>2
    <3>2. s2c'[i] = cells[i - Len(s2c)] BY <1>2, <3>1
    <3>. QED BY <3>1, <3>2 DEF NoAnswer
  <2>. QED BY <1>2, <2>1, <2>2
<1>4. ASSUME NEW p \in Nat, NEW done \in Seq(Cell), NEW whole \in Seq(Cell),
             ArrivingAfter(p, done, s2c, whole, broken)
      PROVE  ArrivingAfter(p, done, s2c', whole, broken')
  <2>1. broken = FALSE /\ broken' = FALSE BY <1>1 DEF ClientInv, TypeOK
  <2>2. ArrivingAfter(p, done, s2c, whole, FALSE) BY <1>4, <2>1
  <2>3. ArrivingAfter(p, done, s2c', whole, FALSE)
    BY <1>2, <2>2, ArrivingMore
  <2>. QED BY <2>1, <2>3
<1>5. /\ NoRead(c2s) => NoRead(c2s')
      /\ LastRead(c2s, Request) => LastRead(c2s', Request)
  BY TakeNoRead DEF ClientInv
<1>. QED BY <1>1, <1>3, <1>4, <1>5, ServerReads

LEMMA TakeReads ==
  ASSUME ClientInv, TlsReads, UNCHANGED <<clientVars, s2c, broken>>,
         c2s # <<>>, c2s' = Tail(c2s)
  PROVE  TlsReads'
<1>1. UNCHANGED <<pc, asked, head, got, result, lost>> BY DEF clientVars
<1>2. /\ NoRead(c2s) => NoRead(c2s')
      /\ LastRead(c2s, Request) => LastRead(c2s', Request)
  BY TakeNoRead DEF ClientInv
<1>. QED BY <1>1, <1>2, ServerReads

LEMMA CutReads ==
  ASSUME ClientInv, PendingInv, TlsReads, TlsDisconnect
  PROVE  TlsReads'
<1>1. /\ UNCHANGED <<pc, asked, head, got, result, lost, c2s>> /\ broken' = TRUE
      /\ s2c' = s2c \/ s2c' = SubSeq(s2c, 1, pending)
  BY DEF TlsDisconnect, DisconnectFrom, clientVars
<1>2. /\ s2c \in Seq(Cell) /\ s2c' \in Seq(Cell) /\ Len(s2c') <= Len(s2c)
      /\ Len(s2c') \in Nat /\ Len(s2c) \in Nat
      /\ \A i \in 1..Len(s2c') : s2c'[i] = s2c[i]
  <2>1. s2c \in Seq(Cell) /\ Len(s2c) \in Nat
    BY LenProperties DEF ClientInv, Streams
  <2>2. CASE s2c' = s2c BY <2>1, <2>2
  <2>3. CASE s2c' = SubSeq(s2c, 1, pending)
    <3>1. /\ s2c' \in Seq(Cell) /\ Len(s2c') = pending
          /\ \A i \in 1..Len(s2c') : s2c'[i] = s2c[i]
      BY <2>3, DecryptedTyped DEF ClientInv
    <3>. QED BY <2>1, <3>1 DEF PendingInv
  <2>. QED BY <1>1, <2>2, <2>3
<1>3. NoAnswer(s2c) => NoAnswer(s2c')
  <2>1. \A i \in 1..Len(s2c') : i \in 1..Len(s2c) BY <1>2
  <2>. QED BY <1>2, <2>1 DEF NoAnswer
<1>4. \A p \in Nat, done \in Seq(Cell), whole \in Seq(Cell) :
        ArrivingAfter(p, done, s2c, whole, broken) =>
          ArrivingAfter(p, done, s2c', whole, broken')
  BY <1>1, <1>2, ArrivingCut
<1>5. /\ NoRead(c2s) => NoRead(c2s')
      /\ LastRead(c2s, Request) => LastRead(c2s', Request)
  BY <1>1
<1>. QED BY <1>1, <1>3, <1>4, <1>5, ServerReads

(* A request is answered: only the one that the client waits on can be. *)
LEMMA ServeReads ==
  ASSUME ClientInv, TlsReads, NEW error \in BOOLEAN, Serve(error)
  PROVE  TlsReads'
<1>. SUFFICES ASSUME ~lost' PROVE TlsReadInv' /\ ReadsRight' BY DEF TlsReads
<1>1. /\ c2s # <<>> /\ Head(c2s).cmd = "read" /\ c2s' = Tail(c2s)
      /\ ServerSends(Header(error) \o (IF error THEN <<>> ELSE Cells(Head(c2s))))
      /\ UNCHANGED <<pc, asked, head, got, result, lost, broken>> /\ ~broken
  BY DEF Serve, ServerSends, clientVars
<1>2. TlsReadInv /\ ReadsRight BY <1>1 DEF TlsReads
<1>3. ReadsRight' BY <1>1, <1>2 DEF ReadsRight, Wanted, Cells
<1>4. /\ c2s \in Seq(Message) /\ Len(c2s) \in Nat \ {0} /\ Head(c2s) = c2s[1]
      /\ Len(c2s') = Len(c2s) - 1 /\ s2c \in Seq(Cell) /\ Len(s2c) \in Nat
      /\ asked.offset \in Nat /\ asked.count \in Nat
  BY <1>1, HeadTailProperties, EmptySeq, LenProperties DEF ClientInv, Streams, TypeOK
<1>5. ~NoRead(c2s)
  <2>1. 1 \in 1..Len(c2s) BY <1>4
  <2>. QED BY <1>1, <1>4, <2>1 DEF NoRead
<1>6. pc \in {"head", "deinit", "exited"} BY <1>2, <1>5 DEF TlsReadInv
<1>7. CASE pc = "head"
  <2>1. NoAnswer(s2c) /\ head = <<>> /\ LastRead(c2s, Request)
    BY <1>2, <1>5, <1>7 DEF TlsReadInv
  <2>2. 1 = Len(c2s) /\ Head(c2s) = Request
    <3>1. 1 \in 1..Len(c2s) BY <1>4
    <3>. QED BY <1>1, <1>4, <2>1, <3>1 DEF LastRead
  <2>3. NoRead(c2s')
    <3>1. Len(c2s) = 1 BY <2>2
    <3>2. Len(c2s') = Len(c2s) - 1 BY <1>4
    <3>3. Len(c2s') = 0 BY <3>1, <3>2
    <3>. QED BY <3>3 DEF NoRead
  <2>4. Cells(Head(c2s)) = Cells(asked) BY <2>2 DEF Cells, Request
  <2>. DEFINE whole == Answer(error)
  <2>5. /\ whole \in Seq(Cell) /\ Len(whole) = IF error THEN 2 ELSE 2 + asked.count
        /\ ServerSends(whole)
    BY <1>1, <1>4, <2>4, AnswerTyped DEF Answer
  <2>6. whole' = whole BY <1>1 DEF Answer, Cells, Header
  <2>. HIDE DEF whole
  <2>7. Len(whole) \in Nat \ {0} BY <1>4, <2>5
  <2>8. /\ Len(s2c') = Len(s2c) + Len(whole)
        /\ \A i \in 1..Len(s2c) : s2c'[i] = s2c[i]
        /\ \A i \in 1..Len(whole) : s2c'[Len(s2c) + i] = whole[i]
    BY <2>5, ServerTyped DEF ClientInv
  <2>9. ASSUME NEW i \in 1..Len(s2c')
        PROVE  IF Len(s2c) < i /\ i + 0 <= Len(s2c) + Len(whole)
                 THEN s2c'[i] = whole[(0 + i) - Len(s2c)]
                 ELSE ~IsAnswer(s2c'[i])
    <3>1. CASE i <= Len(s2c)
      <4>1. i \in 1..Len(s2c) /\ ~(Len(s2c) < i) BY <1>4, <3>1
      <4>. QED BY <2>1, <2>8, <4>1 DEF NoAnswer
    <3>2. CASE i > Len(s2c)
      <4>1. /\ i - Len(s2c) \in 1..Len(whole) /\ Len(s2c) + (i - Len(s2c)) = i
            /\ (0 + i) - Len(s2c) = i - Len(s2c)
            /\ Len(s2c) < i /\ i + 0 <= Len(s2c) + Len(whole)
        BY <1>4, <2>7, <2>8, <3>2
      <4>. QED BY <2>8, <4>1
    <3>. QED BY <1>4, <2>7, <2>8, <3>1, <3>2
  <2>. DEFINE none == <<>>
  <2>10. Len(none) = 0 /\ head' = none BY <1>1, <2>1
  <2>. HIDE DEF none
  <2>11. Rest(Len(s2c), Len(none), s2c', whole) BY <2>9, <2>10 DEF Rest
  <2>12. Len(s2c) + Len(whole) <= Len(s2c') + Len(none)
    BY <1>4, <2>7, <2>8, <2>10
  <2>13. Ahead(Len(s2c), Len(none), s2c', whole, broken)
    BY <2>11, <2>12 DEF Ahead
  <2>14. Len(none) < Len(whole) /\ Begins(none, whole)
    BY <2>7, <2>10 DEF Begins
  <2>15. ArrivingAfter(Len(s2c), none, s2c', whole, broken)
    BY <2>13, <2>14 DEF ArrivingAfter
  <2>16. Arriving(none, s2c', whole, broken) BY <1>4, <2>15 DEF Arriving
  <2>17. Arriving(head', s2c', whole', broken') BY <1>1, <2>6, <2>10, <2>16
  <2>18. \E e \in BOOLEAN : Arriving(head', s2c', Answer(e)', broken')
    BY <2>17 DEF whole
  <2>. QED BY <1>1, <1>3, <1>7, <2>3, <2>18 DEF TlsReadInv
<1>8. CASE pc # "head" BY <1>1, <1>3, <1>6, <1>8 DEF TlsReadInv
<1>. QED BY <1>7, <1>8

-----------------------------------------------------------------------------
(* What every step does to the stream to the client. *)
LEMMA TailFewer ==
  ASSUME ClientInv, s2c # <<>>, s2c' = Tail(s2c)
  PROVE  Fewer
<1>1. /\ Len(s2c') = Len(s2c) - 1 /\ Len(s2c) \in Nat \ {0}
      /\ \A i \in 1..Len(s2c') : s2c'[i] = s2c[i + 1]
  BY TailTyped DEF ClientInv
<1>2. \A i \in 1..Len(s2c') : i + 1 \in 1..Len(s2c) BY <1>1
<1>. QED BY <1>1, <1>2 DEF Fewer

LEMMA ClientStream ==
  ASSUME ClientInv, PendingInv, TlsClient
  PROVE  Fewer /\ told' = told
<1>1. ReceiveTls => Fewer BY SessionTyped, TailFewer DEF ClientInv
<1>2. ReceiveSocket => Fewer BY SocketTyped DEF ClientInv, Fewer
<1>3. Receive => Fewer BY TailFewer DEF Receive
<1>4. s2c' = s2c => Fewer BY DEF Fewer
<1>5. CASE TlsReadReply \/ TlsReadExport \/ ReadSession \/ TlsReadHead \/ TlsReadData
  BY <1>1, <1>5 DEF TlsReadReply, TlsReadExport, ReadSession, TlsReadHead,
     TlsReadData, Judge, TakeHead, TakeData, serverVars
<1>6. CASE ReadSocket \/ ReadSocketName
  BY <1>2, <1>6 DEF ReadSocket, ReadSocketName, Judge, serverVars
<1>7. CASE ReadGreeting \/ ReadTlsReply \/ SkipRecord \/ BadRecord
  BY <1>3, <1>7 DEF ReadGreeting, ReadTlsReply, SkipRecord, BadRecord, Negotiate,
     Judge, serverVars
<1>8. CASE Connect \/ Deinit \/ SendStartTls \/ Handshake \/ SendGo
           \/ TlsSendRequest \/ TlsSendBye \/ InvalidSession \/ TlsGiveUp
  BY <1>4, <1>8 DEF Connect, Deinit, SendStartTls, Handshake, SendGo,
     TlsSendRequest, TlsSendBye, InvalidSession, TlsGiveUp, GiveUpOn, SendOption,
     SendRequest, SendBye, serverVars
<1>. QED BY <1>5, <1>6, <1>7, <1>8 DEF TlsClient

Old(cell) == \E j \in 1..Len(s2c) : cell = s2c[j]
New(cell) == (cell = Export => told') /\ (Cleartext = {} => cell.kind # "clear")

LEMMA ServerStream ==
  ASSUME ClientInv, PendingInv, TlsServer
  PROVE  /\ UNCHANGED clientVars /\ (told => told') /\ pending <= Len(s2c')
         /\ \A i \in 1..Len(s2c') : Old(s2c'[i]) \/ New(s2c'[i])
<1>. DEFINE Goal == /\ UNCHANGED clientVars /\ (told => told') /\ pending <= Len(s2c')
                    /\ \A i \in 1..Len(s2c') : Old(s2c'[i]) \/ New(s2c'[i])
<1>0. pending \in Nat /\ pending <= Len(s2c) /\ Len(s2c) \in Nat
  BY LenProperties DEF ClientInv, Streams, PendingInv
<1>1. ASSUME NEW cells \in Seq(Cell), ServerSends(cells), told => told',
             \A i \in 1..Len(cells) : New(cells[i])
      PROVE  Goal
  <2>1. /\ Len(s2c) \in Nat /\ Len(cells) \in Nat
        /\ Len(s2c') = Len(s2c) + Len(cells)
        /\ \A i \in 1..Len(s2c) : s2c'[i] = s2c[i]
        /\ \A i \in 1..Len(cells) : s2c'[Len(s2c) + i] = cells[i]
    BY <1>1, ServerTyped, LenProperties DEF ClientInv, Streams
  <2>2. ASSUME NEW i \in 1..Len(s2c') PROVE Old(s2c'[i]) \/ New(s2c'[i])
    <3>1. CASE i <= Len(s2c)
      <4>1. i \in 1..Len(s2c) BY <2>1, <3>1
      <4>. QED BY <2>1, <4>1 DEF Old
    <3>2. CASE i > Len(s2c)
      <4>1. i - Len(s2c) \in 1..Len(cells) /\ Len(s2c) + (i - Len(s2c)) = i
        BY <2>1, <3>2
      <4>2. s2c'[i] = cells[i - Len(s2c)] BY <2>1, <4>1
      <4>3. New(cells[i - Len(s2c)]) BY <1>1, <4>1
      <4>. QED BY <4>2, <4>3
    <3>. QED BY <2>1, <3>1, <3>2
  <2>3. UNCHANGED clientVars BY <1>1 DEF ServerSends
  <2>4. pending <= Len(s2c') BY <1>0, <2>1
  <2>. QED BY <1>1, <2>2, <2>3, <2>4
<1>2. ASSUME NEW cell, cell.kind \notin {"info", "clear"} PROVE New(cell)
  <2>1. Export.kind = "info" BY DEF Export
  <2>. QED BY <1>2, <2>1 DEF New
<1>3. ASSUME NEW cell, New(cell), <<cell>> \in Seq(Cell), ServerSends(<<cell>>),
             told => told'
      PROVE  Goal
  <2>. DEFINE cells == <<cell>>
  <2>1. Len(cells) = 1 /\ cells[1] = cell /\ cells \in Seq(Cell) BY <1>3
  <2>2. ServerSends(cells) BY <1>3
  <2>. HIDE DEF cells
  <2>3. \A i \in 1..Len(cells) : New(cells[i]) BY <1>3, <2>1
  <2>. HIDE DEF Goal
  <2>. QED BY <1>1, <1>3, <2>1, <2>2, <2>3
<1>. HIDE DEF Goal
<1>4. ASSUME NEW style \in {"fixed newstyle", "other"}, Greet(style)
      PROVE  Goal
  <2>. DEFINE cell == [kind |-> "greeting", style |-> style]
  <2>1. cell.kind = "greeting" /\ <<cell>> \in Seq(Cell) BY RepliesTyped
  <2>2. ServerSends(<<cell>>) /\ (told => told') BY <1>4 DEF Greet
  <2>. HIDE DEF cell
  <2>3. New(cell) BY <1>2, <2>1
  <2>. QED BY <1>3, <2>1, <2>2, <2>3
<1>5. ASSUME NEW type \in {"info", "ack", "error"},
             ServerSends(<<[kind |-> "reply", type |-> type]>>), told => told'
      PROVE  Goal
  <2>. DEFINE cell == [kind |-> "reply", type |-> type]
  <2>1. cell.kind = "reply" /\ <<cell>> \in Seq(Cell) BY RepliesTyped
  <2>2. ServerSends(<<cell>>) BY <1>5
  <2>. HIDE DEF cell
  <2>3. New(cell) BY <1>2, <2>1
  <2>. QED BY <1>3, <1>5, <2>1, <2>2, <2>3
<1>6. (\E type \in {"ack", "error"} : TakeStartTls(type)) \/ Refuse \/ Acknowledge
        => Goal
  BY <1>5 DEF TakeStartTls, Refuse, Acknowledge, serverVars
<1>7. ASSUME SendTicket \/ CloseSession PROVE Goal
  <2>1. PICK kind \in {"ticket", "close"} : ServerSends(<<[kind |-> kind]>>)
    BY <1>7 DEF SendTicket, CloseSession
  <2>2. told' = told BY <1>7 DEF SendTicket, CloseSession, serverVars
  <2>. DEFINE cell == [kind |-> kind]
  <2>3. cell.kind = kind /\ <<cell>> \in Seq(Cell) /\ ServerSends(<<cell>>)
    BY <2>1, RepliesTyped
  <2>. HIDE DEF cell
  <2>4. New(cell) BY <1>2, <2>3
  <2>. QED BY <1>3, <2>2, <2>3, <2>4
<1>8. ASSUME NEW type \in Cleartext, SendClear(type)
      PROVE  Goal
  <2>1. New([kind |-> "clear", type |-> type]) BY DEF New, Export
  <2>. QED BY <1>3, <1>8, <2>1, RepliesTyped, TlsAssumption DEF SendClear, serverVars
<1>9. ASSUME NEW info \in {"export", "name", "other"}, Inform(info)
      PROVE  Goal
  <2>. DEFINE cells == <<[kind |-> "reply", type |-> "info"],
                         [kind |-> "info", info |-> info]>>
  <2>1. cells \in Seq(Cell) BY RepliesTyped
  <2>2. /\ Len(cells) = 2 /\ cells[1] = [kind |-> "reply", type |-> "info"]
        /\ cells[2] = [kind |-> "info", info |-> info]
    OBVIOUS
  <2>3. ServerSends(cells) /\ told' = (told \/ info = "export") BY <1>9 DEF Inform
  <2>. HIDE DEF cells
  <2>4. New(cells[1]) BY <1>2, <2>2
  <2>5. New(cells[2])
    <3>1. cells[2].kind = "info" /\ cells[2].info = info BY <2>2
    <3>2. cells[2] = Export => info = "export"
      <4>1. Export.info = "export" BY DEF Export
      <4>. QED BY <3>1, <4>1
    <3>. QED BY <2>3, <3>1, <3>2 DEF New
  <2>6. \A i \in 1..Len(cells) : New(cells[i])
    <3>1. \A i \in 1..2 : i = 1 \/ i = 2 OBVIOUS
    <3>. QED BY <2>2, <2>4, <2>5, <3>1
  <2>. QED BY <1>1, <2>1, <2>3, <2>6
<1>10. ASSUME NEW error \in BOOLEAN, Serve(error)
       PROVE  Goal
  <2>. DEFINE cells == Header(error) \o (IF error THEN <<>> ELSE Cells(Head(c2s)))
  <2>1. Head(c2s) \in Message /\ Head(c2s).cmd = "read"
    BY <1>10, TakeTyped DEF Serve, ClientInv
  <2>2. Head(c2s).offset \in Nat /\ Head(c2s).count \in Nat
    BY <2>1 DEF Message
  <2>3. cells \in Seq(Cell) /\ \A i \in 1..Len(cells) : IsAnswer(cells[i])
    BY <2>2, AnswerTyped, AnswerCells
  <2>4. ServerSends(cells) /\ told' = told BY <1>10 DEF Serve, serverVars
  <2>. HIDE DEF cells
  <2>5. \A i \in 1..Len(cells) : New(cells[i]) BY <1>2, <2>3 DEF IsAnswer
  <2>. QED BY <1>1, <2>3, <2>4, <2>5
<1>11. ASSUME TakeOption PROVE Goal
  <2>1. UNCHANGED <<clientVars, s2c, told>> BY <1>11 DEF TakeOption
  <2>. QED BY <1>0, <2>1 DEF Goal, Old
<1>12. ASSUME TlsDisconnect PROVE Goal
  <2>1. UNCHANGED <<clientVars, told>>
        /\ (s2c' = s2c \/ s2c' = SubSeq(s2c, 1, pending))
    BY <1>12 DEF TlsDisconnect, DisconnectFrom, serverVars
  <2>2. CASE s2c' = s2c BY <1>0, <2>1, <2>2 DEF Goal, Old
  <2>3. CASE s2c' = SubSeq(s2c, 1, pending)
    <3>1. Len(s2c') = pending /\ \A i \in 1..Len(s2c') : s2c'[i] = s2c[i]
      BY <2>3, DecryptedTyped DEF ClientInv
    <3>2. \A i \in 1..Len(s2c') : i \in 1..Len(s2c)
      <4>1. Len(s2c) \in Nat BY LenProperties DEF ClientInv, Streams
      <4>. QED BY <3>1, <4>1 DEF PendingInv
    <3>. QED BY <1>0, <2>1, <3>1, <3>2 DEF Goal, Old
  <2>. QED BY <2>1, <2>2, <2>3
<1>13. ASSUME InSession PROVE Goal
  <2>1. CASE TakeOption BY <1>11, <2>1
  <2>2. CASE \E info \in {"export", "name", "other"} : Inform(info)
    BY <1>9, <2>2
  <2>3. CASE Refuse \/ Acknowledge BY <1>6, <2>3
  <2>4. CASE \E error \in BOOLEAN : Serve(error) BY <1>10, <2>4
  <2>. QED BY <1>13, <2>1, <2>2, <2>3, <2>4 DEF InSession
<1>. QED BY <1>4, <1>6, <1>7, <1>8, <1>12, <1>13 DEF TlsServer, Goal

-----------------------------------------------------------------------------
(* The parts of SessionInv, one after the other. *)
LEMMA PendingKept ==
  ASSUME ClientInv, PendingInv, [TlsNext]_allVars
  PROVE  PendingInv'
<1>1. Len(s2c') \in Nat
  <2>1. ClientInv' BY TlsNextKeeps
  <2>. QED BY <2>1, LenProperties DEF ClientInv, Streams
<1>2. pending \in 0..Len(s2c) /\ Len(s2c) \in Nat
  BY LenProperties DEF PendingInv, ClientInv, Streams
<1>3. CASE TlsReadReply \/ TlsReadExport \/ ReadSession \/ TlsReadHead \/ TlsReadData
  <2>1. ReceiveTls
    BY <1>3 DEF TlsReadReply, TlsReadExport, ReadSession, TlsReadHead, TlsReadData
  <2>2. pending' \in 0..Len(s2c') /\ stage = "session"
    BY <2>1, SessionTyped DEF ClientInv
  <2>3. stage' \in {stage, "socket"}
    BY <1>3 DEF TlsReadReply, TlsReadExport, ReadSession, TlsReadHead, TlsReadData
  <2>4. pc' \notin {"start", "greeting"}
    BY <1>3 DEF TlsReadReply, TlsReadExport, ReadSession, TlsReadHead, TlsReadData,
       Judge, TakeHead, TakeData, FailCall, AfterExport
  <2>. QED BY <2>2, <2>3, <2>4 DEF PendingInv
<1>4. CASE ReadSocket \/ ReadSocketName
  <2>1. ReceiveSocket BY <1>4 DEF ReadSocket, ReadSocketName
  <2>2. pending' \in 0..Len(s2c') BY <2>1, SocketTyped DEF ClientInv
  <2>3. stage' \in {"session", "socket"} /\ pc' \notin {"start", "greeting"}
    BY <1>4, <2>1 DEF ReadSocket, ReadSocketName, Judge, ReceiveSocket
  <2>. QED BY <2>2, <2>3 DEF PendingInv
<1>5. CASE (ReadGreeting /\ UNCHANGED tlsVars) \/ ReadTlsReply \/ SkipRecord \/ BadRecord
  <2>1. pending = 0 /\ pending' = 0
    BY <1>5 DEF ReadGreeting, ReadTlsReply, SkipRecord, BadRecord, Negotiate, Judge,
       PendingInv, tlsVars
  <2>2. pc' \in {"start", "greeting"} => pc' = pc /\ stage' = stage
    BY <1>5 DEF ReadGreeting, ReadTlsReply, SkipRecord, BadRecord, Negotiate, Judge,
       FailCall
  <2>. QED BY <1>1, <2>1, <2>2 DEF PendingInv
<1>6. CASE (Connect \/ Deinit \/ Caller \/ Tick \/ Killed) /\ UNCHANGED tlsVars
  <2>1. UNCHANGED <<s2c, pending, stage>>
    BY <1>6 DEF Connect, Deinit, Caller, StartRead, Quit, Abort, Tick, Killed, tlsVars
  <2>2. pc' \in {"start", "greeting"} => pc \in {"start", "greeting"}
    BY <1>6 DEF Connect, Deinit, Caller, StartRead, Quit, Abort, Tick, Killed
  <2>. QED BY <2>1, <2>2 DEF PendingInv
<1>7. CASE SendStartTls \/ Handshake
  <2>1. UNCHANGED <<s2c, pending>> /\ pending = 0
    BY <1>7 DEF SendStartTls, Handshake, PendingInv
  <2>2. pc' \notin {"start", "greeting"} BY <1>7 DEF SendStartTls, Handshake
  <2>. QED BY <1>1, <2>1, <2>2 DEF PendingInv
<1>8. CASE SendGo \/ TlsSendRequest \/ TlsSendBye \/ InvalidSession \/ TlsGiveUp
  <2>1. UNCHANGED <<s2c, pending, stage>>
    BY <1>8 DEF SendGo, TlsSendRequest, TlsSendBye, InvalidSession, TlsGiveUp,
       SendOption, SendRequest, SendBye, GiveUpOn, tlsVars
  <2>2. pc' \notin {"start", "greeting"}
    BY <1>8 DEF SendGo, TlsSendRequest, TlsSendBye, InvalidSession, TlsGiveUp,
       SendOption, SendRequest, SendBye, GiveUpOn, FailCall
  <2>. QED BY <2>1, <2>2 DEF PendingInv
<1>9. CASE TlsServer
  <2>1. pc' = pc /\ pending <= Len(s2c') BY <1>9, ServerStream DEF clientVars
  <2>2. UNCHANGED <<pending, stage>>
    BY <1>9 DEF TlsServer, TakeStartTls, SendClear, InSession, SendTicket,
       CloseSession, TlsDisconnect, tlsVars
  <2>3. pending' \in 0..Len(s2c') BY <1>1, <1>2, <2>1, <2>2
  <2>. QED BY <2>1, <2>2, <2>3 DEF PendingInv
<1>10. CASE UNCHANGED allVars
  BY <1>10 DEF PendingInv, allVars, vars, clientVars, tlsVars
<1>. QED BY <1>3, <1>4, <1>5, <1>6, <1>7, <1>8, <1>9, <1>10 DEF TlsNext, TlsClient

(* What the client goes by, it has been told. *)
LEMMA ToldKept ==
  ASSUME ClientInv, PendingInv, ToldInv, [TlsNext]_allVars
  PROVE  ToldInv'
<1>1. CASE TlsClient
  <2>1. Fewer /\ told' = told BY <1>1, ClientStream
  <2>2. TextInv' BY <2>1 DEF Fewer, TextInv, ToldInv
  <2>3. ASSUME pc' \in After, pc \notin After PROVE told
    <3>1. TlsReadExport /\ pc' # "deinit"
      <4>1. CASE (Connect \/ ReadGreeting \/ Deinit) /\ UNCHANGED tlsVars
        BY <2>3, <4>1 DEF Connect, ReadGreeting, Negotiate, Judge, Deinit, After, InRead
      <4>2. CASE SendStartTls \/ ReadTlsReply \/ Handshake \/ SendGo \/ TlsReadReply
        BY <2>3, <4>2 DEF SendStartTls, ReadTlsReply, Negotiate, Judge, Handshake,
           SendGo, SendOption, TlsReadReply, After, InRead
      <4>3. CASE ReadSession \/ ReadSocket \/ ReadSocketName
        BY <2>3, <4>3 DEF ReadSession, ReadSocket, ReadSocketName, Judge, After
      <4>4. CASE TlsSendRequest \/ TlsReadHead \/ TlsReadData \/ TlsSendBye
        BY <2>3, <4>4 DEF TlsSendRequest, SendRequest, TlsReadHead, TakeHead,
           TlsReadData, TakeData, TlsSendBye, SendBye, After, InRead
      <4>5. CASE SkipRecord \/ BadRecord \/ InvalidSession \/ TlsGiveUp
        BY <2>3, <4>5 DEF SkipRecord, BadRecord, InvalidSession, TlsGiveUp, GiveUpOn,
           FailCall, After, InRead
      <4>6. CASE TlsReadExport BY <2>3, <4>6 DEF After, InRead
      <4>. QED BY <1>1, <4>1, <4>2, <4>3, <4>4, <4>5, <4>6 DEF TlsClient
    <3>2. Head(s2c) = Export BY <3>1 DEF TlsReadExport, Judge, Describes, Export
    <3>3. s2c # <<>> BY <3>1, SessionTyped DEF TlsReadExport, ClientInv
    <3>4. Len(s2c) \in Nat \ {0} /\ Head(s2c) = s2c[1]
      BY <3>3, EmptySeq, LenProperties DEF ClientInv, Streams
    <3>5. 1 \in 1..Len(s2c) BY <3>4
    <3>. QED BY <3>2, <3>4, <3>5 DEF ToldInv, TextInv
  <2>. QED BY <2>1, <2>2, <2>3 DEF ToldInv, After, InRead
<1>2. CASE TlsServer
  <2>1. /\ pc' = pc /\ (told => told')
        /\ \A i \in 1..Len(s2c') : Old(s2c'[i]) \/ New(s2c'[i])
    BY <1>2, ServerStream DEF clientVars
  <2>2. ASSUME NEW i \in 1..Len(s2c'), s2c'[i] = Export PROVE told'
    <3>1. CASE Old(s2c'[i])
      BY <2>1, <2>2, <3>1 DEF Old, ToldInv, TextInv
    <3>2. CASE New(s2c'[i]) BY <2>2, <3>2 DEF New
    <3>. QED BY <2>1, <3>1, <3>2
  <2>3. TextInv' BY <2>2 DEF TextInv, Export
  <2>. QED BY <2>1, <2>3 DEF ToldInv, After, InRead
<1>3. CASE Caller \/ Tick \/ Killed \/ UNCHANGED allVars
  <2>1. UNCHANGED <<s2c, told>>
    BY <1>3 DEF Caller, StartRead, Quit, Abort, Tick, Killed, allVars, vars,
       serverVars
  <2>2. pc' \in After => pc \in After
    BY <1>3 DEF Caller, StartRead, Quit, Abort, Tick, Killed, allVars, vars,
       clientVars, After, InRead
  <2>. QED BY <2>1, <2>2 DEF ToldInv, TextInv, After, InRead
<1>. QED BY <1>1, <1>2, <1>3 DEF TlsNext

(* A server that keeps the protocol leaves nothing for eatreplies. *)
LEMMA ClearKept ==
  ASSUME ClientInv, PendingInv, ClearInv, [TlsNext]_allVars
  PROVE  ClearInv'
<1>. DEFINE Places == {"start", "greeting", "option", "reply", "export", "replies",
                       "deinit", "exited"}
<1>. SUFFICES ASSUME Cleartext = {}
              PROVE  /\ \A i \in 1..Len(s2c') : s2c'[i].kind # "clear"
                     /\ pc' \in Places
  BY DEF ClearInv
<1>1. (\A i \in 1..Len(s2c) : s2c[i].kind # "clear") /\ pc \in Places
  BY DEF ClearInv
<1>2. CASE TlsClient
  <2>1. \A i \in 1..Len(s2c') : s2c'[i].kind # "clear"
    BY <1>1, <1>2, ClientStream DEF Fewer
  <2>2. CASE (Connect \/ ReadGreeting \/ Deinit) /\ UNCHANGED tlsVars
    BY <2>1, <2>2 DEF Connect, ReadGreeting, Negotiate, Judge, Deinit
  <2>3. CASE SendStartTls \/ ReadTlsReply \/ Handshake \/ SendGo \/ TlsReadReply
             \/ TlsReadExport \/ ReadSession
    BY <2>1, <2>3 DEF SendStartTls, ReadTlsReply, Negotiate, Judge, Handshake,
       SendGo, SendOption, TlsReadReply, TlsReadExport, AfterExport, ReadSession
  <2>4. CASE ReadSocket
    <3>1. ReceiveSocket BY <2>4 DEF ReadSocket
    <3>2. pending + 1 \in 1..Len(s2c)
      <4>1. Len(s2c) \in Nat BY LenProperties DEF ClientInv, Streams
      <4>. QED BY <3>1, <4>1 DEF ReceiveSocket, PendingInv
    <3>3. ~IsClear(AtSocket, {"info", "ack"}) BY <1>1, <3>2 DEF IsClear, AtSocket
    <3>. QED BY <2>1, <2>4, <3>3 DEF ReadSocket, Judge
  <2>5. CASE SkipRecord \/ BadRecord \/ InvalidSession \/ TlsGiveUp
    BY <1>1, <2>1, <2>5 DEF SkipRecord, BadRecord, InvalidSession, TlsGiveUp, GiveUpOn,
       FailCall, InRead
  <2>6. CASE ReadSocketName \/ TlsSendRequest \/ TlsReadHead \/ TlsReadData \/ TlsSendBye
    BY <1>1, <2>6 DEF ReadSocketName, Judge, TlsSendRequest, SendRequest, TlsReadHead,
       TakeHead, TlsReadData, TakeData, TlsSendBye, SendBye
  <2>. QED BY <1>2, <2>1, <2>2, <2>3, <2>4, <2>5, <2>6 DEF TlsClient
<1>3. CASE TlsServer
  <2>1. pc' = pc /\ \A i \in 1..Len(s2c') : Old(s2c'[i]) \/ New(s2c'[i])
    BY <1>3, ServerStream DEF clientVars
  <2>2. ASSUME NEW i \in 1..Len(s2c') PROVE s2c'[i].kind # "clear"
    <3>1. CASE Old(s2c'[i]) BY <1>1, <3>1 DEF Old
    <3>2. CASE New(s2c'[i]) BY <3>2 DEF New
    <3>. QED BY <2>1, <3>1, <3>2
  <2>. QED BY <1>1, <2>1, <2>2
<1>4. CASE Caller \/ Tick \/ Killed \/ UNCHANGED allVars
  <2>1. s2c' = s2c
    BY <1>4 DEF Caller, StartRead, Quit, Abort, Tick, Killed, allVars, vars
  <2>2. pc' \in Places
    BY <1>1, <1>4 DEF Caller, StartRead, Quit, Abort, Tick, Killed, allVars, vars,
       clientVars
  <2>. QED BY <1>1, <2>1, <2>2
<1>. QED BY <1>2, <1>3, <1>4 DEF TlsNext

(* What the reads return. *)
LEMMA FailReads ==
  ASSUME TlsReads, FailCall, UNCHANGED <<got, asked>>
  PROVE  TlsReads'
<1>1. CASE pc \in InRead BY <1>1, LostReads DEF FailCall
<1>2. CASE pc \notin InRead BY <1>2, LeaveReads DEF FailCall
<1>. QED BY <1>1, <1>2

LEMMA ClientReads ==
  ASSUME ClientInv, PendingInv, TlsReads, TlsClient
  PROVE  TlsReads'
<1>1. Fewer BY ClientStream
<1>2. CASE Connect \/ ReadGreeting \/ ReadTlsReply \/ Handshake
  <2>1. pc \notin {"head", "data", "deinit", "exited"} /\ pc' \notin {"head", "data"}
        /\ UNCHANGED <<result, got, asked, c2s, lost>>
    BY <1>2 DEF Connect, ReadGreeting, ReadTlsReply, Negotiate, Judge, Handshake
  <2>. QED BY <1>1, <2>1, QuietReads
<1>3. CASE TlsReadReply \/ TlsReadExport \/ ReadSession \/ ReadSocket \/ ReadSocketName
  <2>1. pc \notin {"head", "data", "deinit", "exited"} /\ pc' \notin {"head", "data"}
        /\ UNCHANGED <<result, got, asked, c2s, lost>>
    BY <1>3 DEF TlsReadReply, TlsReadExport, AfterExport, ReadSession, ReadSocket,
       ReadSocketName, Judge
  <2>. QED BY <1>1, <2>1, QuietReads
<1>4. CASE SendStartTls \/ SendGo
  <2>1. PICK m \in {[cmd |-> "starttls"], [cmd |-> "go"]} : Send(m)
    BY <1>4 DEF SendStartTls, SendGo, SendOption
  <2>2. m \in Message /\ m.cmd # "read" BY DEF Message
  <2>3. c2s' = c2s \/ c2s' = Append(c2s, m) BY <2>1 DEF Send
  <2>4. NoRead(c2s) => NoRead(c2s') BY <2>2, <2>3, SendNoRead DEF ClientInv
  <2>5. pc = "option" /\ pc' = "reply" /\ UNCHANGED <<result, got, asked, lost>>
    BY <1>4 DEF SendStartTls, SendGo, SendOption
  <2>. QED BY <1>1, <2>4, <2>5, QuietReads
<1>5. CASE TlsSendRequest BY <1>5, RequestReads DEF TlsSendRequest
<1>6. CASE TlsReadHead
  <2>1. ReceiveTls BY <1>6 DEF TlsReadHead
  <2>2. CASE Head(s2c).kind \in {"reply", "info"}
    <3>1. FailCall /\ UNCHANGED <<got, asked>> BY <1>6, <2>2 DEF TlsReadHead
    <3>. QED BY <3>1, FailReads
  <2>3. CASE Head(s2c).kind \notin {"reply", "info"}
    <3>1. TakeHead BY <1>6, <2>3 DEF TlsReadHead
    <3>2. IsData(Head(s2c)) BY <2>1, SessionTyped DEF ClientInv
    <3>3. IsAnswer(Head(s2c)) BY <2>3, <3>2 DEF IsData, IsAnswer
    <3>. QED BY <2>1, <3>1, <3>3, HeadReads
  <2>. QED BY <2>2, <2>3
<1>7. CASE TlsReadData BY <1>7, DataReads DEF TlsReadData
<1>8. CASE TlsSendBye \/ Deinit
  <2>1. pc' \in {"deinit", "exited"} /\ UNCHANGED <<lost, result, got, asked>>
    BY <1>8 DEF TlsSendBye, SendBye, Deinit
  <2>. QED BY <2>1, LeaveReads
<1>9. CASE SkipRecord
  <2>1. /\ s2c # <<>> /\ s2c' = Tail(s2c) /\ ~IsAnswer(Head(s2c)) /\ pc \in Reading
        /\ UNCHANGED <<pc, asked, head, got, result, lost, c2s, broken>>
    BY <1>9 DEF SkipRecord, Receive, IsAnswer
  <2>2. CASE pc \in {"head", "data"} BY <2>1, <2>2, SkipReads
  <2>3. CASE pc \notin {"head", "data"}
    <3>1. pc \notin {"deinit", "exited"} BY <2>1 DEF Reading
    <3>. QED BY <1>1, <2>1, <2>3, <3>1, QuietReads
  <2>. QED BY <2>2, <2>3
<1>10. CASE BadRecord \/ InvalidSession \/ TlsGiveUp
  <2>1. FailCall /\ UNCHANGED <<got, asked>>
    BY <1>10 DEF BadRecord, InvalidSession, TlsGiveUp, GiveUpOn
  <2>. QED BY <2>1, FailReads
<1>. QED BY <1>2, <1>3, <1>4, <1>5, <1>6, <1>7, <1>8, <1>9, <1>10 DEF TlsClient

LEMMA ServersReads ==
  ASSUME ClientInv, PendingInv, TlsReads, TlsServer
  PROVE  TlsReads'
<1>1. ASSUME NEW cell, <<cell>> \in Seq(Cell), ~IsAnswer(cell), ServerSends(<<cell>>),
             c2s' = c2s \/ (c2s # <<>> /\ c2s' = Tail(c2s))
      PROVE  TlsReads'
  <2>. DEFINE cells == <<cell>>
  <2>1. Len(cells) = 1 /\ cells[1] = cell /\ cells \in Seq(Cell) BY <1>1
  <2>2. ServerSends(cells) BY <1>1
  <2>. HIDE DEF cells
  <2>3. NoAnswer(cells) BY <1>1, <2>1 DEF NoAnswer
  <2>. QED BY <1>1, <2>1, <2>2, <2>3, SendsReads
<1>2. ASSUME NEW style \in {"fixed newstyle", "other"}, Greet(style) PROVE TlsReads'
  <2>. DEFINE cell == [kind |-> "greeting", style |-> style]
  <2>1. cell.kind = "greeting" /\ <<cell>> \in Seq(Cell) BY RepliesTyped
  <2>2. ServerSends(<<cell>>) /\ c2s' = c2s BY <1>2 DEF Greet
  <2>. HIDE DEF cell
  <2>3. ~IsAnswer(cell) BY <2>1 DEF IsAnswer
  <2>. QED BY <1>1, <2>1, <2>2, <2>3
<1>3. ASSUME NEW type \in {"ack", "error"},
             ServerSends(<<[kind |-> "reply", type |-> type]>>),
             c2s' = c2s \/ (c2s # <<>> /\ c2s' = Tail(c2s))
      PROVE  TlsReads'
  <2>. DEFINE cell == [kind |-> "reply", type |-> type]
  <2>1. cell.kind = "reply" /\ <<cell>> \in Seq(Cell) BY RepliesTyped
  <2>2. ServerSends(<<cell>>) BY <1>3
  <2>. HIDE DEF cell
  <2>3. ~IsAnswer(cell) BY <2>1 DEF IsAnswer
  <2>. QED BY <1>1, <1>3, <2>1, <2>2, <2>3
<1>4. ASSUME NEW type \in {"ack", "error"}, TakeStartTls(type) PROVE TlsReads'
  BY <1>3, <1>4 DEF TakeStartTls
<1>5. ASSUME NEW type \in Cleartext, SendClear(type) PROVE TlsReads'
  <2>. DEFINE cell == [kind |-> "clear", type |-> type]
  <2>1. cell.kind = "clear" /\ <<cell>> \in Seq(Cell)
    BY RepliesTyped, TlsAssumption
  <2>2. ServerSends(<<cell>>) /\ c2s' = c2s BY <1>5 DEF SendClear
  <2>. HIDE DEF cell
  <2>3. ~IsAnswer(cell) BY <2>1 DEF IsAnswer
  <2>. QED BY <1>1, <2>1, <2>2, <2>3
<1>6. ASSUME SendTicket \/ CloseSession PROVE TlsReads'
  <2>1. PICK kind \in {"ticket", "close"} : ServerSends(<<[kind |-> kind]>>)
    BY <1>6 DEF SendTicket, CloseSession
  <2>2. c2s' = c2s BY <1>6 DEF SendTicket, CloseSession
  <2>. DEFINE cell == [kind |-> kind]
  <2>3. cell.kind = kind /\ <<cell>> \in Seq(Cell) /\ ServerSends(<<cell>>)
    BY <2>1, RepliesTyped
  <2>. HIDE DEF cell
  <2>4. ~IsAnswer(cell) BY <2>3 DEF IsAnswer
  <2>. QED BY <1>1, <2>2, <2>3, <2>4
<1>7. ASSUME InSession PROVE TlsReads'
  <2>1. CASE TakeOption BY <2>1, TakeReads DEF TakeOption
  <2>2. ASSUME NEW info \in {"export", "name", "other"}, Inform(info) PROVE TlsReads'
    <3>. DEFINE cells == <<[kind |-> "reply", type |-> "info"],
                           [kind |-> "info", info |-> info]>>
    <3>1. cells \in Seq(Cell) BY RepliesTyped
    <3>2. Len(cells) = 2 /\ cells[1].kind = "reply" /\ cells[2].kind = "info"
      OBVIOUS
    <3>3. ServerSends(cells) /\ c2s' = c2s BY <2>2 DEF Inform
    <3>. HIDE DEF cells
    <3>4. \A i \in 1..2 : i = 1 \/ i = 2 OBVIOUS
    <3>5. NoAnswer(cells) BY <3>2, <3>4 DEF NoAnswer, IsAnswer
    <3>. QED BY <3>1, <3>3, <3>5, SendsReads
  <2>3. CASE Refuse \/ Acknowledge BY <1>3, <2>3 DEF Refuse, Acknowledge
  <2>4. CASE \E error \in BOOLEAN : Serve(error) BY <2>4, ServeReads
  <2>. QED BY <1>7, <2>1, <2>2, <2>3, <2>4 DEF InSession
<1>8. CASE TlsDisconnect BY <1>8, CutReads
<1>. QED BY <1>2, <1>4, <1>5, <1>6, <1>7, <1>8 DEF TlsServer

LEMMA ReadsKept ==
  ASSUME ClientInv, PendingInv, TlsReads, [TlsNext]_allVars
  PROVE  TlsReads'
<1>1. CASE TlsClient BY <1>1, ClientReads
<1>2. CASE TlsServer BY <1>2, ServersReads
<1>3. CASE Caller
  <2>1. CASE \E o \in Offset, n \in Count : StartRead(o, n) BY <2>1, StartReadReads
  <2>2. CASE Quit
    <3>1. pc = "idle" /\ pc' = "bye" /\ UNCHANGED <<result, got, asked, c2s, s2c, lost>>
      BY <2>2 DEF Quit
    <3>2. Fewer BY <3>1 DEF Fewer
    <3>. QED BY <3>1, <3>2, QuietReads
  <2>3. CASE Abort BY <2>3, LeaveReads DEF Abort
  <2>. QED BY <1>3, <2>1, <2>2, <2>3 DEF Caller
<1>4. CASE Killed BY <1>4, LeaveReads DEF Killed
<1>5. CASE Tick \/ UNCHANGED allVars
  <2>1. UNCHANGED <<pc, asked, head, got, result, lost, c2s, s2c, broken>>
    BY <1>5 DEF Tick, allVars, vars, clientVars
  <2>. QED BY <2>1, SameReads
<1>. QED BY <1>1, <1>2, <1>3, <1>4, <1>5 DEF TlsNext

-----------------------------------------------------------------------------
(* The client over TLS: the inductive invariant, and what it gives. *)
LEMMA InitSession == TlsInit => SessionInv
<1>. SUFFICES ASSUME TlsInit PROVE SessionInv OBVIOUS
<1>1. ClientInv BY InitClient DEF TlsInit
<1>. DEFINE none == <<>>
<1>2. /\ pc = "start" /\ result = "none" /\ s2c = none /\ c2s = none
      /\ stage = "clear" /\ pending = 0 /\ Len(none) = 0
  BY DEF TlsInit, UntouchedTls, Init
<1>. HIDE DEF none
<1>3. PendingInv BY <1>2 DEF PendingInv
<1>4. ToldInv BY <1>2 DEF ToldInv, TextInv, After, InRead
<1>5. ClearInv BY <1>2 DEF ClearInv
<1>6. TlsReads BY <1>2 DEF TlsReads, TlsReadInv, ReadsRight, NoAnswer, NoRead
<1>. QED BY <1>1, <1>3, <1>4, <1>5, <1>6 DEF SessionInv

LEMMA NextSession == SessionInv /\ [TlsNext]_allVars => SessionInv'
BY TlsNextKeeps, PendingKept, ToldKept, ClearKept, ReadsKept DEF SessionInv

LEMMA SessionSuffices == SessionInv => ReadsRight /\ TlsInStep /\ TypeOK /\ ClosedOnce
<1>. SUFFICES ASSUME SessionInv PROVE ReadsRight /\ TlsInStep /\ TypeOK /\ ClosedOnce
  OBVIOUS
<1>1. TypeOK /\ ClosedOnce BY ClientSuffices DEF SessionInv
<1>2. CASE lost BY <1>1, <1>2 DEF ReadsRight, TlsInStep
<1>3. CASE ~lost
  <2>1. ReadsRight /\ TlsReadInv BY <1>3 DEF SessionInv, TlsReads
  <2>2. ASSUME pc = "idle" PROVE TlsInStep
    <3>1. NoAnswer(s2c) /\ NoRead(c2s) BY <2>1, <2>2 DEF TlsReadInv
    <3>2. told BY <2>2 DEF SessionInv, ToldInv, After
    <3>3. DOMAIN c2s = 1..Len(c2s) /\ DOMAIN s2c = 1..Len(s2c)
      BY LenProperties DEF SessionInv, ClientInv, Streams
    <3>. QED BY <3>1, <3>2, <3>3 DEF NoAnswer, NoRead, IsAnswer, TlsInStep
  <2>3. TlsInStep BY <2>2 DEF TlsInStep
  <2>. QED BY <1>1, <2>1, <2>3
<1>. QED BY <1>2, <1>3

-----------------------------------------------------------------------------
(* Both clients: the one that the program has at the start is the one it has
   at the end. *)
UnionInv == IF stage = "none" THEN IInv ELSE SessionInv

LEMMA StageStays ==
  ASSUME stage # "none", TlsNext PROVE stage' # "none"
<1>1. CASE TlsServer
  BY <1>1 DEF TlsServer, tlsVars, TakeStartTls, InSession, SendTicket, SendClear,
     CloseSession, TlsDisconnect
<1>2. CASE TlsClient
  <2>1. CASE ReadSession \/ ReadSocket \/ ReadSocketName
    BY <2>1 DEF ReadSession, ReadSocket, ReadSocketName
  <2>2. CASE SendStartTls \/ ReadTlsReply \/ Handshake \/ SkipRecord \/ BadRecord
    BY <2>2 DEF SendStartTls, ReadTlsReply, Handshake, SkipRecord, BadRecord
  <2>3. CASE TlsReadReply \/ TlsReadExport \/ TlsReadHead \/ TlsReadData
    BY <2>3 DEF TlsReadReply, TlsReadExport, TlsReadHead, TlsReadData
  <2>. QED
    BY <1>2, <2>1, <2>2, <2>3 DEF TlsClient, SendGo, TlsSendRequest, TlsSendBye,
       InvalidSession, TlsGiveUp, tlsVars
<1>. QED BY <1>1, <1>2 DEF TlsNext, tlsVars

LEMMA InitUnion == UnionInit => UnionInv
BY InitIInv, InitSession DEF UnionInit, TlsInit, UnionInv

LEMMA NextUnion == UnionInv /\ [UnionNext]_allVars => UnionInv'
<1>. SUFFICES ASSUME UnionInv, [UnionNext]_allVars PROVE UnionInv'
  OBVIOUS
<1>1. CASE stage = "none"
  <2>1. stage' = "none" /\ [Next]_vars
    BY <1>1 DEF UnionNext, allVars, tlsVars
  <2>. QED BY <1>1, <2>1, NextIInv DEF UnionInv
<1>2. CASE stage # "none"
  <2>1. stage' # "none" BY <1>2, StageStays DEF UnionNext, allVars, tlsVars
  <2>2. [TlsNext]_allVars BY <1>2 DEF UnionNext
  <2>. QED BY <1>2, <2>1, <2>2, NextSession DEF UnionInv
<1>. QED BY <1>1, <1>2

LEMMA UnionSuffices ==
  UnionInv => TypeOK /\ ReadsRight /\ ClosedOnce /\ PlainInStep /\ TlsInStep
BY IInvSuffices, SessionSuffices DEF UnionInv, PlainInStep, TlsInStep

(* The program, with whichever of the clients it has, keeps the inductive
   invariant of that one. *)
THEOREM UnionInvHolds == UnionSpec => []UnionInv
BY InitUnion, NextUnion, PTL DEF UnionSpec

(* Every variable of NbdClient has a value of its type; the streams keep
   within their bounds, and a read has never more than was asked for. *)
THEOREM TypeCorrect == UnionSpec => []TypeOK
BY UnionInvHolds, UnionSuffices, PTL

(* readoff_nbdclient, readoff_nbdtlsclient: a read that succeeds has put the
   bytes into dest that were asked for, unless a read before it fell short of
   its reply.  Over TLS this is so although eatreplies may leave replies in
   the session that come before the answer. *)
THEOREM ReadsAreRight == UnionSpec => []ReadsRight
BY UnionInvHolds, UnionSuffices, PTL

(* Without TLS, nothing is under way in either direction between two reads, as
   long as none gave up: init_nbdclient has consumed every reply of the
   negotiation, and a read its whole answer. *)
THEOREM PlainStaysInStep == UnionSpec => []PlainInStep
BY UnionInvHolds, UnionSuffices, PTL

(* Over TLS, no request and no part of an answer is under way between two
   reads, and the server has described the export, as long as none fell
   short. *)
THEOREM TlsStaysInStep == UnionSpec => []TlsInStep
BY UnionInvHolds, UnionSuffices, PTL

(* The socket is closed on the way out and never twice, by connecttoserver,
   shutdown or deinit of either client. *)
THEOREM SocketClosedOnce == UnionSpec => []ClosedOnce
BY UnionInvHolds, UnionSuffices, PTL

LEMMA NoneServed == SessionInv => (Cleartext = {} => pc # "idle")
BY DEF SessionInv, ClearInv

(* With a server that keeps the protocol, which sends nothing past the
   session, eatreplies never finds its header at the socket: the client over
   TLS does not get to its first read. *)
THEOREM TlsNeverServed == TlsSpec => [](Cleartext = {} => pc # "idle")
BY InitSession, NextSession, NoneServed, PTL DEF TlsSpec
=============================================================================
