----------------------------- MODULE NbdClient ------------------------------
(***************************************************************************)
(* The NBD client of nbdclient.c, the TCP connection and an NBD server.    *)
(*                                                                         *)
(* main.c connects and negotiates (init_nbdclient), reads pieces of the    *)
(* export one after the other (readoff_nbdclient), and at the end          *)
(* disconnects (shutdown_nbdclient) and closes (deinit_nbdclient).  Each   *)
(* call has one deadline for all that it sends and receives.  A read that  *)
(* failed ends the program, unless its caller does not look: then the next *)
(* read goes out on the same connection.                                   *)
(*                                                                         *)
(* The connection is two streams of cells, which stand for the bytes that  *)
(* are received in one piece.  The server is external: it does what the    *)
(* NBD protocol lets it do, as far as the client can tell.                 *)
(***************************************************************************)
EXTENDS Naturals, Sequences

CONSTANTS
  Offset,    \* the offsets that are read at
  Count,     \* the numbers of cells that are read
  Patience,  \* the timeout of a call, in ticks of the clock
  Window,    \* bound of the model: requests under way
  Buffer     \* bound of the model: cells under way to the client

ASSUME NbdAssumption ==
  /\ Offset \subseteq Nat /\ Count \subseteq Nat
  /\ Patience \in Nat \ {0} /\ Window \in Nat /\ Buffer \in Nat

VARIABLES
  pc,       \* where the client is, "idle" between two reads
  left,     \* ticks until maxtime of the running call
  hasfd,    \* whether n->fd is a descriptor, not -1
  sock,     \* the socket itself
  closes,   \* how often the client has closed it
  asked,    \* the offset and count of the running or last read
  head,     \* the cells of the reply header read so far
  got,      \* the cells read into dest
  result,   \* what the last read returned
  c2s, s2c, \* the streams to the server and to the client
  broken,   \* the connection is gone
  srv,      \* where the server is
  told,     \* whether the server has described the export
  lost      \* history: a read gave up before its reply was complete

clientVars == <<pc, left, hasfd, sock, closes, asked, head, got, result, lost>>
serverVars == <<srv, told>>
vars == <<clientVars, c2s, s2c, broken, serverVars>>

Negotiating == {"greeting", "option", "reply", "export", "replies", "name"}
Reading == {"greeting", "reply", "export", "replies", "name", "head", "data"}
Writing == {"option", "request", "bye"}
InRead == {"request", "head", "data"}

Init ==
  /\ pc = "start" /\ left = 0
  /\ hasfd = FALSE /\ sock = "none" /\ closes = 0
  /\ asked = [offset |-> 0, count |-> 0]
  /\ head = <<>> /\ got = <<>> /\ result = "none"
  /\ c2s = <<>> /\ s2c = <<>> /\ broken = FALSE
  /\ srv = "hello" /\ told = FALSE /\ lost = FALSE

-----------------------------------------------------------------------------
(* timeout_writen and timeout_readn.  They give up when the deadline of the
   call has passed, whatever they could still send or receive. *)

(* A message goes out whole; on a broken connection it goes nowhere. *)
Send(m) ==
  /\ left > 0
  /\ IF broken THEN UNCHANGED c2s
               ELSE Len(c2s) < Window /\ c2s' = Append(c2s, m)

(* The next cell of the stream; every call keeps its deadline. *)
ReceiveExtended ==  \* fault: each cell moves the deadline
  left > 0 /\ s2c # <<>> /\ s2c' = Tail(s2c) /\ left' = Patience
Receive ==
  left > 0 /\ s2c # <<>> /\ s2c' = Tail(s2c) /\ UNCHANGED left

(* The error paths: init_nbdclient and shutdown_nbdclient fail, and main goes
   to its error label; or readoff_nbdclient fails, short of its reply. *)
FailCall ==
  /\ IF pc \in InRead THEN pc' = "idle" /\ result' = "failed"
                      ELSE pc' = "deinit" /\ UNCHANGED result
  /\ lost' = (lost \/ pc \in InRead)

(* Too late, or the connection is at its end and nothing is left to receive.
   A request may have gone out in part. *)
GiveUpOn(nothing) ==
  /\ \/ pc \in Reading \cup Writing /\ left = 0
     \/ pc \in Reading /\ broken /\ nothing
     \/ pc \in Writing /\ broken
  /\ FailCall
  /\ \/ UNCHANGED c2s
     \/ /\ pc \in Writing /\ ~broken /\ Len(c2s) < Window
        /\ c2s' = Append(c2s, [cmd |-> "cut"])
  /\ UNCHANGED <<left, hasfd, sock, closes, asked, head, got, s2c, broken,
                 serverVars>>
GiveUp == GiveUpOn(s2c = <<>>)

(* Writing on a connection that the server has closed raises SIGPIPE. *)
Killed ==
  /\ pc \in Writing /\ broken
  /\ pc' = "exited" /\ sock' = "closed"
  /\ UNCHANGED <<left, hasfd, closes, asked, head, got, result, lost, c2s, s2c,
                 broken, serverVars>>

(* Time passes. *)
Tick ==
  /\ pc \in Reading \cup Writing /\ left > 0
  /\ left' = left - 1
  /\ UNCHANGED <<pc, hasfd, sock, closes, asked, head, got, result, lost, c2s,
                 s2c, broken, serverVars>>

-----------------------------------------------------------------------------
(* connecttoserver.  If there is no connection the socket is closed again, and
   if there is no socket there is nothing to close. *)
Connect ==
  /\ pc = "start" /\ sock = "none"
  /\ \/ /\ sock' = "open" /\ hasfd' = TRUE /\ UNCHANGED closes
        /\ pc' = "greeting" /\ left' = Patience
     \/ /\ sock' = "closed" /\ closes' = closes + 1 /\ UNCHANGED <<hasfd, left>>
        /\ pc' = "deinit"
     \/ pc' = "deinit" /\ UNCHANGED <<sock, hasfd, closes, left>>
  /\ UNCHANGED <<asked, head, got, result, lost, c2s, s2c, broken, serverVars>>

(* One step of init_nbdclient, exportname_negotiate or eatreplies: a cell is
   read and the negotiation goes on, or what was read is not accepted. *)
Judge(at, accepted, then) ==
  /\ pc = at
  /\ pc' = IF accepted THEN then ELSE "deinit"
  /\ UNCHANGED <<hasfd, sock, closes, asked, head, got, result, lost, c2s,
                 broken, serverVars>>

Negotiate(at, accepted, then) == Receive /\ Judge(at, accepted, then)

ReadGreeting ==
  Negotiate("greeting", Head(s2c).style = "fixed newstyle", "option")

(* The client's flags and the option NBD_OPT_GO. *)
SendOption ==
  /\ pc = "option" /\ Send([cmd |-> "go"])
  /\ pc' = "reply"
  /\ UNCHANGED <<left, hasfd, sock, closes, asked, head, got, result, lost, s2c,
                 broken, serverVars>>

(* The first reply must describe the export. *)
ReadReply == Negotiate("reply", Head(s2c).type = "info", "export")
AfterExportIdle == "idle"  \* fault: the other replies are left unread
AfterExport == "replies"
ReadExport == Negotiate("export", Head(s2c).info = "export", AfterExport)

(* eatreplies *)
ReadReplies ==
  Negotiate("replies", Head(s2c).type \in {"info", "ack"},
            IF Head(s2c).type = "info" THEN "name" ELSE "idle")
ReadName == Negotiate("name", Head(s2c).info = "name", "replies")

-----------------------------------------------------------------------------
(* readoff_nbdclient: a request, the header of its reply, the data.  All
   requests have the handle 1. *)
StartRead(o, n) ==
  /\ pc = "idle"
  /\ asked' = [offset |-> o, count |-> n]
  /\ head' = <<>> /\ got' = <<>>
  /\ IF n = 0 THEN result' = "ok" /\ UNCHANGED <<pc, left>>
              ELSE result' = "none" /\ pc' = "request" /\ left' = Patience
  /\ UNCHANGED <<hasfd, sock, closes, lost, c2s, s2c, broken, serverVars>>

SendRequest ==
  /\ pc = "request"
  /\ Send([cmd |-> "read", offset |-> asked.offset, count |-> asked.count])
  /\ pc' = "head"
  /\ UNCHANGED <<left, hasfd, sock, closes, asked, head, got, result, lost, s2c,
                 broken, serverVars>>

(* The header has two cells, the magic number with the error, and the
   handle. *)
MagicOK(h) == h[1].kind = "magic" /\ h[2].kind = "handle"

TakeHead ==
  /\ pc = "head"
  /\ head' = Append(head, Head(s2c))
  /\ IF Len(head') < 2 THEN UNCHANGED <<pc, result>>
     ELSE IF MagicOK(head') /\ ~head'[1].error
            THEN pc' = "data" /\ UNCHANGED result
            ELSE pc' = "idle" /\ result' = "failed"
  /\ UNCHANGED <<hasfd, sock, closes, asked, got, lost, c2s, broken, serverVars>>

ReadHead == Receive /\ TakeHead

(* Whether all that was asked for is there. *)
CompleteEarly(cells) == TRUE  \* fault: a short read is taken for a whole one
CompleteLate(cells) == Len(cells) > asked.count  \* fault: reads past the data
Complete(cells) == Len(cells) = asked.count

TakeData ==
  /\ pc = "data"
  /\ got' = Append(got, Head(s2c))
  /\ IF Complete(got')
       THEN pc' = "idle" /\ result' = "ok"
       ELSE UNCHANGED <<pc, result>>
  /\ UNCHANGED <<hasfd, sock, closes, asked, head, lost, c2s, broken, serverVars>>

ReadData == Receive /\ TakeData

-----------------------------------------------------------------------------
(* The end: quit calls shutdown_nbdclient and then deinit_nbdclient, an error
   anywhere in main only the latter. *)
Quit ==
  /\ pc = "idle" /\ pc' = "bye" /\ left' = Patience
  /\ UNCHANGED <<hasfd, sock, closes, asked, head, got, result, lost, c2s, s2c,
                 broken, serverVars>>

Abort ==
  /\ pc = "idle" /\ pc' = "deinit"
  /\ UNCHANGED <<left, hasfd, sock, closes, asked, head, got, result, lost, c2s,
                 s2c, broken, serverVars>>

ForgetFdNot == UNCHANGED hasfd  \* fault: n->fd keeps the closed descriptor
ForgetFd == hasfd' = FALSE

SendBye ==
  /\ pc = "bye" /\ Send([cmd |-> "disconnect"])
  /\ sock' = "closed" /\ closes' = closes + 1 /\ ForgetFd
  /\ pc' = "deinit"
  /\ UNCHANGED <<left, asked, head, got, result, lost, s2c, broken, serverVars>>

Deinit ==
  /\ pc = "deinit" /\ pc' = "exited"
  /\ IF hasfd THEN sock' = "closed" /\ closes' = closes + 1
              ELSE UNCHANGED <<sock, closes>>
  /\ UNCHANGED <<left, hasfd, asked, head, got, result, lost, c2s, s2c, broken,
                 serverVars>>

-----------------------------------------------------------------------------
(* The server. *)
ServerSends(cells) ==
  /\ sock = "open" /\ ~broken /\ Len(s2c) + Len(cells) <= Buffer
  /\ s2c' = s2c \o cells
  /\ UNCHANGED <<clientVars, broken>>

Greet(style) ==
  /\ srv = "hello" /\ srv' = "options"
  /\ ServerSends(<<[kind |-> "greeting", style |-> style]>>)
  /\ UNCHANGED <<c2s, told>>

TakeOption ==
  /\ srv = "options" /\ c2s # <<>> /\ Head(c2s).cmd = "go"
  /\ srv' = "replies" /\ c2s' = Tail(c2s)
  /\ UNCHANGED <<clientVars, s2c, broken, told>>

Inform(info) ==
  /\ srv = "replies"
  /\ ServerSends(<<[kind |-> "reply", type |-> "info"],
                   [kind |-> "info", info |-> info]>>)
  /\ told' = (told \/ info = "export")
  /\ UNCHANGED <<srv, c2s>>

Refuse ==
  /\ srv = "replies" /\ srv' = "options"
  /\ ServerSends(<<[kind |-> "reply", type |-> "error"]>>)
  /\ UNCHANGED <<c2s, told>>

Acknowledge ==
  /\ srv = "replies" /\ told /\ srv' = "transmission"
  /\ ServerSends(<<[kind |-> "reply", type |-> "ack"]>>)
  /\ UNCHANGED <<c2s, told>>

Cells(r) == [i \in 1..r.count |-> [kind |-> "data", at |-> r.offset + i - 1]]

Header(error) == <<[kind |-> "magic", error |-> error], [kind |-> "handle"]>>

(* A request is answered with its data, or with an error and no data. *)
Serve(error) ==
  /\ srv = "transmission" /\ c2s # <<>> /\ Head(c2s).cmd = "read"
  /\ c2s' = Tail(c2s)
  /\ ServerSends(Header(error) \o (IF error THEN <<>> ELSE Cells(Head(c2s))))
  /\ UNCHANGED serverVars

(* The server goes away, at any time, or because of a disconnect, or because
   it cannot make sense of what follows a request that was cut. *)
DisconnectFrom(received) ==
  /\ sock = "open" /\ ~broken
  /\ broken' = TRUE /\ s2c' \in {s2c, received}
  /\ UNCHANGED <<clientVars, c2s, serverVars>>
Disconnect == DisconnectFrom(<<>>)

-----------------------------------------------------------------------------
Caller ==
  \/ \E o \in Offset, n \in Count : StartRead(o, n)
  \/ Quit \/ Abort

Client ==
  \/ Connect \/ ReadGreeting \/ SendOption \/ ReadReply \/ ReadExport
  \/ ReadReplies \/ ReadName
  \/ SendRequest \/ ReadHead \/ ReadData
  \/ SendBye \/ Deinit
  \/ GiveUp

Server ==
  \/ \E style \in {"fixed newstyle", "other"} : Greet(style)
  \/ TakeOption
  \/ \E info \in {"export", "name", "other"} : Inform(info)
  \/ Refuse \/ Acknowledge
  \/ \E error \in BOOLEAN : Serve(error)
  \/ Disconnect

Next == Caller \/ Client \/ Killed \/ Tick \/ Server

Spec == Init /\ [][Next]_vars

-----------------------------------------------------------------------------
(* Properties. *)

(* Every variable has a value of its type. *)
TypeOK ==
  /\ pc \in {"start", "idle", "deinit", "exited"} \cup Reading \cup Writing
  /\ left \in 0..Patience /\ hasfd \in BOOLEAN
  /\ sock \in {"none", "open", "closed"} /\ closes \in Nat
  /\ asked \in [offset : Nat, count : Nat]
  /\ Len(head) <= 2 /\ Len(got) <= asked.count
  /\ result \in {"none", "ok", "failed"}
  /\ Len(c2s) <= Window /\ Len(s2c) <= Buffer
  /\ broken \in BOOLEAN /\ told \in BOOLEAN /\ lost \in BOOLEAN
  /\ srv \in {"hello", "options", "replies", "transmission"}

(* A read that succeeds has the bytes that were asked for, as long as no read
   before it gave up on its reply. *)
Wanted == Cells(asked)
ReadsRight == result = "ok" /\ ~lost => got = Wanted

(* Without the proviso: what readoff_nbdclient is for. *)
AlwaysReadsRight == result = "ok" => got = Wanted

(* Between two reads, as long as none gave up, nothing is under way in either
   direction: the negotiation has consumed every reply to the option, a
   failed read has consumed its error, and the next header that arrives
   belongs to the next request. *)
StreamInStep ==
  pc = "idle" /\ ~lost /\ ~broken =>
    srv = "transmission" /\ told /\ c2s = <<>> /\ s2c = <<>>

(* The socket is closed on the way out, and never twice, however main gets
   there from whatever part of the negotiation, a read or the disconnect. *)
ClosedOnce ==
  /\ closes <= 1
  /\ pc = "exited" => sock # "open"

(* Every call ends by its deadline, though the server may be silent, stop in
   the middle of a reply, or never come to the end of its replies. *)
CallsEnd == pc \notin {"idle", "exited"} ~> pc \in {"idle", "exited"}
=============================================================================
