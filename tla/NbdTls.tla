------------------------------- MODULE NbdTls -------------------------------
(***************************************************************************)
(* The NBD client over TLS of nbdtlsclient.c, which main.c takes in place  *)
(* of the one of NbdClient for a URL of nbdtls.  The two are alike but for *)
(* the way of their messages.  This one asks for TLS first, in the clear   *)
(* (tls_negotiate), shakes hands with GnuTLS, and then sends and receives  *)
(* through the session (tls_timeout_writen, tls_timeout_readn): the        *)
(* option, the first reply, every request, its answer and the disconnect.  *)
(* Only eatreplies does not keep to it: it reads the header of a reply     *)
(* from the session, and then the one it goes by from the socket.          *)
(*                                                                         *)
(* A cell that the server sends in the session is a record or a part of    *)
(* one.  It may also send cells past the session, of kind "clear".  GnuTLS *)
(* and the server's side of TLS are external.                              *)
(***************************************************************************)
EXTENDS NbdClient, SequencesExt

CONSTANT
  Cleartext  \* the replies that the server sends past the session, none if it
             \* keeps the protocol: "info", "ack" and "name", the text of an info

ASSUME TlsAssumption == Cleartext \subseteq {"info", "ack", "name"}

VARIABLES
  stage,   \* how far TLS is at the client; "socket" while eatreplies reads it,
           \* "none" in the client without TLS
  pending, \* the cells at the front of s2c that GnuTLS has decrypted already
  ended,   \* the session has got the server's close_notify
  srvTls,  \* how far TLS is at the server
  owed     \* history: the acknowledgement was read, init has yet to return

tlsVars == <<stage, pending, ended, srvTls, owed>>
allVars == <<vars, tlsVars>>

UntouchedTls ==
  pending = 0 /\ ended = FALSE /\ owed = FALSE /\ srvTls = "clear"
TlsInit == Init /\ stage = "clear" /\ UntouchedTls

-----------------------------------------------------------------------------
(* tls_negotiate: the option NBD_OPT_STARTTLS and its reply, in the clear. *)
SendStartTls ==
  /\ pc = "option" /\ stage = "clear" /\ Send([cmd |-> "starttls"])
  /\ pc' = "reply" /\ stage' = "asked"
  /\ UNCHANGED <<left, hasfd, sock, closes, asked, head, got, result, lost, s2c,
                 broken, serverVars, pending, ended, srvTls, owed>>

ReadTlsReply ==
  /\ stage = "asked"
  /\ Negotiate("reply", Head(s2c).type = "ack", "option")
  /\ stage' = "handshake"
  /\ UNCHANGED <<pending, ended, srvTls, owed>>

(* gnutls_handshake, which has a timeout of its own and does not see the
   call's deadline. *)
Handshake ==
  /\ stage = "handshake" /\ pc = "option"
  /\ \/ srvTls = "handshake" /\ ~broken /\ srvTls' = "session"
        /\ stage' = "session" /\ UNCHANGED pc
     \/ pc' = "deinit" /\ UNCHANGED <<stage, srvTls>>
  /\ UNCHANGED <<left, hasfd, sock, closes, asked, head, got, result, lost,
                 c2s, s2c, broken, serverVars, pending, ended, owed>>

-----------------------------------------------------------------------------
(* tls_timeout_readn.  Of a record that it takes from the socket GnuTLS may
   have more cells than the one that is read: those are read without a look at
   the clock or the socket. *)
IsData(cell) == cell.kind \in {"reply", "info", "magic", "handle", "data"}

NextRecord ==
  /\ pending = 0 /\ left > 0
  /\ pending' \in {n \in 0..Len(s2c) - 1 : \A i \in 1..n : IsData(s2c[i + 1])}
ReceiveTls ==
  /\ stage = "session" /\ ~ended
  /\ s2c # <<>> /\ IsData(Head(s2c)) /\ s2c' = Tail(s2c)
  /\ NextRecord \/ (pending > 0 /\ pending' = pending - 1)
  /\ UNCHANGED <<left, ended, srvTls>>

(* A record without data of the application, such as a ticket, is consumed
   and leaves everything as it was.  After the server's close_notify
   gnutls_record_recv returns 0, and tls_timeout_readn goes round until the
   deadline. *)
SkipRecord ==
  /\ pc \in Reading /\ stage = "session" /\ ~ended /\ pending = 0
  /\ Receive /\ Head(s2c).kind \in {"ticket", "close"}
  /\ ended' = (Head(s2c).kind = "close")
  /\ UNCHANGED <<pc, hasfd, sock, closes, asked, head, got, result, lost, c2s,
                 broken, serverVars, stage, pending, srvTls, owed>>

(* What is no record ends the session: the call fails, and so does every one
   that comes after it. *)
BadRecord ==
  /\ pc \in Reading /\ stage = "session" /\ ~ended /\ pending = 0
  /\ Receive /\ Head(s2c).kind = "clear"
  /\ FailCall /\ stage' = "invalid"
  /\ UNCHANGED <<hasfd, sock, closes, asked, head, got, c2s, broken, serverVars,
                 pending, ended, srvTls, owed>>

InvalidSession ==
  /\ pc \in Writing /\ stage = "invalid"
  /\ FailCall
  /\ UNCHANGED <<left, hasfd, sock, closes, asked, head, got, c2s, s2c, broken,
                 serverVars, tlsVars>>

-----------------------------------------------------------------------------
(* exportname_negotiate. *)
SendGo == stage = "session" /\ SendOption /\ UNCHANGED tlsVars

TlsReadReply ==
  /\ ReceiveTls /\ Judge("reply", Head(s2c).type = "info", "export")
  /\ UNCHANGED <<stage, owed>>

DescribesAny(cell) == TRUE  \* fault: the kind of information is not compared
Describes(cell) == cell = [kind |-> "info", info |-> "export"]
TlsReadExport ==
  /\ ReceiveTls /\ Judge("export", Describes(Head(s2c)), AfterExport)
  /\ UNCHANGED <<stage, owed>>

(* eatreplies: the header of a reply comes from the session, and is not looked
   at.  (If there is a text in its place, it has the length of a header.) *)
ReadSession ==
  /\ ReceiveTls /\ Judge("replies", TRUE, "replies")
  /\ stage' = "socket"
  /\ owed' = (Head(s2c).kind = "reply" /\ Head(s2c).type = "ack")

(* Into the same buffer comes a header from the socket, where the cells that
   GnuTLS has are no more.  A record does not start with the magic number of a
   reply. *)
AtSocket == s2c[pending + 1]
IsClear(cell, types) == cell.kind = "clear" /\ cell.type \in types

ReceiveSocket ==
  /\ stage = "socket" /\ left > 0
  /\ pending < Len(s2c) /\ s2c' = RemoveAt(s2c, pending + 1)
  /\ UNCHANGED <<left, pending, ended, srvTls>>

ReadSocket ==
  /\ ReceiveSocket
  /\ Judge("replies", IsClear(AtSocket, {"info", "ack"}),
           IF AtSocket.type = "info" THEN "name" ELSE "idle")
  /\ stage' = IF pc' = "idle" THEN "session" ELSE stage
  /\ owed' = (owed /\ pc' # "idle")

ReadSocketName ==
  /\ ReceiveSocket /\ Judge("name", IsClear(AtSocket, {"name"}), "replies")
  /\ stage' = "session" /\ UNCHANGED owed

-----------------------------------------------------------------------------
(* readoff_nbdtlsclient and shutdown_nbdtlsclient.  What eatreplies has left
   in the session has the length of a header or more, and is not one. *)
TlsSendRequest == stage = "session" /\ SendRequest /\ UNCHANGED tlsVars

TlsReadHead ==
  /\ ReceiveTls
  /\ IF Head(s2c).kind \notin {"reply", "info"}
       THEN TakeHead
       ELSE /\ pc = "head" /\ FailCall
            /\ UNCHANGED <<hasfd, sock, closes, asked, head, got, c2s, broken,
                           serverVars>>
  /\ UNCHANGED <<stage, owed>>

TlsReadData == ReceiveTls /\ TakeData /\ UNCHANGED <<stage, owed>>

(* gnutls_bye sends an alert and does not wait for the server's, as the socket
   is non-blocking. *)
TlsSendBye == stage = "session" /\ SendBye /\ UNCHANGED tlsVars

(* Giving up is as in NbdClient, but not within the handshake nor with cells
   pending, and only at the deadline once the session has ended. *)
MayStop ==
  /\ stage \notin {"handshake", "invalid"}
  /\ pc \in Reading /\ stage = "session" => pending = 0

TlsGiveUp ==
  /\ MayStop
  /\ GiveUpOn(IF stage = "socket" THEN pending = Len(s2c)
                                  ELSE s2c = <<>> /\ ~ended)
  /\ UNCHANGED tlsVars

-----------------------------------------------------------------------------
(* The server's side of TLS. *)
TakeStartTls(type) ==
  /\ srv = "options" /\ srvTls = "clear"
  /\ c2s # <<>> /\ Head(c2s).cmd = "starttls" /\ c2s' = Tail(c2s)
  /\ srvTls' = IF type = "ack" THEN "handshake" ELSE "clear"
  /\ ServerSends(<<[kind |-> "reply", type |-> type]>>)
  /\ UNCHANGED <<serverVars, stage, pending, ended, owed>>

(* The server of NbdClient, in the session. *)
InSession ==
  /\ srvTls = "session"
  /\ \/ TakeOption
     \/ \E info \in {"export", "name", "other"} : Inform(info)
     \/ Refuse \/ Acknowledge
     \/ \E error \in BOOLEAN : Serve(error)
  /\ UNCHANGED tlsVars

SendTicket ==
  /\ srvTls = "session" /\ ServerSends(<<[kind |-> "ticket"]>>)
  /\ UNCHANGED <<c2s, serverVars, tlsVars>>

(* The header of a reply, or the text that follows it, past the session: that
   is all that eatreplies lets pass. *)
OneClear == \A i \in DOMAIN s2c : s2c[i].kind # "clear"  \* bound of the model
SendClear(type) ==
  /\ srvTls = "session" /\ OneClear
  /\ ServerSends(<<[kind |-> "clear", type |-> type]>>)
  /\ UNCHANGED <<c2s, serverVars, tlsVars>>

CloseSession ==
  /\ srvTls = "session" /\ srvTls' = "closed"
  /\ ServerSends(<<[kind |-> "close"]>>)
  /\ UNCHANGED <<c2s, serverVars, stage, pending, ended, owed>>

(* What GnuTLS has is not lost with the connection. *)
TlsDisconnect == DisconnectFrom(SubSeq(s2c, 1, pending)) /\ UNCHANGED tlsVars

-----------------------------------------------------------------------------
TlsClient ==
  \/ (Connect \/ ReadGreeting \/ Deinit) /\ UNCHANGED tlsVars
  \/ SendStartTls \/ ReadTlsReply \/ Handshake
  \/ SendGo \/ TlsReadReply \/ TlsReadExport
  \/ ReadSession \/ ReadSocket \/ ReadSocketName
  \/ TlsSendRequest \/ TlsReadHead \/ TlsReadData \/ TlsSendBye
  \/ SkipRecord \/ BadRecord \/ InvalidSession \/ TlsGiveUp

TlsServer ==
  \/ (\E style \in {"fixed newstyle", "other"} : Greet(style)) /\ UNCHANGED tlsVars
  \/ \E type \in {"ack", "error"} : TakeStartTls(type)
  \/ \E type \in Cleartext : SendClear(type)
  \/ InSession \/ SendTicket \/ CloseSession \/ TlsDisconnect

TlsNext ==
  \/ TlsClient \/ TlsServer
  \/ (Caller \/ Tick) /\ UNCHANGED tlsVars
  \/ Killed /\ stage # "invalid" /\ UNCHANGED tlsVars

TlsSpec == TlsInit /\ [][TlsNext]_allVars

-----------------------------------------------------------------------------
(* Which of the two clients the program has is decided by the URL, once, in
   init_unionio. *)
UnionInit == TlsInit \/ (Init /\ stage = "none" /\ UntouchedTls)

UnionNext ==
  \/ stage = "none" /\ Next /\ UNCHANGED tlsVars
  \/ stage # "none" /\ TlsNext

UnionSpec == UnionInit /\ [][UnionNext]_allVars

(* The client runs and the clock goes on; the server need do nothing.  The
   handshake ends, by its own timeout. *)
UnionFairSpec ==
  /\ UnionSpec
  /\ WF_allVars(stage = "none" /\ Client /\ UNCHANGED tlsVars)
  /\ WF_allVars(stage # "none" /\ TlsClient)
  /\ WF_allVars(Tick /\ UNCHANGED tlsVars)

-----------------------------------------------------------------------------
(* Properties. *)

(* Without TLS nothing at all is under way between two reads. *)
PlainInStep == stage = "none" => StreamInStep

(* eatreplies may leave replies in the session, and the server may still be at
   them, so StreamInStep does not hold over TLS.  But between two reads, as
   long as none fell short of its reply, nothing of a read is under way in
   either direction, so that no answer can be taken for a later one's; and the
   server has described the export. *)
TlsInStep ==
  stage # "none" /\ pc = "idle" /\ ~lost =>
    /\ told
    /\ \A i \in DOMAIN c2s : c2s[i].cmd # "read"
    /\ \A i \in DOMAIN s2c : s2c[i].kind \notin {"magic", "handle", "data"}

(* A negotiation in which the server has acknowledged the export succeeds. *)
AckAccepted == owed => pc # "deinit"
=============================================================================
