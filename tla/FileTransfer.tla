---------------------------- MODULE FileTransfer ----------------------------
(***************************************************************************)
(* One file transfer between two TcpClients (client/network/tcpclient.cpp) *)
(* through the server's FileSession table (server.cpp).  The Sender offers *)
(* a file; the server forwards the offer and records {sender, UNASSIGNED}; *)
(* the Receiver's user accepts or declines; on ACCEPT the server binds the *)
(* receiver and the Sender streams every chunk as FILE_DATA in one call of *)
(* startFileSend; the Receiver writes each chunk at its offset and reports *)
(* completion once bytesReceived reaches the offered fileSize.             *)
(*                                                                         *)
(* Frames are records (the framer is checked in Framer); a chunk is one    *)
(* unit of the file and carries its position, so that a lost, duplicated   *)
(* or misplaced chunk shows on the receiver's disk.  Both clients are      *)
(* logged in; either may disconnect (LOGOUT then FIN) or lose its link     *)
(* (the frames not yet read by the server are lost).  There is no          *)
(* reconnect.                                                              *)
(***************************************************************************)
EXTENDS Integers, Sequences

CONSTANTS
  Sender, Receiver,  \* the two clients
  None,              \* no session / no pending offer
  Sizes,             \* the possible lengths of the offered file, in chunks
  Readable,          \* whether the Sender can still open the file on ACCEPT
  SaveMayFail,       \* the Receiver's open of the save file may fail
  EditDeltas         \* how the file's length may change between offer and ACCEPT

Clients == {Sender, Receiver}
NoFd == "NoFd"

VARIABLES
  up,        \* isConnected() of each client
  srv,       \* the server's side of the connection: Online or Closed
  toSrv,     \* frames written by each client, not yet read by the server
  toCli,     \* frames queued by the server for each client, not yet handled
  sess,      \* fileSessions_[fileId]: None or [sender, receiver]
  offered,   \* the Sender's user has offered the file
  sending,   \* sendSessions_ of the Sender holds fileId
  pending,   \* pendingOffers_[fileId] of the Receiver: None or the fileSize
  asked,     \* the Receiver's Accept/Decline buttons are enabled
  recv,      \* recvSessions_[fileId]: None or [size, got]
  disk,      \* the Receiver's save file: the chunk written at each position
  sdone,     \* the last fileTransferCompleted of the Sender: none, ok, fail
  rdone,     \* the last fileTransferCompleted of the Receiver
  file,      \* the chunks of the Sender's file
  readable,  \* whether startFileSend can open it
  rows,      \* the Status cell of each client's ChatWindow transfer row
  cancelOn   \* the Sender's Cancel button is enabled

vars == <<up, srv, toSrv, toCli, sess, offered, sending, pending, asked,
          recv, disk, sdone, rdone, file, readable, rows, cancelOn>>

-----------------------------------------------------------------------------
(***************************************************************************)
(* ChatWindow's transfer rows (chatwindow.cpp).  A client's row for the    *)
(* fileId shows the last status written to it; the text of a status is    *)
(* abstracted to its first word ("Sending 50.0% (...)" is "Sending").     *)
(***************************************************************************)
Status == {"none", "Waiting", "Incoming", "Accepted", "Declined", "Busy",
           "Unknown", "Sending", "Receiving", "Sent", "Received", "Failed",
           "Canceled"}

\* updateTransferStatus for each status of ss in turn: a client without a
\* row for the fileId ignores them; otherwise the last one is shown.
UpdateTransferStatus(c, ss) ==
  IF rows[c] = "none" \/ ss = <<>> THEN rows
  ELSE [rows EXCEPT ![c] = ss[Len(ss)]]

\* addTransferRow: a new row with the status, or the existing row updated.
AddTransferRow(c, s) == [rows EXCEPT ![c] = s]

\* onFileOfferResponseReceived: the status for the result code.
ResponseStatus(result) ==
  CASE result = "ACCEPT"  -> "Accepted"
    [] result = "DECLINE" -> "Declined"
    [] result = "BUSY"    -> "Busy"
    [] OTHER              -> "Unknown"

\* onFileTransferCompleted.
CompletedStatus(incoming, success) ==
  IF ~success THEN "Failed" ELSE IF incoming THEN "Received" ELSE "Sent"

\* onFileTransferProgress: nothing when totalBytes is 0.
ProgressStatus(incoming, total) ==
  IF total = 0 THEN <<>> ELSE <<IF incoming THEN "Receiving" ELSE "Sending">>

Msg(t, a, o) == [type |-> t, arg |-> a, off |-> o]
Other(c) == IF c = Sender THEN Receiver ELSE Sender

-----------------------------------------------------------------------------
(***************************************************************************)
(* Client side                                                             *)
(***************************************************************************)
\* sendData: written to the socket only while connected.
Send(c, ms) == IF up[c] THEN [toSrv EXCEPT ![c] = @ \o ms] ELSE toSrv

\* clearFileSessions, for the sessions client c holds.
ClearFileSessionsKeepRecv(c) ==
  /\ sending' = (sending /\ c # Sender)
  /\ pending' = IF c = Receiver THEN None ELSE pending
  /\ UNCHANGED recv
ClearFileSessions(c) ==
  /\ sending' = (sending /\ c # Sender)
  /\ pending' = IF c = Receiver THEN None ELSE pending
  /\ recv'    = IF c = Receiver THEN None ELSE recv

\* ChatWindow::onSelectFile: the size offered is QFileInfo::size() now.
SelectedSize == Len(file)

\* sendFileOffer: record the send session, then send FILE_OFFER.
SendFileOffer ==
  /\ up[Sender] /\ ~offered
  /\ offered' = TRUE
  /\ sending' = TRUE
  /\ toSrv' = Send(Sender, <<Msg("FILE_OFFER", SelectedSize, 0)>>)
  /\ rows' = AddTransferRow(Sender, "Waiting")
  /\ cancelOn' = TRUE
  /\ UNCHANGED <<up, srv, toCli, sess, pending, asked, recv, disk, sdone,
                 rdone, file, readable>>

(***************************************************************************)
(* sendFileOfferResponse on a click of Accept or Decline: an ACCEPT with   *)
(* no pending offer becomes DECLINE "Offer expired"; an ACCEPT whose save  *)
(* file cannot be opened becomes DECLINE; otherwise the receive session is *)
(* installed.  The response is sent and the pending offer erased.  Then    *)
(* the button's handler writes "Accepted" or "Declined" into the row,      *)
(* over the "Failed" a failed save emitted.                                *)
(***************************************************************************)
ClickStatuses(result, saveFailed) ==
  (IF saveFailed THEN <<CompletedStatus(TRUE, FALSE)>> ELSE <<>>)
  \o <<IF result = "ACCEPT" THEN "Accepted" ELSE "Declined">>

SendFileOfferResponse(result) ==
  /\ asked
  /\ asked' = FALSE
  /\ \E saveOk \in IF SaveMayFail THEN BOOLEAN ELSE {TRUE} :
       LET opens == result = "ACCEPT" /\ pending # None /\ saveOk
           sent  == IF opens THEN "ACCEPT" ELSE "DECLINE"
       IN /\ recv' = IF opens THEN [size |-> pending, got |-> 0] ELSE recv
          /\ disk' = IF opens THEN <<>> ELSE disk
          /\ rdone' = IF result = "ACCEPT" /\ pending # None /\ ~saveOk
                      THEN "fail" ELSE rdone
          /\ toSrv' = Send(Receiver, <<Msg("FILE_OFFER_RSP", sent, 0)>>)
          /\ rows' = UpdateTransferStatus(Receiver,
                 ClickStatuses(result, result = "ACCEPT" /\ pending # None /\ ~saveOk))
  /\ pending' = None
  /\ UNCHANGED <<up, srv, toCli, sess, offered, sending, sdone, file,
                 readable, cancelOn>>

\* startFileSend: every chunk is read and sent in one call.
FileDataChunksShort == [i \in 1 .. Len(file) - 1 |-> Msg("FILE_DATA", file[i], i - 1)]
FileDataChunks == [i \in 1 .. Len(file) |-> Msg("FILE_DATA", file[i], i - 1)]

StartFileSend ==
  IF ~sending THEN UNCHANGED <<toSrv, sending, sdone>>
  ELSE /\ sending' = FALSE
       /\ IF readable
          THEN /\ toSrv' = Send(Sender, FileDataChunks)
               /\ sdone' = "ok"
          ELSE /\ sdone' = "fail"
               /\ UNCHANGED toSrv

\* The statuses startFileSend emits: the progress of each chunk and then
\* "Sent" in the same call, or "Failed" when the file cannot be opened.
StartFileSendStatuses ==
  IF ~sending THEN <<>>
  ELSE IF readable THEN ProgressStatus(FALSE, Len(file)) \o <<CompletedStatus(FALSE, TRUE)>>
  ELSE <<CompletedStatus(FALSE, FALSE)>>

\* What FILE_OFFER_RSP writes into the Sender's row: the response first,
\* then what startFileSend or the failed send session emits.
RspStatusesAfterStart(m) ==
  (IF m.arg = "ACCEPT" THEN StartFileSendStatuses
   ELSE IF sending THEN <<CompletedStatus(FALSE, FALSE)>> ELSE <<>>)
  \o <<ResponseStatus(m.arg)>>
RspStatuses(m) ==
  <<ResponseStatus(m.arg)>>
  \o (IF m.arg = "ACCEPT" THEN StartFileSendStatuses
      ELSE IF sending THEN <<CompletedStatus(FALSE, FALSE)>> ELSE <<>>)

\* processMessage(FILE_OFFER_RSP) at the Sender.
OnFileOfferRsp(m) ==
  /\ m.type = "FILE_OFFER_RSP"
  /\ rows' = UpdateTransferStatus(Sender, RspStatuses(m))
  /\ IF m.arg = "ACCEPT" THEN StartFileSend
     ELSE /\ sending' = FALSE
          /\ sdone' = IF sending THEN "fail" ELSE sdone
          /\ UNCHANGED toSrv
  /\ UNCHANGED <<pending, asked, recv, disk, rdone>>

\* processMessage(FILE_OFFER) at the Receiver: (over)write the pending offer.
OnFileOffer(m) ==
  /\ m.type = "FILE_OFFER"
  /\ pending' = m.arg
  /\ asked' = TRUE
  /\ rows' = AddTransferRow(Receiver, "Incoming")
  /\ UNCHANGED <<toSrv, sending, recv, disk, sdone, rdone>>

\* handleFileData: the session completes once bytesReceived >= fileSize > 0.
CompletesEarly(s, got) == s.size > 0 /\ got + 1 >= s.size
Completes(s, got) == s.size > 0 /\ got >= s.size

\* disk after writing chunk v at offset off (a seek past the end leaves a hole).
WriteAt(d, off, v) ==
  [i \in 1 .. IF off + 1 > Len(d) THEN off + 1 ELSE Len(d) |->
     IF i = off + 1 THEN v ELSE IF i <= Len(d) THEN d[i] ELSE 0]

OnFileData(m) ==
  /\ m.type = "FILE_DATA"
  /\ IF recv = None THEN UNCHANGED <<recv, disk, rdone, rows>>
     ELSE LET got == m.off + 1   \* after the seek to off and the write
              shown == ProgressStatus(TRUE, recv.size)
          IN /\ disk' = WriteAt(disk, m.off, m.arg)
             /\ IF Completes(recv, got)
                THEN /\ recv' = None /\ rdone' = "ok"
                     /\ rows' = UpdateTransferStatus(Receiver,
                                  shown \o <<CompletedStatus(TRUE, TRUE)>>)
                ELSE /\ recv' = [recv EXCEPT !.got = got] /\ UNCHANGED rdone
                     /\ rows' = UpdateTransferStatus(Receiver, shown)
  /\ UNCHANGED <<toSrv, sending, pending, asked, sdone>>

\* onReadyRead then processMessage, for the frame at the head of toCli[c].
Handle(c) ==
  /\ up[c] /\ toCli[c] # <<>>
  /\ toCli' = [toCli EXCEPT ![c] = Tail(@)]
  /\ LET m == Head(toCli[c]) IN
       IF c = Sender THEN OnFileOfferRsp(m)
       ELSE OnFileOffer(m) \/ OnFileData(m)
  /\ UNCHANGED <<up, srv, sess, offered, file, readable, cancelOn>>

(***************************************************************************)
(* disconnectFromServer: stop, clear the sessions, send LOGOUT, close; or  *)
(* the link drops: onDisconnected clears the sessions and the frames the   *)
(* server has not read yet may be lost.  Either way the server reads an    *)
(* end of stream (Bye) after what arrived.                                 *)
(***************************************************************************)
Disconnect(c) ==
  /\ up[c]
  /\ up' = [up EXCEPT ![c] = FALSE]
  /\ ClearFileSessions(c)
  /\ \/ toSrv' = [toSrv EXCEPT ![c] = @ \o <<Msg("LOGOUT", 0, 0), Msg("Bye", 0, 0)>>]
     \/ \E k \in 0 .. Len(toSrv[c]) :
          toSrv' = [toSrv EXCEPT ![c] = SubSeq(@, 1, k) \o <<Msg("Bye", 0, 0)>>]
  /\ toCli' = [toCli EXCEPT ![c] = <<>>]
  /\ UNCHANGED <<srv, sess, offered, asked, disk, sdone, rdone, file, readable,
                 rows, cancelOn>>

-----------------------------------------------------------------------------
(***************************************************************************)
(* Server side: the router's file handlers for the frame at the head of    *)
(* toSrv[c].  sendResponse to a torn-down connection sends nothing.        *)
(* LOGOUT_REQ only queues the disconnect; the client sends nothing after   *)
(* it, so the teardown is taken when the end of stream is read.            *)
(***************************************************************************)
Push(q, d, m) == IF srv[d] # "Closed" THEN [q EXCEPT ![d] = Append(@, m)] ELSE q

\* handleFileOffer: forward to an online target and install the session,
\* or answer BUSY "Target offline".
SrvFileOffer(c, m) ==
  IF srv[Other(c)] = "Online"
  THEN /\ toCli' = Push(toCli, Other(c), m)
       /\ sess' = [sender |-> c, receiver |-> NoFd]
  ELSE /\ toCli' = Push(toCli, c, Msg("FILE_OFFER_RSP", "BUSY", 0))
       /\ UNCHANGED sess

\* handleFileOfferResponse: only the bound receiver, or anyone while none is
\* bound, may answer; ACCEPT binds, any other result erases; forward to sender.
SrvFileOfferRsp(c, m) ==
  IF sess = None \/ sess.receiver \notin {NoFd, c} THEN UNCHANGED <<sess, toCli>>
  ELSE /\ sess' = IF m.arg = "ACCEPT" THEN [sess EXCEPT !.receiver = c] ELSE None
       /\ toCli' = Push(toCli, sess.sender, m)

\* handleFileData: relay to the other end of the session, if bound.
SrvFileData(c, m) ==
  LET t == IF sess = None THEN NoFd
           ELSE IF c = sess.sender THEN sess.receiver
           ELSE IF c = sess.receiver THEN sess.sender ELSE NoFd
  IN /\ toCli' = IF t = NoFd THEN toCli ELSE Push(toCli, t, m)
     /\ UNCHANGED sess

\* handleClientDisconnect: cleanupFileSessionsForFd, then close.
SrvTeardown(c) ==
  /\ srv' = [srv EXCEPT ![c] = "Closed"]
  /\ sess' = IF sess # None /\ c \in {sess.sender, sess.receiver} THEN None ELSE sess
  /\ toCli' = [toCli EXCEPT ![c] = <<>>]

Relay(c) ==
  /\ srv[c] # "Closed" /\ toSrv[c] # <<>>
  /\ toSrv' = [toSrv EXCEPT ![c] = Tail(@)]
  /\ LET m == Head(toSrv[c]) IN
       \/ m.type = "FILE_OFFER" /\ SrvFileOffer(c, m) /\ UNCHANGED srv
       \/ m.type = "FILE_OFFER_RSP" /\ SrvFileOfferRsp(c, m) /\ UNCHANGED srv
       \/ m.type = "FILE_DATA" /\ SrvFileData(c, m) /\ UNCHANGED srv
       \/ m.type = "LOGOUT" /\ UNCHANGED <<sess, toCli, srv>>
       \/ m.type = "Bye" /\ SrvTeardown(c)
  /\ UNCHANGED <<up, offered, sending, pending, asked, recv, disk, sdone,
                 rdone, file, readable, rows, cancelOn>>

(***************************************************************************)
(* The file on the sender's disk is rewritten after it was offered and    *)
(* before ACCEPT starts startFileSend, which opens it again: its length   *)
(* changes by one of EditDeltas and its content changes.  Once.           *)
(***************************************************************************)
EditFile ==
  /\ sending
  /\ \A i \in 1 .. Len(file) : file[i] = i
  /\ \E d \in EditDeltas :
       /\ Len(file) + d >= 0
       /\ file' = [i \in 1 .. Len(file) + d |-> i + 10]
  /\ UNCHANGED <<up, srv, toSrv, toCli, sess, offered, sending, pending, asked,
                 recv, disk, sdone, rdone, readable, rows, cancelOn>>

\* The Cancel button of the Sender's row: only the row changes.
ClickCancel ==
  /\ cancelOn
  /\ cancelOn' = FALSE
  /\ rows' = UpdateTransferStatus(Sender, <<"Canceled">>)
  /\ UNCHANGED <<up, srv, toSrv, toCli, sess, offered, sending, pending, asked,
                 recv, disk, sdone, rdone, file, readable>>

-----------------------------------------------------------------------------
Init ==
  /\ up = [c \in Clients |-> TRUE]
  /\ srv = [c \in Clients |-> "Online"]
  /\ toSrv = [c \in Clients |-> <<>>]
  /\ toCli = [c \in Clients |-> <<>>]
  /\ sess = None
  /\ offered = FALSE /\ sending = FALSE
  /\ pending = None /\ asked = FALSE
  /\ recv = None /\ disk = <<>>
  /\ sdone = "none" /\ rdone = "none"
  /\ file \in {[i \in 1 .. n |-> i] : n \in Sizes}
  /\ readable \in Readable
  /\ rows = [c \in Clients |-> "none"] /\ cancelOn = FALSE

Next ==
  \/ SendFileOffer
  \/ \E r \in {"ACCEPT", "DECLINE"} : SendFileOfferResponse(r)
  \/ \E c \in Clients : Handle(c) \/ Relay(c) \/ Disconnect(c)
  \/ EditFile
  \/ ClickCancel

(***************************************************************************)
(* The server's reactor reads every connection that has data and the Qt    *)
(* event loop delivers every readyRead; the users' clicks and disconnects  *)
(* are not forced.                                                         *)
(***************************************************************************)
Fairness == \A c \in Clients : WF_vars(Relay(c)) /\ WF_vars(Handle(c))

Spec == Init /\ [][Next]_vars /\ Fairness

-----------------------------------------------------------------------------
(* The types of the variables; a client holds file sessions only while it  *)
(* is connected, as clearFileSessions runs on every disconnect.            *)
TypeOK ==
  /\ up \in [Clients -> BOOLEAN] /\ srv \in [Clients -> {"Online", "Closed"}]
  /\ sess \in {None} \cup [sender : Clients, receiver : Clients \cup {NoFd}]
  /\ recv \in {None} \cup [size : Nat, got : Nat]
  /\ {sdone, rdone} \subseteq {"none", "ok", "fail"}
  /\ rows \in [Clients -> Status] /\ cancelOn \in BOOLEAN
  /\ sending => up[Sender]
  /\ recv # None \/ pending # None => up[Receiver]

(* A receiver that reports the transfer completed holds on disk exactly    *)
(* the sender's file: handleFileData's seek, write and completion test     *)
(* (bytesReceived >= fileSize) never declare success on a partial or       *)
(* misplaced file.                                                         *)
ReceivedIntact == rdone = "ok" => disk = file

(* The two ChatWindows never tell different stories about the transfer:   *)
(* a receiver's row that shows "Received" means the sender's file is on    *)
(* disk and the sender's row shows "Sent" (or "Canceled", clicked after),  *)
(* and a sender's row that shows "Sent" means the receiver's row shows the *)
(* offer accepted.  It rests on the order of the emits: the response       *)
(* status before startFileSend's, the progress before the completion.      *)
RowsAgree ==
  /\ rows[Receiver] = "Received" =>
       disk = file /\ rows[Sender] \in {"Sent", "Canceled"}
  /\ rows[Sender] = "Sent" => rows[Receiver] \in {"Accepted", "Receiving", "Received"}

(* A receiver that accepted an offer eventually completes, fails or loses  *)
(* its connection, unless the sender disconnects: startFileSend streams    *)
(* every chunk and handleFileData ends the session on the last one.        *)
TransferResolves == recv # None ~> (recv = None \/ ~up[Sender])

=============================================================================
