---------------------------- MODULE ClientStream ----------------------------
(***************************************************************************)
(* The client's side of one stream: a local connection asks for it, the    *)
(* server's result is told to the connection, and the stream ends          *)
(* (client/tcp_stream.go, socks_manager.go, stream_client.go,              *)
(* client_utils.go). The connection may go away at any time; while the     *)
(* stream waits for its result nothing reads it, and only a write finds    *)
(* out. replies is what the connection was told: for TCP, "ok" stands for  *)
(* the stream's start to carry data.                                       *)
(***************************************************************************)
EXTENDS StreamWire

VARIABLES
  status,      \* the stream's Status
  arq,         \* its ARQ: "none", "open", "reset", "closed"
  listed,      \* the stream is in active_streams
  remembered,  \* the ID is in recentlyClosedStreams
  app,         \* the local connection: "open", "gone", "closed" by the client
  replies      \* what it was told

clientVars == <<status, arq, listed, remembered, app, replies>>

ClientInit ==
  /\ status = "idle" /\ arq = "none"
  /\ listed = FALSE /\ remembered = FALSE
  /\ app = "open" /\ replies = << >>

(* Statuses in which a result is not wanted any more. terminalSince is set *)
(* with one of them, or with "cancelled".                                  *)
Ended == {"closing", "timewait", "closed"}

Tells(reply) == replies' = Append(replies, reply)

(* finalizeClose, which closes the local connection.                       *)
ArqCloses == arq' = "closed" /\ app' = "closed"

-----------------------------------------------------------------------------
(* handleSOCKSConnect, HandleTCPConnect.                                   *)
Connect ==
  /\ status = "idle" /\ app # "closed"
  /\ status' = "connecting" /\ arq' = "open" /\ listed' = TRUE
  /\ wire' = Sent(Syns)
  /\ UNCHANGED <<setup, remembered, app, replies>>

(* shouldAdmitNewLocalStream says no.                                      *)
Refuse ==
  /\ status = "idle" /\ app # "closed"
  /\ app' = "closed"
  /\ IF protocol = "SOCKS5" /\ app = "open" THEN Tells("fail") ELSE UNCHANGED replies
  /\ UNCHANGED <<setup, wire, status, arq, listed, remembered>>

AppGoes ==
  /\ app = "open"
  /\ app' = "gone"
  /\ UNCHANGED <<setup, wire, status, arq, listed, remembered, replies>>

-----------------------------------------------------------------------------
(* Close with SendRST: nothing if the ARQ is closed or resetting already.  *)
CloseWithReset ==
  IF arq = "open"
  THEN arq' = "reset" /\ wire' = Sent({"RST"})
  ELSE UNCHANGED <<arq, wire>>

(* handlePendingSOCKSLocalClose, on a write error that is not a broken     *)
(* connection's.                                                           *)
PendingLocalClose ==
  /\ IF status = "connecting"
     THEN status' = "cancelled" /\ app' = "closed" /\ CloseWithReset
     ELSE UNCHANGED <<status, app, arq, wire>>

(* A packet for a stream that is not in the table.                         *)
MissingStream(p) ==
  /\ p \in wire /\ ~listed /\ status # "idle"
  /\ wire' = IF p \in {"CONNECTED", "FAIL"} /\ ~remembered THEN Sent({"RST"}) ELSE wire
  /\ remembered' = (remembered \/ p = "RST_ACK")
  /\ UNCHANGED <<setup, status, arq, listed, app, replies>>

(* writeSocksConnectResult, under socksResultMu: the reply is written, or  *)
(* it is late, or the write fails otherwise.                               *)
SocksResult(reply, next, closes) ==
  \/ /\ app = "open"
     /\ Tells(reply) /\ status' = next
     /\ IF closes THEN ArqCloses ELSE UNCHANGED <<arq, app>>
     /\ UNCHANGED wire
  \/ /\ app # "open"
     /\ CloseWithReset
     /\ UNCHANGED <<status, app, replies>>
  \/ /\ app = "gone"
     /\ PendingLocalClose
     /\ UNCHANGED replies

(* Mutant: an active stream takes the next success for its own as well.    *)
SocksConnectedAgain ==
  /\ "CONNECTED" \in wire /\ listed /\ protocol = "SOCKS5"
  /\ status \notin {"failed"} \cup Ended
  /\ IF status = "cancelled"
     THEN CloseWithReset /\ UNCHANGED <<status, app, replies>>
     ELSE SocksResult("ok", "active", FALSE)
  /\ UNCHANGED <<setup, listed, remembered>>

(* HandleSocksConnected.                                                   *)
SocksConnected ==
  /\ "CONNECTED" \in wire /\ listed /\ protocol = "SOCKS5"
  /\ status \notin {"active", "failed"} \cup Ended
  /\ IF status = "cancelled"
     THEN CloseWithReset /\ UNCHANGED <<status, app, replies>>
     ELSE SocksResult("ok", "active", FALSE)
  /\ UNCHANGED <<setup, listed, remembered>>

(* HandleSocksFailure, which does not look whether the stream is active.   *)
SocksFailure ==
  /\ "FAIL" \in wire /\ listed /\ protocol = "SOCKS5"
  /\ status \notin {"failed"} \cup Ended
  /\ IF status = "cancelled"
     THEN CloseWithReset /\ UNCHANGED <<status, app, replies>>
     ELSE SocksResult("fail", "failed", TRUE)
  /\ UNCHANGED <<setup, listed, remembered>>

(* streamResultAllowed, for a status that is not among those above.        *)
Allowed == status # "cancelled"

(* handleStreamConnected.                                                  *)
StreamConnected ==
  /\ "CONNECTED" \in wire /\ listed /\ protocol = "TCP"
  /\ status \notin {"active"} \cup Ended
  /\ IF Allowed THEN Tells("ok") /\ status' = "active" /\ UNCHANGED <<arq, wire>>
     ELSE CloseWithReset /\ UNCHANGED <<status, replies>>
  /\ UNCHANGED <<setup, listed, remembered, app>>

(* handleStreamConnectFail, of an active stream too.                       *)
StreamConnectFail ==
  /\ "FAIL" \in wire /\ listed /\ protocol = "TCP"
  /\ status \notin Ended
  /\ IF Allowed
     THEN Tells("fail") /\ status' = "timewait" /\ ArqCloses /\ UNCHANGED wire
     ELSE CloseWithReset /\ UNCHANGED <<status, app, replies>>
  /\ UNCHANGED <<setup, listed, remembered>>

Terminal == IF status = "cancelled" THEN status ELSE "timewait"

(* STREAM_RST for a stream in the table.                                   *)
ResetReceived ==
  /\ "ORPHAN_RST" \in wire /\ listed
  /\ ArqCloses
  /\ status' = Terminal
  /\ UNCHANGED <<setup, wire, listed, remembered, replies>>

ResetAcked ==
  /\ "RST_ACK" \in wire /\ listed
  /\ remembered' = TRUE
  /\ IF arq = "reset"
     THEN ArqCloses /\ status' = Terminal
     ELSE UNCHANGED <<arq, status, app>>
  /\ UNCHANGED <<setup, wire, listed, replies>>

SendData ==
  /\ status = "active" /\ arq = "open"
  /\ wire' = Sent({"DATA"})
  /\ UNCHANGED <<setup, clientVars>>

-----------------------------------------------------------------------------
(* The ARQ gives up, is inactive too long, or has closed in good order:    *)
(* only then is the ID remembered.                                         *)
ClientCloses ==
  /\ arq \in {"open", "reset"}
  /\ ArqCloses
  /\ remembered' \in IF status = "active" /\ arq = "open" THEN {remembered, TRUE} ELSE {remembered}
  /\ UNCHANGED <<setup, wire, status, listed, replies>>

(* A packet of it expired, or there was no progress for too long.          *)
ClientResets ==
  /\ arq = "open"
  /\ CloseWithReset
  /\ UNCHANGED <<setup, status, listed, remembered, app, replies>>

(* finalizeAfterARQClose takes the stream from the table,                  *)
Unlist ==
  /\ arq = "closed" /\ listed
  /\ listed' = FALSE
  /\ UNCHANGED <<setup, wire, status, arq, remembered, app, replies>>

(* and cleanupResources has the last word on the status.                   *)
CleanUpClient ==
  /\ arq = "closed" /\ ~listed /\ status # "closed"
  /\ status' = "closed"
  /\ UNCHANGED <<setup, wire, arq, listed, remembered, app, replies>>

(* asyncStreamCleanupWorker shows what the ARQ does.                       *)
ShowClosing ==
  /\ listed
  /\ \/ arq = "open" /\ status = "active" /\ status' = "closing"
     \/ arq = "closed" /\ status' = Terminal
  /\ UNCHANGED <<setup, wire, arq, listed, remembered, app, replies>>

(* cleanupRecentlyClosedStreams.                                           *)
Forget ==
  /\ remembered
  /\ remembered' = FALSE
  /\ UNCHANGED <<setup, wire, status, arq, listed, app, replies>>

-----------------------------------------------------------------------------
ClientStep ==
  \/ Connect \/ Refuse \/ AppGoes
  \/ \E p \in ToClient : MissingStream(p)
  \/ SocksConnected \/ SocksFailure \/ StreamConnected \/ StreamConnectFail
  \/ ResetReceived \/ ResetAcked \/ SendData
  \/ ClientCloses \/ ClientResets \/ Unlist \/ CleanUpClient
  \/ ShowClosing \/ Forget

=============================================================================
