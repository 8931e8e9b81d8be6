------------------------------ MODULE EchoHost ------------------------------
(***************************************************************************)
(* The server of examples/autobahn-echo.c around one connection: a process *)
(* that reads from its socket, calls libwebsock_handle_recv, and writes    *)
(* what the library has put in out_data.  The peer and the socket are the  *)
(* environment: the peer sends frames, and at any time, in the middle of a *)
(* frame too, it may fall silent for ever or hang up.                      *)
(***************************************************************************)
EXTENDS Receiver

VARIABLES
  host,     \* "reading", "received" (handle_recv has returned) or "closed"
  written,  \* how many of the frames made have left out_data for the socket
  line      \* the peer is "sending", "silent" or "gone"

socket == <<host, written, line>>
hostVars == <<recvVars, socket>>

HostInit == RecvInit /\ host = "reading" /\ written = 0 /\ line = "sending"

\* out_data holds what has been made and not written.
OutData == SubSeq(made, written + 1, Len(made))

PeerSends == /\ line = "sending"
             /\ \E p \in PeerFrames : PeerSend(p)
             /\ UNCHANGED socket

\* The last bytes of what it was sending never arrive.
PeerFallsSilent ==
  /\ line = "sending" /\ call = "none"
  /\ line' = "silent"
  /\ \E n \in 0..Len(wire) : wire' = SubSeq(wire, 1, n)
  /\ UNCHANGED <<vars, peer, ends, buf, call, current, needs_more, result, host, written>>

PeerHangsUp == /\ line # "gone"
               /\ line' = "gone"
               /\ UNCHANGED <<recvVars, host, written>>

\* read_from_client while STATE_CONNECTING: the handshake is answered.
HostHandshake == /\ host = "reading"
                 /\ RecvHandshake
                 /\ UNCHANGED socket

\* read_from_client: the bytes read are given to handle_recv.
HostRead == /\ host = "reading"
            /\ \E n \in 1..Len(wire) : RecvCall(n)
            /\ UNCHANGED socket

\* The call, which goes on until handle_recv returns.
HostCall == /\ host = "reading"
            /\ HandleRecv
            /\ host' = IF call' = "none" THEN "received" ELSE "reading"
            /\ UNCHANGED <<written, line>>

\* After -1 nothing is written and the connection goes on: the test of
\* STATE_NEEDS_MORE_DATA is of the constant 0, whatever the flags are.
HostSkips == /\ host = "received" /\ result = -1
             /\ host' = "reading"
             /\ UNCHANGED <<recvVars, written, line>>

HostWritesOn ==
  /\ host = "received" /\ result # -1
  /\ written' = Len(made)
  /\ host' = "reading"
  /\ UNCHANGED <<recvVars, line>>

\* write_to_client.  The socket blocks and no signal is handled, so a write
\* to it is whole unless it fails; a write to a peer that has hung up may
\* fail, which also ends the connection.  out_data is freed in either case.
HostWrites == /\ host = "received" /\ result # -1
              /\ written' = Len(made)
              /\ \/ host' = IF "SHOULD_CLOSE" \in flags THEN "closed" ELSE "reading"
                 \/ line = "gone" /\ OutData # <<>> /\ host' = "closed"
              /\ UNCHANGED <<recvVars, line>>

HostEndsBetweenFrames ==
  /\ host = "reading" /\ call = "none"
  /\ line = "gone" /\ wire = <<>> /\ ~ needs_more
  /\ host' = "closed"
  /\ UNCHANGED <<recvVars, written, line>>

\* read returns 0 once the peer has hung up and its bytes have been read.
HostEnds == /\ host = "reading" /\ call = "none"
            /\ line = "gone" /\ wire = <<>>
            /\ host' = "closed"
            /\ UNCHANGED <<recvVars, written, line>>

Server == HostHandshake \/ HostRead \/ HostCall \/ HostSkips \/ HostWrites \/ HostEnds

HostNext == PeerSends \/ PeerFallsSilent \/ PeerHangsUp \/ Server

\* The server is a process of its own (one fork per connection) whose read
\* returns when there is something to read; nothing is assumed of the peer.
\* The last conjunct is WF_hostVars(HostCall) with its ENABLED written out:
\* a running call always has a next step.
Fairness ==
  /\ WF_hostVars(HostHandshake)
  /\ WF_hostVars(HostRead)
  /\ WF_hostVars(HostSkips \/ HostWrites)
  /\ WF_hostVars(HostEnds)
  /\ []<>(call = "none") \/ []<><<HostCall>>_hostVars

HostSpec == HostInit /\ [][HostNext]_hostVars /\ Fairness

-----------------------------------------------------------------------------
(* The properties.                                                         *)

\* Whatever the library makes - echoes, pongs, the answer to a close frame,
\* the close frame of a failure - is written without more input, even when
\* the read that led to it ended inside the next frame.
AnswersAreWritten == OutData # <<>> ~> OutData = <<>>

\* A protocol error that asks for it ends the connection, also when the peer
\* keeps the socket open and never sends another byte - an error that can still
\* tell the peer so.  (When a peer goes on after its close frame was answered, an
\* error can make no close frame: handle_recv returns -1, and the connection
\* stays until another byte comes or the peer hangs up.)
FailureCloses ==
  "SHOULD_CLOSE" \in flags /\ "RECEIVED_CLOSE" \notin flags ~> host = "closed"

\* A peer that hangs up, in the middle of a frame, after an error that asked
\* for no close, or in the closing handshake, ends the connection and with it
\* the process that serves it.
HangUpEnds == line = "gone" ~> host = "closed"

\* Every message is echoed, in order and whole, to a peer that has not ended
\* the connection: an abstract echo server between what was sent and what
\* was written.
EchoInOrder ==
  LET data == DataFrames(SubSeq(made, 1, written))
  IN  IsPrefix([i \in DOMAIN data |-> [opcode |-> data[i].b0 % 16, payload |-> data[i].data]],
               Messages([k \in DOMAIN peer |-> FrameOf(peer[k])]))
=============================================================================
