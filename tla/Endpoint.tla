------------------------------ MODULE Endpoint ------------------------------
(***************************************************************************)
(* What a connection promises the application, without frames, flags or    *)
(* handlers: messages are delivered only while it is open, frames are      *)
(* accepted for sending from the handshake until it has answered the close *)
(* frame of the peer (an answer to its own changes nothing), and it moves  *)
(* through its phases in one direction.                                    *)
(***************************************************************************)
EXTENDS Naturals, Sequences, SequencesExt

VARIABLES
  phase,   \* connecting, open, closing (our close frame is first), closed
           \* (the peer's was, and it is answered) or failed
  inbox,   \* the messages delivered
  outbox   \* the frames accepted for sending

vars == <<phase, inbox, outbox>>

Init == phase = "connecting" /\ inbox = <<>> /\ outbox = <<>>

\* t is s with one element more.
Extends(t, s) == t # <<>> /\ t = Append(s, Last(t))

Open == /\ phase = "connecting"
        /\ phase' = "open"
        /\ UNCHANGED <<inbox, outbox>>

\* The callback that gets the message may send one frame, or close.
Deliver == /\ phase = "open"
           /\ Extends(inbox', inbox)
           /\ \/ phase' = "open" /\ UNCHANGED outbox
              \/ phase' \in {"open", "closing"} /\ Extends(outbox', outbox)

Send == /\ phase \in {"open", "closing", "failed"}
        /\ Extends(outbox', outbox)
        /\ UNCHANGED <<phase, inbox>>

\* Our close frame, the answer to the peer's, or the one that ends a failed
\* connection.
Leave(from, to) == /\ phase \in from
                   /\ phase' = to
                   /\ Extends(outbox', outbox)
                   /\ UNCHANGED inbox

Next == \/ Open \/ Deliver \/ Send
        \/ Leave({"open"}, "closing")
        \/ Leave({"open"}, "closed")
        \/ Leave({"open", "closing"}, "failed")

Spec == Init /\ [][Next]_vars
=============================================================================
