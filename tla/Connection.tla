----------------------------- MODULE Connection -----------------------------
(***************************************************************************)
(* One server-side WebSocket connection of libwebsock, frame by frame:     *)
(* libwebsock_client_state, the handlers that handle_recv calls for a      *)
(* complete frame, the default callbacks, and the calls of api.c with      *)
(* which the application builds frames to send.  Module Receiver models    *)
(* how handle_recv cuts the bytes that arrive into the frames received     *)
(* here.                                                                   *)
(***************************************************************************)
EXTENDS Utf8, Integers, Filter

CONSTANTS
  RxFrames,    \* the frames the peer may send: their first byte and payload
  AppData,     \* the payloads the application sends
  AppCloses,   \* the close codes and reasons the application sends
  AppCalls,    \* the calls of the API the application makes
  Callbacks,   \* what the installed onmessage callback may do
  MaxControl,  \* the longest payload of a control frame: 125
  MaxRx,       \* bound: the frames received
  MaxMade,     \* bound: the frames made before the application stops calling
  None         \* no close_info

Frame == [b0 : Byte, data : Seq(Byte)]
MaxCode == 65535
Code == 0..MaxCode
CloseInfo == [code : Code, reason : Seq(Byte)]
Message == [opcode : {1, 2}, payload : Seq(Byte)]

ApiCalls == {"ping", "pong", "text", "binary", "close",
             "init_text", "init_binary", "continuation", "end"}

ASSUME FramesAssumption ==
  /\ RxFrames \subseteq Frame
  /\ AppData \subseteq Seq(Byte)
  /\ AppCloses \subseteq CloseInfo
ASSUME CallsAssumption ==
  /\ AppCalls \subseteq ApiCalls
  /\ Callbacks \subseteq {"default", "echo", "close", "fail"}
ASSUME BoundsAssumption == {MaxControl, MaxRx, MaxMade} \subseteq Nat
ASSUME NoneAssumption == None \notin CloseInfo

\* The bits of client_state.flags.  STATE_NEEDS_MORE_DATA concerns bytes and
\* is a variable of Receiver.
Flag == {"CONNECTING", "CONNECTED", "RECEIVING_FRAGMENT", "SENT_CLOSE",
         "RECEIVED_CLOSE", "PROCESSING_ERROR", "SHOULD_CLOSE", "CONTINUOUS"}

VARIABLES
  flags,       \* client_state.flags
  frames,      \* the complete frames of the list that ends in current_frame
  stuck,       \* current_frame is itself complete: the last of frames
  close_info,  \* client_state.close_info
  retval,      \* what the last frame handler returned, 0 for anything but -1
  made,        \* history: every frame appended to out_data
  delivered,   \* history: every message passed to onmessage
  rx           \* history: every frame whose handler has run

vars == <<flags, frames, stuck, close_info, retval, made, delivered, rx>>

Init == /\ flags = {"CONNECTING"}
        /\ frames = <<>>
        /\ stuck = FALSE
        /\ close_info = None
        /\ retval = 0
        /\ made = <<>>
        /\ delivered = <<>>
        /\ rx = <<>>

-----------------------------------------------------------------------------
(* Making frames.  An operator that takes fl is a call made when the flags *)
(* are fl, which earlier assignments of the same step may have changed.    *)

FIN == 128
TEXT == 1
BINARY == 2
CLOSE == 136
PING == 137
PONG == 138

\* (An operator named after another with a suffix is a plausible error in
\* it, which the checks try in its place.)
WritableUnclosed(fl) == "CONNECTED" \in fl

Writable(fl) == /\ ~ {"SENT_CLOSE", "RECEIVED_CLOSE"} \subseteq fl
                /\ "CONNECTED" \in fl

\* libwebsock_make_fragment
Fragment(fl, b0, data) ==
  made' = IF Writable(fl) THEN Append(made, [b0 |-> b0, data |-> data]) ELSE made

Result(fl) == IF Writable(fl) THEN 0 ELSE -1

CodeBytesUnmasked(code) == <<code \div 256, code>>
CodeBytes(code) == <<code \div 256, code % 256>>

MakeCloseUnflagged(fl, code, reason) ==
  /\ Fragment(fl, CLOSE, CodeBytes(code) \o UpToNul(reason))
  /\ flags' = fl

\* libwebsock_make_close_frame_with_reason: SENT_CLOSE is set even when the
\* frame could not be made.
MakeClose(fl, code, reason) ==
  /\ Fragment(fl, CLOSE, CodeBytes(code) \o UpToNul(reason))
  /\ flags' = fl \cup {"SENT_CLOSE"}

\* libwebsock_error with the default onerror callback.
Error(fl, code) ==
  /\ MakeClose(fl \cup {"PROCESSING_ERROR"}, code, <<>>)
  /\ frames' = <<>>
  /\ stuck' = FALSE
  /\ retval' = Result(fl)
  /\ UNCHANGED delivered

\* libwebsock_fail_and_cleanup
Fail(fl) == Error(fl \cup {"SHOULD_CLOSE"}, 1002)

-----------------------------------------------------------------------------
(* Data frames.                                                            *)

NewContinuationUnflagged(f) ==
  /\ frames' = Append(frames, f)
  /\ retval' = 0
  /\ UNCHANGED <<flags, stuck, close_info, made, delivered>>

\* libwebsock_new_continuation_frame: f stays in the list and a new frame
\* becomes current_frame.
NewContinuation(f) ==
  /\ frames' = Append(frames, f)
  /\ flags' = flags \cup {"RECEIVING_FRAGMENT"}
  /\ retval' = 0
  /\ UNCHANGED <<stuck, close_info, made, delivered>>

\* The onmessage callback: the default one, one that sends the message back
\* (autobahn-echo.c), one that closes the connection, and one that only fails.
\* The second ends without a return statement: its caller gets what gcc's
\* builds leave in the register of the result, the result of the call before.
OnMessage(callback, fl, m) ==
  \/ /\ callback \in {"default", "fail"}
     /\ retval' = IF callback = "fail" THEN -1 ELSE 0
     /\ flags' = fl
     /\ UNCHANGED made
  \/ /\ callback = "echo" /\ "CONTINUOUS" \in fl
     /\ retval' = -1
     /\ flags' = fl
     /\ UNCHANGED made
  \/ /\ callback = "echo" /\ "CONTINUOUS" \notin fl
     /\ Fragment(fl, FIN + m.opcode, m.payload)
     /\ retval' = Result(fl)
     /\ flags' = fl
  \/ /\ callback = "close"
     /\ MakeClose(fl, 1000, <<>>)
     /\ retval' = Result(fl)

PayloadAsString(fs) == UpToNul(FlattenSeq([i \in DOMAIN fs |-> fs[i].data]))
Payload(fs) == FlattenSeq([i \in DOMAIN fs |-> fs[i].data])

\* The early return of libwebsock_dispatch_message: nothing is done, and the
\* list of frames stays as it is.
IgnoreMessageFirst(fl, fs) ==
  /\ "SENT_CLOSE" \in fl
  /\ frames' = fs
  /\ stuck' = TRUE
  /\ retval' = 0
  /\ UNCHANGED <<flags, close_info, made, delivered>>

IgnoreMessage(fl, fs) ==
  /\ "SENT_CLOSE" \in fl
  /\ flags' = fl
  /\ frames' = fs
  /\ stuck' = TRUE
  /\ retval' = 0
  /\ UNCHANGED <<close_info, made, delivered>>

\* libwebsock_dispatch_message, fs being the list that ends in current_frame.
Dispatch(fs) ==
  LET fl == flags \ {"RECEIVING_FRAGMENT"}
      m  == [opcode |-> fs[1].b0 % 16, payload |-> Payload(fs)]
  IN  \/ IgnoreMessage(fl, fs)
      \/ /\ "SENT_CLOSE" \notin fl
         /\ m.opcode = TEXT /\ ~ ValidateUtf8(m.payload)
         /\ Error(fl, 1007)
         /\ UNCHANGED close_info
      \/ /\ "SENT_CLOSE" \notin fl
         /\ m.opcode = TEXT => ValidateUtf8(m.payload)
         /\ frames' = <<>>
         /\ stuck' = FALSE
         /\ delivered' = Append(delivered, m)
         /\ \E callback \in Callbacks : OnMessage(callback, fl, m)
         /\ UNCHANGED close_info

-----------------------------------------------------------------------------
(* Control frames: libwebsock_default_control_callback with the default    *)
(* onclose and onping callbacks, and no onpong.                            *)

InvalidCodeOffByOne(code) ==
  code < 1000 \/ code \in {1004, 1005, 1006} \/ (code > 1012 /\ code < 3000)
InvalidCode(code) ==
  code < 1000 \/ code \in {1004, 1005, 1006} \/ (code > 1011 /\ code < 3000)

NewCloseInfoUnswapped(data) ==
  IF close_info = None /\ Len(data) >= 2
  THEN [code |-> data[1] + data[2] * 256, reason |-> SubSeq(data, 3, Len(data))]
  ELSE close_info

\* libwebsock_populate_close_info_from_frame, called only when there is none.
NewCloseInfo(data) ==
  IF close_info = None /\ Len(data) >= 2
  THEN [code |-> data[1] * 256 + data[2], reason |-> SubSeq(data, 3, Len(data))]
  ELSE close_info

\* libwebsock_default_onclose_callback
OnClose(fl, info) ==
  IF info = None THEN MakeClose(fl, 1000, <<>>)
                 ELSE MakeClose(fl, info.code, info.reason)

Close(data) ==
  LET info == NewCloseInfo(data)
  IN  \/ /\ Len(data) = 1
         /\ Fail(flags)
         /\ UNCHANGED close_info
      \/ /\ Len(data) # 1
         /\ close_info' = info
         /\ \/ /\ info # None /\ InvalidCode(info.code)
               /\ Error(flags, 1002)
            \/ /\ info # None /\ ~ InvalidCode(info.code) /\ ~ ValidateUtf8(info.reason)
               /\ Fail(flags)
            \/ /\ info # None => ~ InvalidCode(info.code) /\ ValidateUtf8(info.reason)
               /\ "SENT_CLOSE" \notin flags
               /\ OnClose(flags \cup {"RECEIVED_CLOSE"}, info)
               /\ retval' = Result(flags)
               /\ UNCHANGED <<frames, stuck, delivered>>
            \/ \* the peer's answer to our close frame, or its second one
               /\ info # None => ~ InvalidCode(info.code) /\ ValidateUtf8(info.reason)
               /\ "SENT_CLOSE" \in flags
               /\ retval' = -1
               /\ UNCHANGED <<flags, frames, stuck, made, delivered>>

PingEmpty(data) ==
  /\ Fragment(flags, PONG, <<>>)
  /\ retval' = Result(flags)
  /\ UNCHANGED <<flags, frames, stuck, close_info, delivered>>

Ping(data) ==
  /\ Fragment(flags, PONG, data)
  /\ retval' = Result(flags)
  /\ UNCHANGED <<flags, frames, stuck, close_info, delivered>>

\* libwebsock_handle_control_frame.  Its reset of current_frame leaves a list
\* of fragments as it is, and the next frame overwrites the control frame.
Control(f) ==
  \/ /\ "SENT_CLOSE" \in flags /\ f.b0 # CLOSE
     /\ retval' = 0
     /\ UNCHANGED <<flags, frames, stuck, close_info, made, delivered>>
  \/ /\ "SENT_CLOSE" \notin flags \/ f.b0 = CLOSE
     /\ \/ /\ Len(f.data) > MaxControl
           /\ Error(flags, 1002)
           /\ UNCHANGED close_info
        \/ /\ Len(f.data) <= MaxControl
           /\ \/ f.b0 = CLOSE /\ Close(f.data)
              \/ f.b0 = PING /\ Ping(f.data)
              \/ /\ f.b0 = PONG
                 /\ retval' = 0
                 /\ UNCHANGED <<flags, frames, stuck, close_info, made, delivered>>

-----------------------------------------------------------------------------
(* Receiving.                                                              *)

\* libwebsock_frame_lookup_table: the handler for a first byte, outside and
\* inside a fragmented message.
Handler(b0, in_fragment) ==
  IF b0 \in {CLOSE, PING, PONG} THEN "control"
  ELSE IF b0 \in (IF in_fragment THEN {0} ELSE {TEXT, BINARY}) THEN "continuation"
  ELSE IF b0 \in (IF in_fragment THEN {FIN} ELSE {FIN + TEXT, FIN + BINARY}) THEN "dispatch"
  ELSE "fail"

HandlerOf(f) == Handler(f.b0, "RECEIVING_FRAGMENT" \in flags)

\* The call frame_fn(state) for the complete frame f.
HandleFrame(f) ==
  \/ HandlerOf(f) = "control" /\ Control(f)
  \/ HandlerOf(f) = "continuation" /\ NewContinuation(f)
  \/ HandlerOf(f) = "dispatch" /\ Dispatch(Append(frames, f))
  \/ HandlerOf(f) = "fail" /\ Fail(flags) /\ UNCHANGED close_info

Receiving == "CONNECTED" \in flags /\ "PROCESSING_ERROR" \notin flags

\* handle_recv completes one frame.
Receive(f) ==
  /\ Receiving
  /\ ~ stuck
  /\ Len(rx) < MaxRx
  /\ rx' = Append(rx, f)
  /\ HandleFrame(f)

\* current_frame was left complete: the next byte, whatever it is, calls the
\* handler of that frame again.
Redispatch ==
  /\ Receiving
  /\ stuck
  /\ UNCHANGED rx
  /\ LET f == Last(frames)
     IN  \/ HandlerOf(f) = "dispatch" /\ Dispatch(frames)
         \/ HandlerOf(f) = "fail" /\ Fail(flags) /\ UNCHANGED close_info

\* libwebsock_populate_handshake succeeds; flags is assigned, not or'ed.
PopulateHandshake ==
  /\ "CONNECTING" \in flags
  /\ flags' = {"CONNECTED"}
  /\ UNCHANGED <<frames, stuck, close_info, retval, made, delivered, rx>>

-----------------------------------------------------------------------------
(* The application's calls.  It is taken to call the continuation functions *)
(* in the order their names give: one init, continuations, then one end.   *)

Call(name) ==
  /\ name \in AppCalls
  /\ Len(made) < MaxMade
  /\ UNCHANGED <<frames, stuck, close_info, retval, delivered, rx>>

AppPing == Call("ping") /\ Fragment(flags, PING, <<>>) /\ UNCHANGED flags

AppPong(data) == Call("pong") /\ Fragment(flags, PONG, data) /\ UNCHANGED flags

AppClose(info) == Call("close") /\ MakeClose(flags, info.code, info.reason)

AppWholeUnchecked(name, opcode, data) ==
  /\ Call(name)
  /\ Fragment(flags, FIN + opcode, data)
  /\ UNCHANGED flags

\* make_text_data_frame(_with_length) and make_binary_data_frame
AppWhole(name, opcode, data) ==
  /\ Call(name)
  /\ IF "CONTINUOUS" \in flags THEN UNCHANGED made
                               ELSE Fragment(flags, FIN + opcode, data)
  /\ UNCHANGED flags

AppInit(name, opcode, data) ==
  /\ Call(name)
  /\ "CONTINUOUS" \notin flags
  /\ flags' = flags \cup {"CONTINUOUS"}
  /\ Fragment(flags, opcode, data)

AppContinuation(data) ==
  /\ Call("continuation")
  /\ "CONTINUOUS" \in flags
  /\ Fragment(flags, 0, data)
  /\ UNCHANGED flags

AppEnd(data) ==
  /\ Call("end")
  /\ "CONTINUOUS" \in flags
  /\ flags' = flags \ {"CONTINUOUS"}
  /\ Fragment(flags, FIN, data)

App ==
  \/ AppPing
  \/ \E info \in AppCloses : AppClose(info)
  \/ \E data \in AppData :
       \/ AppPong(data)
       \/ AppWhole("text", TEXT, data)
       \/ AppWhole("binary", BINARY, data)
       \/ AppInit("init_text", TEXT, data)
       \/ AppInit("init_binary", BINARY, data)
       \/ AppContinuation(data)
       \/ AppEnd(data)

Next ==
  \/ PopulateHandshake
  \/ \E f \in RxFrames : Receive(f)
  \/ Redispatch
  \/ App

Spec == Init /\ [][Next]_vars

-----------------------------------------------------------------------------
(* What is true of every reachable state.                                  *)

TypeOK ==
  /\ flags \subseteq Flag
  /\ frames \in Seq(Frame)
  /\ stuck \in BOOLEAN
  /\ close_info \in CloseInfo \cup {None}
  /\ retval \in {0, -1}
  /\ made \in Seq(Frame)
  /\ delivered \in Seq(Message)
  /\ rx \in Seq(Frame)

\* The list of frames and the flag that chooses half of the lookup table
\* agree: outside an error the flag is up exactly while a message is in
\* progress, whatever control frames came in between, and the first frame of
\* the list is one that has the message's opcode.
FragmentState ==
  /\ ~ stuck => ("RECEIVING_FRAGMENT" \in flags /\ "PROCESSING_ERROR" \notin flags
                   <=> frames # <<>>)
  /\ frames # <<>> => frames[1].b0 \in {TEXT, BINARY, FIN + TEXT, FIN + BINARY}

IsFinal(f) == f.b0 >= FIN

\* What the other invariants rest on.  CONNECTING and CONNECTED exclude each
\* other, and before the handshake there is nothing but the flags the
\* application's calls set; a close frame received is one that was answered,
\* and an error made a close frame.
FlagsAgree ==
  /\ "CONNECTING" \in flags <=> "CONNECTED" \notin flags
  /\ "CONNECTING" \in flags =>
       /\ flags \subseteq {"CONNECTING", "SENT_CLOSE", "CONTINUOUS"}
       /\ ~ stuck
       /\ frames = <<>> /\ made = <<>> /\ delivered = <<>>
  /\ {"RECEIVED_CLOSE", "PROCESSING_ERROR"} \cap flags # {} => "SENT_CLOSE" \in flags

\* A frame is left in place only after our close frame, only a whole message
\* is, and no error leaves one.
StuckFrame ==
  stuck => /\ "SENT_CLOSE" \in flags
           /\ {"RECEIVING_FRAGMENT", "PROCESSING_ERROR"} \cap flags = {}
           /\ frames # <<>> /\ IsFinal(Last(frames))

IsData(f) == f.b0 \notin {CLOSE, PING, PONG}
DataFrames(fs) == Filter(fs, {f \in Frame : IsData(f)})

\* Reference: the messages a sequence of received frames consists of.  Each
\* reaches from the data frame after a final one to the next final one.
Ends(data) == Filter([i \in DOMAIN data |-> i], {i \in DOMAIN data : IsFinal(data[i])})

StartOf(data, k) == IF k = 1 THEN 1 ELSE Ends(data)[k - 1] + 1

Whole(part) == [opcode  |-> part[1].b0 % 16,
                payload |-> FlattenSeq([i \in DOMAIN part |-> part[i].data])]

Messages(fs) ==
  LET data == DataFrames(fs)
      ends == Ends(data)
  IN  [k \in DOMAIN ends |-> Whole(SubSeq(data, StartOf(data, k), ends[k]))]

\* Every message reaches the application whole, once and in order, however
\* it was fragmented and whatever control frames came between its
\* fragments; nothing is delivered that was not sent.  Until a close frame
\* has been made, none is missing either.
MessagesIntact ==
  /\ IsPrefix(delivered, Messages(rx))
  /\ "SENT_CLOSE" \notin flags => delivered = Messages(rx)

Payloads(fs, b0) ==
  LET fs0 == Filter(fs, {f \in Frame : f.b0 = b0})
  IN  [i \in DOMAIN fs0 |-> fs0[i].data]

\* Each ping is answered by one pong with the same payload, in order, also
\* inside a fragmented message; none is left out before the close frame.
PongsAnswerPings ==
  /\ IsPrefix(Payloads(made, PONG), Payloads(rx, PING))
  /\ "SENT_CLOSE" \notin flags => Payloads(made, PONG) = Payloads(rx, PING)

\* The frames made are a sequence a peer can parse: a continuation frame
\* exactly after a frame that announced one, whatever the library itself
\* makes (echoes, pongs, close frames) between the application's calls, and
\* the flag that refuses new messages is up exactly while one is open.
OutputWellFormed ==
  LET data == DataFrames(made)
  IN  /\ \A i \in DOMAIN data :
           data[i].b0 \in {0, FIN} <=> (i > 1 /\ ~ IsFinal(data[i - 1]))
      /\ Writable(flags) =>
           ("CONTINUOUS" \in flags <=> data # <<>> /\ ~ IsFinal(Last(data)))

CodeOf(data) == data[1] * 256 + data[2]

\* The codes RFC 6455 (7.4) lets an endpoint send, with the reserved ranges.
OnTheWire(code) == \/ 1000 <= code /\ code <= 1003
                   \/ 1007 <= code /\ code <= 1011
                   \/ 3000 <= code /\ code <= MaxCode

\* No close frame carries a code that may not appear on the wire or a reason
\* that is not UTF-8, although the code and reason of an answer come from the
\* peer and close_info is filled in before it is checked.
CloseFramesLegal ==
  \A i \in DOMAIN made :
    made[i].b0 = CLOSE =>
      /\ Len(made[i].data) \in 2..MaxControl
      /\ OnTheWire(CodeOf(made[i].data))
      /\ ValidateUtf8(SubSeq(made[i].data, 3, Len(made[i].data)))

\* When the peer closed first, the last frame made is the answer, and it
\* carries the code of the peer's own close frame, or 1000 if it had none.
AnswerEchoesCode ==
  "RECEIVED_CLOSE" \in flags =>
    LET close == Payloads(rx, CLOSE)[1]
    IN  /\ made # <<>> /\ Last(made).b0 = CLOSE
        /\ CodeOf(Last(made).data) = IF close = <<>> THEN 1000 ELSE CodeOf(close)

\* The library makes at most one close frame of its own: a failure is not
\* followed by an answer, nor an answer by a failure.
OneClose == Len(Payloads(made, CLOSE)) <= 1

-----------------------------------------------------------------------------
(* What no step does.                                                      *)

\* After a close frame of ours the library adds nothing of its own to what it
\* sends: whatever arrives, no message is delivered and no pong, echo or second
\* answer made; only an error makes one frame more, the close frame that fails
\* the connection.  What the application calls for is still made, until a close
\* frame of the peer has been answered: then no step makes anything.  (When ours
\* was first, no flag records that the peer's came: NothingAfterBothCloses.)
CloseIsFinal ==
  [][{"CONNECTED", "SENT_CLOSE"} \subseteq flags =>
       /\ "SENT_CLOSE" \in flags'
       /\ UNCHANGED delivered
       /\ (\E f \in RxFrames : Receive(f)) \/ Redispatch =>
            \/ UNCHANGED made
            \/ /\ "PROCESSING_ERROR" \in flags' \ flags
               /\ made' # <<>> /\ made' = Append(made, Last(made')) /\ Last(made').b0 = CLOSE
       /\ "RECEIVED_CLOSE" \in flags => "RECEIVED_CLOSE" \in flags' /\ UNCHANGED made]_vars

\* On a connection that has not failed, no frame is made once close frames have
\* gone both ways, whichever was first: it fails "as the close frame has been
\* sent/received", by the log line of libwebsock_make_fragment.
NothingAfterBothCloses ==
  [][/\ "PROCESSING_ERROR" \notin flags
     /\ Payloads(made, CLOSE) # <<>> /\ Payloads(rx, CLOSE) # <<>>
     => UNCHANGED made]_vars

\* Data that arrive while a frame is left in place, because "nothing is to be
\* done" for it (the log line of libwebsock_dispatch_message), never fail the
\* connection of a peer that has still to answer our close frame.
IgnoredDataIsHarmless ==
  [][stuck /\ "RECEIVED_CLOSE" \notin flags =>
       ("PROCESSING_ERROR" \in flags' => "PROCESSING_ERROR" \in flags)]_vars

-----------------------------------------------------------------------------
(* The abstract connection that these flags stand for.                     *)

Phase == IF "CONNECTING" \in flags THEN "connecting"
         ELSE IF "RECEIVED_CLOSE" \in flags THEN "closed"
         ELSE IF "PROCESSING_ERROR" \in flags THEN "failed"
         ELSE IF "SENT_CLOSE" \in flags THEN "closing"
         ELSE "open"

Abstract == INSTANCE Endpoint WITH phase <- Phase, inbox <- delivered, outbox <- made

\* The flags and handlers implement the abstract connection.
EndpointSpec == Abstract!Spec
=============================================================================
