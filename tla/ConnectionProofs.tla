-------------------------- MODULE ConnectionProofs --------------------------
(* What holds of a connection for every set of frames, calls and callbacks *)
(* and every bound: the invariant that ties the flags to the list of       *)
(* frames; that the connection implements Endpoint; and what its histories *)
(* say: which close frames are made, what answers what, that the frames    *)
(* made can be parsed, and that messages are whole.                        *)
EXTENDS Connection, SequenceLemmas

\* A C string that is cut at its NUL byte is still a string of bytes.
LEMMA UpToNulType ==
  ASSUME NEW s \in Seq(Byte)
  PROVE  UpToNul(s) \in Seq(Byte)
<1> DEFINE I == {i \in 1..Len(s) : s[i] = 0}
<1>1. UpToNul(s) = LET i == IF I # {} THEN Min(I) ELSE 0
                   IN  IF i = 0 THEN s ELSE SubSeq(s, 1, i - 1)
  BY DEF UpToNul, SelectInSeq
<1>2. CASE I = {}
  BY <1>1, <1>2
<1>3. CASE I # {}
  <2>1. Min(I) \in I
    <3>1. I \in SUBSET Nat
      BY LenProperties
    <3> HIDE DEF I
    <3> QED BY <1>3, <3>1, MinOfNats
  <2>2. Min(I) \in 1..Len(s)
    BY <2>1
  <2>3. UpToNul(s) = SubSeq(s, 1, Min(I) - 1)
    <3> HIDE DEF I
    <3> QED BY <1>1, <1>3, <2>2
  <2>4. SubSeq(s, 1, Min(I) - 1) \in Seq(Byte)
    <3> HIDE DEF I
    <3> DEFINE m == Min(I)
    <3>1. m \in 1..Len(s)
      BY <2>2
    <3> HIDE DEF m
    <3>2. SubSeq(s, 1, m - 1) \in Seq(Byte)
      BY <3>1, LenProperties, SubSeqProperties
    <3> QED BY <3>2 DEF m
  <2> QED BY <2>3, <2>4
<1> QED BY <1>2, <1>3

\* The codes, said so that the provers need not list them.
LEMMA CodeRange ==
  \A code : code \in Code <=> code \in Int /\ 0 <= code /\ code <= 65535
<1>1. MaxCode \in Int
  BY DEF MaxCode
<1>2. \A code : code \in Code <=> code \in Int /\ 0 <= code /\ code <= MaxCode
  BY <1>1 DEF Code
<1> QED BY <1>2 DEF MaxCode

\* The two bytes a close frame starts with.
LEMMA CodeBytesType ==
  ASSUME NEW code \in Code
  PROVE  CodeBytes(code) \in Seq(Byte)
<1> code \in Int /\ 0 <= code /\ code <= 65535
  BY CodeRange
<1>1. code % 256 \in 0..255
  OBVIOUS
<1>2. code \div 256 \in Int
  OBVIOUS
<1>3. 0 <= code \div 256
  OBVIOUS
<1>4. code \div 256 <= 255
  OBVIOUS
<1> QED BY <1>1, <1>2, <1>3, <1>4 DEF CodeBytes, Byte

\* The payload of a whole message is a sequence of bytes.
LEMMA PayloadType ==
  ASSUME NEW fs \in Seq(Frame)
  PROVE  Payload(fs) \in Seq(Byte)
<1> DEFINE ss == [i \in DOMAIN fs |-> fs[i].data]
<1>1. ss \in Seq(Seq(Byte))
  <2>1. \A i \in 1..Len(fs) : fs[i].data \in Seq(Byte)
    <3>1. \A i \in 1..Len(fs) : fs[i] \in Frame
      BY ElementOfSeq
    <3> QED BY <3>1 DEF Frame
  <2>2. DOMAIN fs = 1..Len(fs) /\ Len(fs) \in Nat
    BY LenProperties
  <2>3. ss \in [1..Len(fs) -> Seq(Byte)]
    BY <2>1, <2>2
  <2> QED BY <2>2, <2>3, SeqDef
<1> HIDE DEF ss
<1>2. FlattenSeq(ss) \in Seq(Byte)
  BY <1>1, FlattenSeqType
<1> QED BY <1>2 DEF Payload, ss

-----------------------------------------------------------------------------
(* The pieces a step is built from.  A handler's last call is one of these *)
(* and decides both the invariant and the abstract step.                   *)

\* The inductive invariant: each of the last three parts needs the others.
IInv == TypeOK /\ FragmentState /\ FlagsAgree /\ StuckFrame

\* A step of the abstract connection, or none.
AStep == [Abstract!Next]_(Abstract!vars)

\* Appending is what the abstract connection does to its inbox and outbox.
LEMMA AppendExtends ==
  ASSUME NEW S, NEW s \in Seq(S), NEW e \in S
  PROVE  Append(s, e) \in Seq(S) /\ Abstract!Extends(Append(s, e), s)
<1> DEFINE t == Append(s, e)
<1>1. t \in Seq(S) /\ t # <<>> /\ t[Len(t)] = e
  BY AppendProperties
<1>2. t = Append(s, t[Len(t)])
  BY <1>1
<1> HIDE DEF t
<1>3. t \in Seq(S) /\ Abstract!Extends(t, s)
  BY <1>1, <1>2 DEF Abstract!Extends, Abstract!Last
<1> QED BY <1>3 DEF t

\* libwebsock_make_fragment adds one frame or none.
LEMMA FragmentMade ==
  ASSUME TypeOK, NEW fl, NEW b0 \in Byte, NEW data \in Seq(Byte), Fragment(fl, b0, data)
  PROVE  /\ made' \in Seq(Frame)
         /\ Writable(fl) => Abstract!Extends(made', made)
         /\ ~ Writable(fl) => made' = made
<1> DEFINE f == [b0 |-> b0, data |-> data]
<1>1. f \in Frame
  BY DEF Frame
<1>2. made \in Seq(Frame)
  BY DEF TypeOK
<1>3. made' = IF Writable(fl) THEN Append(made, f) ELSE made
  BY DEF Fragment
<1> HIDE DEF f
<1>4. Append(made, f) \in Seq(Frame) /\ Abstract!Extends(Append(made, f), made)
  BY <1>1, <1>2, AppendExtends
<1>5. CASE Writable(fl)
  <2>1. made' = Append(made, f)
    BY <1>3, <1>5
  <2> QED BY <1>4, <1>5, <2>1
<1>6. CASE ~ Writable(fl)
  BY <1>2, <1>3, <1>6
<1> QED BY <1>5, <1>6

\* libwebsock_make_close_frame_with_reason adds one frame or none, and sets
\* the flag in both cases.
LEMMA CloseMade ==
  ASSUME TypeOK, NEW fl, NEW code \in Code, NEW reason \in Seq(Byte),
         MakeClose(fl, code, reason)
  PROVE  /\ made' \in Seq(Frame)
         /\ Writable(fl) => Abstract!Extends(made', made)
         /\ ~ Writable(fl) => made' = made
         /\ flags' = fl \cup {"SENT_CLOSE"}
<1> DEFINE data == CodeBytes(code) \o UpToNul(reason)
<1>1. data \in Seq(Byte)
  <2>1. CodeBytes(code) \in Seq(Byte)
    BY CodeBytesType
  <2>2. UpToNul(reason) \in Seq(Byte)
    BY UpToNulType
  <2> QED BY <2>1, <2>2, ConcatProperties
<1>2. Fragment(fl, CLOSE, data) /\ flags' = fl \cup {"SENT_CLOSE"}
  BY DEF MakeClose
<1>3. CLOSE \in Byte
  BY DEF CLOSE, Byte
<1> HIDE DEF data
<1> QED BY <1>1, <1>2, <1>3, FragmentMade

\* libwebsock_error: the list is cleared, one close frame made unless both
\* sides have closed, and the connection fails.
LEMMA ErrorStep ==
  ASSUME IInv, Receiving, NEW fl, NEW code \in Code, Error(fl, code),
         flags \ {"RECEIVING_FRAGMENT"} \subseteq fl, fl \subseteq flags \cup {"SHOULD_CLOSE"},
         close_info' \in CloseInfo \cup {None}, rx' \in Seq(Frame)
  PROVE  IInv' /\ AStep
<1> DEFINE fl1 == fl \cup {"PROCESSING_ERROR"}
<1>1. MakeClose(fl1, code, <<>>)
  BY DEF Error
<1>2. <<>> \in Seq(Byte)
  OBVIOUS
<1> HIDE DEF fl1
<1>3. /\ made' \in Seq(Frame)
      /\ Writable(fl1) => Abstract!Extends(made', made)
      /\ ~ Writable(fl1) => made' = made
      /\ flags' = fl1 \cup {"SENT_CLOSE"}
  BY <1>1, <1>2, CloseMade DEF IInv
<1>4. frames' = <<>> /\ stuck' = FALSE /\ delivered' = delivered /\ retval' \in {0, -1}
  BY DEF Error, Result
<1> USE DEF fl1
<1>5. TypeOK'
  <2>1. flags \subseteq Flag /\ delivered \in Seq(Message)
    BY DEF IInv, TypeOK
  <2>2. flags' \subseteq Flag
    BY <1>3, <2>1 DEF Flag
  <2>3. frames' \in Seq(Frame)
    BY <1>4
  <2> QED BY <1>3, <1>4, <2>1, <2>2, <2>3 DEF TypeOK
<1>6. FragmentState' /\ StuckFrame'
  BY <1>3, <1>4 DEF FragmentState, StuckFrame
<1>7. /\ "CONNECTED" \in flags' /\ "CONNECTING" \notin flags'
      /\ {"SENT_CLOSE", "PROCESSING_ERROR"} \subseteq flags'
      /\ "RECEIVED_CLOSE" \in flags' <=> "RECEIVED_CLOSE" \in flags
      /\ "CONNECTED" \in fl1
      /\ {"SENT_CLOSE", "RECEIVED_CLOSE"} \subseteq fl1 <=> "RECEIVED_CLOSE" \in flags
  BY <1>3 DEF IInv, FlagsAgree, Receiving
<1>8. FlagsAgree'
  BY <1>7 DEF FlagsAgree
<1>9. AStep
  <2>1. CASE "RECEIVED_CLOSE" \in flags
    BY <1>3, <1>4, <1>7, <2>1 DEF AStep, Abstract!vars, Phase, Writable, IInv, FlagsAgree, Receiving
  <2>2. CASE "RECEIVED_CLOSE" \notin flags
    <3>1. Phase \in {"open", "closing"} /\ Phase' = "failed"
      BY <1>7, <2>2 DEF Phase, IInv, FlagsAgree, Receiving
    <3>2. Abstract!Extends(made', made)
      BY <1>3, <1>7, <2>2 DEF Writable
    <3> QED BY <1>4, <3>1, <3>2 DEF AStep, Abstract!Next, Abstract!Leave
  <2> QED BY <2>1, <2>2
<1> QED BY <1>5, <1>6, <1>8, <1>9 DEF IInv


-----------------------------------------------------------------------------
(* Data frames.                                                            *)

\* A frame that is not the last of its message joins the list.
LEMMA ContinuationStep ==
  ASSUME IInv, Receiving, ~ stuck, NEW f \in Frame, HandlerOf(f) = "continuation",
         NewContinuation(f), rx' \in Seq(Frame)
  PROVE  IInv' /\ AStep
<1>1. frames \in Seq(Frame) /\ flags \subseteq Flag
  BY DEF IInv, TypeOK
<1>2. /\ frames' = Append(frames, f) /\ flags' = flags \cup {"RECEIVING_FRAGMENT"}
      /\ retval' = 0 /\ stuck' = FALSE
      /\ UNCHANGED <<close_info, made, delivered>>
  BY DEF NewContinuation, IInv, TypeOK
<1>3. frames' \in Seq(Frame) /\ frames' # <<>>
  BY <1>1, <1>2, AppendProperties
<1>4. TypeOK'
  <2>1. flags' \subseteq Flag
    BY <1>1, <1>2 DEF Flag
  <2> QED BY <1>2, <1>3, <2>1 DEF IInv, TypeOK
<1>5. frames'[1].b0 \in {TEXT, BINARY, FIN + TEXT, FIN + BINARY}
  <2>1. CASE frames = <<>>
    <3>1. "RECEIVING_FRAGMENT" \notin flags
      BY <2>1 DEF IInv, FragmentState, Receiving
    <3>2. f.b0 \in {TEXT, BINARY}
      BY <3>1 DEF HandlerOf, Handler
    <3>3. frames'[1] = f
      BY <1>2, <2>1
    <3> QED BY <3>2, <3>3
  <2>2. CASE frames # <<>>
    <3>1. frames'[1] = frames[1]
      <4>1. 1 \in 1..Len(frames)
        BY <1>1, <2>2, EmptySeq, LenProperties
      <4> QED BY <1>1, <1>2, <4>1, AppendProperties
    <3> QED BY <2>2, <3>1 DEF IInv, FragmentState
  <2> QED BY <2>1, <2>2
<1>6. FragmentState' /\ StuckFrame'
  BY <1>2, <1>3, <1>5 DEF FragmentState, StuckFrame, IInv, Receiving
<1>7. FlagsAgree'
  BY <1>2 DEF IInv, FlagsAgree, Receiving
<1>8. AStep
  BY <1>2 DEF AStep, Abstract!vars, Phase
<1> QED BY <1>4, <1>6, <1>7, <1>8 DEF IInv

\* The onmessage callback sends at most one frame, and closes with one.
LEMMA OnMessageMade ==
  ASSUME IInv, Receiving, "SENT_CLOSE" \notin flags, NEW fl, fl = flags \ {"RECEIVING_FRAGMENT"},
         NEW callback, NEW m \in Message, OnMessage(callback, fl, m)
  PROVE  /\ made' \in Seq(Frame)
         /\ retval' \in {0, -1}
         /\ \/ flags' = fl /\ (made' = made \/ Abstract!Extends(made', made))
            \/ flags' = fl \cup {"SENT_CLOSE"} /\ Abstract!Extends(made', made)
<1>0. TypeOK /\ made \in Seq(Frame)
  BY DEF IInv, TypeOK
<1>1. Result(fl) \in {0, -1}
  BY DEF Result
<1>2. Writable(fl)
  BY DEF Writable, Receiving
<1>3. CASE UNCHANGED made /\ flags' = fl /\ retval' \in {0, -1}
  BY <1>0, <1>3
<1>4. CASE Fragment(fl, FIN + m.opcode, m.payload) /\ flags' = fl /\ retval' = Result(fl)
  <2>1. m.payload \in Seq(Byte)
    BY DEF Message
  <2>2. FIN + m.opcode \in Byte
    <3>1. m.opcode \in {1, 2}
      BY DEF Message
    <3> QED BY <3>1 DEF Byte, FIN
  <2> QED BY <1>0, <1>1, <1>2, <1>4, <2>1, <2>2, FragmentMade
<1>5. CASE MakeClose(fl, 1000, <<>>) /\ retval' = Result(fl)
  <2> DEFINE code == 1000
  <2>1. code \in Code /\ <<>> \in Seq(Byte) /\ MakeClose(fl, code, <<>>)
    BY <1>5, CodeRange
  <2> HIDE DEF code
  <2>2. /\ made' \in Seq(Frame)
        /\ Writable(fl) => Abstract!Extends(made', made)
        /\ ~ Writable(fl) => made' = made
        /\ flags' = fl \cup {"SENT_CLOSE"}
    BY <1>0, <2>1, CloseMade
  <2> QED BY <1>1, <1>2, <1>5, <2>2
<1> QED BY <1>3, <1>4, <1>5 DEF OnMessage

\* A whole message is delivered, refused, or left in place after our close
\* frame.
LEMMA DispatchStep ==
  ASSUME IInv, Receiving, NEW fs \in Seq(Frame), fs # <<>>, IsFinal(Last(fs)),
         fs[1].b0 \in {TEXT, BINARY, FIN + TEXT, FIN + BINARY},
         Dispatch(fs), rx' \in Seq(Frame)
  PROVE  IInv' /\ AStep
<1> DEFINE fl == flags \ {"RECEIVING_FRAGMENT"}
           m  == [opcode |-> fs[1].b0 % 16, payload |-> Payload(fs)]
<1>0. flags \subseteq Flag /\ fl \subseteq Flag /\ delivered \in Seq(Message)
  BY DEF IInv, TypeOK
<1>1. CASE IgnoreMessage(fl, fs)
  <2>1. /\ "SENT_CLOSE" \in flags /\ flags' = fl /\ frames' = fs /\ stuck' = TRUE
        /\ retval' = 0 /\ UNCHANGED <<close_info, made, delivered>>
    BY <1>1 DEF IgnoreMessage
  <2>2. TypeOK'
    BY <1>0, <2>1 DEF IInv, TypeOK
  <2>3. FragmentState' /\ StuckFrame'
    BY <2>1 DEF FragmentState, StuckFrame, Receiving
  <2>4. FlagsAgree'
    BY <2>1 DEF IInv, FlagsAgree, Receiving
  <2>5. AStep
    BY <2>1 DEF AStep, Abstract!vars, Phase
  <2> QED BY <2>2, <2>3, <2>4, <2>5 DEF IInv
<1>2. CASE Error(fl, 1007) /\ UNCHANGED close_info
  <2>1. 1007 \in Code /\ close_info' \in CloseInfo \cup {None}
    BY <1>2, CodeRange DEF IInv, TypeOK
  <2>2. flags \ {"RECEIVING_FRAGMENT"} \subseteq fl /\ fl \subseteq flags \cup {"SHOULD_CLOSE"}
    OBVIOUS
  <2> HIDE DEF fl
  <2> QED BY <1>2, <2>1, <2>2, ErrorStep
<1>3. ASSUME "SENT_CLOSE" \notin fl, frames' = <<>>, stuck' = FALSE,
             delivered' = Append(delivered, m), UNCHANGED close_info,
             NEW callback \in Callbacks, OnMessage(callback, fl, m)
      PROVE  IInv' /\ AStep
  <2>1. m \in Message
    <3>1. fs[1].b0 % 16 \in {1, 2}
      BY DEF TEXT, BINARY, FIN
    <3> QED BY <3>1, PayloadType DEF Message
  <2>2. "SENT_CLOSE" \notin flags
    BY <1>3
  <2>3. delivered' \in Seq(Message) /\ Abstract!Extends(delivered', delivered)
    <3> HIDE DEF m
    <3> QED BY <1>0, <1>3, <2>1, AppendExtends
  <2>4. /\ made' \in Seq(Frame)
        /\ retval' \in {0, -1}
        /\ \/ flags' = fl /\ (made' = made \/ Abstract!Extends(made', made))
           \/ flags' = fl \cup {"SENT_CLOSE"} /\ Abstract!Extends(made', made)
    <3>1. fl = flags \ {"RECEIVING_FRAGMENT"}
      OBVIOUS
    <3> HIDE DEF fl, m
    <3> QED BY <1>3, <2>1, <2>2, <3>1, OnMessageMade
  <2>5. /\ "PROCESSING_ERROR" \notin flags /\ "CONNECTED" \in flags
        /\ "CONNECTING" \notin flags /\ "RECEIVED_CLOSE" \notin flags
    BY <2>2 DEF IInv, FlagsAgree, Receiving
  <2>6. /\ "PROCESSING_ERROR" \notin flags' /\ "CONNECTED" \in flags'
        /\ "CONNECTING" \notin flags' /\ "RECEIVED_CLOSE" \notin flags'
        /\ "RECEIVING_FRAGMENT" \notin flags'
    BY <2>4, <2>5
  <2>7. TypeOK'
    <3>1. flags' \subseteq Flag
      BY <1>0, <2>4 DEF Flag
    <3>2. frames' \in Seq(Frame) /\ stuck' \in BOOLEAN
      <4>1. frames' \in Seq(Frame)
        BY <1>3
      <4>2. stuck' \in BOOLEAN
        BY <1>3
      <4> QED BY <4>1, <4>2
    <3>3. close_info' \in CloseInfo \cup {None}
      BY <1>3 DEF IInv, TypeOK
    <3> QED BY <2>3, <2>4, <3>1, <3>2, <3>3 DEF TypeOK
  <2>8. FragmentState' /\ StuckFrame' /\ FlagsAgree'
    BY <1>3, <2>6 DEF FragmentState, StuckFrame, FlagsAgree
  <2>9. AStep
    <3>1. Phase = "open"
      BY <2>2, <2>5 DEF Phase
    <3>2. \/ Phase' = "open" /\ (UNCHANGED made \/ Abstract!Extends(made', made))
          \/ Phase' = "closing" /\ Abstract!Extends(made', made)
      BY <2>2, <2>4, <2>6 DEF Phase
    <3> QED BY <2>3, <3>1, <3>2 DEF AStep, Abstract!Next, Abstract!Deliver
  <2> QED BY <2>7, <2>8, <2>9 DEF IInv
<1> QED BY <1>1, <1>2, <1>3 DEF Dispatch


-----------------------------------------------------------------------------
(* Steps that leave the list of frames alone: control frames and calls.    *)

\* Such a step keeps the invariant if it takes no flag down but CONTINUOUS
\* and raises RECEIVED_CLOSE only together with SENT_CLOSE.
LEMMA ListKept ==
  ASSUME IInv, UNCHANGED <<frames, stuck, delivered>>,
         made' \in Seq(Frame), rx' \in Seq(Frame), retval' \in {0, -1},
         close_info' \in CloseInfo \cup {None},
         flags \subseteq flags' \cup {"CONTINUOUS"},
         flags' \subseteq flags \cup {"SENT_CLOSE", "RECEIVED_CLOSE", "CONTINUOUS"},
         "RECEIVED_CLOSE" \in flags' => "SENT_CLOSE" \in flags',
         "CONNECTING" \in flags => made' = made /\ "RECEIVED_CLOSE" \notin flags'
  PROVE  IInv'
<1>1. TypeOK'
  <2>1. flags \subseteq Flag
    BY DEF IInv, TypeOK
  <2>2. flags' \subseteq Flag
    BY <2>1 DEF Flag
  <2> QED BY <2>2 DEF IInv, TypeOK
<1>2. /\ "CONNECTING" \in flags' <=> "CONNECTING" \in flags
      /\ "CONNECTED" \in flags' <=> "CONNECTED" \in flags
      /\ "RECEIVING_FRAGMENT" \in flags' <=> "RECEIVING_FRAGMENT" \in flags
      /\ "PROCESSING_ERROR" \in flags' <=> "PROCESSING_ERROR" \in flags
      /\ "SENT_CLOSE" \in flags => "SENT_CLOSE" \in flags'
  OBVIOUS
<1>3. FragmentState'
  BY <1>2 DEF IInv, FragmentState
<1>4. StuckFrame'
  BY <1>2 DEF IInv, StuckFrame
<1>5. FlagsAgree'
  <2>1. CASE "CONNECTING" \in flags
    <3>1. flags' \subseteq {"CONNECTING", "SENT_CLOSE", "CONTINUOUS"}
      <4>1. flags \subseteq {"CONNECTING", "SENT_CLOSE", "CONTINUOUS"}
        BY <2>1 DEF IInv, FlagsAgree
      <4> QED BY <2>1, <4>1
    <3> QED BY <1>2, <2>1, <3>1 DEF IInv, FlagsAgree
  <2>2. CASE "CONNECTING" \notin flags
    BY <1>2, <2>2 DEF IInv, FlagsAgree
  <2> QED BY <2>1, <2>2
<1> QED BY <1>1, <1>3, <1>4, <1>5 DEF IInv

\* A frame made without a change of phase is sent, or refused.
LEMMA SendStep ==
  ASSUME IInv, Phase' = Phase, UNCHANGED delivered,
         made' = made \/ (Writable(flags) /\ Abstract!Extends(made', made))
  PROVE  AStep
<1>1. CASE made' = made
  BY <1>1 DEF AStep, Abstract!vars
<1>2. CASE Writable(flags) /\ Abstract!Extends(made', made)
  <2>1. Phase \in {"open", "closing", "failed"}
    BY <1>2 DEF Writable, Phase, IInv, FlagsAgree
  <2> QED BY <1>2, <2>1 DEF AStep, Abstract!Next, Abstract!Send
<1> QED BY <1>1, <1>2

\* The application closes the connection.
LEMMA AppCloseStep ==
  ASSUME IInv, NEW info \in CloseInfo, MakeClose(flags, info.code, info.reason),
         UNCHANGED <<frames, stuck, close_info, retval, delivered, rx>>
  PROVE  IInv' /\ AStep
<1>0. info.code \in Code /\ info.reason \in Seq(Byte)
  BY DEF CloseInfo
<1>1. TypeOK
  BY DEF IInv
<1>2. /\ made' \in Seq(Frame)
      /\ Writable(flags) => Abstract!Extends(made', made)
      /\ ~ Writable(flags) => made' = made
      /\ flags' = flags \cup {"SENT_CLOSE"}
  BY <1>0, <1>1, CloseMade
<1>3. IInv'
  <2>1. "CONNECTING" \in flags => made' = made /\ "RECEIVED_CLOSE" \notin flags'
    BY <1>2 DEF Writable, IInv, FlagsAgree
  <2>2. rx' \in Seq(Frame) /\ retval' \in {0, -1} /\ close_info' \in CloseInfo \cup {None}
    BY <1>1 DEF TypeOK
  <2>3. /\ flags \subseteq flags' \cup {"CONTINUOUS"}
        /\ flags' \subseteq flags \cup {"SENT_CLOSE", "RECEIVED_CLOSE", "CONTINUOUS"}
        /\ "SENT_CLOSE" \in flags'
    BY <1>2
  <2> QED BY <1>2, <2>1, <2>2, <2>3, ListKept
<1>4. AStep
  <2>1. CASE Phase = "open"
    <3>1. Writable(flags) /\ Phase' = "closing"
      BY <1>2, <2>1 DEF Phase, Writable, IInv, FlagsAgree
    <3> QED BY <1>2, <2>1, <3>1 DEF AStep, Abstract!Next, Abstract!Leave
  <2>2. CASE Phase # "open"
    <3>1. Phase' = Phase
      BY <1>2, <2>2 DEF Phase
    <3> QED BY <1>2, <3>1, SendStep
  <2> QED BY <2>1, <2>2
<1> QED BY <1>3, <1>4

\* A call that makes one frame that is not a close frame, and changes at most
\* CONTINUOUS: pings, pongs and the application's data frames.
LEMMA FrameStep ==
  ASSUME IInv, NEW b0 \in Byte, NEW data \in Seq(Byte),
         Fragment(flags, b0, data) \/ UNCHANGED made,
         flags \subseteq flags' \cup {"CONTINUOUS"}, flags' \subseteq flags \cup {"CONTINUOUS"},
         UNCHANGED <<frames, stuck, close_info, delivered>>,
         retval' \in {0, -1}, rx' \in Seq(Frame)
  PROVE  IInv' /\ AStep
<1>1. TypeOK /\ made \in Seq(Frame)
  BY DEF IInv, TypeOK
<1>2. /\ made' \in Seq(Frame)
      /\ made' = made \/ (Writable(flags) /\ Abstract!Extends(made', made))
  BY <1>1, FragmentMade
<1>3. /\ "CONNECTING" \in flags' <=> "CONNECTING" \in flags
      /\ "RECEIVED_CLOSE" \in flags' <=> "RECEIVED_CLOSE" \in flags
      /\ "PROCESSING_ERROR" \in flags' <=> "PROCESSING_ERROR" \in flags
      /\ "SENT_CLOSE" \in flags' <=> "SENT_CLOSE" \in flags
  OBVIOUS
<1>4. AStep
  <2>1. Phase' = Phase
    BY <1>3 DEF Phase
  <2> QED BY <1>2, <2>1, SendStep
<1>5. IInv'
  <2>1. "CONNECTING" \in flags => made' = made /\ "RECEIVED_CLOSE" \notin flags'
    BY <1>2, <1>3 DEF Writable, IInv, FlagsAgree
  <2>2. "RECEIVED_CLOSE" \in flags' => "SENT_CLOSE" \in flags'
    BY <1>3 DEF IInv, FlagsAgree
  <2>3. close_info' \in CloseInfo \cup {None}
    BY <1>1 DEF TypeOK
  <2>4. flags' \subseteq flags \cup {"SENT_CLOSE", "RECEIVED_CLOSE", "CONTINUOUS"}
    OBVIOUS
  <2> QED BY <1>2, <2>1, <2>2, <2>3, <2>4, ListKept
<1> QED BY <1>4, <1>5


-----------------------------------------------------------------------------
(* Control frames.                                                         *)

\* Two bytes, the first one the higher, make a close code.
LEMMA CodeOfBytes ==
  ASSUME NEW hi \in Byte, NEW lo \in Byte
  PROVE  hi * 256 + lo \in Code
<1> hi \in Int /\ 0 <= hi /\ hi <= 255
  BY DEF Byte
<1> lo \in Int /\ 0 <= lo /\ lo <= 255
  BY DEF Byte
<1>1. hi * 256 + lo \in Int /\ 0 <= hi * 256 + lo /\ hi * 256 + lo <= 65535
  OBVIOUS
<1> QED BY <1>1, CodeRange

\* What the peer's close frame says is a code and a reason.
LEMMA CloseInfoType ==
  ASSUME IInv, NEW data \in Seq(Byte)
  PROVE  NewCloseInfo(data) \in CloseInfo \cup {None}
<1>1. close_info \in CloseInfo \cup {None}
  BY DEF IInv, TypeOK
<1>2. CASE close_info = None /\ Len(data) >= 2
  <2>1. Len(data) \in Nat /\ 1 \in 1..Len(data) /\ 2 \in 1..Len(data)
    BY <1>2, LenProperties
  <2>2. data[1] \in Byte /\ data[2] \in Byte
    BY <2>1, ElementOfSeq
  <2>3. data[1] * 256 + data[2] \in Code
    BY <2>2, CodeOfBytes
  <2>4. SubSeq(data, 3, Len(data)) \in Seq(Byte)
    <3>1. \A i \in 3..Len(data) : data[i] \in Byte
      BY <2>1, ElementOfSeq
    <3>2. 3 \in Int /\ Len(data) \in Int
      BY <2>1
    <3> QED BY <3>1, <3>2, SubSeqProperties
  <2>5. [code |-> data[1] * 256 + data[2], reason |-> SubSeq(data, 3, Len(data))] \in CloseInfo
    BY <2>3, <2>4 DEF CloseInfo
  <2> QED BY <1>2, <2>5 DEF NewCloseInfo
<1>3. CASE ~ (close_info = None /\ Len(data) >= 2)
  BY <1>1, <1>3 DEF NewCloseInfo
<1> QED BY <1>2, <1>3

\* libwebsock_fail_and_cleanup fails the connection.
LEMMA FailStep ==
  ASSUME IInv, Receiving, Fail(flags),
         close_info' \in CloseInfo \cup {None}, rx' \in Seq(Frame)
  PROVE  IInv' /\ AStep
<1> DEFINE fl == flags \cup {"SHOULD_CLOSE"}
           code == 1002
<1>1. Error(fl, code)
  BY DEF Fail
<1>2. code \in Code
  BY CodeRange
<1>3. flags \ {"RECEIVING_FRAGMENT"} \subseteq fl /\ fl \subseteq flags \cup {"SHOULD_CLOSE"}
  OBVIOUS
<1> HIDE DEF fl, code
<1> QED BY <1>1, <1>2, <1>3, ErrorStep

\* A protocol error that lets the peer close the socket fails it too.
LEMMA ProtocolErrorStep ==
  ASSUME IInv, Receiving, Error(flags, 1002),
         close_info' \in CloseInfo \cup {None}, rx' \in Seq(Frame)
  PROVE  IInv' /\ AStep
<1> DEFINE code == 1002
<1>1. Error(flags, code)
  OBVIOUS
<1>2. code \in Code
  BY CodeRange
<1>3. flags \ {"RECEIVING_FRAGMENT"} \subseteq flags /\ flags \subseteq flags \cup {"SHOULD_CLOSE"}
  OBVIOUS
<1> HIDE DEF code
<1> QED BY <1>1, <1>2, <1>3, ErrorStep

\* The peer closes first and gets its answer.
LEMMA AnswerStep ==
  ASSUME IInv, Receiving, "SENT_CLOSE" \notin flags, NEW info \in CloseInfo \cup {None},
         OnClose(flags \cup {"RECEIVED_CLOSE"}, info),
         retval' = Result(flags), UNCHANGED <<frames, stuck, delivered>>,
         close_info' \in CloseInfo \cup {None}, rx' \in Seq(Frame)
  PROVE  IInv' /\ AStep
<1> DEFINE fl == flags \cup {"RECEIVED_CLOSE"}
<1>1. PICK code \in Code, reason \in Seq(Byte) : MakeClose(fl, code, reason)
  <2>1. CASE info = None
    <3> DEFINE code == 1000
               reason == <<>>
    <3>1. code \in Code /\ reason \in Seq(Byte)
      BY CodeRange
    <3>2. MakeClose(fl, code, reason)
      BY <2>1 DEF OnClose
    <3> HIDE DEF fl, code, reason
    <3> QED BY <3>1, <3>2
  <2>2. CASE info # None
    <3>1. info.code \in Code /\ info.reason \in Seq(Byte)
      BY <2>2 DEF CloseInfo
    <3>2. MakeClose(fl, info.code, info.reason)
      BY <2>2 DEF OnClose
    <3> HIDE DEF fl
    <3> QED BY <3>1, <3>2
  <2> QED BY <2>1, <2>2
<1>2. Writable(fl)
  BY DEF Writable, Receiving
<1>3. TypeOK /\ retval' \in {0, -1}
  BY DEF IInv, Result
<1> HIDE DEF fl
<1>4. /\ made' \in Seq(Frame)
      /\ Abstract!Extends(made', made)
      /\ flags' = fl \cup {"SENT_CLOSE"}
  BY <1>1, <1>2, <1>3, CloseMade
<1> USE DEF fl
<1>5. "CONNECTING" \notin flags /\ "RECEIVED_CLOSE" \notin flags
  BY DEF IInv, FlagsAgree, Receiving
<1>6. IInv'
  <2>1. /\ flags \subseteq flags' \cup {"CONTINUOUS"}
        /\ flags' \subseteq flags \cup {"SENT_CLOSE", "RECEIVED_CLOSE", "CONTINUOUS"}
        /\ "SENT_CLOSE" \in flags'
    BY <1>4
  <2> HIDE DEF fl
  <2> QED BY <1>3, <1>4, <1>5, <2>1, ListKept
<1>7. AStep
  <2>1. Phase = "open" /\ Phase' = "closed"
    BY <1>4, <1>5 DEF Phase, Receiving
  <2> QED BY <1>4, <2>1 DEF AStep, Abstract!Next, Abstract!Leave
<1> QED BY <1>6, <1>7

\* A frame that is passed over.
LEMMA NothingStep ==
  ASSUME IInv, UNCHANGED <<flags, frames, stuck, made, delivered>>,
         retval' \in {0, -1}, close_info' \in CloseInfo \cup {None}, rx' \in Seq(Frame)
  PROVE  IInv' /\ AStep
<1>1. TypeOK'
  BY DEF IInv, TypeOK
<1>2. FragmentState' /\ FlagsAgree' /\ StuckFrame'
  BY DEF IInv, FragmentState, FlagsAgree, StuckFrame
<1>3. AStep
  BY DEF AStep, Abstract!vars, Phase
<1> QED BY <1>1, <1>2, <1>3 DEF IInv

\* A control frame, whatever it says and whenever it comes.
LEMMA ControlStep ==
  ASSUME IInv, Receiving, NEW f \in Frame, Control(f), rx' \in Seq(Frame)
  PROVE  IInv' /\ AStep
<1>0. f.data \in Seq(Byte) /\ close_info \in CloseInfo \cup {None} /\ TypeOK
  BY DEF Frame, IInv, TypeOK
<1>1. CASE /\ retval' = 0
           /\ UNCHANGED <<flags, frames, stuck, close_info, made, delivered>>
  BY <1>0, <1>1, NothingStep
<1>2. CASE Error(flags, 1002) /\ UNCHANGED close_info
  BY <1>0, <1>2, ProtocolErrorStep
<1>3. CASE Ping(f.data)
  <2>1. PONG \in Byte
    BY DEF PONG, Byte
  <2>2. /\ Fragment(flags, PONG, f.data) /\ retval' = Result(flags)
        /\ UNCHANGED <<flags, frames, stuck, close_info, delivered>>
    BY <1>3 DEF Ping
  <2>3. /\ retval' \in {0, -1}
        /\ flags \subseteq flags' \cup {"CONTINUOUS"} /\ flags' \subseteq flags \cup {"CONTINUOUS"}
    BY <2>2 DEF Result
  <2> QED BY <1>0, <2>1, <2>2, <2>3, FrameStep
<1>4. CASE Close(f.data)
  <2> DEFINE info == NewCloseInfo(f.data)
  <2>1. info \in CloseInfo \cup {None}
    BY <1>0, CloseInfoType
  <2> HIDE DEF info
  <2>2. CASE Fail(flags) /\ UNCHANGED close_info
    BY <1>0, <2>2, FailStep
  <2>3. CASE close_info' = info /\ Error(flags, 1002)
    BY <2>1, <2>3, ProtocolErrorStep
  <2>4. CASE close_info' = info /\ Fail(flags)
    BY <2>1, <2>4, FailStep
  <2>5. CASE /\ close_info' = info
             /\ "SENT_CLOSE" \notin flags
             /\ OnClose(flags \cup {"RECEIVED_CLOSE"}, info)
             /\ retval' = Result(flags)
             /\ UNCHANGED <<frames, stuck, delivered>>
    BY <2>1, <2>5, AnswerStep
  <2>6. CASE /\ close_info' = info
             /\ retval' = -1
             /\ UNCHANGED <<flags, frames, stuck, made, delivered>>
    BY <2>1, <2>6, NothingStep
  <2> QED BY <1>4, <2>2, <2>3, <2>4, <2>5, <2>6 DEF Close, info
<1> QED BY <1>1, <1>2, <1>3, <1>4 DEF Control


-----------------------------------------------------------------------------
(* The steps of a connection.                                              *)

\* A frame that has a "dispatch" entry is final, and outside a message it
\* has the message's opcode.
LEMMA DispatchedFrame ==
  ASSUME NEW f \in Frame, HandlerOf(f) = "dispatch"
  PROVE  /\ IsFinal(f)
         /\ "RECEIVING_FRAGMENT" \notin flags => f.b0 \in {FIN + TEXT, FIN + BINARY}
BY DEF HandlerOf, Handler, IsFinal, FIN, TEXT, BINARY

\* A frame that completes a message ends a list that begins with a frame
\* which has the message's opcode.
LEMMA DispatchedList ==
  ASSUME IInv, Receiving, ~ stuck, NEW f \in Frame, HandlerOf(f) = "dispatch"
  PROVE  /\ Append(frames, f) \in Seq(Frame) /\ Append(frames, f) # <<>>
         /\ IsFinal(Last(Append(frames, f)))
         /\ Append(frames, f)[1].b0 \in {TEXT, BINARY, FIN + TEXT, FIN + BINARY}
<1> DEFINE fs == Append(frames, f)
<1>0. frames \in Seq(Frame)
  BY DEF IInv, TypeOK
<1>1. /\ fs \in Seq(Frame) /\ fs # <<>> /\ fs[Len(fs)] = f
      /\ \A i \in 1..Len(frames) : fs[i] = frames[i]
  BY <1>0, AppendProperties
<1>2. IsFinal(Last(fs))
  <2>1. Last(fs) = f
    BY <1>1 DEF Last
  <2> QED BY <2>1, DispatchedFrame
<1>3. fs[1].b0 \in {TEXT, BINARY, FIN + TEXT, FIN + BINARY}
  <2>1. CASE frames = <<>>
    <3>1. "RECEIVING_FRAGMENT" \notin flags
      BY <2>1 DEF IInv, FragmentState, Receiving
    <3>2. f.b0 \in {FIN + TEXT, FIN + BINARY}
      BY <3>1, DispatchedFrame
    <3>3. fs[1] = f
      BY <2>1
    <3> HIDE DEF fs
    <3> QED BY <3>2, <3>3
  <2>2. CASE frames # <<>>
    <3>1. 1 \in 1..Len(frames)
      BY <1>0, <2>2, EmptySeq, LenProperties
    <3>2. fs[1] = frames[1]
      BY <1>1, <3>1
    <3> HIDE DEF fs
    <3> QED BY <2>2, <3>2 DEF IInv, FragmentState
  <2> QED BY <2>1, <2>2
<1> QED BY <1>1, <1>2, <1>3

\* A frame arrives.
LEMMA ReceiveStep ==
  ASSUME IInv, NEW f \in RxFrames, Receive(f)
  PROVE  IInv' /\ AStep
<1>1. f \in Frame
  BY FramesAssumption
<1>2. Receiving /\ ~ stuck /\ HandleFrame(f)
  BY DEF Receive
<1>3. TypeOK /\ rx \in Seq(Frame) /\ frames \in Seq(Frame)
  BY DEF IInv, TypeOK
<1>4. rx' \in Seq(Frame)
  BY <1>1, <1>3, AppendProperties DEF Receive
<1>5. CASE HandlerOf(f) = "control" /\ Control(f)
  BY <1>1, <1>2, <1>4, <1>5, ControlStep
<1>6. CASE HandlerOf(f) = "continuation" /\ NewContinuation(f)
  BY <1>1, <1>2, <1>4, <1>6, ContinuationStep
<1>7. CASE HandlerOf(f) = "dispatch" /\ Dispatch(Append(frames, f))
  <2> DEFINE fs == Append(frames, f)
  <2>1. /\ fs \in Seq(Frame) /\ fs # <<>> /\ IsFinal(Last(fs))
        /\ fs[1].b0 \in {TEXT, BINARY, FIN + TEXT, FIN + BINARY}
    BY <1>1, <1>2, <1>7, DispatchedList
  <2>2. Dispatch(fs)
    BY <1>7
  <2> HIDE DEF fs
  <2> QED BY <1>2, <1>4, <2>1, <2>2, DispatchStep
<1>8. CASE HandlerOf(f) = "fail" /\ Fail(flags) /\ UNCHANGED close_info
  BY <1>2, <1>3, <1>4, <1>8, FailStep DEF TypeOK
<1> QED BY <1>2, <1>5, <1>6, <1>7, <1>8 DEF HandleFrame

\* A byte arrives while a whole message is in place.
LEMMA RedispatchStep ==
  ASSUME IInv, Redispatch
  PROVE  IInv' /\ AStep
<1>1. Receiving /\ stuck /\ UNCHANGED rx
  BY DEF Redispatch
<1>2. TypeOK /\ rx' \in Seq(Frame) /\ frames \in Seq(Frame)
  BY <1>1 DEF IInv, TypeOK
<1>3. /\ frames # <<>> /\ IsFinal(Last(frames))
      /\ frames[1].b0 \in {TEXT, BINARY, FIN + TEXT, FIN + BINARY}
  BY <1>1 DEF IInv, StuckFrame, FragmentState
<1>4. CASE Dispatch(frames)
  BY <1>1, <1>2, <1>3, <1>4, DispatchStep
<1>5. CASE Fail(flags) /\ UNCHANGED close_info
  BY <1>1, <1>2, <1>5, FailStep DEF TypeOK
<1> QED BY <1>4, <1>5 DEF Redispatch

\* The handshake succeeds.
LEMMA HandshakeStep ==
  ASSUME IInv, PopulateHandshake
  PROVE  IInv' /\ AStep
<1>1. /\ "CONNECTING" \in flags /\ flags' = {"CONNECTED"}
      /\ UNCHANGED <<frames, stuck, close_info, retval, made, delivered, rx>>
  BY DEF PopulateHandshake
<1>2. frames = <<>> /\ ~ stuck
  BY <1>1 DEF IInv, FlagsAgree
<1>3. TypeOK'
  BY <1>1 DEF IInv, TypeOK, Flag
<1>4. FragmentState' /\ FlagsAgree' /\ StuckFrame'
  BY <1>1, <1>2 DEF FragmentState, FlagsAgree, StuckFrame
<1>5. AStep
  <2>1. Phase = "connecting" /\ Phase' = "open"
    BY <1>1 DEF Phase
  <2> QED BY <1>1, <2>1 DEF AStep, Abstract!Next, Abstract!Open
<1> QED BY <1>3, <1>4, <1>5 DEF IInv

\* The application calls one of the functions of api.c.
LEMMA AppStep ==
  ASSUME IInv, App
  PROVE  IInv' /\ AStep
<1> DEFINE Quiet == UNCHANGED <<frames, stuck, close_info, retval, delivered, rx>>
<1>1. TypeOK /\ retval \in {0, -1} /\ rx \in Seq(Frame)
  BY DEF IInv, TypeOK
<1>2. ASSUME NEW b0 \in Byte, NEW data \in Seq(Byte), Quiet,
             Fragment(flags, b0, data) \/ UNCHANGED made,
             flags \subseteq flags' \cup {"CONTINUOUS"}, flags' \subseteq flags \cup {"CONTINUOUS"}
      PROVE  IInv' /\ AStep
  BY <1>1, <1>2, FrameStep
<1> HIDE DEF Quiet
<1>3. {0, FIN, TEXT, BINARY, FIN + TEXT, FIN + BINARY, PING, PONG} \subseteq Byte
  BY DEF Byte, FIN, TEXT, BINARY, PING, PONG
<1>4. \A name : Call(name) => Quiet
  BY DEF Call, Quiet
<1>5. CASE AppPing
  <2>1. PING \in Byte /\ <<>> \in Seq(Byte)
    BY <1>3
  <2>2. Quiet /\ Fragment(flags, PING, <<>>) /\ flags' = flags
    BY <1>4, <1>5 DEF AppPing
  <2> QED BY <1>2, <2>1, <2>2
<1>6. ASSUME NEW info \in AppCloses, AppClose(info) PROVE IInv' /\ AStep
  <2>1. info \in CloseInfo
    BY FramesAssumption
  <2>2. Quiet /\ MakeClose(flags, info.code, info.reason)
    BY <1>4, <1>6 DEF AppClose
  <2> QED BY <2>1, <2>2, AppCloseStep DEF Quiet
<1>7. ASSUME NEW data \in AppData
      PROVE  /\ AppPong(data) => IInv' /\ AStep
             /\ AppWhole("text", TEXT, data) => IInv' /\ AStep
             /\ AppWhole("binary", BINARY, data) => IInv' /\ AStep
             /\ AppInit("init_text", TEXT, data) => IInv' /\ AStep
             /\ AppInit("init_binary", BINARY, data) => IInv' /\ AStep
             /\ AppContinuation(data) => IInv' /\ AStep
             /\ AppEnd(data) => IInv' /\ AStep
  <2>0. data \in Seq(Byte)
    BY FramesAssumption
  <2>1. CASE AppPong(data)
    <3>1. PONG \in Byte
      BY <1>3
    <3>2. Quiet /\ Fragment(flags, PONG, data) /\ flags' = flags
      BY <1>4, <2>1 DEF AppPong
    <3> QED BY <1>2, <2>0, <3>1, <3>2
  <2>2. ASSUME NEW name, NEW opcode \in {TEXT, BINARY}, AppWhole(name, opcode, data)
        PROVE  IInv' /\ AStep
    <3>1. FIN + opcode \in Byte
      BY <1>3, <2>2
    <3>2. Quiet /\ (Fragment(flags, FIN + opcode, data) \/ UNCHANGED made) /\ flags' = flags
      BY <1>4, <2>2 DEF AppWhole
    <3> QED BY <1>2, <2>0, <3>1, <3>2
  <2>3. ASSUME NEW name, NEW opcode \in {TEXT, BINARY}, AppInit(name, opcode, data)
        PROVE  IInv' /\ AStep
    <3>1. opcode \in Byte
      BY <1>3, <2>3
    <3>2. Quiet /\ Fragment(flags, opcode, data) /\ flags' = flags \cup {"CONTINUOUS"}
      BY <1>4, <2>3 DEF AppInit
    <3> QED BY <1>2, <2>0, <3>1, <3>2
  <2>4. CASE AppContinuation(data)
    <3>1. 0 \in Byte
      BY <1>3
    <3>2. Quiet /\ Fragment(flags, 0, data) /\ flags' = flags
      BY <1>4, <2>4 DEF AppContinuation
    <3> QED BY <1>2, <2>0, <3>1, <3>2
  <2>5. CASE AppEnd(data)
    <3>1. FIN \in Byte
      BY <1>3
    <3>2. Quiet /\ Fragment(flags, FIN, data) /\ flags' = flags \ {"CONTINUOUS"}
      BY <1>4, <2>5 DEF AppEnd
    <3> QED BY <1>2, <2>0, <3>1, <3>2
  <2>6. TEXT \in {TEXT, BINARY} /\ BINARY \in {TEXT, BINARY}
    OBVIOUS
  <2> QED BY <2>1, <2>2, <2>3, <2>4, <2>5, <2>6
<1> QED BY <1>5, <1>6, <1>7 DEF App

\* The state before the handshake.
LEMMA InitIInv == Init => IInv /\ Abstract!Init
<1> SUFFICES ASSUME Init PROVE IInv /\ Abstract!Init
  OBVIOUS
<1>1. TypeOK
  <2>1. flags \subseteq Flag
    BY DEF Init, Flag
  <2>2. frames \in Seq(Frame) /\ made \in Seq(Frame) /\ rx \in Seq(Frame)
    BY DEF Init
  <2>3. delivered \in Seq(Message)
    BY DEF Init
  <2>4. stuck \in BOOLEAN /\ close_info \in CloseInfo \cup {None} /\ retval \in {0, -1}
    BY DEF Init
  <2> QED BY <2>1, <2>2, <2>3, <2>4 DEF TypeOK
<1>2. FragmentState /\ FlagsAgree /\ StuckFrame
  BY DEF Init, FragmentState, FlagsAgree, StuckFrame
<1>3. Abstract!Init
  BY DEF Init, Abstract!Init, Phase
<1> QED BY <1>1, <1>2, <1>3 DEF IInv

\* Every step keeps the invariant and is a step of the abstract connection.
LEMMA NextStep == IInv /\ [Next]_vars => IInv' /\ AStep
<1> SUFFICES ASSUME IInv, [Next]_vars PROVE IInv' /\ AStep
  OBVIOUS
<1>1. CASE PopulateHandshake
  BY <1>1, HandshakeStep
<1>2. ASSUME NEW f \in RxFrames, Receive(f) PROVE IInv' /\ AStep
  BY <1>2, ReceiveStep
<1>3. CASE Redispatch
  BY <1>3, RedispatchStep
<1>4. CASE App
  BY <1>4, AppStep
<1>5. CASE UNCHANGED vars
  <2>1. /\ UNCHANGED <<flags, frames, stuck, made, delivered>>
        /\ UNCHANGED <<retval, close_info, rx>>
    BY <1>5 DEF vars
  <2>2. retval' \in {0, -1} /\ close_info' \in CloseInfo \cup {None} /\ rx' \in Seq(Frame)
    BY <2>1 DEF IInv, TypeOK
  <2> QED BY <2>1, <2>2, NothingStep
<1> QED BY <1>1, <1>2, <1>3, <1>4, <1>5 DEF Next

-----------------------------------------------------------------------------
(* The theorems.                                                           *)

\* IInv is an invariant of the connection.
THEOREM Invariant == Spec => []IInv
<1>1. Init => IInv
  BY InitIInv
<1>2. IInv /\ [Next]_vars => IInv'
  BY NextStep
<1> QED BY <1>1, <1>2, PTL DEF Spec

\* Every value has its type: in particular a message that is delivered has
\* an opcode of a message and a payload of bytes, and no handler returns
\* anything but 0 and -1.
THEOREM TypeCorrect == Spec => []TypeOK
<1>1. IInv => TypeOK
  BY DEF IInv
<1> QED BY <1>1, Invariant, PTL

\* Outside an error RECEIVING_FRAGMENT is up exactly while the list holds the
\* beginning of a message: the lookup table is read in the right half.
THEOREM FragmentsAgree == Spec => []FragmentState
<1>1. IInv => FragmentState
  BY DEF IInv
<1> QED BY <1>1, Invariant, PTL

\* The flags never contradict each other.
THEOREM FlagsCorrect == Spec => []FlagsAgree
<1>1. IInv => FlagsAgree
  BY DEF IInv
<1> QED BY <1>1, Invariant, PTL

\* Only a whole message is ever left in place, and only after our close frame.
THEOREM StuckCorrect == Spec => []StuckFrame
<1>1. IInv => StuckFrame
  BY DEF IInv
<1> QED BY <1>1, Invariant, PTL

\* The flags and handlers of libwebsock implement the abstract connection.
THEOREM Implements == Spec => EndpointSpec
<1>1. Init => Abstract!Init
  BY InitIInv
<1>2. IInv /\ [Next]_vars => [Abstract!Next]_(Abstract!vars)
  BY NextStep DEF AStep
<1> QED BY <1>1, <1>2, Invariant, PTL DEF Spec, EndpointSpec, Abstract!Spec

-----------------------------------------------------------------------------
(* Text up to a NUL byte.                                                  *)

\* The empty text is UTF-8.
LEMMA EmptyIsUtf8 == ValidateUtf8(<<>>)
<1> DEFINE Equation(f) ==
             f = [n \in 0..0 |-> IF n = 0 THEN ACCEPT ELSE Decode(f[n - 1], <<>>[n])]
<1>1. Equation([n \in 0..0 |-> ACCEPT])
  OBVIOUS
<1>2. Len(<<>>) = 0 /\ UpToNul(<<>>) = <<>>
  BY DEF UpToNul, SelectInSeq
<1>3. Equation(DecoderStates(<<>>))
  BY <1>1, <1>2 DEF DecoderStates
<1>4. DecoderStates(<<>>)[0] = ACCEPT
  BY <1>3
<1> QED BY <1>2, <1>4 DEF ValidateUtf8

\* A string cut at its NUL byte has none, and is not longer than before.
LEMMA UpToNulShort ==
  ASSUME NEW s \in Seq(Byte)
  PROVE  /\ Len(UpToNul(s)) <= Len(s)
         /\ \A i \in 1..Len(UpToNul(s)) : UpToNul(s)[i] # 0
<1> DEFINE I == {i \in 1..Len(s) : s[i] = 0}
<1>0. Len(s) \in Nat
  BY LenProperties
<1>1. UpToNul(s) = LET i == IF I # {} THEN Min(I) ELSE 0
                   IN  IF i = 0 THEN s ELSE SubSeq(s, 1, i - 1)
  BY DEF UpToNul, SelectInSeq
<1>2. CASE I = {}
  <2>1. UpToNul(s) = s
    BY <1>1, <1>2
  <2> QED BY <1>0, <1>2, <2>1
<1>3. CASE I # {}
  <2>1. Min(I) \in I /\ \A n \in I : Min(I) <= n
    <3>1. I \in SUBSET Nat
      BY LenProperties
    <3> HIDE DEF I
    <3> QED BY <1>3, <3>1, MinOfNats
  <2> DEFINE m == Min(I)
  <2>2. m \in 1..Len(s)
    BY <2>1
  <2>3. \A i \in 1..(m - 1) : i \in 1..Len(s) /\ s[i] # 0
    <3> SUFFICES ASSUME NEW i \in 1..(m - 1) PROVE i \in 1..Len(s) /\ s[i] # 0
      OBVIOUS
    <3>1. i \in 1..Len(s) /\ ~ (m <= i)
      <4> HIDE DEF m
      <4> QED BY <1>0, <2>2
    <3> QED BY <2>1, <3>1
  <2>4. UpToNul(s) = SubSeq(s, 1, m - 1)
    <3> HIDE DEF I
    <3> QED BY <1>1, <1>3, <2>2
  <2> HIDE DEF m, I
  <2>5. \A i \in 1..(m - 1) : s[i] \in Byte
    BY <2>3, ElementOfSeq
  <2>6. /\ Len(SubSeq(s, 1, m - 1)) = m - 1
        /\ \A i \in 1..(m - 1) : SubSeq(s, 1, m - 1)[i] = s[i]
    <3>1. 1 \in Int /\ m - 1 \in Int /\ (m - 1) - 1 + 1 = m - 1
      BY <2>2
    <3>2. \A i \in 1..(m - 1) : 1 + i - 1 = i
      BY <3>1
    <3> QED BY <2>2, <2>5, <3>1, <3>2, SubSeqProperties
  <2> QED BY <1>0, <2>2, <2>3, <2>4, <2>6
<1> QED BY <1>2, <1>3

\* So it is as good UTF-8 as the string was.
LEMMA UpToNulUtf8 ==
  ASSUME NEW s \in Seq(Byte), ValidateUtf8(s)
  PROVE  ValidateUtf8(UpToNul(s))
<1> DEFINE t == UpToNul(s)
<1>1. t \in Seq(Byte) /\ \A i \in 1..Len(t) : t[i] # 0
  BY UpToNulType, UpToNulShort
<1>2. UpToNul(t) = t
  <2> HIDE DEF t
  <2>1. {i \in 1..Len(t) : t[i] = 0} = {}
    BY <1>1
  <2> QED BY <2>1 DEF UpToNul, SelectInSeq
<1> QED BY <1>2 DEF ValidateUtf8

-----------------------------------------------------------------------------
(* Codes.                                                                  *)

\* The code that was written is the code that is read.
LEMMA CodeRead ==
  ASSUME NEW code \in Code, NEW r \in Seq(Byte)
  PROVE  /\ CodeBytes(code) \o r \in Seq(Byte)
         /\ Len(CodeBytes(code) \o r) = 2 + Len(r)
         /\ CodeOf(CodeBytes(code) \o r) = code
         /\ SubSeq(CodeBytes(code) \o r, 3, Len(CodeBytes(code) \o r)) = r
<1> DEFINE c == CodeBytes(code)
           d == c \o r
<1>1. c \in Seq(Byte) /\ Len(r) \in Nat
  BY CodeBytesType, LenProperties
<1>2. Len(c) = 2 /\ c[1] = code \div 256 /\ c[2] = code % 256
  BY DEF CodeBytes
<1>3. c[1] * 256 + c[2] = code
  <2>1. code \in Int /\ 0 <= code
    BY CodeRange
  <2> HIDE DEF c
  <2> QED BY <1>2, <2>1
<1> HIDE DEF c
<1>4. /\ d \in Seq(Byte) /\ Len(d) = 2 + Len(r)
      /\ \A i \in 1..(2 + Len(r)) : d[i] = IF i <= 2 THEN c[i] ELSE r[i - 2]
  <2>1. /\ d \in Seq(Byte) /\ Len(d) = Len(c) + Len(r)
        /\ \A i \in 1..(Len(c) + Len(r)) : d[i] = IF i <= Len(c) THEN c[i] ELSE r[i - Len(c)]
    BY <1>1, ConcatProperties
  <2> HIDE DEF d
  <2> QED BY <1>2, <2>1
<1> HIDE DEF d
<1>5. CodeOf(d) = code
  BY <1>1, <1>3, <1>4 DEF CodeOf
<1>6. SubSeq(d, 3, Len(d)) = r
  <2>1. \A i \in 3..Len(d) : d[i] \in Byte
    BY <1>1, <1>4, ElementOfSeq
  <2>2. 3 \in Int /\ Len(d) \in Int /\ Len(d) - 3 + 1 = Len(r)
    BY <1>1, <1>4
  <2> DEFINE t == SubSeq(d, 3, Len(d))
  <2>3. /\ t \in Seq(Byte)
        /\ Len(t) = IF 3 <= Len(d) THEN Len(d) - 3 + 1 ELSE 0
        /\ \A i \in 1..(Len(d) - 3 + 1) : t[i] = d[3 + i - 1]
    BY <2>1, <2>2, SubSeqProperties
  <2> HIDE DEF t
  <2>4. Len(t) = Len(r)
    BY <1>1, <1>4, <2>2, <2>3
  <2>5. \A i \in 1..Len(t) : t[i] = r[i]
    <3> SUFFICES ASSUME NEW i \in 1..Len(r) PROVE t[i] = r[i]
      BY <2>4
    <3>1. t[i] = d[3 + i - 1]
      BY <2>2, <2>3
    <3>2. 3 + i - 1 \in 1..(2 + Len(r)) /\ ~ (3 + i - 1 <= 2) /\ (3 + i - 1) - 2 = i
      BY <1>1
    <3> QED BY <1>4, <3>1, <3>2
  <2>6. t = r
    BY <2>3, <2>4, <2>5, SeqEqual
  <2> QED BY <2>6 DEF t
<1> QED BY <1>4, <1>5, <1>6 DEF d, c

\* The codes the default control callback lets pass may be sent.
LEMMA ValidCodes ==
  ASSUME NEW code \in Code, ~ InvalidCode(code)
  PROVE  OnTheWire(code)
<1> code \in Int /\ 0 <= code /\ code <= 65535
  BY CodeRange
<1>1. code <= MaxCode /\ MaxCode \in Int
  BY DEF MaxCode
<1> QED BY <1>1, SMT DEF InvalidCode, OnTheWire

-----------------------------------------------------------------------------
(* The frames a step makes.                                                *)

\* What the theorem takes for granted: the application itself closes with
\* legal codes and texts, and a control frame has room for a code.
LegalCloses ==
  /\ MaxControl >= 2
  /\ \A info \in AppCloses :
       OnTheWire(info.code) /\ ValidateUtf8(info.reason) /\ Len(info.reason) <= MaxControl - 2

\* The inductive invariant.  A code in close_info may be an illegal one, but
\* a reason that came in a control frame fits in one.
CloseInv ==
  /\ CloseFramesLegal
  /\ close_info # None => Len(close_info.reason) <= MaxControl - 2

LegalFrame(f) ==
  f.b0 = CLOSE =>
    /\ Len(f.data) \in 2..MaxControl
    /\ OnTheWire(CodeOf(f.data))
    /\ ValidateUtf8(SubSeq(f.data, 3, Len(f.data)))

\* One more frame.
LEMMA FragmentLegal ==
  ASSUME TypeOK, CloseFramesLegal, NEW fl, NEW b0 \in Byte, NEW data \in Seq(Byte),
         Fragment(fl, b0, data), LegalFrame([b0 |-> b0, data |-> data])
  PROVE  CloseFramesLegal'
<1> DEFINE f == [b0 |-> b0, data |-> data]
<1>1. made \in Seq(Frame) /\ f \in Frame
  BY DEF TypeOK, Frame
<1>2. made' = IF Writable(fl) THEN Append(made, f) ELSE made
  BY DEF Fragment
<1>3. \A i \in DOMAIN made : LegalFrame(made[i])
  BY DEF CloseFramesLegal, LegalFrame
<1>4. LegalFrame(f)
  OBVIOUS
<1> HIDE DEF f
<1>5. \A i \in DOMAIN Append(made, f) : LegalFrame(Append(made, f)[i])
  <2> DEFINE t == Append(made, f)
  <2>1. /\ t \in Seq(Frame) /\ Len(t) = Len(made) + 1 /\ Len(made) \in Nat
        /\ \A i \in 1..Len(made) : t[i] = made[i]
        /\ t[Len(made) + 1] = f
    BY <1>1, AppendProperties, LenProperties
  <2> HIDE DEF t
  <2>2. DOMAIN t = 1..(Len(made) + 1) /\ DOMAIN made = 1..Len(made)
    BY <1>1, <2>1, LenProperties
  <2>3. ASSUME NEW i \in DOMAIN t PROVE LegalFrame(t[i])
    <3>1. i \in 1..Len(made) \/ i = Len(made) + 1
      BY <2>1, <2>2
    <3> QED BY <1>3, <1>4, <2>1, <2>2, <3>1
  <2> QED BY <2>3 DEF t
<1>6. \A i \in DOMAIN made' : LegalFrame(made'[i])
  BY <1>2, <1>3, <1>5
<1> QED BY <1>6 DEF CloseFramesLegal, LegalFrame

\* A frame that is no close frame.
LEMMA OtherLegal ==
  ASSUME TypeOK, CloseFramesLegal, NEW fl, NEW b0 \in Byte, b0 # CLOSE,
         NEW data \in Seq(Byte), Fragment(fl, b0, data)
  PROVE  CloseFramesLegal'
<1>1. LegalFrame([b0 |-> b0, data |-> data])
  BY DEF LegalFrame
<1> QED BY <1>1, FragmentLegal

\* libwebsock_make_close_frame_with_reason with a code and a reason that may
\* be sent.
LEMMA CloseLegal ==
  ASSUME TypeOK, CloseFramesLegal, LegalCloses, NEW fl,
         NEW code \in Code, OnTheWire(code),
         NEW reason \in Seq(Byte), ValidateUtf8(reason), Len(reason) <= MaxControl - 2,
         MakeClose(fl, code, reason)
  PROVE  CloseFramesLegal'
<1> DEFINE r == UpToNul(reason)
           data == CodeBytes(code) \o r
<1>1. r \in Seq(Byte) /\ Len(r) <= Len(reason) /\ ValidateUtf8(r)
  BY UpToNulType, UpToNulShort, UpToNulUtf8
<1>2. Fragment(fl, CLOSE, data)
  BY DEF MakeClose
<1> HIDE DEF r
<1>3. /\ data \in Seq(Byte) /\ Len(data) = 2 + Len(r)
      /\ CodeOf(data) = code /\ SubSeq(data, 3, Len(data)) = r
  BY <1>1, CodeRead
<1> HIDE DEF data
<1>4. Len(data) \in 2..MaxControl
  <2>1. Len(r) \in Nat /\ Len(reason) \in Nat /\ MaxControl \in Nat
    BY <1>1, LenProperties, BoundsAssumption
  <2> QED BY <1>1, <1>3, <2>1
<1>5. LegalFrame([b0 |-> CLOSE, data |-> data])
  BY <1>1, <1>3, <1>4 DEF LegalFrame
<1>6. CLOSE \in Byte
  BY DEF CLOSE, Byte
<1> QED BY <1>2, <1>3, <1>5, <1>6, FragmentLegal

\* A close frame without a reason: those the library makes on its own.
LEMMA PlainCloseLegal ==
  ASSUME TypeOK, CloseFramesLegal, LegalCloses, NEW fl, NEW code \in {1000, 1002, 1007},
         MakeClose(fl, code, <<>>)
  PROVE  CloseFramesLegal'
<1>1. code \in Code /\ OnTheWire(code)
  <2>1. code \in Int /\ 1000 <= code /\ code <= 1007 /\ (code <= 1003 \/ 1007 <= code)
    BY SMT
  <2>2. code <= 65535 /\ code <= 1011
    BY <2>1, SMT
  <2> QED BY <2>1, <2>2, CodeRange, SMT DEF OnTheWire
<1> DEFINE reason == <<>>
<1>2. /\ reason \in Seq(Byte) /\ Len(reason) <= MaxControl - 2
      /\ ValidateUtf8(reason) /\ MakeClose(fl, code, reason)
  BY BoundsAssumption, EmptyIsUtf8 DEF LegalCloses
<1> HIDE DEF reason
<1> QED BY <1>1, <1>2, CloseLegal

\* libwebsock_error with the codes the library calls it with.
LEMMA ErrorLegal ==
  ASSUME TypeOK, CloseFramesLegal, LegalCloses, NEW fl, NEW code \in {1002, 1007},
         Error(fl, code)
  PROVE  CloseFramesLegal'
<1>1. MakeClose(fl \cup {"PROCESSING_ERROR"}, code, <<>>)
  BY DEF Error
<1> QED BY <1>1, PlainCloseLegal

-----------------------------------------------------------------------------
(* The handlers.                                                           *)

\* A whole message: an echo repeats its opcode, which is not that of a close
\* frame.
LEMMA DispatchLegal ==
  ASSUME IInv, CloseInv, LegalCloses, NEW fs \in Seq(Frame),
         fs[1].b0 \in {TEXT, BINARY, FIN + TEXT, FIN + BINARY}, Dispatch(fs)
  PROVE  CloseInv'
<1> DEFINE fl == flags \ {"RECEIVING_FRAGMENT"}
           m  == [opcode |-> fs[1].b0 % 16, payload |-> Payload(fs)]
<1>0. TypeOK /\ CloseFramesLegal
  BY DEF IInv, CloseInv
<1>1. UNCHANGED close_info
  BY DEF Dispatch, IgnoreMessage
<1>2. FIN + m.opcode \in Byte /\ FIN + m.opcode # CLOSE /\ m.payload \in Seq(Byte)
  <2>1. fs[1].b0 % 16 \in {1, 2}
    BY DEF TEXT, BINARY, FIN
  <2>2. FIN + m.opcode \in {129, 130}
    BY <2>1 DEF FIN
  <2> QED BY <2>2, PayloadType DEF Byte, CLOSE
<1> SUFFICES CloseFramesLegal'
  BY <1>1 DEF CloseInv
<1> HIDE DEF fl
<1>3. CASE UNCHANGED made
  BY <1>0, <1>3 DEF CloseFramesLegal
<1>4. CASE Error(fl, 1007)
  BY <1>0, <1>4, ErrorLegal
<1>5. ASSUME NEW callback, OnMessage(callback, fl, m) PROVE CloseFramesLegal'
  <2> HIDE DEF m
  <2>1. CASE Fragment(fl, FIN + m.opcode, m.payload)
    BY <1>0, <1>2, <2>1, OtherLegal
  <2>2. CASE MakeClose(fl, 1000, <<>>)
    BY <1>0, <2>2, PlainCloseLegal
  <2> QED BY <1>3, <1>5, <2>1, <2>2 DEF OnMessage
<1>6. CASE IgnoreMessage(fl, fs)
  BY <1>3, <1>6 DEF IgnoreMessage
<1> QED BY <1>4, <1>5, <1>6 DEF Dispatch, fl

\* A control frame.  Whatever close_info holds is checked again before it is
\* sent back.
LEMMA ControlLegal ==
  ASSUME IInv, CloseInv, LegalCloses, NEW f \in Frame, Control(f)
  PROVE  CloseInv'
<1>0. TypeOK /\ CloseFramesLegal /\ f.data \in Seq(Byte) /\ MaxControl \in Nat
  BY BoundsAssumption DEF IInv, CloseInv, Frame
<1>1. CASE UNCHANGED <<close_info, made>>
  BY <1>1 DEF CloseInv, CloseFramesLegal
<1>2. CASE Error(flags, 1002) /\ UNCHANGED close_info
  BY <1>0, <1>2, ErrorLegal DEF CloseInv
<1>3. CASE Ping(f.data)
  <2>1. Fragment(flags, PONG, f.data) /\ UNCHANGED close_info
    BY <1>3 DEF Ping
  <2>2. PONG \in Byte /\ PONG # CLOSE
    BY DEF PONG, CLOSE, Byte
  <2> QED BY <1>0, <2>1, <2>2, OtherLegal DEF CloseInv
<1>4. CASE Len(f.data) <= MaxControl /\ Close(f.data)
  <2> DEFINE info == NewCloseInfo(f.data)
  <2>1. info \in CloseInfo \cup {None}
    BY <1>0, CloseInfoType
  <2>2. info # None => Len(info.reason) <= MaxControl - 2
    <3>1. CASE close_info = None /\ Len(f.data) >= 2
      <4>1. \A i \in 3..Len(f.data) : f.data[i] \in Byte
        BY <1>0, ElementOfSeq, LenProperties
      <4>2. Len(f.data) \in Int /\ 3 \in Int
        BY <1>0, LenProperties
      <4>3. Len(SubSeq(f.data, 3, Len(f.data)))
              = IF 3 <= Len(f.data) THEN Len(f.data) - 3 + 1 ELSE 0
        BY <4>1, <4>2, SubSeqProperties
      <4>4. Len(SubSeq(f.data, 3, Len(f.data))) <= MaxControl - 2
        BY <1>0, <1>4, <4>2, <4>3 DEF LegalCloses
      <4>5. info.reason = SubSeq(f.data, 3, Len(f.data))
        BY <3>1 DEF NewCloseInfo
      <4> QED BY <4>4, <4>5
    <3>2. CASE ~ (close_info = None /\ Len(f.data) >= 2)
      BY <3>2 DEF NewCloseInfo, CloseInv
    <3> QED BY <3>1, <3>2
  <2> HIDE DEF info
  <2>3. ASSUME NEW fl, Fail(fl) PROVE CloseFramesLegal'
    BY <1>0, <2>3, ErrorLegal DEF Fail
  <2>4. CASE Fail(flags) /\ UNCHANGED close_info
    BY <2>3, <2>4 DEF CloseInv
  <2>5. CASE close_info' = info /\ (Error(flags, 1002) \/ Fail(flags))
    <3>1. CloseFramesLegal'
      BY <1>0, <2>3, <2>5, ErrorLegal
    <3> QED BY <2>2, <2>5, <3>1 DEF CloseInv
  <2>6. CASE /\ close_info' = info
             /\ info # None => ~ InvalidCode(info.code) /\ ValidateUtf8(info.reason)
             /\ OnClose(flags \cup {"RECEIVED_CLOSE"}, info)
    <3> DEFINE fl == flags \cup {"RECEIVED_CLOSE"}
    <3>1. CASE info = None
      <4>1. MakeClose(fl, 1000, <<>>)
        BY <2>6, <3>1 DEF OnClose
      <4> HIDE DEF fl
      <4>2. CloseFramesLegal'
        BY <1>0, <4>1, PlainCloseLegal
      <4> QED BY <2>2, <2>6, <4>2 DEF CloseInv
    <3>2. CASE info # None
      <4>1. MakeClose(fl, info.code, info.reason)
        BY <2>6, <3>2 DEF OnClose
      <4> HIDE DEF fl
      <4>2. info.code \in Code /\ info.reason \in Seq(Byte)
        BY <2>1, <3>2 DEF CloseInfo
      <4>3. OnTheWire(info.code)
        BY <2>6, <3>2, <4>2, ValidCodes
      <4>4. CloseFramesLegal'
        BY <1>0, <2>2, <2>6, <3>2, <4>1, <4>2, <4>3, CloseLegal
      <4> QED BY <2>2, <2>6, <4>4 DEF CloseInv
    <3> QED BY <3>1, <3>2
  <2>7. CASE close_info' = info /\ UNCHANGED made
    BY <2>2, <2>7 DEF CloseInv, CloseFramesLegal
  <2> QED BY <1>4, <2>4, <2>5, <2>6, <2>7 DEF Close, info
<1> QED BY <1>1, <1>2, <1>3, <1>4 DEF Control

-----------------------------------------------------------------------------
(* The steps of a connection.                                              *)

\* A frame arrives.
LEMMA ReceiveLegal ==
  ASSUME IInv, CloseInv, LegalCloses, NEW f \in RxFrames, Receive(f)
  PROVE  CloseInv'
<1>1. f \in Frame /\ Receiving /\ ~ stuck /\ HandleFrame(f)
  BY FramesAssumption DEF Receive
<1>2. CASE Control(f)
  BY <1>1, <1>2, ControlLegal
<1>3. CASE NewContinuation(f)
  BY <1>3 DEF NewContinuation, CloseInv, CloseFramesLegal
<1>4. CASE HandlerOf(f) = "dispatch" /\ Dispatch(Append(frames, f))
  <2> DEFINE fs == Append(frames, f)
  <2>1. fs \in Seq(Frame) /\ fs[1].b0 \in {TEXT, BINARY, FIN + TEXT, FIN + BINARY}
    BY <1>1, <1>4, DispatchedList
  <2>2. Dispatch(fs)
    BY <1>4
  <2> HIDE DEF fs
  <2> QED BY <2>1, <2>2, DispatchLegal
<1>5. CASE Fail(flags) /\ UNCHANGED close_info
  BY <1>5, ErrorLegal DEF Fail, IInv, CloseInv
<1> QED BY <1>1, <1>2, <1>3, <1>4, <1>5 DEF HandleFrame

\* A byte arrives while a whole message is in place.
LEMMA RedispatchLegal ==
  ASSUME IInv, CloseInv, LegalCloses, Redispatch
  PROVE  CloseInv'
<1>1. CASE Dispatch(frames)
  <2>1. frames \in Seq(Frame) /\ frames[1].b0 \in {TEXT, BINARY, FIN + TEXT, FIN + BINARY}
    BY DEF Redispatch, IInv, TypeOK, StuckFrame, FragmentState
  <2> QED BY <1>1, <2>1, DispatchLegal
<1>2. CASE Fail(flags) /\ UNCHANGED close_info
  BY <1>2, ErrorLegal DEF Fail, IInv, CloseInv
<1> QED BY <1>1, <1>2 DEF Redispatch

\* The application closes with what LegalCloses allows, and its other calls
\* make no close frames.
LEMMA AppLegal ==
  ASSUME IInv, CloseInv, LegalCloses, App
  PROVE  CloseInv'
<1>0. TypeOK /\ CloseFramesLegal
  BY DEF IInv, CloseInv
<1>1. UNCHANGED close_info
  BY DEF App, AppPing, AppPong, AppClose, AppWhole, AppInit, AppContinuation, AppEnd, Call
<1> SUFFICES CloseFramesLegal'
  BY <1>1 DEF CloseInv
<1>2. ASSUME NEW b0 \in {0, FIN, TEXT, BINARY, FIN + TEXT, FIN + BINARY, PING, PONG},
             NEW data \in Seq(Byte), Fragment(flags, b0, data)
      PROVE  CloseFramesLegal'
  <2>1. b0 \in Byte /\ b0 # CLOSE
    BY DEF Byte, CLOSE, FIN, TEXT, BINARY, PING, PONG
  <2> QED BY <1>0, <1>2, <2>1, OtherLegal
<1>3. UNCHANGED made => CloseFramesLegal'
  BY <1>0 DEF CloseFramesLegal
<1>4. CASE AppPing
  <2>1. Fragment(flags, PING, <<>>) /\ <<>> \in Seq(Byte)
    BY <1>4 DEF AppPing
  <2> QED BY <1>2, <2>1
<1>5. ASSUME NEW info \in AppCloses, AppClose(info) PROVE CloseFramesLegal'
  <2>1. info.code \in Code /\ info.reason \in Seq(Byte)
    BY FramesAssumption DEF CloseInfo
  <2>2. MakeClose(flags, info.code, info.reason)
    BY <1>5 DEF AppClose
  <2>3. OnTheWire(info.code) /\ ValidateUtf8(info.reason) /\ Len(info.reason) <= MaxControl - 2
    BY DEF LegalCloses
  <2> QED BY <1>0, <2>1, <2>2, <2>3, CloseLegal
<1>6. ASSUME NEW data \in AppData,
             \/ AppPong(data)
             \/ AppWhole("text", TEXT, data) \/ AppWhole("binary", BINARY, data)
             \/ AppInit("init_text", TEXT, data) \/ AppInit("init_binary", BINARY, data)
             \/ AppContinuation(data) \/ AppEnd(data)
      PROVE  CloseFramesLegal'
  <2>1. data \in Seq(Byte)
    BY FramesAssumption
  <2> QED BY <1>2, <1>3, <1>6, <2>1
          DEF AppPong, AppWhole, AppInit, AppContinuation, AppEnd
<1> QED BY <1>4, <1>5, <1>6 DEF App

\* No close frame that is made carries a code that may not appear on the
\* wire, a reason that is not UTF-8, or more than a control frame holds
\* (libwebsock_default_control_callback, libwebsock_error), if the
\* application's own closes do not.
THEOREM ClosesLegal == LegalCloses /\ Spec => []CloseFramesLegal
<1> SUFFICES ASSUME LegalCloses PROVE Spec => []CloseFramesLegal
  OBVIOUS
<1>1. Init => CloseInv
  BY DEF Init, CloseInv, CloseFramesLegal
<1>2. IInv /\ CloseInv /\ [Next]_vars => CloseInv'
  <2> SUFFICES ASSUME IInv, CloseInv, [Next]_vars PROVE CloseInv'
    OBVIOUS
  <2>1. CASE PopulateHandshake
    BY <2>1 DEF PopulateHandshake, CloseInv, CloseFramesLegal
  <2>2. ASSUME NEW f \in RxFrames, Receive(f) PROVE CloseInv'
    BY <2>2, ReceiveLegal
  <2>3. CASE Redispatch
    BY <2>3, RedispatchLegal
  <2>4. CASE App
    BY <2>4, AppLegal
  <2>5. CASE UNCHANGED vars
    BY <2>5 DEF vars, CloseInv, CloseFramesLegal
  <2> QED BY <2>1, <2>2, <2>3, <2>4, <2>5 DEF Next
<1>3. CloseInv => CloseFramesLegal
  BY DEF CloseInv
<1> QED BY <1>1, <1>2, <1>3, Invariant, PTL DEF Spec

-----------------------------------------------------------------------------
(* What a step does to the frames made, to the flags the properties below  *)
(* are about and to close_info: one of six effects for a step that handles *)
(* the frame f, whichever of the handlers it takes.                        *)

\* flags' is flags, but for RECEIVING_FRAGMENT.
FlagsKept == flags' \cup {"RECEIVING_FRAGMENT"} = flags \cup {"RECEIVING_FRAGMENT"}

\* Nothing is made.
Passes(f) ==
  /\ made' = made /\ FlagsKept
  /\ "SENT_CLOSE" \in flags \/ (f.b0 \notin {CLOSE, PING} /\ close_info' = close_info)

\* A ping is answered.
Pongs(f) ==
  /\ "SENT_CLOSE" \notin flags /\ f.b0 = PING
  /\ made' = Append(made, [b0 |-> PONG, data |-> f.data])
  /\ FlagsKept /\ close_info' = close_info

\* onmessage sends a message back.
Echoes(f) ==
  /\ {"SENT_CLOSE", "CONTINUOUS"} \cap flags = {} /\ f.b0 \notin {CLOSE, PING}
  /\ \E g \in Frame : g.b0 \in {FIN + TEXT, FIN + BINARY} /\ made' = Append(made, g)
  /\ FlagsKept /\ close_info' = close_info

\* onmessage closes.
ClosesNow(f) ==
  /\ "SENT_CLOSE" \notin flags /\ f.b0 \notin {CLOSE, PING} /\ "close" \in Callbacks
  /\ \E g \in Frame : g.b0 = CLOSE /\ made' = Append(made, g)
  /\ flags' = (flags \ {"RECEIVING_FRAGMENT"}) \cup {"SENT_CLOSE"}
  /\ close_info' = close_info

\* libwebsock_error
Fails ==
  /\ {"SENT_CLOSE", "PROCESSING_ERROR"} \subseteq flags'
  /\ \A x \in {"CONNECTED", "RECEIVED_CLOSE", "CONTINUOUS"} : x \in flags' <=> x \in flags
  /\ IF "RECEIVED_CLOSE" \in flags
     THEN made' = made
     ELSE \E g \in Frame : g.b0 = CLOSE /\ made' = Append(made, g)

\* The peer's close frame is answered.
AnswerCode(data) == IF data = <<>> THEN 1000 ELSE CodeOf(data)
AnswersClose(f) ==
  /\ "SENT_CLOSE" \notin flags /\ f.b0 = CLOSE
  /\ flags' = flags \cup {"SENT_CLOSE", "RECEIVED_CLOSE"}
  /\ \E g \in Frame :
       /\ g.b0 = CLOSE /\ made' = Append(made, g)
       /\ close_info = None => CodeOf(g.data) = AnswerCode(f.data)

Effect(f) == Passes(f) \/ Pongs(f) \/ Echoes(f) \/ ClosesNow(f) \/ Fails \/ AnswersClose(f)

\* The same for the application's calls: a control frame, a close frame, or
\* a data frame that begins, goes on with or ends a message.
Adds(b0s) == IF Writable(flags) THEN \E g \in Frame : g.b0 \in b0s /\ made' = Append(made, g)
                                ELSE made' = made

AppEffect ==
  \/ flags' = flags /\ made' = made
  \/ flags' = flags /\ Adds({PING} \cup (IF "pong" \in AppCalls THEN {PONG} ELSE {}))
  \/ "close" \in AppCalls /\ flags' = flags \cup {"SENT_CLOSE"} /\ Adds({CLOSE})
  \/ "CONTINUOUS" \notin flags /\ flags' = flags /\ Adds({FIN + TEXT, FIN + BINARY})
  \/ "CONTINUOUS" \notin flags /\ flags' = flags \cup {"CONTINUOUS"} /\ Adds({TEXT, BINARY})
  \/ "CONTINUOUS" \in flags /\ flags' = flags /\ Adds({0})
  \/ "CONTINUOUS" \in flags /\ flags' = flags \ {"CONTINUOUS"} /\ Adds({FIN})

\* Fragment and MakeClose in terms of the frame they add.
LEMMA FragmentAdds ==
  ASSUME TypeOK, NEW fl, NEW b0 \in Byte, NEW data \in Seq(Byte), Fragment(fl, b0, data)
  PROVE  IF Writable(fl)
         THEN \E g \in Frame : g.b0 = b0 /\ g.data = data /\ made' = Append(made, g)
         ELSE made' = made
<1> DEFINE g == [b0 |-> b0, data |-> data]
<1>1. g \in Frame /\ g.b0 = b0 /\ g.data = data
  BY DEF Frame
<1>2. made' = IF Writable(fl) THEN Append(made, g) ELSE made
  BY DEF Fragment
<1> HIDE DEF g
<1> QED BY <1>1, <1>2

LEMMA CloseAdds ==
  ASSUME TypeOK, NEW fl, NEW code \in Code, NEW reason \in Seq(Byte), MakeClose(fl, code, reason)
  PROVE  /\ flags' = fl \cup {"SENT_CLOSE"}
         /\ IF Writable(fl)
            THEN \E g \in Frame : g.b0 = CLOSE /\ CodeOf(g.data) = code /\ made' = Append(made, g)
            ELSE made' = made
<1> DEFINE data == CodeBytes(code) \o UpToNul(reason)
<1>1. data \in Seq(Byte) /\ CodeOf(data) = code
  BY UpToNulType, CodeRead
<1>2. Fragment(fl, CLOSE, data) /\ flags' = fl \cup {"SENT_CLOSE"}
  BY DEF MakeClose
<1>3. CLOSE \in Byte
  BY DEF CLOSE, Byte
<1> HIDE DEF data
<1> QED BY <1>1, <1>2, <1>3, FragmentAdds

\* libwebsock_error while receiving has the effect Fails.
LEMMA ErrorFails ==
  ASSUME IInv, Receiving, NEW fl, NEW code \in Code, Error(fl, code),
         flags \ {"RECEIVING_FRAGMENT"} \subseteq fl, fl \subseteq flags \cup {"SHOULD_CLOSE"}
  PROVE  Fails
<1> DEFINE fl1 == fl \cup {"PROCESSING_ERROR"}
<1>1. MakeClose(fl1, code, <<>>) /\ <<>> \in Seq(Byte) /\ TypeOK
  BY DEF Error, IInv
<1>2. Writable(fl1) <=> "RECEIVED_CLOSE" \notin flags
  BY DEF Writable, IInv, FlagsAgree, Receiving
<1> HIDE DEF fl1
<1>3. /\ flags' = fl1 \cup {"SENT_CLOSE"}
      /\ IF Writable(fl1)
         THEN \E g \in Frame : g.b0 = CLOSE /\ CodeOf(g.data) = code /\ made' = Append(made, g)
         ELSE made' = made
  BY <1>1, CloseAdds
<1> QED BY <1>2, <1>3 DEF Fails, fl1

\* ... and so has libwebsock_fail_and_cleanup.
LEMMA FailFails ==
  ASSUME IInv, Receiving, Fail(flags)
  PROVE  Fails
<1> DEFINE fl == flags \cup {"SHOULD_CLOSE"}
           code == 1002
<1>1. Error(fl, code) /\ code \in Code
  BY CodeRange DEF Fail
<1>2. flags \ {"RECEIVING_FRAGMENT"} \subseteq fl /\ fl \subseteq flags \cup {"SHOULD_CLOSE"}
  OBVIOUS
<1> HIDE DEF fl, code
<1> QED BY <1>1, <1>2, ErrorFails

\* libwebsock_dispatch_message and the callback it calls.
LEMMA DispatchEffect ==
  ASSUME IInv, Receiving, NEW f \in Frame, f.b0 \notin {CLOSE, PING},
         NEW fs \in Seq(Frame), fs[1].b0 \in {TEXT, BINARY, FIN + TEXT, FIN + BINARY},
         Dispatch(fs)
  PROVE  Effect(f)
<1> DEFINE fl == flags \ {"RECEIVING_FRAGMENT"}
           m  == [opcode |-> fs[1].b0 % 16, payload |-> Payload(fs)]
<1>0. TypeOK
  BY DEF IInv
<1>1. CASE IgnoreMessage(fl, fs)
  BY <1>1 DEF IgnoreMessage, Effect, Passes, FlagsKept
<1>2. CASE Error(fl, 1007)
  <2> DEFINE code == 1007
  <2>1. Error(fl, code) /\ code \in Code
    BY <1>2, CodeRange
  <2>2. flags \ {"RECEIVING_FRAGMENT"} \subseteq fl /\ fl \subseteq flags \cup {"SHOULD_CLOSE"}
    OBVIOUS
  <2> HIDE DEF fl, code
  <2>3. Fails
    BY <2>1, <2>2, ErrorFails
  <2> QED BY <2>3 DEF Effect
<1>3. ASSUME "SENT_CLOSE" \notin flags, UNCHANGED close_info,
             NEW callback \in Callbacks, OnMessage(callback, fl, m)
      PROVE  Effect(f)
  <2>1. Writable(fl) /\ FIN + m.opcode \in {FIN + TEXT, FIN + BINARY} /\ m.payload \in Seq(Byte)
    <3>1. fs[1].b0 % 16 \in {1, 2}
      BY DEF TEXT, BINARY, FIN
    <3>2. Writable(fl)
      BY <1>3 DEF Writable, Receiving
    <3> QED BY <3>1, <3>2, PayloadType DEF FIN, TEXT, BINARY
  <2>2. flags' = fl => FlagsKept
    BY DEF FlagsKept
  <2>3. CASE UNCHANGED made /\ flags' = fl
    BY <1>3, <2>2, <2>3 DEF Effect, Passes
  <2>4. CASE "CONTINUOUS" \notin fl /\ Fragment(fl, FIN + m.opcode, m.payload) /\ flags' = fl
    <3>1. FIN + m.opcode \in Byte
      BY <2>1 DEF FIN, TEXT, BINARY, Byte
    <3> HIDE DEF m
    <3>2. \E g \in Frame : g.b0 = FIN + m.opcode /\ made' = Append(made, g)
      BY <1>0, <2>1, <2>4, <3>1, FragmentAdds
    <3>3. \E g \in Frame : g.b0 \in {FIN + TEXT, FIN + BINARY} /\ made' = Append(made, g)
      BY <2>1, <3>2
    <3> QED BY <1>3, <2>2, <2>4, <3>3 DEF Effect, Echoes
  <2>5. CASE callback = "close" /\ MakeClose(fl, 1000, <<>>)
    <3> DEFINE code == 1000
    <3>1. MakeClose(fl, code, <<>>) /\ code \in Code /\ <<>> \in Seq(Byte)
      BY <2>5, CodeRange
    <3> HIDE DEF code
    <3>2. /\ flags' = fl \cup {"SENT_CLOSE"}
          /\ \E g \in Frame : g.b0 = CLOSE /\ made' = Append(made, g)
      BY <1>0, <2>1, <3>1, CloseAdds
    <3> QED BY <1>3, <2>5, <3>2 DEF Effect, ClosesNow
  <2> HIDE DEF fl, m
  <2> QED BY <1>3, <2>3, <2>4, <2>5 DEF OnMessage
<1>4. "SENT_CLOSE" \notin fl => "SENT_CLOSE" \notin flags
  OBVIOUS
<1> HIDE DEF fl, m
<1> QED BY <1>1, <1>2, <1>3, <1>4 DEF Dispatch, fl, m

\* The close_info made from the first close frame: none from an empty one,
\* else its code.
LEMMA FirstInfo ==
  ASSUME NEW data \in Seq(Byte), Len(data) # 1, close_info = None
  PROVE  IF NewCloseInfo(data) = None THEN data = <<>>
         ELSE data # <<>> /\ NewCloseInfo(data).code = CodeOf(data)
<1>1. Len(data) \in Nat
  BY LenProperties
<1>2. CASE Len(data) >= 2
  <2> DEFINE info == [code |-> data[1] * 256 + data[2], reason |-> SubSeq(data, 3, Len(data))]
  <2>1. 1 \in 1..Len(data) /\ 2 \in 1..Len(data)
    BY <1>1, <1>2
  <2>2. info.code \in Code
    BY <2>1, ElementOfSeq, CodeOfBytes
  <2>3. info.reason \in Seq(Byte)
    <3>1. \A i \in 3..Len(data) : data[i] \in Byte
      BY <1>1, ElementOfSeq
    <3>2. 3 \in Int /\ Len(data) \in Int
      BY <1>1
    <3> QED BY <3>1, <3>2, SubSeqProperties
  <2>4. info \in CloseInfo
    BY <2>2, <2>3 DEF CloseInfo
  <2>5. info # None
    <3> HIDE DEF info
    <3> QED BY <2>4, NoneAssumption
  <2>6. NewCloseInfo(data) = info
    BY <1>2 DEF NewCloseInfo
  <2>7. data # <<>>
    BY <2>1, EmptySeq
  <2> QED BY <2>5, <2>6, <2>7 DEF CodeOf
<1>3. CASE ~ (Len(data) >= 2)
  <2>1. Len(data) = 0
    <3>1. \A n \in Nat : n # 1 /\ ~ (n >= 2) => n = 0
      OBVIOUS
    <3> QED BY <1>1, <1>3, <3>1
  <2>2. data = <<>>
    BY <2>1, EmptySeq
  <2>3. NewCloseInfo(data) = None
    BY <1>3 DEF NewCloseInfo
  <2> QED BY <2>2, <2>3
<1> QED BY <1>2, <1>3

\* A control frame.
LEMMA ControlEffect ==
  ASSUME IInv, Receiving, NEW f \in Frame, Control(f)
  PROVE  Effect(f)
<1>0. TypeOK /\ f.data \in Seq(Byte) /\ Len(f.data) \in Nat /\ close_info \in CloseInfo \cup {None}
  BY LenProperties DEF IInv, TypeOK, Frame
<1>1. CASE "SENT_CLOSE" \in flags /\ UNCHANGED <<flags, made>>
  BY <1>1 DEF Effect, Passes, FlagsKept
<1>2. CASE f.b0 = PONG /\ UNCHANGED <<flags, close_info, made>>
  BY <1>2 DEF Effect, Passes, FlagsKept, PONG, PING, CLOSE
<1>3. CASE Error(flags, 1002)
  <2> DEFINE code == 1002
  <2>1. Error(flags, code) /\ code \in Code
    BY <1>3, CodeRange
  <2> HIDE DEF code
  <2>2. Fails
    BY <2>1, ErrorFails
  <2> QED BY <2>2 DEF Effect
<1>4. CASE "SENT_CLOSE" \notin flags /\ f.b0 = PING /\ Ping(f.data)
  <2>1. Writable(flags)
    BY <1>4 DEF Writable, Receiving
  <2>2. made' = Append(made, [b0 |-> PONG, data |-> f.data])
    BY <1>4, <2>1 DEF Ping, Fragment
  <2> QED BY <1>4, <2>2 DEF Ping, Effect, Pongs, FlagsKept
<1>5. CASE f.b0 = CLOSE /\ Close(f.data)
  <2> DEFINE info == NewCloseInfo(f.data)
             fl == flags \cup {"RECEIVED_CLOSE"}
  <2>1. info \in CloseInfo \cup {None}
    BY <1>0, CloseInfoType
  <2>2. CASE Fail(flags)
    BY <2>2, FailFails DEF Effect
  <2>3. CASE /\ "SENT_CLOSE" \notin flags
             /\ OnClose(fl, info)
             /\ Len(f.data) # 1
    <3>1. Writable(fl)
      BY <2>3 DEF Writable, Receiving
    <3>2. close_info = None => IF info = None THEN f.data = <<>>
                               ELSE f.data # <<>> /\ info.code = CodeOf(f.data)
      BY <1>0, <2>3, FirstInfo
    <3>4. ASSUME NEW code \in Code, NEW reason \in Seq(Byte), MakeClose(fl, code, reason),
                 close_info = None => code = AnswerCode(f.data)
          PROVE  Effect(f)
      <4>0. flags' = fl \cup {"SENT_CLOSE"}
        BY <1>0, <3>4, CloseAdds
      <4>1. /\ flags' = flags \cup {"SENT_CLOSE", "RECEIVED_CLOSE"}
            /\ \E g \in Frame : g.b0 = CLOSE /\ CodeOf(g.data) = code /\ made' = Append(made, g)
        <5>1. flags' = flags \cup {"SENT_CLOSE", "RECEIVED_CLOSE"}
          BY <4>0
        <5> HIDE DEF fl
        <5> QED BY <1>0, <3>1, <3>4, <5>1, CloseAdds
      <4> QED BY <1>5, <2>3, <3>4, <4>1 DEF Effect, AnswersClose
    <3> HIDE DEF fl, info
    <3>5. CASE info = None
      <4> DEFINE code == 1000
      <4>1. MakeClose(fl, code, <<>>) /\ code \in Code /\ <<>> \in Seq(Byte)
        BY <2>3, <3>5, CodeRange DEF OnClose
      <4>2. close_info = None => code = AnswerCode(f.data)
        BY <3>2, <3>5 DEF AnswerCode
      <4> HIDE DEF code
      <4> QED BY <3>4, <4>1, <4>2
    <3>6. CASE info # None
      <4>1. info.code \in Code /\ info.reason \in Seq(Byte)
        BY <2>1, <3>6 DEF CloseInfo
      <4>2. MakeClose(fl, info.code, info.reason)
        BY <2>3, <3>6 DEF OnClose
      <4>3. close_info = None => info.code = AnswerCode(f.data)
        BY <3>2, <3>6 DEF AnswerCode
      <4> QED BY <3>4, <4>1, <4>2, <4>3
    <3> QED BY <3>5, <3>6
  <2> HIDE DEF info, fl
  <2> QED BY <1>1, <1>3, <1>5, <2>2, <2>3 DEF Close, info, fl
<1> QED BY <1>1, <1>2, <1>3, <1>4, <1>5 DEF Control, PING, CLOSE

\* What the arrival of a frame does.
LEMMA ReceiveEffect ==
  ASSUME IInv, NEW f \in RxFrames, Receive(f)
  PROVE  f \in Frame /\ Receiving /\ rx' = Append(rx, f) /\ Effect(f)
<1>1. f \in Frame /\ Receiving /\ ~ stuck /\ rx' = Append(rx, f) /\ HandleFrame(f)
  BY FramesAssumption DEF Receive
<1>2. HandlerOf(f) \in {"continuation", "dispatch"} => f.b0 \notin {CLOSE, PING}
  BY DEF HandlerOf, Handler
<1>3. CASE Control(f)
  BY <1>1, <1>3, ControlEffect
<1>4. CASE HandlerOf(f) = "continuation" /\ NewContinuation(f)
  BY <1>1, <1>2, <1>4 DEF NewContinuation, Effect, Passes, FlagsKept
<1>5. CASE HandlerOf(f) = "dispatch" /\ Dispatch(Append(frames, f))
  <2> DEFINE fs == Append(frames, f)
  <2>1. fs \in Seq(Frame) /\ fs[1].b0 \in {TEXT, BINARY, FIN + TEXT, FIN + BINARY}
    BY <1>1, <1>5, DispatchedList
  <2>2. Dispatch(fs) /\ f.b0 \notin {CLOSE, PING}
    BY <1>2, <1>5
  <2> HIDE DEF fs
  <2> QED BY <1>1, <2>1, <2>2, DispatchEffect
<1>6. CASE Fail(flags)
  BY <1>1, <1>6, FailFails DEF Effect
<1> QED BY <1>1, <1>3, <1>4, <1>5, <1>6 DEF HandleFrame

\* A byte for a message left in place: it is ignored again, or refused.
LEMMA RedispatchEffect ==
  ASSUME IInv, Redispatch
  PROVE  Receiving /\ rx' = rx /\ "SENT_CLOSE" \in flags
         /\ (Fails \/ (made' = made /\ FlagsKept))
<1>1. Receiving /\ rx' = rx /\ "SENT_CLOSE" \in flags
  BY DEF Redispatch, IInv, StuckFrame
<1>2. CASE HandlerOf(Last(frames)) = "dispatch" /\ Dispatch(frames)
  <2> DEFINE f == Last(frames)
  <2>1. frames \in Seq(Frame) /\ frames # <<>> /\ frames[1].b0 \in {TEXT, BINARY, FIN + TEXT, FIN + BINARY}
    BY DEF Redispatch, IInv, TypeOK, StuckFrame, FragmentState
  <2>2. f \in Frame
    <3>1. Len(frames) \in 1..Len(frames)
      BY <2>1, EmptySeq, LenProperties
    <3> QED BY <2>1, <3>1, ElementOfSeq DEF Last
  <2>3. f.b0 \notin {CLOSE, PING}
    BY <1>2 DEF HandlerOf, Handler
  <2> HIDE DEF f
  <2>4. Effect(f)
    BY <1>1, <1>2, <2>1, <2>2, <2>3, DispatchEffect
  <2> QED BY <1>1, <2>4 DEF Effect, Passes, Pongs, Echoes, ClosesNow, AnswersClose
<1>3. CASE Fail(flags)
  BY <1>1, <1>3, FailFails
<1> QED BY <1>1, <1>2, <1>3 DEF Redispatch

-----------------------------------------------------------------------------
(* The histories, one frame at a time.                                     *)

\* The payloads of no frames, and that payloads are strings of bytes.
LEMMA PayloadsNone == \A b0 : Payloads(<<>>, b0) = <<>>
<1> SUFFICES ASSUME NEW b0 PROVE Payloads(<<>>, b0) = <<>>
  OBVIOUS
<1> DEFINE fs0 == Filter(<<>>, {f \in Frame : f.b0 = b0})
<1>1. fs0 = <<>>
  BY FilterEmpty
<1> HIDE DEF fs0
<1>2. [i \in DOMAIN fs0 |-> fs0[i].data] = <<>>
  BY <1>1
<1> QED BY <1>2 DEF Payloads, fs0

LEMMA PayloadsType ==
  ASSUME NEW s \in Seq(Frame), NEW b0
  PROVE  Payloads(s, b0) \in Seq(Seq(Byte))
<1> DEFINE fs0 == Filter(s, {f \in Frame : f.b0 = b0})
<1>1. fs0 \in Seq(Frame)
  BY FilterType
<1> HIDE DEF fs0
<1>2. Len(fs0) \in Nat /\ DOMAIN fs0 = 1..Len(fs0)
  BY <1>1, LenProperties
<1>3. \A i \in 1..Len(fs0) : fs0[i].data \in Seq(Byte)
  <2>1. \A i \in 1..Len(fs0) : fs0[i] \in Frame
    BY <1>1, ElementOfSeq
  <2> QED BY <2>1 DEF Frame
<1>4. [i \in 1..Len(fs0) |-> fs0[i].data] \in Seq(Seq(Byte))
  BY <1>2, <1>3, IsASeq
<1> QED BY <1>2, <1>4 DEF Payloads, fs0

\* The payloads of one frame more.
LEMMA PayloadsAppend ==
  ASSUME NEW s \in Seq(Frame), NEW f \in Frame, NEW b0
  PROVE  Payloads(Append(s, f), b0)
           = IF f.b0 = b0 THEN Append(Payloads(s, b0), f.data) ELSE Payloads(s, b0)
<1> DEFINE T == {g \in Frame : g.b0 = b0}
           u == Filter(s, T)
           p(v) == [i \in DOMAIN v |-> v[i].data]
<1>1. u \in Seq(Frame)
  BY FilterType
<1>2. Filter(Append(s, f), T) = IF f \in T THEN Append(u, f) ELSE u
  BY FilterAppend
<1>3. f \in T <=> f.b0 = b0
  OBVIOUS
<1>4. /\ Payloads(s, b0) = p(u)
      /\ Payloads(Append(s, f), b0) = p(Filter(Append(s, f), T))
  BY DEF Payloads
<1> HIDE DEF u, T
<1>5. p(Append(u, f)) = Append(p(u), f.data)
  <2> DEFINE v == Append(u, f)
             n == Len(u)
  <2>1. /\ v \in Seq(Frame) /\ Len(v) = n + 1 /\ n \in Nat
        /\ \A i \in 1..n : v[i] = u[i]
        /\ v[n + 1] = f /\ DOMAIN u = 1..n
    BY <1>1, AppendProperties, LenProperties
  <2> HIDE DEF v
  <2>2. DOMAIN v = 1..(n + 1)
    BY <2>1, LenProperties
  <2>3. f.data \in Seq(Byte) /\ \A i \in 1..n : u[i].data \in Seq(Byte)
    <3>1. \A i \in 1..n : u[i] \in Frame
      BY <1>1, ElementOfSeq
    <3> QED BY <3>1 DEF Frame
  <2> HIDE DEF n
  <2>4. p(u) \in Seq(Seq(Byte)) /\ p(u) = [i \in 1..n |-> u[i].data]
    BY <2>1, <2>3, IsASeq
  <2>5. Len(p(u)) = n
    <3> DEFINE q == [i \in 1..n |-> u[i].data]
    <3>1. q \in Seq(Seq(Byte)) /\ DOMAIN q = 1..n
      BY <2>4
    <3> HIDE DEF q
    <3>2. Len(q) = n
      BY <2>1, <3>1, LenProperties
    <3> QED BY <2>4, <3>2 DEF q
  <2> DEFINE a == Append(p(u), f.data)
             b == p(v)
             pu == p(u)
             d == f.data
  <2>6. \A i \in 1..n : pu[i] = u[i].data
    BY <2>4
  <2>7. b = [i \in 1..(n + 1) |-> v[i].data]
    BY <2>2
  <2> HIDE DEF pu, d
  <2>8. /\ a \in Seq(Seq(Byte)) /\ Len(a) = n + 1
        /\ \A i \in 1..n : a[i] = pu[i]
        /\ a[n + 1] = d
    BY <2>3, <2>4, <2>5, AppendProperties DEF pu, d
  <2> HIDE DEF a, b
  <2>9. \A i \in 1..(n + 1) : v[i].data \in Seq(Byte)
    BY <2>1, <2>3
  <2>10. b \in Seq(Seq(Byte)) /\ Len(b) = n + 1
    <3> DEFINE q == [i \in 1..(n + 1) |-> v[i].data]
    <3>1. n + 1 \in Nat
      BY <2>1
    <3>2. q \in Seq(Seq(Byte)) /\ DOMAIN q = 1..(n + 1)
      BY <3>1, <2>9, IsASeq
    <3> HIDE DEF q
    <3>3. Len(q) = n + 1
      BY <3>1, <3>2, LenProperties
    <3> QED BY <2>7, <3>2, <3>3 DEF q
  <2>11. \A i \in 1..(n + 1) : a[i] = b[i]
    <3> SUFFICES ASSUME NEW i \in 1..(n + 1) PROVE a[i] = b[i]
      OBVIOUS
    <3>1. b[i] = v[i].data
      BY <2>7
    <3>2. CASE i = n + 1
      BY <2>1, <2>8, <3>1, <3>2 DEF d
    <3>3. CASE i # n + 1
      <4>1. i \in 1..n
        BY <2>1, <3>3
      <4> QED BY <2>1, <2>6, <2>8, <3>1, <4>1
    <3> QED BY <3>2, <3>3
  <2>12. a = b
    BY <2>8, <2>10, <2>11, SeqEqual
  <2> QED BY <2>12 DEF a, b, pu, d
<1> HIDE DEF p
<1> QED BY <1>2, <1>3, <1>4, <1>5

\* What the application's calls do.
LEMMA CallsEffect ==
  ASSUME IInv, App
  PROVE  AppEffect /\ UNCHANGED <<rx, close_info, delivered, frames>>
<1>0. TypeOK /\ UNCHANGED <<rx, close_info, delivered, frames>>
  BY DEF IInv, App, AppPing, AppPong, AppClose, AppWhole, AppInit, AppContinuation, AppEnd, Call
<1> SUFFICES AppEffect
  BY <1>0
<1>1. ASSUME NEW b0 \in {0, FIN, TEXT, BINARY, FIN + TEXT, FIN + BINARY, PING, PONG},
             NEW data \in Seq(Byte), Fragment(flags, b0, data), NEW b0s, b0 \in b0s
      PROVE  Adds(b0s)
  <2>1. b0 \in Byte
    BY DEF Byte, FIN, TEXT, BINARY, PING, PONG
  <2> QED BY <1>0, <1>1, <2>1, FragmentAdds DEF Adds
<1>2. CASE AppPing
  <2> DEFINE b0s == {PING} \cup (IF "pong" \in AppCalls THEN {PONG} ELSE {})
  <2>1. Fragment(flags, PING, <<>>) /\ <<>> \in Seq(Byte) /\ flags' = flags
    BY <1>2 DEF AppPing
  <2>2. PING \in b0s
    OBVIOUS
  <2> HIDE DEF b0s
  <2>3. Adds(b0s)
    BY <1>1, <2>1, <2>2
  <2> QED BY <2>1, <2>3 DEF AppEffect, b0s
<1>3. ASSUME NEW info \in AppCloses, AppClose(info) PROVE AppEffect
  <2>1. info.code \in Code /\ info.reason \in Seq(Byte)
    BY FramesAssumption DEF CloseInfo
  <2>2. MakeClose(flags, info.code, info.reason) /\ "close" \in AppCalls
    BY <1>3 DEF AppClose, Call
  <2>3. flags' = flags \cup {"SENT_CLOSE"} /\ Adds({CLOSE})
    BY <1>0, <2>1, <2>2, CloseAdds DEF Adds
  <2> QED BY <2>2, <2>3 DEF AppEffect
<1>4. ASSUME NEW data \in AppData, AppPong(data) PROVE AppEffect
  <2> DEFINE b0s == {PING} \cup (IF "pong" \in AppCalls THEN {PONG} ELSE {})
  <2>1. Fragment(flags, PONG, data) /\ data \in Seq(Byte) /\ flags' = flags /\ PONG \in b0s
    BY <1>4, FramesAssumption DEF AppPong, Call
  <2> HIDE DEF b0s
  <2>2. Adds(b0s)
    BY <1>1, <2>1
  <2> QED BY <2>1, <2>2 DEF AppEffect, b0s
<1>5. ASSUME NEW data \in AppData, NEW name, NEW opcode \in {TEXT, BINARY},
             AppWhole(name, opcode, data)
      PROVE  AppEffect
  <2>1. CASE "CONTINUOUS" \in flags
    BY <1>5, <2>1 DEF AppWhole, AppEffect
  <2>2. CASE "CONTINUOUS" \notin flags
    <3>1. /\ Fragment(flags, FIN + opcode, data) /\ data \in Seq(Byte) /\ flags' = flags
          /\ FIN + opcode \in {FIN + TEXT, FIN + BINARY}
      BY <1>5, <2>2, FramesAssumption DEF AppWhole
    <3>2. Adds({FIN + TEXT, FIN + BINARY})
      BY <1>1, <3>1
    <3> QED BY <2>2, <3>1, <3>2 DEF AppEffect
  <2> QED BY <2>1, <2>2
<1>6. ASSUME NEW data \in AppData, NEW name, NEW opcode \in {TEXT, BINARY},
             AppInit(name, opcode, data)
      PROVE  AppEffect
  <2>1. /\ Fragment(flags, opcode, data) /\ data \in Seq(Byte)
        /\ "CONTINUOUS" \notin flags /\ flags' = flags \cup {"CONTINUOUS"}
    BY <1>6, FramesAssumption DEF AppInit
  <2>2. Adds({TEXT, BINARY})
    BY <1>1, <2>1
  <2> QED BY <2>1, <2>2 DEF AppEffect
<1>7. ASSUME NEW data \in AppData, AppContinuation(data) PROVE AppEffect
  <2>1. /\ Fragment(flags, 0, data) /\ data \in Seq(Byte)
        /\ "CONTINUOUS" \in flags /\ flags' = flags
    BY <1>7, FramesAssumption DEF AppContinuation
  <2>2. Adds({0})
    BY <1>1, <2>1
  <2> QED BY <2>1, <2>2 DEF AppEffect
<1>8. ASSUME NEW data \in AppData, AppEnd(data) PROVE AppEffect
  <2>1. /\ Fragment(flags, FIN, data) /\ data \in Seq(Byte)
        /\ "CONTINUOUS" \in flags /\ flags' = flags \ {"CONTINUOUS"}
    BY <1>8, FramesAssumption DEF AppEnd
  <2>2. Adds({FIN})
    BY <1>1, <2>1
  <2> QED BY <2>1, <2>2 DEF AppEffect
<1> QED BY <1>2, <1>3, <1>4, <1>5, <1>6, <1>7, <1>8 DEF App

-----------------------------------------------------------------------------
(* One close frame.                                                        *)

\* What the theorem takes for granted: neither the application nor its
\* callback closes the connection.
NoCloses == "close" \notin AppCalls /\ "close" \notin Callbacks

\* The inductive invariant: SENT_CLOSE says that the frame was made, and the
\* flags that come with it that no second one can follow.
OnceInv ==
  /\ OneClose
  /\ "SENT_CLOSE" \notin flags => Payloads(made, CLOSE) = <<>>
  /\ "SENT_CLOSE" \in flags => {"RECEIVED_CLOSE", "PROCESSING_ERROR"} \cap flags # {}

\* A frame that is not a close frame, and the first one that is.
LEMMA OnceAdd ==
  ASSUME IInv, OnceInv, NEW g \in Frame, made' = Append(made, g)
  PROVE  /\ g.b0 # CLOSE => Payloads(made, CLOSE)' = Payloads(made, CLOSE)
         /\ Payloads(made, CLOSE) = <<>> => OneClose'
<1>1. made \in Seq(Frame)
  BY DEF IInv, TypeOK
<1>2. Payloads(made, CLOSE)' = IF g.b0 = CLOSE THEN Append(Payloads(made, CLOSE), g.data)
                               ELSE Payloads(made, CLOSE)
  BY <1>1, PayloadsAppend
<1>3. ASSUME Payloads(made, CLOSE) = <<>> PROVE OneClose'
  <2>1. Len(Append(<<>>, g.data)) = 1 /\ Len(<<>>) = 0
    OBVIOUS
  <2> QED BY <1>2, <1>3, <2>1 DEF OneClose
<1> QED BY <1>2, <1>3

\* One close frame at most is made by the library: an error is not followed
\* by an answer to the peer's close frame, nor the answer by an error
\* (libwebsock_error, libwebsock_default_onclose_callback).
THEOREM OneCloseMade == NoCloses /\ Spec => []OneClose
<1> SUFFICES ASSUME NoCloses PROVE Spec => []OneClose
  OBVIOUS
<1>1. Init => OnceInv
  BY PayloadsNone, SMT DEF Init, OnceInv, OneClose
<1>2. IInv /\ OnceInv /\ [Next]_vars => OnceInv'
  <2> SUFFICES ASSUME IInv, OnceInv, [Next]_vars PROVE OnceInv'
    OBVIOUS
  <2>1. made' = made => Payloads(made, CLOSE)' = Payloads(made, CLOSE)
    OBVIOUS
  <2>2. ASSUME made' = made, FlagsKept PROVE OnceInv'
    BY <2>1, <2>2 DEF OnceInv, OneClose, FlagsKept
  <2>3. ASSUME NEW g \in Frame, made' = Append(made, g), g.b0 # CLOSE, FlagsKept
        PROVE  OnceInv'
    <3>1. Payloads(made, CLOSE)' = Payloads(made, CLOSE)
      BY <2>3, OnceAdd
    <3> QED BY <2>3, <3>1 DEF OnceInv, OneClose, FlagsKept
  <2>4. ASSUME Receiving, Fails PROVE OnceInv'
    <3>1. CASE "RECEIVED_CLOSE" \in flags
      BY <2>1, <2>4, <3>1 DEF OnceInv, OneClose, Fails
    <3>2. CASE "RECEIVED_CLOSE" \notin flags
      <4>1. "SENT_CLOSE" \notin flags
        BY <2>4, <3>2 DEF OnceInv, Receiving
      <4>2. OneClose'
        BY <2>4, <3>2, <4>1, OnceAdd DEF Fails, OnceInv
      <4> QED BY <2>4, <4>2 DEF OnceInv, Fails
    <3> QED BY <3>1, <3>2
  <2>5. CASE PopulateHandshake
    <3>1. made' = <<>> /\ flags' = {"CONNECTED"}
      BY <2>5 DEF PopulateHandshake, IInv, FlagsAgree
    <3>2. Payloads(made, CLOSE)' = <<>>
      BY <3>1, PayloadsNone
    <3> QED BY <3>1, <3>2 DEF OnceInv, OneClose
  <2>6. ASSUME NEW f \in RxFrames, Receive(f) PROVE OnceInv'
    <3>1. f \in Frame /\ Receiving /\ rx' = Append(rx, f) /\ Effect(f)
      BY <2>6, ReceiveEffect
    <3>2. CASE Passes(f)
      BY <2>2, <3>2 DEF Passes
    <3>3. CASE Pongs(f)
      <4> DEFINE g == [b0 |-> PONG, data |-> f.data]
      <4>1. g \in Frame /\ g.b0 # CLOSE
        BY <3>1 DEF Frame, Byte, PONG, CLOSE
      <4>2. made' = Append(made, g) /\ FlagsKept
        BY <3>3 DEF Pongs
      <4> HIDE DEF g
      <4> QED BY <2>3, <4>1, <4>2
    <3>4. CASE Echoes(f)
      <4>1. \A g \in Frame : g.b0 \in {FIN + TEXT, FIN + BINARY} => g.b0 # CLOSE
        BY DEF FIN, TEXT, BINARY, CLOSE
      <4> QED BY <2>3, <3>4, <4>1 DEF Echoes
    <3>5. CASE AnswersClose(f)
      <4>1. OneClose'
        BY <3>5, OnceAdd DEF AnswersClose, OnceInv
      <4> QED BY <3>5, <4>1 DEF AnswersClose, OnceInv
    <3> QED BY <2>4, <3>1, <3>2, <3>3, <3>4, <3>5 DEF Effect, ClosesNow, NoCloses
  <2>7. CASE Redispatch
    BY <2>2, <2>4, <2>7, RedispatchEffect
  <2>8. CASE App
    <3>1. ASSUME NEW b0s, Adds(b0s), CLOSE \notin b0s,
                 flags' \cup {"CONTINUOUS"} = flags \cup {"CONTINUOUS"}
          PROVE  OnceInv'
      <4>1. Payloads(made, CLOSE)' = Payloads(made, CLOSE)
        BY <2>1, <3>1, OnceAdd DEF Adds
      <4> QED BY <3>1, <4>1 DEF OnceInv, OneClose
    <3>2. /\ CLOSE \notin {PING} \cup (IF "pong" \in AppCalls THEN {PONG} ELSE {})
          /\ CLOSE \notin {FIN + TEXT, FIN + BINARY} /\ CLOSE \notin {TEXT, BINARY}
          /\ CLOSE \notin {0} /\ CLOSE \notin {FIN}
      BY DEF CLOSE, PING, PONG, FIN, TEXT, BINARY
    <3>3. CASE flags' = flags /\ made' = made
      BY <2>1, <3>3 DEF OnceInv, OneClose
    <3>4. AppEffect
      BY <2>8, CallsEffect
    <3>5. CASE flags' = flags \cup {"CONTINUOUS"} /\ Adds({TEXT, BINARY})
      BY <3>1, <3>2, <3>5
    <3>6. CASE "CONTINUOUS" \in flags /\ flags' = flags \ {"CONTINUOUS"} /\ Adds({FIN})
      BY <3>1, <3>2, <3>6
    <3> QED BY <3>1, <3>2, <3>3, <3>4, <3>5, <3>6 DEF AppEffect, NoCloses
  <2>9. CASE UNCHANGED vars
    BY <2>1, <2>9 DEF vars, OnceInv, OneClose
  <2> QED BY <2>5, <2>6, <2>7, <2>8, <2>9 DEF Next
<1>3. OnceInv => OneClose
  BY DEF OnceInv
<1> QED BY <1>1, <1>2, <1>3, Invariant, PTL DEF Spec

-----------------------------------------------------------------------------
(* Answers.                                                                *)

\* Before the handshake no frame has been handled.
Fresh == "CONNECTING" \in flags => rx = <<>> /\ close_info = None

\* No step but the handshake takes CONNECTING out of the flags or puts it in.
LEMMA FreshHolds == Spec => []Fresh
<1>1. Init => Fresh
  BY DEF Init, Fresh
<1>2. IInv /\ IInv' /\ Fresh /\ [Next]_vars => Fresh'
  <2> SUFFICES ASSUME IInv, IInv', Fresh, [Next]_vars PROVE Fresh'
    OBVIOUS
  <2>1. CASE PopulateHandshake
    BY <2>1 DEF PopulateHandshake, Fresh
  <2>2. ASSUME Receiving, FlagsKept \/ Fails PROVE Fresh'
    <3>1. "CONNECTED" \in flags'
      BY <2>2 DEF Receiving, FlagsKept, Fails
    <3> QED BY <3>1 DEF IInv, FlagsAgree, Fresh
  <2>3. ASSUME NEW f \in RxFrames, Receive(f) PROVE Fresh'
    <3>1. Receiving /\ Effect(f)
      BY <2>3, ReceiveEffect
    <3>2. CASE ClosesNow(f) \/ AnswersClose(f)
      <4>1. "CONNECTED" \in flags'
        BY <3>1, <3>2 DEF Receiving, ClosesNow, AnswersClose
      <4> QED BY <4>1 DEF IInv, FlagsAgree, Fresh
    <3> QED BY <2>2, <3>1, <3>2 DEF Effect, Passes, Pongs, Echoes
  <2>4. CASE Redispatch
    BY <2>2, <2>4, RedispatchEffect
  <2>5. CASE App
    <3>1. AppEffect /\ UNCHANGED <<rx, close_info>>
      BY <2>5, CallsEffect
    <3>2. "CONNECTING" \in flags' => "CONNECTING" \in flags
      BY <3>1 DEF AppEffect
    <3> QED BY <3>1, <3>2 DEF Fresh
  <2>6. CASE UNCHANGED vars
    BY <2>6 DEF vars, Fresh
  <2> QED BY <2>1, <2>3, <2>4, <2>5, <2>6 DEF Next
<1> QED BY <1>1, <1>2, Invariant, PTL DEF Spec

\* The inductive invariant: until a close frame is made none was received and
\* close_info is empty, so that it is filled from the first.
AnswerInv ==
  /\ "SENT_CLOSE" \notin flags => Payloads(rx, CLOSE) = <<>> /\ close_info = None
  /\ "RECEIVED_CLOSE" \in flags => Payloads(rx, CLOSE) # <<>>
  /\ AnswerEchoesCode

\* Once it was answered, the first close frame received and the last frame
\* made are what they were.
LEMMA AnswerStays ==
  ASSUME IInv, AnswerInv, "RECEIVED_CLOSE" \in flags, made' = made,
         rx' = rx \/ \E f \in Frame : rx' = Append(rx, f),
         "SENT_CLOSE" \in flags'
  PROVE  AnswerInv'
<1> DEFINE s == Payloads(rx, CLOSE)
<1>1. rx \in Seq(Frame) /\ s \in Seq(Seq(Byte)) /\ s # <<>>
  BY PayloadsType DEF IInv, TypeOK, AnswerInv
<1>2. s' = s \/ \E data \in Seq(Byte) : s' = Append(s, data)
  <2>1. ASSUME NEW f \in Frame, rx' = Append(rx, f)
        PROVE  s' = s \/ \E data \in Seq(Byte) : s' = Append(s, data)
    <3>1. f.data \in Seq(Byte)
      BY DEF Frame
    <3>2. s' = IF f.b0 = CLOSE THEN Append(s, f.data) ELSE s
      BY <1>1, <2>1, PayloadsAppend
    <3> QED BY <3>1, <3>2
  <2> QED BY <2>1
<1> HIDE DEF s
<1>3. s' # <<>> /\ s'[1] = s[1]
  <2>1. ASSUME NEW data \in Seq(Byte), s' = Append(s, data)
        PROVE  s' # <<>> /\ s'[1] = s[1]
    <3>1. Len(s) \in Nat /\ Len(s) # 0
      BY <1>1, EmptySeq, LenProperties
    <3>2. 1 \in 1..Len(s)
      BY <3>1
    <3>3. Append(s, data) # <<>> /\ Append(s, data)[1] = s[1]
      BY <1>1, <3>2, AppendProperties
    <3> QED BY <2>1, <3>3
  <2> QED BY <1>1, <1>2, <2>1
<1>4. AnswerEchoesCode
  BY DEF AnswerInv
<1>5. AnswerEchoesCode'
  BY <1>3, <1>4 DEF AnswerEchoesCode, s
<1> QED BY <1>3, <1>5 DEF AnswerInv, s

\* The frame that answers the peer's close frame comes last, for good, and
\* carries the code of that frame: of the first one, the only one that fills
\* close_info (libwebsock_populate_close_info_from_frame,
\* libwebsock_default_onclose_callback).
THEOREM AnswersEchoCode == Spec => []AnswerEchoesCode
<1>1. Init => AnswerInv
  BY PayloadsNone DEF Init, AnswerInv, AnswerEchoesCode
<1>2. IInv /\ Fresh /\ AnswerInv /\ [Next]_vars => AnswerInv'
  <2> SUFFICES ASSUME IInv, Fresh, AnswerInv, [Next]_vars PROVE AnswerInv'
    OBVIOUS
  <2>0. rx \in Seq(Frame) /\ made \in Seq(Frame)
    BY DEF IInv, TypeOK
  <2>1. CASE PopulateHandshake
    <3>1. rx' = <<>> /\ close_info' = None /\ flags' = {"CONNECTED"}
      BY <2>1 DEF PopulateHandshake, Fresh
    <3>2. Payloads(rx, CLOSE)' = <<>>
      BY <3>1, PayloadsNone
    <3> QED BY <3>1, <3>2 DEF AnswerInv, AnswerEchoesCode
  <2>2. ASSUME "SENT_CLOSE" \in flags, "SENT_CLOSE" \in flags', made' = made,
               "RECEIVED_CLOSE" \in flags' => "RECEIVED_CLOSE" \in flags,
               rx' = rx \/ \E f \in Frame : rx' = Append(rx, f)
        PROVE  AnswerInv'
    <3>1. CASE "RECEIVED_CLOSE" \in flags
      BY <2>2, <3>1, AnswerStays
    <3>2. CASE "RECEIVED_CLOSE" \notin flags
      BY <2>2, <3>2 DEF AnswerInv, AnswerEchoesCode
    <3> QED BY <3>1, <3>2
  <2>3. ASSUME Fails, rx' = rx \/ \E f \in Frame : rx' = Append(rx, f) PROVE AnswerInv'
    <3>1. CASE "RECEIVED_CLOSE" \in flags
      BY <2>2, <2>3, <3>1 DEF Fails, IInv, FlagsAgree
    <3>2. CASE "RECEIVED_CLOSE" \notin flags
      BY <2>3, <3>2 DEF AnswerInv, AnswerEchoesCode, Fails
    <3> QED BY <3>1, <3>2
  <2>4. ASSUME NEW f \in RxFrames, Receive(f) PROVE AnswerInv'
    <3>1. f \in Frame /\ Receiving /\ rx' = Append(rx, f) /\ Effect(f)
      BY <2>4, ReceiveEffect
    <3>2. Payloads(rx, CLOSE)' = IF f.b0 = CLOSE THEN Append(Payloads(rx, CLOSE), f.data)
                                 ELSE Payloads(rx, CLOSE)
      BY <2>0, <3>1, PayloadsAppend
    <3>3. CASE "SENT_CLOSE" \in flags
      <4>1. Passes(f) \/ Fails
        BY <3>1, <3>3 DEF Effect, Pongs, Echoes, ClosesNow, AnswersClose
      <4> QED BY <2>2, <2>3, <3>1, <3>3, <4>1 DEF Passes, FlagsKept
    <3>4. CASE "SENT_CLOSE" \notin flags
      <4>1. "RECEIVED_CLOSE" \notin flags
        BY <3>4 DEF IInv, FlagsAgree
      <4>2. CASE f.b0 # CLOSE /\ close_info' = close_info
                 /\ "RECEIVED_CLOSE" \notin flags'
        BY <3>2, <3>4, <4>2 DEF AnswerInv, AnswerEchoesCode
      <4>3. CASE Passes(f) \/ Pongs(f) \/ Echoes(f) \/ ClosesNow(f)
        <5>1. "RECEIVED_CLOSE" \notin flags' /\ f.b0 # CLOSE /\ close_info' = close_info
          BY <3>4, <4>1, <4>3 DEF Passes, Pongs, Echoes, ClosesNow, FlagsKept, PING, CLOSE
        <5> QED BY <4>2, <5>1
      <4>4. CASE AnswersClose(f)
        <5>1. Payloads(rx, CLOSE)' = Append(<<>>, f.data) /\ close_info = None
          BY <3>2, <3>4, <4>4 DEF AnswersClose, AnswerInv
        <5>2. Append(<<>>, f.data) # <<>> /\ Append(<<>>, f.data)[1] = f.data
          OBVIOUS
        <5>3. PICK g \in Frame : g.b0 = CLOSE /\ made' = Append(made, g)
                                 /\ CodeOf(g.data) = AnswerCode(f.data)
          BY <4>4, <5>1 DEF AnswersClose
        <5>4. made' # <<>> /\ Last(made') = g
          <6>1. /\ Append(made, g) # <<>> /\ Len(Append(made, g)) = Len(made) + 1
                /\ Append(made, g)[Len(made) + 1] = g
            BY <2>0, AppendProperties
          <6> QED BY <5>3, <6>1 DEF Last
        <5> DEFINE s == Payloads(rx, CLOSE)
        <5>5. s' # <<>> /\ s'[1] = f.data
          BY <5>1, <5>2
        <5>6. "SENT_CLOSE" \in flags'
          BY <4>4 DEF AnswersClose
        <5>7. s' # <<>> /\ AnswerEchoesCode'
          BY <5>3, <5>4, <5>5 DEF AnswerEchoesCode, AnswerCode
        <5> QED BY <5>6, <5>7 DEF AnswerInv
      <4> QED BY <2>3, <3>1, <4>3, <4>4 DEF Effect
    <3> QED BY <3>3, <3>4
  <2>5. CASE Redispatch
    <3>1. Receiving /\ rx' = rx /\ "SENT_CLOSE" \in flags
          /\ (Fails \/ (made' = made /\ FlagsKept))
      BY <2>5, RedispatchEffect
    <3> QED BY <2>2, <2>3, <3>1 DEF FlagsKept
  <2>6. CASE App
    <3>1. AppEffect /\ UNCHANGED <<rx, close_info>>
      BY <2>6, CallsEffect
    <3>2. /\ "RECEIVED_CLOSE" \in flags' <=> "RECEIVED_CLOSE" \in flags
          /\ "SENT_CLOSE" \in flags => "SENT_CLOSE" \in flags'
      BY <3>1 DEF AppEffect
    <3>3. CASE "RECEIVED_CLOSE" \in flags
      <4>1. "SENT_CLOSE" \in flags /\ ~ Writable(flags)
        BY <3>3 DEF IInv, FlagsAgree, Writable
      <4>2. made' = made
        BY <3>1, <4>1 DEF AppEffect, Adds
      <4> QED BY <2>2, <3>1, <3>2, <4>1, <4>2
    <3>4. CASE "RECEIVED_CLOSE" \notin flags
      BY <3>1, <3>2, <3>4 DEF AnswerInv, AnswerEchoesCode
    <3> QED BY <3>3, <3>4
  <2>7. CASE UNCHANGED vars
    BY <2>7 DEF vars, AnswerInv, AnswerEchoesCode
  <2> QED BY <2>1, <2>4, <2>5, <2>6, <2>7 DEF Next
<1>3. AnswerInv => AnswerEchoesCode
  BY DEF AnswerInv
<1> QED BY <1>1, <1>2, <1>3, Invariant, FreshHolds, PTL DEF Spec

-----------------------------------------------------------------------------
(* Pongs.                                                                  *)

\* A step that makes no pong, and handles a ping at most after a close frame.
LEMMA NoPong ==
  ASSUME IInv, PongsAnswerPings,
         made' = made \/ \E g \in Frame : g.b0 # PONG /\ made' = Append(made, g),
         rx' = rx \/ \E f \in Frame :
           rx' = Append(rx, f) /\ (f.b0 = PING => "SENT_CLOSE" \in flags'),
         "SENT_CLOSE" \in flags => "SENT_CLOSE" \in flags'
  PROVE  PongsAnswerPings'
<1> DEFINE p == Payloads(made, PONG)
           q == Payloads(rx, PING)
<1>1. /\ rx \in Seq(Frame) /\ made \in Seq(Frame)
      /\ p \in Seq(Seq(Byte)) /\ q \in Seq(Seq(Byte))
  BY PayloadsType DEF IInv, TypeOK
<1>2. p' = p
  <2>1. made' = made => p' = p
    OBVIOUS
  <2>2. ASSUME NEW g \in Frame, g.b0 # PONG, made' = Append(made, g) PROVE p' = p
    BY <1>1, <2>2, PayloadsAppend
  <2> QED BY <2>1, <2>2
<1>3. q' = q \/ ("SENT_CLOSE" \in flags' /\ \E data \in Seq(Byte) : q' = Append(q, data))
  <2>1. ASSUME NEW f \in Frame, rx' = Append(rx, f), f.b0 = PING => "SENT_CLOSE" \in flags'
        PROVE  q' = q \/ ("SENT_CLOSE" \in flags' /\ \E data \in Seq(Byte) : q' = Append(q, data))
    <3>1. f.data \in Seq(Byte)
      BY DEF Frame
    <3>2. q' = IF f.b0 = PING THEN Append(q, f.data) ELSE q
      BY <1>1, <2>1, PayloadsAppend
    <3> QED BY <2>1, <3>1, <3>2
  <2> QED BY <2>1
<1>4. IsPrefix(p, q) /\ ("SENT_CLOSE" \notin flags => p = q)
  BY DEF PongsAnswerPings
<1> HIDE DEF p, q
<1>5. IsPrefix(p', q')
  <2>1. ASSUME NEW data \in Seq(Byte), q' = Append(q, data) PROVE IsPrefix(p', q')
    BY <1>1, <1>2, <1>4, <2>1, PrefixLonger
  <2> QED BY <1>2, <1>3, <1>4, <2>1
<1>6. "SENT_CLOSE" \notin flags' => p' = q'
  BY <1>2, <1>3, <1>4
<1> QED BY <1>5, <1>6 DEF PongsAnswerPings, p, q

\* Each ping is answered by one pong with its payload, in order, as long as
\* no close frame has been made, if the application sends no pongs of its own
\* (libwebsock_handle_control_frame, libwebsock_default_onping_callback).
THEOREM PingsAnswered == "pong" \notin AppCalls /\ Spec => []PongsAnswerPings
<1> SUFFICES ASSUME "pong" \notin AppCalls PROVE Spec => []PongsAnswerPings
  OBVIOUS
<1>1. Init => PongsAnswerPings
  <2> SUFFICES ASSUME Init PROVE PongsAnswerPings
    OBVIOUS
  <2>1. Payloads(made, PONG) = <<>> /\ Payloads(rx, PING) = <<>>
    BY PayloadsNone DEF Init
  <2>2. <<>> \in Seq({}) /\ IsPrefix(<<>>, <<>>)
    BY PrefixSelf, EmptySeq
  <2> QED BY <2>1, <2>2 DEF PongsAnswerPings
<1>2. IInv /\ Fresh /\ PongsAnswerPings /\ [Next]_vars => PongsAnswerPings'
  <2> SUFFICES ASSUME IInv, Fresh, PongsAnswerPings, [Next]_vars PROVE PongsAnswerPings'
    OBVIOUS
  <2>0. rx \in Seq(Frame) /\ made \in Seq(Frame)
    BY DEF IInv, TypeOK
  <2>1. CASE PopulateHandshake
    <3>1. rx' = <<>> /\ made' = <<>>
      BY <2>1 DEF PopulateHandshake, Fresh, IInv, FlagsAgree
    <3>2. Payloads(made, PONG)' = <<>> /\ Payloads(rx, PING)' = <<>>
      BY <3>1, PayloadsNone
    <3>3. <<>> \in Seq({}) /\ IsPrefix(<<>>, <<>>)
      BY PrefixSelf, EmptySeq
    <3> QED BY <3>2, <3>3 DEF PongsAnswerPings
  <2>2. ASSUME Fails PROVE "SENT_CLOSE" \in flags'
                           /\ (made' = made \/ \E g \in Frame : g.b0 # PONG /\ made' = Append(made, g))
    BY <2>2 DEF Fails, CLOSE, PONG
  <2>3. ASSUME NEW f \in RxFrames, Receive(f) PROVE PongsAnswerPings'
    <3>1. f \in Frame /\ Receiving /\ rx' = Append(rx, f) /\ Effect(f)
      BY <2>3, ReceiveEffect
    <3>2. CASE Passes(f)
      BY <3>1, <3>2, NoPong DEF Passes, FlagsKept
    <3>3. CASE Pongs(f)
      <4> DEFINE g == [b0 |-> PONG, data |-> f.data]
                 p == Payloads(made, PONG)
                 q == Payloads(rx, PING)
      <4>1. g \in Frame /\ g.b0 = PONG /\ g.data = f.data /\ f.data \in Seq(Byte)
        BY <3>1 DEF Frame, Byte, PONG
      <4>2. made' = Append(made, g) /\ f.b0 = PING /\ "SENT_CLOSE" \notin flags
        BY <3>3 DEF Pongs
      <4> HIDE DEF g
      <4>3. p' = Append(p, f.data) /\ q' = Append(q, f.data) /\ p = q
        BY <2>0, <3>1, <4>1, <4>2, PayloadsAppend DEF PongsAnswerPings
      <4>4. p \in Seq(Seq(Byte))
        BY <2>0, PayloadsType
      <4> HIDE DEF p, q
      <4>5. Append(p, f.data) \in Seq(Seq(Byte))
        BY <4>1, <4>4, AppendProperties
      <4>6. IsPrefix(Append(p, f.data), Append(p, f.data))
        BY <4>5, PrefixSelf
      <4> QED BY <4>3, <4>6 DEF PongsAnswerPings, p, q
    <3>4. CASE Echoes(f)
      <4>1. /\ f.b0 # PING /\ FlagsKept
            /\ \E g \in Frame : g.b0 # PONG /\ made' = Append(made, g)
        BY <3>4 DEF Echoes, FIN, TEXT, BINARY, PONG
      <4> QED BY <3>1, <4>1, NoPong DEF FlagsKept
    <3>5. CASE ClosesNow(f) \/ AnswersClose(f)
      <4>1. /\ f.b0 # PING /\ "SENT_CLOSE" \in flags'
            /\ \E g \in Frame : g.b0 # PONG /\ made' = Append(made, g)
        BY <3>5 DEF ClosesNow, AnswersClose, PING, CLOSE, PONG
      <4> QED BY <3>1, <4>1, NoPong
    <3>6. CASE Fails
      BY <2>2, <3>1, <3>6, NoPong
    <3> QED BY <3>1, <3>2, <3>3, <3>4, <3>5, <3>6 DEF Effect
  <2>4. CASE Redispatch
    <3>1. rx' = rx /\ (Fails \/ (made' = made /\ FlagsKept))
      BY <2>4, RedispatchEffect
    <3> QED BY <2>2, <3>1, NoPong DEF FlagsKept
  <2>5. CASE App
    <3>1. AppEffect /\ rx' = rx
      BY <2>5, CallsEffect
    <3>2. "SENT_CLOSE" \in flags => "SENT_CLOSE" \in flags'
      BY <3>1 DEF AppEffect
    <3>3. ASSUME NEW b0s, Adds(b0s), PONG \notin b0s
          PROVE  made' = made \/ \E g \in Frame : g.b0 # PONG /\ made' = Append(made, g)
      BY <3>3 DEF Adds
    <3>4. /\ PONG \notin {PING} \cup (IF "pong" \in AppCalls THEN {PONG} ELSE {})
          /\ PONG \notin {FIN + TEXT, FIN + BINARY} /\ PONG \notin {TEXT, BINARY}
          /\ PONG \notin {0} /\ PONG \notin {FIN} /\ PONG \notin {CLOSE}
      BY DEF CLOSE, PING, PONG, FIN, TEXT, BINARY
    <3>5. made' = made \/ \E g \in Frame : g.b0 # PONG /\ made' = Append(made, g)
      BY <3>1, <3>3, <3>4 DEF AppEffect
    <3> QED BY <3>1, <3>2, <3>5, NoPong
  <2>6. CASE UNCHANGED vars
    BY <2>6 DEF vars, PongsAnswerPings
  <2> QED BY <2>1, <2>3, <2>4, <2>5, <2>6 DEF Next
<1> QED BY <1>1, <1>2, Invariant, FreshHolds, PTL DEF Spec

-----------------------------------------------------------------------------
(* The frames made can be parsed.                                          *)

\* The two parts of OutputWellFormed, of the data frames made.
Parses(data) ==
  \A i \in DOMAIN data : data[i].b0 \in {0, FIN} <=> (i > 1 /\ ~ IsFinal(data[i - 1]))
Unfinished(data) == data # <<>> /\ ~ IsFinal(Last(data))

\* A frame that continues exactly where something is to be continued.
LEMMA ParsesAppend ==
  ASSUME NEW data \in Seq(Frame), Parses(data), NEW g \in Frame,
         g.b0 \in {0, FIN} <=> Unfinished(data)
  PROVE  /\ Parses(Append(data, g))
         /\ Unfinished(Append(data, g)) <=> ~ IsFinal(g)
<1> DEFINE t == Append(data, g)
           n == Len(data)
<1>1. /\ t \in Seq(Frame) /\ t # <<>> /\ Len(t) = n + 1 /\ n \in Nat
      /\ \A i \in 1..n : t[i] = data[i]
      /\ t[n + 1] = g /\ DOMAIN data = 1..n
  BY AppendProperties, LenProperties
<1> HIDE DEF t
<1>2. DOMAIN t = 1..(n + 1)
  BY <1>1, LenProperties
<1>3. Unfinished(data) <=> (n + 1 > 1 /\ ~ IsFinal(data[n]))
  <2>1. data = <<>> <=> n = 0
    BY EmptySeq
  <2> QED BY <1>1, <2>1 DEF Unfinished, Last
<1> HIDE DEF n
<1>4. Parses(t)
  <2> SUFFICES ASSUME NEW i \in 1..(n + 1)
               PROVE  t[i].b0 \in {0, FIN} <=> (i > 1 /\ ~ IsFinal(t[i - 1]))
    BY <1>2 DEF Parses
  <2>1. CASE i = n + 1
    <3>1. i > 1 => t[i - 1] = data[n]
      BY <1>1, <2>1
    <3> QED BY <1>1, <1>3, <2>1, <3>1
  <2>2. CASE i # n + 1
    <3>1. i \in 1..n
      BY <1>1, <2>2
    <3>2. i > 1 => t[i - 1] = data[i - 1]
      BY <1>1, <3>1
    <3> QED BY <1>1, <3>1, <3>2 DEF Parses
  <2> QED BY <2>1, <2>2
<1>5. Unfinished(t) <=> ~ IsFinal(g)
  BY <1>1 DEF Unfinished, Last
<1> QED BY <1>4, <1>5 DEF t

\* The data frames of one frame more.
LEMMA DataAppend ==
  ASSUME NEW s \in Seq(Frame), NEW f \in Frame
  PROVE  /\ DataFrames(s) \in Seq(Frame)
         /\ DataFrames(Append(s, f)) = IF IsData(f) THEN Append(DataFrames(s), f)
                                       ELSE DataFrames(s)
<1> DEFINE T == {g \in Frame : IsData(g)}
<1>1. f \in T <=> IsData(f)
  OBVIOUS
<1> HIDE DEF T
<1>2. Filter(s, T) \in Seq(Frame)
  BY FilterType
<1>3. Filter(Append(s, f), T) = IF f \in T THEN Append(Filter(s, T), f) ELSE Filter(s, T)
  BY FilterAppend
<1> QED BY <1>1, <1>2, <1>3 DEF DataFrames, T

\* A step that makes no data frame and leaves CONTINUOUS as it is.
LEMMA NoDataMade ==
  ASSUME IInv, OutputWellFormed,
         made' = made \/ \E g \in Frame : ~ IsData(g) /\ made' = Append(made, g),
         "CONTINUOUS" \in flags' <=> "CONTINUOUS" \in flags,
         Writable(flags') => Writable(flags)
  PROVE  OutputWellFormed'
<1>1. DataFrames(made)' = DataFrames(made)
  BY DataAppend DEF IInv, TypeOK
<1> QED BY <1>1 DEF OutputWellFormed

\* A step that makes a data frame where it belongs.
LEMMA DataMade ==
  ASSUME IInv, OutputWellFormed, Writable(flags),
         NEW g \in Frame, IsData(g), made' = Append(made, g),
         g.b0 \in {0, FIN} <=> "CONTINUOUS" \in flags,
         "CONTINUOUS" \in flags' <=> ~ IsFinal(g)
  PROVE  OutputWellFormed'
<1> DEFINE data == DataFrames(made)
<1>1. data \in Seq(Frame) /\ data' = Append(data, g)
  BY DataAppend DEF IInv, TypeOK
<1>2. Parses(data) /\ ("CONTINUOUS" \in flags <=> Unfinished(data))
  BY DEF OutputWellFormed, Parses, Unfinished
<1> HIDE DEF data
<1>3. Parses(data') /\ (Unfinished(data') <=> ~ IsFinal(g))
  <2>1. Parses(Append(data, g)) /\ (Unfinished(Append(data, g)) <=> ~ IsFinal(g))
    BY <1>1, <1>2, ParsesAppend
  <2> QED BY <1>1, <2>1
<1> QED BY <1>3 DEF OutputWellFormed, Parses, Unfinished, data

\* What the connection sends can be parsed by its peer: the frames of a
\* message that the application sends piece by piece are not broken up by
\* another message, neither one of its own nor an echo
\* (libwebsock_make_fragment, and the test of CONTINUOUS before the calls of it).
THEOREM OutputParses == Spec => []OutputWellFormed
<1>1. Init => OutputWellFormed
  <2> SUFFICES ASSUME Init PROVE OutputWellFormed
    OBVIOUS
  <2>1. DataFrames(made) = <<>>
    BY FilterEmpty DEF Init, DataFrames
  <2> QED BY <2>1 DEF Init, OutputWellFormed
<1>2. IInv /\ OutputWellFormed /\ [Next]_vars => OutputWellFormed'
  <2> SUFFICES ASSUME IInv, OutputWellFormed, [Next]_vars PROVE OutputWellFormed'
    OBVIOUS
  <2>0. \A g \in Frame : /\ g.b0 \in {CLOSE, PING, PONG} => ~ IsData(g)
                         /\ g.b0 \in {0, FIN, TEXT, BINARY, FIN + TEXT, FIN + BINARY} => IsData(g)
    BY DEF IsData, CLOSE, PING, PONG, FIN, TEXT, BINARY
  <2>1. CASE PopulateHandshake
    <3>1. made' = <<>> /\ flags' = {"CONNECTED"}
      BY <2>1 DEF PopulateHandshake, IInv, FlagsAgree
    <3>2. DataFrames(made)' = <<>>
      BY <3>1, FilterEmpty DEF DataFrames
    <3> QED BY <3>1, <3>2 DEF OutputWellFormed
  <2>2. ASSUME Fails PROVE OutputWellFormed'
    <3>1. made' = made \/ \E g \in Frame : ~ IsData(g) /\ made' = Append(made, g)
      BY <2>0, <2>2 DEF Fails
    <3>2. /\ "CONTINUOUS" \in flags' <=> "CONTINUOUS" \in flags
          /\ Writable(flags') => Writable(flags)
      BY <2>2 DEF Fails, Writable
    <3> QED BY <3>1, <3>2, NoDataMade
  <2>3. ASSUME made' = made, FlagsKept PROVE OutputWellFormed'
    BY <2>3, NoDataMade DEF FlagsKept, Writable
  <2>4. ASSUME NEW f \in RxFrames, Receive(f) PROVE OutputWellFormed'
    <3>1. f \in Frame /\ Receiving /\ Effect(f)
      BY <2>4, ReceiveEffect
    <3>2. CASE Passes(f)
      BY <2>3, <3>2 DEF Passes
    <3>3. CASE Pongs(f)
      <4> DEFINE g == [b0 |-> PONG, data |-> f.data]
      <4>1. g \in Frame /\ ~ IsData(g)
        BY <3>1 DEF Frame, Byte, PONG, IsData
      <4>2. made' = Append(made, g) /\ FlagsKept
        BY <3>3 DEF Pongs
      <4> HIDE DEF g
      <4> QED BY <4>1, <4>2, NoDataMade DEF FlagsKept, Writable
    <3>4. CASE Echoes(f)
      <4>1. PICK g \in Frame : g.b0 \in {FIN + TEXT, FIN + BINARY} /\ made' = Append(made, g)
        BY <3>4 DEF Echoes
      <4>2. IsData(g) /\ g.b0 \notin {0, FIN} /\ IsFinal(g)
        BY <2>0, <4>1 DEF FIN, TEXT, BINARY, IsFinal
      <4>3. "CONTINUOUS" \notin flags /\ "CONTINUOUS" \notin flags' /\ Writable(flags)
        BY <3>1, <3>4 DEF Echoes, FlagsKept, Writable, Receiving
      <4> QED BY <4>1, <4>2, <4>3, DataMade
    <3>5. CASE ClosesNow(f) \/ AnswersClose(f)
      <4>1. \E g \in Frame : ~ IsData(g) /\ made' = Append(made, g)
        BY <2>0, <3>5 DEF ClosesNow, AnswersClose
      <4>2. /\ "CONTINUOUS" \in flags' <=> "CONTINUOUS" \in flags
            /\ Writable(flags') => Writable(flags)
        BY <3>5 DEF ClosesNow, AnswersClose, Writable
      <4> QED BY <4>1, <4>2, NoDataMade
    <3> QED BY <2>2, <3>1, <3>2, <3>3, <3>4, <3>5 DEF Effect
  <2>5. CASE Redispatch
    BY <2>2, <2>3, <2>5, RedispatchEffect
  <2>6. CASE App
    <3>0. AppEffect
      BY <2>6, CallsEffect
    <3>1. CASE ~ Writable(flags)
      <4>1. made' = made /\ ~ Writable(flags')
        BY <3>0, <3>1 DEF AppEffect, Adds, Writable
      <4>2. DataFrames(made)' = DataFrames(made)
        BY <4>1
      <4> QED BY <4>1, <4>2 DEF OutputWellFormed
    <3>2. CASE flags' = flags /\ made' = made
      BY <3>2 DEF OutputWellFormed
    <3>3. ASSUME NEW b0s, Writable(flags), Adds(b0s), b0s \subseteq {CLOSE, PING, PONG},
                 flags' = flags \/ flags' = flags \cup {"SENT_CLOSE"}
          PROVE  OutputWellFormed'
      BY <2>0, <3>3, NoDataMade DEF Adds, Writable
    <3>4. ASSUME NEW b0s, Writable(flags), Adds(b0s),
                 \A g \in Frame : g.b0 \in b0s =>
                   /\ IsData(g)
                   /\ g.b0 \in {0, FIN} <=> "CONTINUOUS" \in flags
                   /\ "CONTINUOUS" \in flags' <=> ~ IsFinal(g)
          PROVE  OutputWellFormed'
      BY <3>4, DataMade DEF Adds
    <3>5. CASE Writable(flags) /\ flags' = flags
               /\ Adds({PING} \cup (IF "pong" \in AppCalls THEN {PONG} ELSE {}))
      BY <3>3, <3>5
    <3>6. CASE Writable(flags) /\ flags' = flags \cup {"SENT_CLOSE"} /\ Adds({CLOSE})
      BY <3>3, <3>6
    <3>7. CASE /\ Writable(flags) /\ "CONTINUOUS" \notin flags
               /\ flags' = flags /\ Adds({FIN + TEXT, FIN + BINARY})
      <4> DEFINE b0s == {FIN + TEXT, FIN + BINARY}
      <4>1. \A g \in Frame : g.b0 \in b0s => IsData(g) /\ g.b0 \notin {0, FIN} /\ IsFinal(g)
        BY <2>0 DEF FIN, TEXT, BINARY, IsFinal
      <4>2. Adds(b0s)
        BY <3>7
      <4> HIDE DEF b0s
      <4> QED BY <3>4, <3>7, <4>1, <4>2
    <3>8. CASE /\ Writable(flags) /\ "CONTINUOUS" \notin flags
               /\ flags' = flags \cup {"CONTINUOUS"} /\ Adds({TEXT, BINARY})
      <4> DEFINE b0s == {TEXT, BINARY}
      <4>1. \A g \in Frame : g.b0 \in b0s => IsData(g) /\ g.b0 \notin {0, FIN} /\ ~ IsFinal(g)
        BY <2>0 DEF FIN, TEXT, BINARY, IsFinal
      <4>2. Adds(b0s)
        BY <3>8
      <4> HIDE DEF b0s
      <4> QED BY <3>4, <3>8, <4>1, <4>2
    <3>9. CASE /\ Writable(flags) /\ "CONTINUOUS" \in flags
               /\ flags' = flags /\ Adds({0})
      <4> DEFINE b0s == {0}
      <4>1. \A g \in Frame : g.b0 \in b0s => IsData(g) /\ g.b0 \in {0, FIN} /\ ~ IsFinal(g)
        BY <2>0 DEF FIN, IsFinal
      <4>2. Adds(b0s)
        BY <3>9
      <4> HIDE DEF b0s
      <4> QED BY <3>4, <3>9, <4>1, <4>2
    <3>10. CASE /\ Writable(flags) /\ "CONTINUOUS" \in flags
                /\ flags' = flags \ {"CONTINUOUS"} /\ Adds({FIN})
      <4> DEFINE b0s == {FIN}
      <4>1. \A g \in Frame : g.b0 \in b0s => IsData(g) /\ g.b0 \in {0, FIN} /\ IsFinal(g)
        BY <2>0 DEF FIN, IsFinal
      <4>2. Adds(b0s)
        BY <3>10
      <4> HIDE DEF b0s
      <4> QED BY <3>4, <3>10, <4>1, <4>2
    <3> QED BY <3>0, <3>1, <3>2, <3>5, <3>6, <3>7, <3>8, <3>9, <3>10 DEF AppEffect
  <2>7. CASE UNCHANGED vars
    BY <2>7 DEF vars, OutputWellFormed
  <2> QED BY <2>1, <2>4, <2>5, <2>6, <2>7 DEF Next
<1> QED BY <1>1, <1>2, Invariant, PTL DEF Spec

-----------------------------------------------------------------------------
(* Messages, one frame at a time.                                          *)

\* The data frames of the message in progress: those after the last final one.
Rest(data) == SubSeq(data, StartOf(data, Len(Ends(data)) + 1), Len(data))
Pending(fs) == Rest(DataFrames(fs))

\* The indices of the final frames, in order.
LEMMA EndsAppend ==
  ASSUME NEW data \in Seq(Frame), NEW f \in Frame
  PROVE  /\ Ends(data) \in Seq(1..Len(data))
         /\ Ends(Append(data, f)) = IF IsFinal(f) THEN Append(Ends(data), Len(data) + 1)
                                    ELSE Ends(data)
<1> DEFINE n == Len(data)
           idx == [i \in DOMAIN data |-> i]
           T == {i \in DOMAIN data : IsFinal(data[i])}
           t == Append(data, f)
           idt == [i \in DOMAIN t |-> i]
           U == {i \in DOMAIN t : IsFinal(t[i])}
<1>1. /\ n \in Nat /\ DOMAIN data = 1..n
      /\ t \in Seq(Frame) /\ Len(t) = n + 1
      /\ \A i \in 1..n : t[i] = data[i]
      /\ t[n + 1] = f
  BY AppendProperties, LenProperties
<1>2. Ends(data) = Filter(idx, T) /\ Ends(t) = Filter(idt, U)
  BY DEF Ends
<1> HIDE DEF t, n
<1>3. DOMAIN t = 1..(n + 1)
  BY <1>1, LenProperties
<1>4. idx = [i \in 1..n |-> i] /\ idt = [i \in 1..(n + 1) |-> i]
  BY <1>1, <1>3
<1>5. /\ T = {i \in 1..n : IsFinal(data[i])}
      /\ U = {i \in 1..(n + 1) : IsFinal(t[i])}
  BY <1>1, <1>3
<1> HIDE DEF idx, idt, T, U
<1>6. /\ idx \in Seq(1..n) /\ Len(idx) = n /\ \A i \in 1..n : idx[i] = i
      /\ idx \in Seq(Nat)
  <2>1. idx \in [1..n -> 1..n]
    BY <1>4
  <2>2. idx \in Seq(1..n) /\ DOMAIN idx = 1..n
    BY <1>1, <2>1, SeqDef
  <2>3. Len(idx) = n
    BY <1>1, <2>2, LenProperties
  <2>4. idx \in Seq(Nat)
    <3>1. 1..n \subseteq Nat
      BY <1>1
    <3> QED BY <2>2, <3>1, SeqMonotonic
  <2> QED BY <1>4, <2>2, <2>3, <2>4
<1>7. idt = Append(idx, n + 1)
  <2> DEFINE a == Append(idx, n + 1)
  <2>1. /\ n + 1 \in Nat /\ a \in Seq(Nat) /\ Len(a) = n + 1
        /\ \A i \in 1..n : a[i] = i
        /\ a[n + 1] = n + 1
    BY <1>1, <1>6, AppendProperties
  <2> HIDE DEF a
  <2>2. idt \in Seq(Nat) /\ Len(idt) = n + 1
    <3>1. idt \in [1..(n + 1) -> Nat]
      BY <1>4
    <3>2. idt \in Seq(Nat) /\ DOMAIN idt = 1..(n + 1)
      BY <2>1, <3>1, SeqDef
    <3> QED BY <2>1, <3>2, LenProperties
  <2>3. \A i \in 1..(n + 1) : idt[i] = a[i]
    BY <1>1, <1>4, <2>1
  <2>4. idt = a
    BY <2>1, <2>2, <2>3, SeqEqual
  <2> QED BY <2>4 DEF a
<1>8. Filter(idx, U) = Filter(idx, T)
  <2>1. \A i \in 1..n : i \in U <=> i \in T
    BY <1>1, <1>5
  <2>2. \A k \in 1..Len(idx) : idx[k] \in U <=> idx[k] \in T
    BY <1>6, <2>1
  <2> QED BY <1>6, <2>2, FilterSame
<1>9. Filter(Append(idx, n + 1), U)
        = IF n + 1 \in U THEN Append(Filter(idx, U), n + 1) ELSE Filter(idx, U)
  <2> DEFINE last == n + 1
  <2>1. last \in Nat /\ idx \in Seq(Nat)
    BY <1>1, <1>6
  <2> HIDE DEF last
  <2>2. Filter(Append(idx, last), U)
          = IF last \in U THEN Append(Filter(idx, U), last) ELSE Filter(idx, U)
    BY <2>1, FilterAppend
  <2> QED BY <2>2 DEF last
<1>10. n + 1 \in U <=> IsFinal(f)
  BY <1>1, <1>5
<1>11. Filter(idx, T) \in Seq(1..n)
  BY <1>6, FilterType
<1> QED BY <1>2, <1>7, <1>8, <1>9, <1>10, <1>11 DEF t, n

\* Where a message begins: after the frames of those before it.
LEMMA StartRange ==
  ASSUME NEW data \in Seq(Frame), NEW k \in 1..(Len(Ends(data)) + 1)
  PROVE  StartOf(data, k) \in 1..(Len(data) + 1)
<1>1. Ends(data) \in Seq(1..Len(data)) /\ Len(data) \in Nat
  <2>1. Ends(data) \in Seq(1..Len(data))
    <3>1. ASSUME NEW f \in Frame PROVE Ends(data) \in Seq(1..Len(data))
      BY EndsAppend
    <3>2. [b0 |-> 0, data |-> <<>>] \in Frame
      BY DEF Frame, Byte
    <3> QED BY <3>1, <3>2
  <2> QED BY <2>1, LenProperties
<1>2. Len(Ends(data)) \in Nat
  BY <1>1, LenProperties
<1>3. CASE k = 1
  BY <1>1, <1>3 DEF StartOf
<1>4. CASE k # 1
  <2>1. k - 1 \in 1..Len(Ends(data))
    BY <1>2, <1>4
  <2>2. Ends(data)[k - 1] \in 1..Len(data)
    BY <1>1, <2>1, ElementOfSeq
  <2> QED BY <1>1, <1>4, <2>2 DEF StartOf
<1> QED BY <1>3, <1>4

\* One frame more leaves the beginnings where they are.
LEMMA StartSame ==
  ASSUME NEW data \in Seq(Frame), NEW f \in Frame, NEW k \in 1..(Len(Ends(data)) + 1)
  PROVE  StartOf(Append(data, f), k) = StartOf(data, k)
<1> DEFINE n == Len(data)
           e == Ends(data)
           u == Ends(Append(data, f))
<1>1. n \in Nat /\ e \in Seq(1..n) /\ Len(e) \in Nat
  BY EndsAppend, LenProperties
<1>2. u = IF IsFinal(f) THEN Append(e, n + 1) ELSE e
  BY EndsAppend
<1>3. k # 1 => u[k - 1] = e[k - 1]
  <2> SUFFICES ASSUME k # 1 PROVE u[k - 1] = e[k - 1]
    OBVIOUS
  <2>1. k - 1 \in 1..Len(e)
    BY <1>1
  <2> DEFINE last == n + 1
             j == k - 1
  <2>2. last \in Nat /\ e \in Seq(Nat)
    <3>1. 1..n \subseteq Nat
      BY <1>1
    <3> QED BY <1>1, <3>1, SeqMonotonic
  <2> HIDE DEF e, last, j
  <2>3. j \in 1..Len(e)
    BY <2>1 DEF j
  <2>4. Append(e, last)[j] = e[j]
    BY <2>2, <2>3, AppendProperties
  <2> QED BY <1>2, <2>4 DEF j, last
<1> QED BY <1>3 DEF StartOf

\* The message in progress grows by a frame, and is over with a final one.
LEMMA RestAppend ==
  ASSUME NEW data \in Seq(Frame), NEW f \in Frame
  PROVE  /\ Rest(data) \in Seq(Frame)
         /\ SubSeq(Append(data, f), StartOf(data, Len(Ends(data)) + 1), Len(data) + 1)
              = Append(Rest(data), f)
         /\ Rest(Append(data, f)) = IF IsFinal(f) THEN <<>> ELSE Append(Rest(data), f)
<1> DEFINE n == Len(data)
           t == Append(data, f)
           e == Ends(data)
           m == StartOf(data, Len(e) + 1)
<1>1. /\ n \in Nat /\ t \in Seq(Frame) /\ Len(t) = n + 1 /\ t[n + 1] = f
  BY AppendProperties, LenProperties
<1>2. e \in Seq(1..n) /\ Len(e) \in Nat
  BY EndsAppend, LenProperties
<1>3. Ends(t) = IF IsFinal(f) THEN Append(e, n + 1) ELSE e
  BY EndsAppend
<1>4. m \in 1..(n + 1)
  <2>1. Len(e) + 1 \in 1..(Len(e) + 1)
    BY <1>2
  <2> QED BY <2>1, StartRange
<1>5. SubSeq(t, m, n) = SubSeq(data, m, n)
  <2>1. m \in Nat /\ 1 <= m /\ n \in 0..Len(data)
    BY <1>1, <1>4
  <2> HIDE DEF m
  <2> QED BY <2>1, SubSeqAppend
<1>6. SubSeq(data, m, n) \in Seq(Frame)
  <2>1. m \in Int /\ n \in Int /\ \A i \in m..n : data[i] \in Frame
    <3>1. \A i \in m..n : i \in 1..Len(data)
      BY <1>1, <1>4
    <3> QED BY <1>1, <1>4, <3>1, ElementOfSeq
  <2> HIDE DEF m, n
  <2> QED BY <2>1, SubSeqProperties
<1>7. Rest(data) = SubSeq(data, m, n)
  BY DEF Rest
<1>8. StartOf(t, Len(e) + 1) = m
  <2>1. Len(e) + 1 \in 1..(Len(e) + 1)
    BY <1>2
  <2> QED BY <2>1, StartSame
<1> HIDE DEF t, n, e, m
<1>9. SubSeq(t, m, n + 1) = Append(SubSeq(data, m, n), f)
  <2>1. m \in 1..Len(t) /\ n + 1 \in m..Len(t) /\ (n + 1) - 1 = n
    BY <1>1, <1>4
  <2>2. SubSeq(t, m, n + 1) = SubSeq(t, m, (n + 1) - 1) \o <<t[n + 1]>>
    BY <1>1, <2>1, SubSeqRecursiveSecond
  <2> DEFINE u == SubSeq(data, m, n)
  <2>3. SubSeq(t, m, n + 1) = u \o <<f>>
    BY <1>1, <1>5, <2>1, <2>2
  <2>4. u \in Seq(Frame)
    BY <1>6
  <2> HIDE DEF u
  <2>5. Append(u, f) = u \o <<f>>
    BY <2>4, AppendIsConcat
  <2> QED BY <2>3, <2>5 DEF u
<1>10. Rest(t) = IF IsFinal(f) THEN <<>> ELSE Append(SubSeq(data, m, n), f)
  <2>1. Rest(t) = SubSeq(t, StartOf(t, Len(Ends(t)) + 1), n + 1)
    BY <1>1 DEF Rest
  <2>2. CASE ~ IsFinal(f)
    BY <1>3, <1>8, <1>9, <2>1, <2>2
  <2>3. CASE IsFinal(f)
    <3>1. /\ n + 1 \in Nat /\ e \in Seq(Nat)
      <4>1. 1..n \subseteq Nat
        BY <1>1
      <4> QED BY <1>1, <1>2, <4>1, SeqMonotonic
    <3>2. Len(Append(e, n + 1)) = Len(e) + 1 /\ Append(e, n + 1)[Len(e) + 1] = n + 1
      BY <3>1, AppendProperties
    <3>3. StartOf(t, Len(Ends(t)) + 1) = n + 2
      <4>1. Len(Ends(t)) = Len(e) + 1 /\ Ends(t)[Len(e) + 1] = n + 1
        BY <1>3, <2>3, <3>2
      <4>2. (Len(e) + 1) + 1 # 1 /\ ((Len(e) + 1) + 1) - 1 = Len(e) + 1 /\ (n + 1) + 1 = n + 2
        BY <1>1, <1>2
      <4> QED BY <4>1, <4>2 DEF StartOf
    <3>4. SubSeq(t, n + 2, n + 1) = <<>>
      <4>1. n + 2 \in Int /\ n + 1 \in Int /\ n + 1 < n + 2
        BY <1>1
      <4> QED BY <4>1, SubSeqEmpty
    <3> QED BY <2>1, <2>3, <3>3, <3>4
  <2> QED BY <2>2, <2>3
<1> QED BY <1>6, <1>7, <1>9, <1>10 DEF t, n, e, m

\* What runs of data frames make: the messages that Messages lists.
Wholes == {Whole(part) : part \in Seq(Frame)}
Split(data) == [k \in DOMAIN Ends(data) |-> Whole(SubSeq(data, StartOf(data, k), Ends(data)[k]))]

\* A final frame adds the message it ends, another one nothing.
LEMMA SplitAppend ==
  ASSUME NEW data \in Seq(Frame), NEW f \in Frame
  PROVE  /\ Split(data) \in Seq(Wholes)
         /\ Split(Append(data, f)) = IF IsFinal(f)
                                     THEN Append(Split(data), Whole(Append(Rest(data), f)))
                                     ELSE Split(data)
<1> DEFINE n == Len(data)
           t == Append(data, f)
           e == Ends(data)
           u == Ends(t)
           last == n + 1
           m == Len(e)
           part(k) == SubSeq(data, StartOf(data, k), e[k])
           partt(k) == SubSeq(t, StartOf(t, k), u[k])
<1>1. /\ n \in Nat /\ last \in Nat /\ last = n + 1
  BY LenProperties
<1>2. e \in Seq(1..n) /\ m \in Nat /\ DOMAIN e = 1..m
  BY EndsAppend, LenProperties
<1>3. u = IF IsFinal(f) THEN Append(e, last) ELSE e
  BY EndsAppend
<1>4. \A k \in 1..m : e[k] \in 1..n /\ StartOf(data, k) \in 1..(n + 1) /\ StartOf(t, k) = StartOf(data, k)
  <2> SUFFICES ASSUME NEW k \in 1..m
               PROVE  e[k] \in 1..n /\ StartOf(data, k) \in 1..(n + 1) /\ StartOf(t, k) = StartOf(data, k)
    OBVIOUS
  <2>1. k \in 1..(Len(Ends(data)) + 1)
    BY <1>2
  <2>2. e[k] \in 1..n
    BY <1>2, ElementOfSeq
  <2> QED BY <2>1, <2>2, StartRange, StartSame
<1>5. /\ StartOf(t, m + 1) = StartOf(data, m + 1)
      /\ SubSeq(t, StartOf(data, m + 1), last) = Append(Rest(data), f)
      /\ Rest(data) \in Seq(Frame)
  <2>1. m + 1 \in 1..(Len(Ends(data)) + 1)
    BY <1>2
  <2> QED BY <2>1, StartSame, RestAppend
<1>6. \A k \in 1..m : part(k) \in Seq(Frame) /\ SubSeq(t, StartOf(data, k), e[k]) = part(k)
  <2> SUFFICES ASSUME NEW k \in 1..m
               PROVE  part(k) \in Seq(Frame) /\ SubSeq(t, StartOf(data, k), e[k]) = part(k)
    OBVIOUS
  <2> DEFINE i == StartOf(data, k)
             j == e[k]
  <2>1. i \in Nat /\ 1 <= i /\ i \in Int /\ j \in Int /\ j \in 0..Len(data)
        /\ \A l \in i..j : l \in 1..Len(data)
    BY <1>1, <1>4
  <2> HIDE DEF i, j
  <2>2. SubSeq(t, i, j) = SubSeq(data, i, j)
    BY <2>1, SubSeqAppend
  <2>3. SubSeq(data, i, j) \in Seq(Frame)
    BY <2>1, ElementOfSeq, SubSeqProperties
  <2> QED BY <2>2, <2>3 DEF i, j
<1>7. IsFinal(f) => /\ Len(u) = m + 1 /\ u[m + 1] = last
                    /\ u \in Seq(Nat) /\ DOMAIN u = 1..(m + 1)
                    /\ \A k \in 1..m : u[k] = e[k]
  <2> SUFFICES ASSUME IsFinal(f)
               PROVE  /\ Len(u) = m + 1 /\ u[m + 1] = last
                      /\ u \in Seq(Nat) /\ DOMAIN u = 1..(m + 1)
                      /\ \A k \in 1..m : u[k] = e[k]
    OBVIOUS
  <2>1. e \in Seq(Nat)
    <3>1. 1..n \subseteq Nat
      BY <1>1
    <3> QED BY <1>2, <3>1, SeqMonotonic
  <2> HIDE DEF e, u, last
  <2>2. /\ Len(Append(e, last)) = m + 1 /\ Append(e, last)[m + 1] = last
        /\ Append(e, last) \in Seq(Nat)
        /\ \A k \in 1..m : Append(e, last)[k] = e[k]
    BY <1>1, <2>1, AppendProperties
  <2>3. u = Append(e, last)
    BY <1>3
  <2> HIDE DEF m
  <2>4. u \in Seq(Nat) /\ Len(u) = m + 1
    BY <2>2, <2>3
  <2>5. DOMAIN u = 1..(m + 1)
    BY <2>4, LenProperties
  <2> QED BY <2>2, <2>3, <2>5
<1>8. Split(data) = [k \in 1..m |-> Whole(part(k))]
  BY <1>2 DEF Split
<1>9. Split(t) = [k \in DOMAIN u |-> Whole(partt(k))]
  BY DEF Split
<1>10. IsFinal(f) => partt(m + 1) = Append(Rest(data), f)
  BY <1>5, <1>7
<1>11. \A k \in 1..m : partt(k) = part(k)
  <2>1. \A k \in 1..m : u[k] = e[k]
    BY <1>3, <1>7
  <2> QED BY <1>4, <1>6, <2>1
<1> HIDE DEF part, partt, t, n, e, u, last, m
<1>12. \A k \in 1..m : Whole(part(k)) \in Wholes
  BY <1>6 DEF Wholes
<1>13. Split(data) \in Seq(Wholes) /\ Len(Split(data)) = m
  <2> DEFINE a == Split(data)
  <2>1. a \in [1..m -> Wholes]
    BY <1>8, <1>12
  <2> HIDE DEF a
  <2>2. a \in Seq(Wholes) /\ DOMAIN a = 1..m
    BY <1>2, <2>1, SeqDef
  <2>3. Len(a) = m
    BY <1>2, <2>2, LenProperties
  <2> QED BY <2>2, <2>3 DEF a
<1>14. CASE ~ IsFinal(f)
  <2>1. Split(t) = [k \in 1..m |-> Whole(part(k))]
    BY <1>2, <1>3, <1>9, <1>11, <1>14
  <2> QED BY <1>8, <1>13, <1>14, <2>1 DEF t
<1>15. CASE IsFinal(f)
  <2> DEFINE w == Whole(Append(Rest(data), f))
             a == Split(t)
             b == Append(Split(data), w)
  <2>1. w \in Wholes
    <3>1. Append(Rest(data), f) \in Seq(Frame)
      BY <1>5, AppendProperties
    <3> QED BY <3>1 DEF Wholes
  <2>2. a = [k \in 1..(m + 1) |-> Whole(partt(k))]
    BY <1>7, <1>9, <1>15
  <2>3. Whole(partt(m + 1)) = w
    BY <1>10, <1>15
  <2>4. \A k \in 1..m : Whole(partt(k)) = Whole(part(k))
    BY <1>11
  <2> DEFINE sd == Split(data)
  <2>5. \A k \in 1..m : sd[k] = Whole(part(k))
    BY <1>8
  <2> HIDE DEF w, a, sd
  <2>6. /\ Append(sd, w) \in Seq(Wholes) /\ Len(Append(sd, w)) = m + 1
        /\ \A k \in 1..m : Append(sd, w)[k] = sd[k]
        /\ Append(sd, w)[m + 1] = w
    BY <1>13, <2>1, AppendProperties DEF sd
  <2>7. \A k \in 1..(m + 1) : k \in 1..m \/ k = m + 1
    BY <1>2
  <2>8. a \in Seq(Wholes) /\ Len(a) = m + 1
    <3>1. a \in [1..(m + 1) -> Wholes]
      BY <1>12, <2>1, <2>2, <2>3, <2>4, <2>7
    <3>2. m + 1 \in Nat
      BY <1>2
    <3>3. a \in Seq(Wholes) /\ DOMAIN a = 1..(m + 1)
      BY <3>1, <3>2, SeqDef
    <3> QED BY <3>2, <3>3, LenProperties
  <2>9. \A k \in 1..(m + 1) : a[k] = Append(sd, w)[k]
    BY <2>2, <2>3, <2>4, <2>5, <2>6, <2>7
  <2> DEFINE c == Append(sd, w)
  <2>10. c \in Seq(Wholes) /\ Len(c) = m + 1 /\ \A k \in 1..(m + 1) : a[k] = c[k]
    BY <2>6, <2>9
  <2> HIDE DEF c
  <2>11. a = c
    BY <2>8, <2>10, SeqEqual
  <2> QED BY <1>13, <1>15, <2>11 DEF a, c, sd, w, t
<1> QED BY <1>14, <1>15

\* The messages and the one in progress after one frame more.
LEMMA MessagesAppend ==
  ASSUME NEW s \in Seq(Frame), NEW f \in Frame
  PROVE  /\ Messages(s) \in Seq(Wholes) /\ Pending(s) \in Seq(Frame)
         /\ Messages(Append(s, f)) = IF IsData(f) /\ IsFinal(f)
                                     THEN Append(Messages(s), Whole(Append(Pending(s), f)))
                                     ELSE Messages(s)
         /\ Pending(Append(s, f)) = IF ~ IsData(f) THEN Pending(s)
                                    ELSE IF IsFinal(f) THEN <<>> ELSE Append(Pending(s), f)
<1> DEFINE data == DataFrames(s)
<1>1. /\ data \in Seq(Frame)
      /\ DataFrames(Append(s, f)) = IF IsData(f) THEN Append(data, f) ELSE data
  BY DataAppend
<1>2. \A fs : Messages(fs) = Split(DataFrames(fs)) /\ Pending(fs) = Rest(DataFrames(fs))
  BY DEF Messages, Split, Pending
<1> HIDE DEF data
<1>3. /\ Split(data) \in Seq(Wholes) /\ Rest(data) \in Seq(Frame)
      /\ Split(Append(data, f)) = IF IsFinal(f)
                                  THEN Append(Split(data), Whole(Append(Rest(data), f)))
                                  ELSE Split(data)
      /\ Rest(Append(data, f)) = IF IsFinal(f) THEN <<>> ELSE Append(Rest(data), f)
  BY <1>1, SplitAppend, RestAppend
<1> QED BY <1>1, <1>2, <1>3 DEF data

\* No frames make no messages.
LEMMA MessagesNone == Messages(<<>>) = <<>> /\ Pending(<<>>) = <<>>
<1>1. DataFrames(<<>>) = <<>>
  BY FilterEmpty DEF DataFrames
<1>2. Ends(<<>>) = <<>>
  <2>1. [i \in DOMAIN <<>> |-> i] = <<>>
    OBVIOUS
  <2> QED BY <2>1, FilterEmpty DEF Ends
<1>3. Messages(<<>>) = <<>>
  BY <1>1, <1>2 DEF Messages
<1>4. Rest(<<>>) = <<>>
  <2>1. Len(<<>>) = 0 /\ StartOf(<<>>, 0 + 1) = 1
    BY DEF StartOf
  <2>2. SubSeq(<<>>, 1, 0) = <<>>
    <3>1. 1 \in Int /\ 0 \in Int /\ 0 < 1
      OBVIOUS
    <3> QED BY <3>1, SubSeqEmpty
  <2> QED BY <1>2, <2>1, <2>2 DEF Rest
<1> QED BY <1>1, <1>3, <1>4 DEF Pending

-----------------------------------------------------------------------------
(* Messages are delivered whole.                                           *)

\* What the frame f does to the list of frames and to what was delivered:
\* nothing that matters once a close frame has been made; it is no data
\* frame; it is put by; or it ends a message, which is delivered.
Kept == delivered' = delivered /\ "SENT_CLOSE" \in flags'
Skips(f) == ~ IsData(f) /\ frames' = frames /\ delivered' = delivered
Stores(f) ==
  IsData(f) /\ ~ IsFinal(f) /\ frames' = Append(frames, f) /\ delivered' = delivered
Delivers(f) ==
  /\ IsData(f) /\ IsFinal(f) /\ "SENT_CLOSE" \notin flags
  /\ frames' = <<>> /\ delivered' = Append(delivered, Whole(Append(frames, f)))

\* libwebsock_error makes a close frame and delivers nothing.
LEMMA ErrorKeeps ==
  ASSUME NEW fl, NEW code, Error(fl, code)
  PROVE  Kept
BY DEF Error, MakeClose, Kept

\* libwebsock_dispatch_message
LEMMA DispatchDelivers ==
  ASSUME NEW fs, Dispatch(fs)
  PROVE  \/ Kept
         \/ "SENT_CLOSE" \notin flags /\ frames' = <<>> /\ delivered' = Append(delivered, Whole(fs))
<1> DEFINE fl == flags \ {"RECEIVING_FRAGMENT"}
           m  == [opcode |-> fs[1].b0 % 16, payload |-> Payload(fs)]
<1>1. "SENT_CLOSE" \in fl <=> "SENT_CLOSE" \in flags
  OBVIOUS
<1>2. m = Whole(fs)
  BY DEF Payload, Whole
<1>3. CASE IgnoreMessage(fl, fs)
  BY <1>1, <1>3 DEF IgnoreMessage, Kept
<1>4. CASE Error(fl, 1007)
  BY <1>4, ErrorKeeps
<1>5. CASE "SENT_CLOSE" \notin fl /\ frames' = <<>> /\ delivered' = Append(delivered, m)
  BY <1>1, <1>2, <1>5
<1> HIDE DEF fl, m
<1> QED BY <1>3, <1>4, <1>5 DEF Dispatch, fl, m

\* What the arrival of a frame does.
LEMMA ReceiveDelivers ==
  ASSUME IInv, NEW f \in RxFrames, Receive(f)
  PROVE  Kept \/ Skips(f) \/ Stores(f) \/ Delivers(f)
<1>1. f \in Frame /\ HandleFrame(f) /\ IInv
  BY FramesAssumption DEF Receive
<1>2. CASE HandlerOf(f) = "control" /\ Control(f)
  <2>1. ~ IsData(f)
    BY <1>2 DEF HandlerOf, Handler, IsData
  <2>2. ASSUME NEW fl, NEW code, Error(fl, code) PROVE Kept
    BY <2>2, ErrorKeeps
  <2>3. CASE frames' = frames /\ delivered' = delivered
    BY <2>1, <2>3 DEF Skips
  <2>4. CASE Close(f.data)
    <3> DEFINE info == NewCloseInfo(f.data)
    <3>1. Fail(flags) => Kept
      BY <2>2 DEF Fail
    <3> HIDE DEF info
    <3> QED BY <2>2, <2>3, <2>4, <3>1 DEF Close, info
  <2>5. CASE Ping(f.data)
    BY <2>3, <2>5 DEF Ping
  <2> QED BY <1>2, <2>2, <2>3, <2>4, <2>5 DEF Control
<1>3. CASE HandlerOf(f) = "continuation" /\ NewContinuation(f)
  <2>1. IsData(f) /\ ~ IsFinal(f)
    BY <1>3 DEF HandlerOf, Handler, IsData, IsFinal, TEXT, BINARY, FIN, CLOSE, PING, PONG
  <2> QED BY <1>3, <2>1 DEF NewContinuation, Stores
<1>4. CASE HandlerOf(f) = "dispatch" /\ Dispatch(Append(frames, f))
  <2>1. IsData(f) /\ IsFinal(f)
    BY <1>4 DEF HandlerOf, Handler, IsData, IsFinal, TEXT, BINARY, FIN, CLOSE, PING, PONG
  <2> QED BY <1>4, <2>1, DispatchDelivers DEF Delivers
<1>5. CASE Fail(flags)
  BY <1>5, ErrorKeeps DEF Fail
<1> QED BY <1>1, <1>2, <1>3, <1>4, <1>5 DEF HandleFrame

\* A byte for a message left in place delivers nothing.
LEMMA RedispatchKeeps ==
  ASSUME IInv, Redispatch
  PROVE  Kept
<1>1. "SENT_CLOSE" \in flags
  BY DEF Redispatch, IInv, StuckFrame
<1>2. CASE Dispatch(frames)
  BY <1>1, <1>2, DispatchDelivers
<1>3. CASE Fail(flags)
  BY <1>3, ErrorKeeps DEF Fail
<1> QED BY <1>2, <1>3 DEF Redispatch

\* What a frame, or a byte for a frame left in place, adds after our close frame:
\* nothing, or the close frame of an error.
LEMMA NothingOfItsOwn ==
  ASSUME IInv, "SENT_CLOSE" \in flags, (\E f \in RxFrames : Receive(f)) \/ Redispatch
  PROVE  /\ Kept
         /\ "RECEIVED_CLOSE" \in flags => "RECEIVED_CLOSE" \in flags' /\ made' = made
         /\ \/ made' = made
            \/ /\ "PROCESSING_ERROR" \in flags' \ flags
               /\ made' # <<>> /\ made' = Append(made, Last(made')) /\ Last(made').b0 = CLOSE
<1>1. Kept /\ "PROCESSING_ERROR" \notin flags /\ (Fails \/ (made' = made /\ FlagsKept))
  <2>1. ASSUME NEW f \in RxFrames, Receive(f)
        PROVE  Kept /\ "PROCESSING_ERROR" \notin flags /\ (Fails \/ (made' = made /\ FlagsKept))
    <3>1. Receiving /\ Effect(f) /\ (Kept \/ Skips(f) \/ Stores(f) \/ Delivers(f))
      BY <2>1, ReceiveEffect, ReceiveDelivers
    <3>2. Fails \/ (made' = made /\ FlagsKept)
      BY <3>1 DEF Effect, Passes, Pongs, Echoes, ClosesNow, AnswersClose
    <3>3. "SENT_CLOSE" \in flags'
      BY <3>2 DEF Fails, FlagsKept
    <3>4. delivered' = delivered
      BY <3>1 DEF Kept, Skips, Stores, Delivers
    <3> QED BY <3>1, <3>2, <3>3, <3>4 DEF Receiving, Kept
  <2>2. CASE Redispatch
    BY <2>2, RedispatchEffect, RedispatchKeeps DEF Receiving
  <2> QED BY <2>1, <2>2
<1>2. ASSUME NEW g \in Frame, made' = Append(made, g), g.b0 = CLOSE
      PROVE  made' # <<>> /\ made' = Append(made, Last(made')) /\ Last(made').b0 = CLOSE
  <2>1. made \in Seq(Frame)
    BY DEF IInv, TypeOK
  <2>2. made' # <<>> /\ Last(made') = g
    BY <1>2, <2>1 DEF Last
  <2> QED BY <1>2, <2>2
<1>3. CASE Fails
  <2>1. "PROCESSING_ERROR" \in flags' \ flags
    BY <1>1, <1>3 DEF Fails
  <2> QED BY <1>1, <1>2, <1>3, <2>1 DEF Fails
<1>4. CASE made' = made /\ FlagsKept
  BY <1>1, <1>4 DEF FlagsKept
<1> QED BY <1>1, <1>3, <1>4

\* After our close frame the library makes and delivers nothing of its own but
\* the close frame of an error, whichever side closed first; when the peer did,
\* the application makes nothing either (libwebsock_dispatch_message,
\* libwebsock_default_control_callback, libwebsock_make_fragment).
THEOREM ClosingIsFinal == Spec => CloseIsFinal
<1> DEFINE Ours == (\E f \in RxFrames : Receive(f)) \/ Redispatch
           Adding == \/ UNCHANGED made
                     \/ /\ "PROCESSING_ERROR" \in flags' \ flags
                        /\ made' # <<>> /\ made' = Append(made, Last(made')) /\ Last(made').b0 = CLOSE
           Final == {"CONNECTED", "SENT_CLOSE"} \subseteq flags =>
                      /\ "SENT_CLOSE" \in flags'
                      /\ UNCHANGED delivered
                      /\ Ours => Adding
                      /\ "RECEIVED_CLOSE" \in flags => "RECEIVED_CLOSE" \in flags' /\ UNCHANGED made
<1>1. IInv /\ [Next]_vars => [Final]_vars
  <2> SUFFICES ASSUME IInv, Next, {"CONNECTED", "SENT_CLOSE"} \subseteq flags PROVE Final
    BY DEF vars
  <2>1. ~ PopulateHandshake
    BY DEF PopulateHandshake, IInv, FlagsAgree
  <2>2. CASE Ours
    BY <2>2, NothingOfItsOwn DEF Kept
  <2>3. CASE App /\ ~ Ours
    <3>1. AppEffect /\ UNCHANGED delivered
      BY <2>3, CallsEffect
    <3>2. "SENT_CLOSE" \in flags'
      BY <3>1 DEF AppEffect
    <3>3. "RECEIVED_CLOSE" \in flags => "RECEIVED_CLOSE" \in flags' /\ made' = made
      <4>1. "RECEIVED_CLOSE" \in flags => ~ Writable(flags)
        BY DEF Writable
      <4> QED BY <3>1, <4>1 DEF AppEffect, Adds
    <3> QED BY <2>3, <3>1, <3>2, <3>3
  <2> HIDE DEF Final
  <2> QED BY <2>1, <2>2, <2>3 DEF Next
<1> QED BY <1>1, Invariant, PTL DEF Spec, CloseIsFinal

\* The inductive invariant: besides, the list holds the message in progress.
MessagesInv ==
  /\ MessagesIntact
  /\ "SENT_CLOSE" \notin flags => frames = Pending(rx)

\* A frame more, or none, after a close frame.
LEMMA MessagesKept ==
  ASSUME IInv, MessagesInv, Kept, rx' = rx \/ \E f \in Frame : rx' = Append(rx, f)
  PROVE  MessagesInv'
<1> DEFINE ms == Messages(rx)
<1>1. rx \in Seq(Frame) /\ delivered' = delivered /\ "SENT_CLOSE" \in flags'
  BY DEF IInv, TypeOK, Kept
<1>2. IsPrefix(delivered, ms)
  BY DEF MessagesInv, MessagesIntact
<1>3. IsPrefix(delivered', ms')
  <2>1. rx' = rx => IsPrefix(delivered', ms')
    BY <1>1, <1>2
  <2>2. ASSUME NEW f \in Frame, rx' = Append(rx, f) PROVE IsPrefix(delivered', ms')
    <3>1. PICK w \in Wholes : ms' = ms \/ ms' = Append(ms, w)
      <4>1. /\ Pending(rx) \in Seq(Frame)
            /\ ms' = IF IsData(f) /\ IsFinal(f)
                     THEN Append(ms, Whole(Append(Pending(rx), f))) ELSE ms
        BY <1>1, <2>2, MessagesAppend
      <4>2. Whole(Append(Pending(rx), f)) \in Wholes
        <5>1. Append(Pending(rx), f) \in Seq(Frame)
          BY <4>1, AppendProperties
        <5> QED BY <5>1 DEF Wholes
      <4> QED BY <4>1, <4>2
    <3>2. ms \in Seq(Wholes) /\ delivered \in Seq(Message)
      BY <1>1, <2>2, MessagesAppend DEF IInv, TypeOK
    <3> HIDE DEF ms
    <3> QED BY <1>1, <1>2, <3>1, <3>2, PrefixLonger
  <2> QED BY <2>1, <2>2
<1> QED BY <1>1, <1>3 DEF MessagesInv, MessagesIntact

\* Every message reaches the application whole, once and in order, whatever
\* its fragments and the control frames between them, and none is missing
\* until a close frame has been made (libwebsock_new_continuation_frame,
\* libwebsock_dispatch_message, libwebsock_handle_control_frame).
THEOREM MessagesWhole == Spec => []MessagesIntact
<1>1. Init => MessagesInv
  <2> SUFFICES ASSUME Init PROVE MessagesInv
    OBVIOUS
  <2>1. Messages(rx) = <<>> /\ Pending(rx) = <<>>
    BY MessagesNone DEF Init
  <2>2. <<>> \in Seq({}) /\ IsPrefix(<<>>, <<>>)
    BY PrefixSelf, EmptySeq
  <2> QED BY <2>1, <2>2 DEF Init, MessagesInv, MessagesIntact
<1>2. IInv /\ Fresh /\ MessagesInv /\ [Next]_vars => MessagesInv'
  <2> SUFFICES ASSUME IInv, Fresh, MessagesInv, [Next]_vars PROVE MessagesInv'
    OBVIOUS
  <2>0. rx \in Seq(Frame) /\ delivered \in Seq(Message)
    BY DEF IInv, TypeOK
  <2>1. CASE PopulateHandshake
    <3>1. rx' = <<>> /\ delivered' = <<>> /\ frames' = <<>>
      BY <2>1 DEF PopulateHandshake, Fresh, IInv, FlagsAgree
    <3>2. Messages(rx)' = <<>> /\ Pending(rx)' = <<>>
      BY <3>1, MessagesNone
    <3>3. <<>> \in Seq({}) /\ IsPrefix(<<>>, <<>>)
      BY PrefixSelf, EmptySeq
    <3> QED BY <3>1, <3>2, <3>3 DEF MessagesInv, MessagesIntact
  <2>2. ASSUME NEW f \in RxFrames, Receive(f) PROVE MessagesInv'
    <3>1. f \in Frame /\ rx' = Append(rx, f) /\ Effect(f)
      BY <2>2, ReceiveEffect
    <3>2. "SENT_CLOSE" \in flags => "SENT_CLOSE" \in flags'
      BY <3>1 DEF Effect, Passes, Pongs, Echoes, ClosesNow, Fails, AnswersClose, FlagsKept
    <3>3. Kept \/ Skips(f) \/ Stores(f) \/ Delivers(f)
      BY <2>2, ReceiveDelivers
    <3>4. CASE Kept
      BY <3>1, <3>4, MessagesKept
    <3>5. CASE "SENT_CLOSE" \in flags
      <4>1. Kept
        BY <3>2, <3>3, <3>5 DEF Kept, Skips, Stores, Delivers
      <4> QED BY <3>1, <4>1, MessagesKept
    <3>6. CASE "SENT_CLOSE" \notin flags /\ (Skips(f) \/ Stores(f) \/ Delivers(f))
      <4> DEFINE ms == Messages(rx)
                 ps == Pending(rx)
                 w == Whole(Append(ps, f))
      <4>1. /\ ms \in Seq(Wholes) /\ ps \in Seq(Frame)
            /\ ms' = IF IsData(f) /\ IsFinal(f) THEN Append(ms, w) ELSE ms
            /\ ps' = IF ~ IsData(f) THEN ps
                     ELSE IF IsFinal(f) THEN <<>> ELSE Append(ps, f)
        BY <2>0, <3>1, MessagesAppend
      <4>2. w \in Wholes
        <5>1. Append(ps, f) \in Seq(Frame)
          BY <3>1, <4>1, AppendProperties
        <5> QED BY <5>1 DEF Wholes
      <4>3. delivered = ms /\ frames = ps
        BY <3>6 DEF MessagesInv, MessagesIntact
      <4>4. delivered' = ms' /\ frames' = ps'
        BY <3>6, <4>1, <4>3 DEF Skips, Stores, Delivers
      <4> HIDE DEF w
      <4>5. ms' \in Seq(Wholes)
        BY <4>1, <4>2, AppendProperties
      <4>6. IsPrefix(delivered', ms')
        <5> DEFINE t == ms'
        <5>1. t \in Seq(Wholes) /\ delivered' = t
          BY <4>4, <4>5
        <5> HIDE DEF t
        <5>2. IsPrefix(t, t)
          BY <5>1, PrefixSelf
        <5> QED BY <5>1, <5>2 DEF t
      <4> QED BY <4>4, <4>6 DEF MessagesInv, MessagesIntact
    <3> QED BY <3>3, <3>4, <3>5, <3>6
  <2>3. CASE Redispatch
    <3>1. rx' = rx /\ Kept
      BY <2>3, RedispatchEffect, RedispatchKeeps
    <3> QED BY <3>1, MessagesKept
  <2>4. CASE App
    <3>1. AppEffect /\ UNCHANGED <<rx, delivered, frames>>
      BY <2>4, CallsEffect
    <3>2. "SENT_CLOSE" \in flags => "SENT_CLOSE" \in flags'
      BY <3>1 DEF AppEffect
    <3> QED BY <3>1, <3>2 DEF MessagesInv, MessagesIntact
  <2>5. CASE UNCHANGED vars
    BY <2>5 DEF vars, MessagesInv, MessagesIntact
  <2> QED BY <2>1, <2>2, <2>3, <2>4, <2>5 DEF Next
<1>3. MessagesInv => MessagesIntact
  BY DEF MessagesInv
<1> QED BY <1>1, <1>2, <1>3, Invariant, FreshHolds, PTL DEF Spec
=============================================================================
