# libwebsock in TLA+

libwebsock is a C library for WebSocket servers (RFC 6455). A host program owns
the sockets; the library is handed the bytes that were read, calls the
application's callbacks, and leaves the bytes to be written in `out_data`. This
directory models the library and the echo server that comes with it, checks the
models with TLC on small instances, and proves main results for every instance
with TLAPS.

## The system

Paths are relative to the repository; the library itself is in its directory `src/`.

| part | code | state | operations |
|---|---|---|---|
| receiving | `websock.c` `libwebsock_handle_recv`, `libwebsock_read_header` | `current_frame` (state, rawdata, offsets, sizes), `STATE_NEEDS_MORE_DATA` | one call per read; a state machine over bytes that calls a handler per complete frame |
| frame handlers | `websock.c` (`frame_lookup_table`, `dispatch_message`, `error`), `frames.c` | `flags`, the linked list of frames | `new_continuation_frame`, `dispatch_message`, `handle_control_frame`, `fail_and_cleanup`, `free_all_frames` |
| closing handshake and control frames | `default_callbacks.c`, `websock.c` | `flags`, `close_info` | the default control, close, ping and message callbacks |
| frame building | `api.c`, `websock.c` `libwebsock_make_fragment` | `flags` (`CONTINUOUS`), `out_data` | `make_ping/pong/close/text/binary...`, init/continuation/end of a fragmented message |
| UTF-8 | `utf.c`, `util.c` `validate_utf8_sequence` | the automaton's state | `decode`, one byte at a time |
| handshake | `websock.c` `libwebsock_populate_handshake`, `get_selected_subprotocol` | `flags` (`CONNECTING`), `out_data` | one call per read that parses it and makes the reply |
| SHA-1, Base64 | `sha1.c`, `base64.c` | `SHA1Context`; none | `SHA1Reset`, `SHA1Input`, `SHA1Result`; `base64_encode`, `base64_decode` |
| byte order | `util.c` | none | `lws_htobe16/64`, `lws_be16/64toh` |
| echo server | `examples/autobahn-echo.c` | sockets, processes, a `libwebsock_client_state` each | accept, fork, read, handshake or `handle_recv`, write |
| the rest | `logger.c`, `openssl.c`, `util.c` allocation wrappers, the other examples | - | - |

**How they interact.** Within a connection everything happens in calls made by
one thread of the host: `handle_recv` -> handler -> callback -> `make_*` ->
`out_data`. Connections are processes of their own in the echo server; parent and
children share descriptors only. Within a connection the hard part is
*sequences*: one word of flags is shared by the receiver, the handlers, the
callbacks and the application's calls, in any order the peer, the cutting of its
bytes into reads, and the application choose. Around it there is real
concurrency: main, its children and the clients.

**What is hard**, each at its line under "hazards" in `PROJECT.json`:

- control frames anywhere between the fragments of a message, read into the same
  `current_frame` object; the flag that selects half of the lookup table;
- frames that an error frees while three callers hold them;
- reads that end anywhere, with parts of several frames, or of a request, in one read;
- two close frames in either order, errors, callbacks and application calls that
  close, frames that arrive after our close frame;
- values from the peer that are stored before they are checked and sent back;
- the host's reading of `-1`, `0` and `NEEDS_MORE_DATA`;
- widths, signs, bounds and growth of buffers; padding and rests at block borders;
- descriptors that two processes hold and each must close.

## The modules

| module | models | extends / uses |
|---|---|---|
| `Utf8` | the decoder's table and `validate_utf8_sequence` as operators | |
| `Utf8Validator` | the same, fed byte by byte, against a reference definition of UTF-8 | `Utf8` |
| `Connection` | one connection, a frame per step: handlers, callbacks, API | `Utf8`; `Endpoint` by refinement |
| `Endpoint` | the abstract connection: phases, inbox, outbox | |
| `FrameList` | the frames of the connection as objects with links | `Connection` |
| `Receiver` | `handle_recv`, a byte or a run of payload bytes per step | `Connection`, which it also implements |
| `EchoHost` | the loop of `autobahn-echo.c` around one connection, with fairness | `Receiver` |
| `Server` | main of `autobahn-echo.c`: accept, fork, descriptors, with fairness | |
| `Handshake` | the request in any reads, subprotocols, blocks, the reply | |
| `Accept` | the accept value, from the key to the text | `Sha1`, `Sha1Compress`, `Base64` |
| `Sha1`, `Sha1Compress` | the stream of `sha1.c`; the compression of one block | |
| `Base64`, `Base64Codec` | `base64.c`; bytes and text for it, against a definition in bits | |
| `OutData` | the bytes of `out_data`, its limits, the returned int | |
| `FrameSize` | the size arithmetic of `read_header` | |
| `ByteOrder` | the conversions of `util.c` | |
| `MC*` | inputs and bounds for TLC; `MCParts` puts the parts that share no state in one run | |
| `Filter` | the elements of a sequence that are in a set, in a form that can be reasoned about | |
| `SequenceLemmas` | induction up to a number, what loops go through, facts about `Min`, `FlattenSeq`, `Filter`, `SubSeq`, `IsPrefix` | `Filter`, theorem modules of the library |
| `Utf8Proofs`, `ConnectionProofs`, `FrameListProofs`, `ReceiverProofs`, `ServerProofs`, `HandshakeProofs`, `PartsProofs` | theorems and proofs | each extends the module it is about and `SequenceLemmas`; `FrameListProofs` and `ReceiverProofs` (about `Receiver` and `EchoHost`) also extend `ConnectionProofs`; `PartsProofs` is about `Sha1` and, by INSTANCE, `ByteOrder` and `OutData` |

In every module an operator named after another with a suffix is a plausible error in
it; "mutants" in `PROJECT.json` says which property each of them breaks.

### Connection and the code

`flags` is the set of the bits that are up (`client_state.flags`; the bits that
nothing reads are left out, and `STATE_NEEDS_MORE_DATA`, which concerns bytes, is
a variable of `Receiver`). `frames` is the list of complete frames that ends in
`current_frame`; `stuck` says that `current_frame` is itself complete, which
happens when `dispatch_message` returns early after our close frame. `close_info`
is the struct or `None`. `retval` is what the last handler returned. `made`,
`delivered` and `rx` are histories (frames appended to `out_data`, messages given
to `onmessage`, frames whose handler ran): properties read them and so does the
bound, the code's decisions never do.

`Receive(f)` is `frame_fn(state)` for a complete frame: `Handler` is the lookup
table, and `Control`, `NewContinuation`, `Dispatch` and `Fail` are its four
entries with everything they call. An operator that takes `fl` is a call made
when the flags are `fl`: earlier assignments of the same handler may have changed
them (`Error` sets `PROCESSING_ERROR` before its close frame is made). Every call
of `api.c` is an action; the application is taken to call the continuation
functions in the order their names give. `PopulateHandshake` models only the
effect of a successful handshake on the flags, an assignment that also clears
what calls made earlier had set. `OnMessage` chooses among four callbacks that
the constant `Callbacks` enables: the default one, that of `autobahn-echo.c`, one
that closes, one that fails. The echo callback ends without a return statement
(`autobahn-echo.c:100`); its caller gets what the register of the result holds, in
gcc's builds the result of the `make_*` call before, and the model says so. `onpong`
and the fragment callbacks are not installed.

`MaxControl` is 125 in the code and 5 in the runs, so that a control frame that
is too long stays short; `InvalidCode` compares with the code's own numbers.

### FrameList and the code

`FrameList` extends `Connection` with the heap: `mem.object` are the
`libwebsock_frame`s ever allocated with `prev`, `next` and whether they live,
`current` is `current_frame`. An address is never reused, so an access or a free of a
freed object is seen (`mem.fault`). Each handler does with the links what its C code
does - `free_all_frames` walks back to the head and forward from it, `cleanup_frames`
forward from the first - while `Connection` decides which way it goes; `LinksAreFrames`
ties the links to the sequence. `Destroy` is `libwebsock_client_destroy` between calls.

### Receiver and the code

`wire` is what the peer has sent and the host has not read, `buf` the rest of the
`data` argument of the running call, `current` is `current_frame` with the fields of
`libwebsock_frame` (`raw` is `rawdata`, `rawdata_idx` its length). One step is one
round of the loop: `HeaderIncomplete`, `PayloadIncomplete` (the `memcpy` of all the
bytes that are left) or `FrameComplete` (the `memcpy` of the missing ones, the
handler, `CurrentAfter`); `Return` and `ReturnIgnoring` leave the call.
`read_header`'s falling-through `switch` is the composition
`GotFullLen(GotShortLen(GotTwo(c)))`. The peer encodes any of the three forms of length.

A frame left in place by `dispatch_message` (`stuck`) takes every later byte:
`PayloadIncomplete` and `FrameComplete` store it at the end of `raw` and call the handler again, and
nothing enlarges the block, as `read_header` is not called. `StoredBytesFit` says of such a
frame how far it has grown; that it outgrows its block is `RawdataHolds`, see Findings.

Assumed of the environment: the peer masks its frames, goes on after its own
close frame only once that frame has been handled (or nothing is cut into frames any more:
bytes of the same read would be dropped with a result of -1, and what follows
would be cut in the wrong places), encodes a length in a form that can hold it, and sends no frame whose size
exceeds 2^30 (the larger ones are those of `FrameSize`); the host reads at least a byte at
a time. These and `ChunkLength` >= 15 (a whole header fits in a new frame; 1024 in the code)
are the ASSUMEs of the module. The handshake is a step of its own.

### EchoHost and the code

`host` is where the server's loop is, `written` how many of the frames made have
left `out_data` (which is what is made and not written), `line` what has become of
the peer. `PeerFallsSilent` drops the end of what is on the wire: the read that led
to an answer may end inside a frame whose rest never comes. The
precedence of `flags & STATE_NEEDS_MORE_DATA == 0` at `autobahn-echo.c:58` makes
the test one of the constant 0; `HostSkips` is that code, not the intended one: after `-1`
nothing is written and nothing closed. A write is whole or fails: the socket blocks
and the program handles no signal, so `write` has no reason to return early.
`out_data` is freed in both cases.

### Server and the code

The processes are `Parent` (main) and one per client; `fds[p]` is the table of
descriptors of process p, which `Fork` copies. `Accept` takes the least free
descriptor, `ParentCloses` and `ChildStarts` are the two branches after `fork`,
`ChildCloses` is the end of `do_processing` and `ChildExits` that of the process.
Errors of `accept` and `fork` end the parent, as in the code. `MaxProcesses` is the
system's limit; a child nobody waits for counts against it for good.

### Handshake, Accept, SHA-1, Base64 and the code

In `Handshake` a request is a sequence of lines and a read is any part of it, which
may end inside a line; each read is parsed on its own, as the code does, and `-1`
closes the connection. A list of subprotocols is a sequence of tokens with widths:
the code cuts at the comma and trims nothing. `KeyLine` and `ProtocolLine` are the two
branches of the loop, `Parsing` what it has kept after each line, `Selected` is `get_selected_subprotocol`, `TokensRead` what it
may see when the list fills its array to the last byte and is not terminated. `heap`
holds the blocks of the keys and of `out_data`.

`Accept` runs the steps of `websock.c:585-600` on ASCII codes: put together, hash,
print in hexadecimal, scan back, encode. A word of SHA-1 is a pair of halves of 16
bits, since TLC's integers have 32. `Sha1` is the stream alone, `Sha1Compress` the
code's compression (and, as the reference, the other method of FIPS 180-1).
`Base64` is `base64.c` loop by loop; `EncodingIsBase64` compares it with a definition
by bits.

### OutData, FrameSize, ByteOrder and the code

`OutData` is `make_fragment`'s bytes in a base other than 256: `BASE`, `SMALL` (125)
are parameters from which the forms' limits, `0xfffffff0` and the int returned are
derived as in the code. `FrameSize` is what `read_header` does with a length in
`unsigned` and `int` of `BITS` bits: the cut to the low half, the sum, the rounding up
by shifts, whose overflow is a choice over what builds produce, and `lws_realloc`. Lengths for
which the sum of header and payload wraps are among the inputs: `SizeHolds` tells them apart. In
`ByteOrder` a word is the set of the places of its ones, so that shifts and masks are
operations on sets and 64 bits fit.

## The runs

Every run is exhaustive for its bounds. Deadlock is not checked, because every
bounded instance stops where its bounds are reached and the server's processes exit.

| run | bounds | shows |
|---|---|---|
| `utf8` | strings of up to 4 bytes over 20 bytes, at the ends of every class of the table | accepts exactly the strings that an independent definition of UTF-8 accepts, and refuses at the first impossible byte |
| `closing` | 3 frames out of 18, every callback, an application that makes every call at any point until 3 frames are made | `CloseFramesLegal`, `AnswerEchoesCode`, `CloseIsFinal`, `FlagsAgree`, `StuckFrame`, the refinement `EndpointSpec`; and `OutputWellFormed`: a continuation frame exactly after a frame that announced one, with echoes, pongs and close frames in between |
| `chunks` | 3 frames of 7 kinds, in all forms of length, cut into reads in every way, an application and a callback that close | `EveryFrameHandled`, `StoredBytesFit`, `IncompleteIsReported`, `MinusOneExplained`, and the refinement `ConnectionSpec` |
| `echo_server` | 2 frames of 8 kinds, cut anywhere; the peer falls silent, in the middle of a frame too, or hangs up anywhere | liveness: `AnswersAreWritten`, `FailureCloses`, `HangUpEnds`; safety: `EchoInOrder` |
| `frame_list` | 5 frames of 16 kinds, two callbacks, 4 frames made, an application that sends; destruction at any point | `MessagesIntact`, `PongsAnswerPings`, `FragmentState`: fragments, text split inside a character, NUL bytes in payloads, too long a ping, bad first bytes; `MemorySafe`: no use after a free, no double free, no leak; `LinksAreFrames`; `OneClose`: one close frame at most if the application makes none |
| `handshake` | up to 4 headers in any order, two keys among them, a list buffer of 8, reads cut anywhere | `ReplyAnswersRequest`, `FailureLeavesNothing`, `MemoryRight` |
| `parts` | the parts that share no state, each in its own behaviours (next table) | |
| `ignored_data`, `acknowledged` | 3 frames out of few, the default callback, an application that closes | violations, see Findings |
| `close_answer`, `stored_bytes` | as `chunks`, over fewer kinds of frames | violations, see Findings |
| `huge_lengths` | as `parts` | a violation, see Findings |

The parts of `parts` (a behaviour runs one of them and leaves the others as they
began, so that the states add up instead of multiplying):

| part | bounds | properties |
|---|---|---|
| `Server` | 4 clients, 2 free descriptors, 3 processes | `OwnSocketOnly`, `NoDescriptorLeaks`; liveness: `ConnectionsEnd`, `ClientsServed` |
| `Sha1` | bytes of 2 bits, words of a byte, blocks of 5 bytes, at most 10 bytes in chunks of 0-5 | `DigestOfMessage`: with carries between the words of the length, a block too full for the padding, too long a message, use after the end |
| `Accept` | real sizes: the key of RFC 6455, and keys that put the end of the message on both sides of every limit of one, two and three blocks | `AcceptOfKey` |
| `Base64` | up to 5 bytes of 6 values; texts of up to 6 characters of 5 | `Base64Correct` |
| `OutData` | base 4 instead of 256, limit 5 instead of 125, 3 frames of 13 lengths, reasons of 0-3 | `StreamParses`, `ResultTells` |
| `FrameSize` | an unsigned of 7 bits, `ChunkLength` 16, all lengths of the three forms, those included whose sum with the header wraps | `FrameFits`: the block is long enough for every frame whose size an unsigned can hold, whatever was asked of it before, and always for the size computed |
| `ByteOrder` | words of 16 and 64 bits with up to two ones (`BytesReversed` is proved for all) | `BytesReversed` |

*Why the bounds are enough.* A handler's decision depends on the flags, on whether
the list is empty and on the frame. Two fragments and a final one with a control
frame in between is four frames, so five reach every combination of list and flag,
and what follows it; a closing handshake is two close frames and what comes between
and after. In `Receiver` three frames give "a frame, a cut frame, and one that
reuses its object"; payloads of 1, 2 and 12 bytes with `ChunkLength` 16 (1024 in
the code) lie below and above the first size of `rawdata`; the three forms of
length give every offset of the mask. `ReadMax` 64 exceeds what one frame takes, so
several frames come in one read. The mask's bytes differ, and one is above 127
(the code's `char` is signed). In `Handshake` the widths make lists that fit, that
fill the buffer with the joining comma, and that do not fit. Four clients on two
descriptors and three processes exhaust both. Where numbers are scaled
down (`Sha1`, `OutData`, `FrameSize`) every limit of the code is derived from the scaled
constants by the code's own formula, and the inputs lie on both sides of each.

*Fairness.* `EchoHost`: the server is a process of its own, so each step it can
take is taken: weak fairness of the handshake, of reading, of what it does with a
result, and of ending. Nothing is assumed of the peer. A running `handle_recv` goes
on to its end; that conjunct is written as `[]<>(call = "none") \/
[]<><<HostCall>>_hostVars`, which is weak fairness of `HostCall` with ENABLED
spelled out (a running call always has a next step), because TLC's own evaluation
of ENABLED for an action with so many nested definitions does not end. `Server`: main
and every child are scheduled by the system, hence weak fairness of `Main`, of each
`ChildStarts` and of each `ChildExits`. No client is assumed to
connect, and no connection to come to an end by itself.

## What is proved

`ConnectionProofs` proves, for every set of frames and calls, every choice of
callbacks and every bound - the assumptions are those stated in `Connection`:
frames are bytes, codes are 16 bits, bounds are natural numbers -

- `TypeCorrect`: `Spec => []TypeOK`. Its least obvious part is that what is
  delivered has opcode 1 or 2: it needs the first frame of the list to be one
  with an opcode, which needs the flag and the list to agree;
- `FragmentsAgree`, `FlagsCorrect`, `StuckCorrect`: the invariants `FragmentState`,
  `FlagsAgree`, `StuckFrame`;
- `Implements`: `Spec => EndpointSpec`, the connection implements the abstract one;
- `ClosingIsFinal`: `CloseIsFinal`. After a close frame of ours, whichever side closed
  first, no message is delivered, and the library makes nothing of its own but the close
  frame of an error (lemma `NothingOfItsOwn`, over every handler); once the peer's close
  frame was answered nothing is made at all, the application's calls included. Closes in the
  other order do not have this last part, see `acknowledged` under Findings.

*The inductive invariant* is `IInv == TypeOK /\ FragmentState /\ FlagsAgree /\
StuckFrame`; none of the parts is inductive alone. `FragmentState` is about states
that are not stuck, and the step out of a stuck state must clear the list
(`StuckFrame` says the frame is final, so it is dispatched again or refused);
`StuckFrame` needs to know that an error ends all receiving; `FlagsAgree` gives that
a close frame received was answered, without which an error after both close
frames could not be told from one before. There is one lemma per handler and per
kind of call; each gives the invariant after the step and the abstract step
(`AStep`) at once, since both depend on the same facts. `ListKept` and
`SendStep` serve all steps that leave the list of frames alone.

It also proves what the three histories say. With it every safety invariant and
action property of `Connection` that a passing run checks is a theorem:

- `ClosesLegal`: `LegalCloses /\ Spec => []CloseFramesLegal`. `LegalCloses` is about
  the application: its own closes have a legal code and a UTF-8 reason of at most
  `MaxControl` - 2 bytes, and `MaxControl` is at least 2; of the peer nothing is
  assumed. `CloseInv` adds that a reason in `close_info` fits in a control frame. That
  a *code* there is legal is not invariant: `close_info` keeps a refused one, and the
  proof has to use that it is checked each time before it is sent. Lemmas: a string cut
  at its NUL has none and stays UTF-8, the empty text is UTF-8, two bytes of code read
  back as the code.
- `MessagesWhole`: `Spec => []MessagesIntact`. `MessagesInv` adds that before a close
  frame was made the list of frames is `Pending(rx)`, the data frames after the last
  final one. Lemmas say what one more frame does to the reference definition:
  nothing (a control frame), `Pending` grows, or `Messages` grows by `Pending` put
  together and `Pending` is empty again.
- `PingsAnswered`: `"pong" \notin AppCalls /\ Spec => []PongsAnswerPings`; an
  application may send pongs nobody asked for, and then the two histories differ.
- `AnswersEchoCode`: `Spec => []AnswerEchoesCode`. `AnswerInv` adds that until a close
  frame is made none was received and `close_info` is empty, so it is filled from
  the first; `Fresh` (nothing is received before the handshake, which *assigns* the flags)
  is an invariant of its own.
- `OneCloseMade`: `NoCloses /\ Spec => []OneClose`, if neither the application nor its
  callback closes. `OnceInv`: `SENT_CLOSE` means that an error or the peer's close
  frame came first, each of which bars the other.
- `OutputParses`: `Spec => []OutputWellFormed`, inductive with the invariant above.

All but the first rest on one view of a step, `Effect` (for a frame that is handled) and
`AppEffect` (for the application's calls): what is made, and what becomes of the flags and
`close_info`, whichever of the nested handlers is taken. `ReceiveEffect`, `RedispatchEffect`
and `CallsEffect` prove that every step has one of these effects, `ReceiveDelivers` does the
same for what is delivered, and each theorem is a case split over them.

`ReceiverProofs` goes down to the bytes: for every set of frames with payloads of any
length up to 2^30, every mask, all forms of length, every cut into reads and every
size of read,

- `FramesHandled`: `EveryFrameHandled`, the frames handled are the frames sent, in order
  and unmasked, and before a close frame is made a call returns only when every
  complete frame was handled;
- `StoredFits`: `StoredBytesFit`, of frames being received and, for those left in place
  after our close frame, by how much they have grown; `PartialIsReported`: `IncompleteIsReported`;
  `MinusOneIsExplained`: `MinusOneExplained`;
- `FramesAreHistory`: `ConnectionSpec`. Every theorem about `Connection` is with it one
  about a connection that reads bytes;
- `EchoesInOrder`: `Echoing => (HostSpec => []EchoInOrder)`, the echo server writes back the
  messages it was sent, whole, once and in order, wherever its peer falls silent or
  hangs up.

*The inductive invariant* is `RInv(lost)`, in five parts. `IInv` is that of
`Connection`. `StateInv` says what the state of the current frame means: `HeaderState`
relates `state`, `mask_offset`, `payload_len` and the size of `rawdata` to the bytes stored and the
frame they are the first of, `ReportInv` what the flag and the result will have to say
when the call returns, wherever in the loop it is. `Chain(r)` names the bytes of the
frames from each one on. `InPlace(r, lost)` is the heart: the bytes stored, those
not looked at, those not read and those that never arrive are, joined in this order, the bytes of
the frames not handled yet. A step of the loop moves a byte, or a run of them, from one of
these to the one before it (`HeaderStep`, `PayloadStep`), or takes a frame off the front
(`CompleteStep`), which shows that it was decoded as it was encoded (`FrameDecoded`). None of this holds while
a frame is left in place by `dispatch_message` or after an error, when bytes are
no longer cut into frames (`Aligned`). For the first of these there is `LeftInv(lost)`: a frame
left in place had room for itself, has grown by every byte looked at since it was
complete, and never makes the loop end early. `lost` is empty unless the peer falls silent.

The theorems assume `Steady`: no callback fails, and an application whose callback
echoes does not begin fragmented messages of its own, during which an echo is refused. In both cases the
handler returns -1 and `handle_recv` drops the rest of what it was given without
a close frame having been made (in the middle of a frame, possibly), so that bytes are lost
for good and the properties do not hold.

`EchoesInOrder` assumes `Echoing`, what `autobahn-echo.c` does: its callback echoes, and it
makes no frames beside. `HostInv` is `RInv(lost)` for some `lost` that is
empty while the peer sends, with `EchoInv`: the data frames made, read as messages, are
the messages delivered. A step makes control frames only, or delivers one message
and makes one frame of it, under the same test of `SENT_CLOSE`; every
handler is shown to do one or the other (`ReceiveEchoes`, `RedispatchEchoes`). The property follows along a
chain of prefixes: the messages written are the first of those made, which are those delivered,
which are the first of those in the frames handled (`MessagesWhole`, carried to `HostSpec`
because every step of the host is one of `Connection` or changes nothing there), and these the first of
those in the frames the peer sent (`RInv`).

Lemmas on the way: a byte is the sum of its bits and two masks in a row undo each other
(`BitsOfSum`, `XorTwice`), a length is read back from its bytes in each form (`LengthRead`),
the falling-through `switch` finds the header's end in one or several calls (`HeaderRead`), the next power
of two is enough (`PowerIsEnough`), and bytes can be moved between joined sequences
(`MoveHead`, `MovePart`, `Grouped`).

`ServerProofs` proves `OwnSocketOnly` (`ChildrenApart`: a child of the echo server
holds the socket of its own connection and no other) and `NoDescriptorLeaks` (`ParentKeepsNothing`) for
any number of clients, descriptors and processes. Both follow from what each process holds
at each place of its program (`ParentFiles`, `ChildFiles`); a child's table is a copy of
the parent's, so neither is inductive without the other.

`FrameListProofs` proves of the heap, for every sequence of frames and calls and a
destruction at any point between two,

- `MemoryImplements`: `MemSpec => Spec`, each handler with its frames in memory is the
  handler of `Connection`, so that every theorem above holds of it too;
- `MemoryCorrect`: `MemorySafe`; `LinksCorrect`: `LinksAreFrames`.

The invariant is `MemInv`: either everything is freed, or the objects from `ListHead` to
`current` live and are linked in both directions (`Linked`), all others are dead, and the
frames of `Connection` are in them in their order. In `Adjacent` every link is NULL or leads to the
object allocated before or after, and this is what makes the walks of the code terminate: a
walk from x of k steps is at x - k or x + k, or at NULL. `FirstOfList` and `ForwardFromFirst`
prove by induction over the steps that the walks reach the head and every live object
once; `CleanupFreesAll` and `FreeAllFrees` that what they free lived until then, and that nothing is left.

`HandshakeProofs` proves, for requests of any number of lines in any order, every cut and every
table of subprotocols,

- `NothingAfterFailure`: `FailureLeavesNothing`;
- `RepliesAnswer`: `ReplyAnswersRequest`; `HandshakeMemory`: `MemoryRight`.

`HInv` says that a request is read once, and that a reply `Answers` it. What the loop over the
lines keeps (the key, the number of bytes and the tokens of the joined list) is shown by induction
over the lines (`Parsed`): what is kept after n lines is what the reference definition
takes from the first n, and the list never outgrows its array.

`PartsProofs` proves of `Sha1`, for every size of bytes, words and blocks with room for the
length in a block (`SizesAssumption`), every compression and every chunk,

- `StreamDigest`: `TypeOK`, `DigestOfMessage`, `BlockIsRest` and `CorruptedExactly`.

`Streams(c, t, n)` is the heart: the context c has taken in the first n bytes of t. Its two
words hold the length (`Counted`, with the carry in `CountNext`), its digest is that of
the whole blocks (`Hashes`), and its block is the rest. One byte more keeps this or makes the context
`Full` (`StreamsNext`), hence any number of bytes does (`StreamsOn`), in however many calls.
`PadMessageDigest` shows that both forms of padding give the bytes of the reference
definition: the least number of zeros is found from the place in the block (`ZerosNeeded`), and
the length is read from the two words. Of `ByteOrder` it proves `Reverses`, that the conversions
reverse the bytes of every word of 16 and 64 bits and undo themselves: what a shift and
a mask do to the place of a one is linear arithmetic per byte.

Of `OutData` it proves, for every base, every limit `SMALL` below the range of a short, and any lengths of
an unsigned,

- `OutputReadsBack`: `StreamParses` and `ControlFramesShort`;
- `ReturnTells`: `ResultTells`.

`OutInv` says that there are places in `out_data`, one per frame made and one behind the last
(`Layout`), between which the bytes of that frame lie (`Lies`); a step adds a place and moves none
(`LayoutLonger`). A header tells its own length and that of its payload, in each of the three forms
(`HeaderTells`; the digits written by divisions are read back by products in `ReadTwo` and `ReadFour`), so the reference
finds at a place the frame that lies there (`ReadsFrame`), and by induction from the last frame to the first,
all of them (`LayoutParses`). That a walk over the bytes, whatever they are, ends and
has a value is `WalkExists`.

`Utf8Proofs` proves, for strings of any length over any bytes,

- `TypeCorrect` (the automaton never reads outside the table) and `RefusalIsFinal`;
- `ValidatesUtf8`: `validate_utf8_sequence` accepts a text exactly when it is well-formed UTF-8 up
  to its first NUL byte; `Utf8Correct`: `AcceptsExactlyUtf8`, which adds that a text is refused at the
  first byte after which nothing can make it UTF-8.

The table is read off once, by class of byte and state (`LeadStates`, `MarkStates`, `Tables`). `CharacterEnds`
then says of a text, by induction over its length, that the automaton is at `ACCEPT` after n bytes
exactly when the first n are characters, and in between exactly when an
encoding begun may still be completed.

`SequenceLemmas` proves what the library does not: the least element of a set of
naturals is what `Min` returns, concatenating sequences over S with `FlattenSeq`
gives a sequence over S, and what `Filter` does to an appended element. The recursive
functions inside `FlattenSeq` and `Filter`, and those of the models, are CHOOSEs: that an equation like theirs
has a solution is shown by building it step by step (`TraceExists`) or by a least counterexample.

*Induction over data.* The library's induction theorems take an operator as a parameter
and cannot be used here. `InductionUpTo` says the same of a set: if 0 is in S, and with every k - 1
also k (k from 1 to n), then all of 0..n is in S; it follows from the least element that is not. With S the set of
the lengths for which a statement holds, this is the induction over the bytes of a
text, the lines of a request, the steps of a walk, and the blocks of a message used above.

*Only model-checked*: `AcceptOfKey` (the real compression is made of bitwise operators, which the
prover does not have), `FrameFits` (the same), `Base64Correct`, `TypesOK` but for
`Sha1`'s part, and all liveness: that and ENABLED are out of the prover's reach. A theorem that has no
ASSUME of its own holds under those of its module, which the runs evaluate.

## Findings

1. `ignored_data`: after our close frame a message that completes is left in place
   as `current_frame`, though the log line says "nothing to do" (`websock.c:180`). If we
   close first, in the middle of a message of the peer, its final frame is a
   continuation; the next byte of the peer looks 0x80 up outside a fragment, and the
   connection fails with 1002 and a second close frame. The peer broke no rule.
2. `acknowledged`: `make_fragment` refuses with "the close frame has been sent/received"
   when both flags are up (`websock.c:303`). If we close first, the peer's answer is
   taken for an "acknowledgement" (`default_callbacks.c:142-148`) and sets no flag: frames,
   a second close frame among them, are still made.
3. `close_answer`: with a frame left in place the peer's close frame is never seen: its
   bytes are appended to that frame. The host waits for the peer to hang up.
4. `stored_bytes`: the bytes a peer goes on sending behind a frame left in place are stored
   in its block (`websock.c:447`), which nothing enlarges any more, until they no longer fit
   (1024 in the code, for a short message; 16 in the run). A peer with messages on their
   way when our close frame arrives does this.
5. `huge_lengths`: the code that makes frames supports no payload over 0xfffffff0 bytes
   (`websock.c:336`); the code that reads them does not look, and for a length just below
   2^32 the sum at `websock.c:100` wraps and the block is not enlarged.

Met while reading or modelling, and not given a run of their own:

- an illegal close code, a control frame that is too long, and bad UTF-8 fail the
  connection without `SHOULD_CLOSE`, so the server waits for the peer to hang up;
- after `-1` (also that of a second or acknowledging close frame) the bytes behind the
  frame are dropped and the server does not write;
- `STATE_NEEDS_MORE_DATA` is also set after a complete control frame with nothing missing, as
  the emptied frame it leaves is in an early state, where the comment at `websock.c:489` says
  "didn't get the full length"; a host that reads until it is clear waits for the next frame;
- after both close frames, the peer's first, a bad first byte sets `SHOULD_CLOSE`, but no
  close frame can be made and the result is -1; the server then neither writes nor closes
  (`autobahn-echo.c:56-65`) until another byte comes or the peer hangs up. `FailureCloses`
  therefore promises the end only of connections whose peer has not closed;
- the application's frames are made after our own close frame, as only both flags
  stop `make_fragment`; a text payload is checked as UTF-8 only up to its first NUL byte;
- a second key header overwrites the pointer to the first one's block (`websock.c:551`),
  which is never freed, where `README.md:14` says "Valgrind clean"; `MemoryRight` asks that no
  block is lost only of requests with one key at most, the runs have others too;
- a reason of 124 to 126 bytes makes a close frame longer than 125 bytes (`api.c:85`), which
  the library itself would refuse to receive (`default_callbacks.c:79-81`);
- `base64_decode` never returns -1 for malformed text, though `base64.c:166` announces it: it
  returns what it had converted before;
- a request that arrives in two reads is refused, as each is parsed on its own;
- children are never waited for, so that the server ends once `fork` fails;
- `onmessage_callback` of the echo server has no return statement (`autobahn-echo.c:100`).

## Not modelled

`logger.c` (output only); `openssl.c` (an earlier API, not built); `echo.c` and
`upload.c` (an earlier API); `util.c`'s wrappers of `malloc` except `lws_realloc`
where a size makes it fail; allocation failure otherwise (the wrappers exit the
process); bytes that share a read with a close frame that ends the call (they are dropped, and
what follows is cut in the wrong places); keys and reasons longer than the buffers they are copied to, and the high half of a 64-bit length beyond its being dropped: the
code has no defined behaviour or no check there; the wording of the handshake's reply; the
setting up of the listening socket.

## Plan

Done: `Utf8`; `Connection` with `Endpoint`; `Receiver`; `EchoHost` with liveness; the handshake
with SHA-1 and Base64; `FrameList`; `OutData`, `FrameSize`, `ByteOrder`; `Server`; the proofs
above. Left, in this order:

1. `Base64`: that the encoder's loops are the definition by bits, with division in place of shifts.
2. Allocation failures that are handled (`FrameSize` has the one a size can cause).
