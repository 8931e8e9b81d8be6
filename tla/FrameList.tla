------------------------------ MODULE FrameList ------------------------------
(***************************************************************************)
(* The frames of a connection as objects in memory: current_frame, the     *)
(* links prev_frame and next_frame, and what is allocated and freed by     *)
(* handle_recv, the handlers of frames.c and websock.c and                 *)
(* libwebsock_client_destroy.  It is composed with Connection, which keeps *)
(* the same frames as a sequence and decides which way each handler goes;  *)
(* here each way is the code's own walk through the links.                 *)
(*                                                                         *)
(* An object stands for a libwebsock_frame and its rawdata, which are      *)
(* allocated and freed together.  An address is used once, so that a use   *)
(* of a freed object is seen as one.                                       *)
(***************************************************************************)
EXTENDS Connection

NULL == 0

VARIABLES
  mem,        \* the objects ever allocated: [prev, next, live, frame], and a fault
  current,    \* current_frame
  destroyed   \* libwebsock_client_destroy has run

memory == <<mem, current, destroyed>>
memVars == <<vars, memory>>

Objects == DOMAIN mem.object

MemInit == /\ Init
           /\ mem = [object |-> <<>>, fault |-> FALSE]
           /\ current = NULL
           /\ destroyed = FALSE

-----------------------------------------------------------------------------
(* Memory.  Every access of an object that is not live, and every free of  *)
(* one, is a fault.                                                        *)

Live(m, x) == x \in DOMAIN m.object /\ m.object[x].live

Touch(m, x) == IF Live(m, x) THEN m ELSE [m EXCEPT !.fault = TRUE]

Unlinked == [prev |-> NULL, next |-> NULL, live |-> TRUE, frame |-> None]
Alloc(m) == [m EXCEPT !.object = Append(@, Unlinked)]
Allocated(m) == Len(m.object) + 1

Free(m, x) == IF Live(m, x) THEN [m EXCEPT !.object[x].live = FALSE]
                            ELSE [m EXCEPT !.fault = TRUE]

\* The object at the head of the list x is in: the walk along prev_frame.
First(m, x) ==
  LET f[y \in DOMAIN m.object] ==
        IF m.object[y].prev = NULL THEN y ELSE f[m.object[y].prev]
  IN  f[x]

\* The objects from x on along next_frame.
Forward(m, x) ==
  LET f[y \in {NULL} \cup DOMAIN m.object] ==
        IF y = NULL THEN <<>> ELSE <<y>> \o f[m.object[y].next]
  IN  f[x]

\* libwebsock_cleanup_frames, and the second half of free_all_frames
CleanupFrames(m, first) ==
  LET list == Forward(m, first)
      freed[n \in 0..Len(list)] == IF n = 0 THEN m ELSE Free(freed[n - 1], list[n])
  IN  freed[Len(list)]

\* libwebsock_free_all_frames
FreeAll(m) == IF current = NULL THEN m ELSE CleanupFrames(Touch(m, current), First(m, current))

-----------------------------------------------------------------------------
(* What each handler does, m being the memory with the frame it is called  *)
(* for stored in current_frame.                                            *)

\* libwebsock_error
ErrorFrames(m) == mem' = FreeAll(m) /\ current' = NULL

ContinuationUnlinked(m) ==
  /\ mem' = [Alloc(Touch(m, current)) EXCEPT !.object[current].next = Allocated(m)]
  /\ current' = Allocated(m)

\* libwebsock_new_continuation_frame
ContinuationFrame(m) ==
  /\ mem' = [Alloc(Touch(m, current)) EXCEPT !.object[Allocated(m)].prev = current,
                                             !.object[current].next = Allocated(m)]
  /\ current' = Allocated(m)

\* libwebsock_dispatch_message: nothing after our close frame; an error if
\* the text is not UTF-8; else the frames are freed from the first on.
DispatchFrames(m) ==
  \/ /\ stuck'
     /\ mem' = m
     /\ UNCHANGED current
  \/ /\ ~ stuck' /\ "PROCESSING_ERROR" \in flags'
     /\ ErrorFrames(m)
  \/ /\ ~ stuck' /\ "PROCESSING_ERROR" \notin flags'
     /\ mem' = CleanupFrames(m, First(m, current))
     /\ current' = NULL

ControlFrameCached(m) ==
  \/ /\ "PROCESSING_ERROR" \in flags'
     /\ mem' = [Touch(FreeAll(m), current) EXCEPT !.object[current].frame = None]
     /\ current' = NULL
  \/ /\ "PROCESSING_ERROR" \notin flags'
     /\ mem' = [Touch(m, current) EXCEPT !.object[current].frame = None]
     /\ UNCHANGED current

\* libwebsock_handle_control_frame: after the callback, current_frame is
\* read again and emptied if an error has not freed it.
ControlFrame(m) ==
  \/ /\ "PROCESSING_ERROR" \in flags'
     /\ ErrorFrames(m)
  \/ /\ "PROCESSING_ERROR" \notin flags'
     /\ mem' = [Touch(m, current) EXCEPT !.object[current].frame = None]
     /\ UNCHANGED current

HandlerFrames(m, f) ==
  \/ HandlerOf(f) = "control" /\ ControlFrame(m)
  \/ HandlerOf(f) = "continuation" /\ ContinuationFrame(m)
  \/ HandlerOf(f) = "dispatch" /\ DispatchFrames(m)
  \/ HandlerOf(f) = "fail" /\ ErrorFrames(m)

-----------------------------------------------------------------------------
(* The steps.                                                              *)

\* The first byte of a frame, when there is none to store it in.
StoreFirstByte ==
  /\ ~ destroyed /\ Receiving /\ current = NULL
  /\ Len(rx) < MaxRx
  /\ mem' = Alloc(mem)
  /\ current' = Allocated(mem)
  /\ UNCHANGED <<vars, destroyed>>

\* The last byte of a frame: handle_recv calls the handler.
ReceiveInto(f) ==
  /\ ~ destroyed /\ current # NULL
  /\ Receive(f)
  /\ HandlerFrames([Touch(mem, current) EXCEPT !.object[current].frame = f], f)
  /\ UNCHANGED destroyed

\* A byte for a frame that was left complete.
RedispatchFrame ==
  /\ ~ destroyed
  /\ Redispatch
  /\ HandlerFrames(Touch(mem, current), mem.object[current].frame)
  /\ UNCHANGED destroyed

\* The calls that concern no frame.
Elsewhere == /\ ~ destroyed
             /\ PopulateHandshake \/ App
             /\ UNCHANGED memory

\* libwebsock_client_destroy, at any time between calls.
Destroy == /\ ~ destroyed
           /\ destroyed' = TRUE
           /\ mem' = FreeAll(mem)
           /\ UNCHANGED <<vars, current>>

MemNext == \/ StoreFirstByte
           \/ \E f \in RxFrames : ReceiveInto(f)
           \/ RedispatchFrame
           \/ Elsewhere
           \/ Destroy

MemSpec == MemInit /\ [][MemNext]_memVars

-----------------------------------------------------------------------------
(* The properties.                                                         *)

LiveObjects == {x \in Objects : mem.object[x].live}

\* Nothing reads, writes or frees an object that has been freed, on any way
\* through the handlers: also after an error inside a callback, whose caller
\* still holds the frame, and when the connection is destroyed.  And nothing
\* is lost: the objects that live are those in the list of current_frame, and
\* none is left when the connection is destroyed.
MemorySafe ==
  /\ ~ mem.fault
  /\ LiveObjects = IF destroyed \/ current = NULL THEN {}
                   ELSE Range(Forward(mem, First(mem, current)))

\* The links say what the sequence of Connection says: from the first object
\* the complete frames in the order they came, current_frame the last, either
\* complete itself or being read; and the links agree in both directions.
LinksAreFrames ==
  ~ destroyed =>
    LET list == IF current = NULL THEN <<>> ELSE Forward(mem, First(mem, current))
        done == IF stuck \/ list = <<>> THEN list ELSE Front(list)
    IN  /\ [i \in DOMAIN done |-> mem.object[done[i]].frame] = frames
        /\ current # NULL => Last(list) = current
        /\ \A i \in DOMAIN list :
             mem.object[list[i]].prev = IF i = 1 THEN NULL ELSE list[i - 1]
=============================================================================
