--------------------------- MODULE FrameListProofs ---------------------------
(* What holds of the frames in memory for every set of frames, calls and   *)
(* callbacks and every bound: nothing is used after it was freed, nothing  *)
(* is lost, and the links are the list that Connection keeps.              *)
EXTENDS FrameList, ConnectionProofs

-----------------------------------------------------------------------------
(* The memory, whatever the frames hold.                                   *)

Object == [prev : Nat, next : Nat, live : BOOLEAN, frame : Frame \cup {None}]
Memories == [object : Seq(Object), fault : BOOLEAN]

\* An object is linked to the ones allocated just before and after it, if to
\* any, and so the walks through the links end.
Adjacent(m) ==
  \A y \in 1..Len(m.object) :
    /\ m.object[y].prev \in {NULL, y - 1}
    /\ m.object[y].next \in {NULL, y + 1} /\ m.object[y].next <= Len(m.object)

\* Every object has been freed, once.
Freed(m) ==
  /\ m \in Memories /\ Adjacent(m) /\ ~ m.fault
  /\ \A y \in 1..Len(m.object) : ~ m.object[y].live

\* The objects lo..hi live, and are the list: those after lo are the last ones
\* allocated, each linked to the one before it and to the one after it.
Linked(m, lo, hi) ==
  /\ m \in Memories /\ Adjacent(m) /\ ~ m.fault
  /\ hi = Len(m.object) /\ lo \in 1..hi
  /\ \A y \in 1..hi : m.object[y].live <=> lo <= y
  /\ \A y \in lo..hi : /\ m.object[y].prev = IF y = lo THEN NULL ELSE y - 1
                       /\ m.object[y].next = IF y = hi THEN NULL ELSE y + 1

\* The object of the first frame of the list that ends in current_frame.
ListHead == current + 1 - Len(frames) - (IF stuck THEN 0 ELSE 1)

\* The inductive invariant of the memory: there is no current_frame exactly
\* when everything is freed; and else the frames of Connection are in the
\* objects of the list, but for the last when it is being read.
MemInv ==
  /\ current = NULL => frames = <<>> /\ ~ stuck
  /\ IF destroyed \/ current = NULL THEN Freed(mem) ELSE Linked(mem, ListHead, current)
  /\ ~ destroyed => \A i \in DOMAIN frames : mem.object[ListHead + i - 1].frame = frames[i]
  /\ current \in Nat /\ destroyed \in BOOLEAN

-----------------------------------------------------------------------------
(* The operations on memory.                                               *)

LEMMA MemoryParts ==
  ASSUME NEW m \in Memories
  PROVE  /\ m.object \in Seq(Object) /\ m.fault \in BOOLEAN
         /\ Len(m.object) \in Nat /\ DOMAIN m.object = 1..Len(m.object)
         /\ \A y \in 1..Len(m.object) : m.object[y] \in Object
         /\ m = [object |-> m.object, fault |-> m.fault]
<1>1. m.object \in Seq(Object) /\ m.fault \in BOOLEAN /\ m = [object |-> m.object, fault |-> m.fault]
  BY DEF Memories
<1> QED BY <1>1, LenProperties, ElementOfSeq

\* An assignment to a field of the object x, for any of its fields.
LEMMA StoreObject ==
  ASSUME NEW m \in Memories, NEW x \in 1..Len(m.object), NEW o \in Object
  PROVE  /\ [m EXCEPT !.object[x] = o] \in Memories
         /\ [m EXCEPT !.object[x] = o].fault = m.fault
         /\ Len([m EXCEPT !.object[x] = o].object) = Len(m.object)
         /\ \A y \in 1..Len(m.object) :
              [m EXCEPT !.object[x] = o].object[y] = IF y = x THEN o ELSE m.object[y]
<1> DEFINE s == [m.object EXCEPT ![x] = o]
<1>1. s \in Seq(Object) /\ Len(s) = Len(m.object)
  BY MemoryParts, ExceptSeq
<1>2. \A y \in 1..Len(m.object) : s[y] = IF y = x THEN o ELSE m.object[y]
  BY MemoryParts
<1> DEFINE n == [m EXCEPT !.object[x] = o]
<1>3. n \in Memories /\ n.object = s /\ n.fault = m.fault
  <2>1. m \in [object : Seq(Object), fault : BOOLEAN]
    BY DEF Memories
  <2>2. n = [m EXCEPT !.object = s]
    OBVIOUS
  <2> HIDE DEF s, n
  <2> QED BY <1>1, <2>1, <2>2, SMT DEF Memories
<1> HIDE DEF s
<1> QED BY <1>1, <1>2, <1>3

LEMMA ObjectFields ==
  ASSUME NEW r \in Object
  PROVE  /\ \A v \in Nat : /\ [r EXCEPT !.prev = v] \in Object /\ [r EXCEPT !.prev = v].prev = v
                           /\ [r EXCEPT !.prev = v].next = r.next
                           /\ [r EXCEPT !.prev = v].live = r.live
                           /\ [r EXCEPT !.prev = v].frame = r.frame
         /\ \A v \in Nat : /\ [r EXCEPT !.next = v] \in Object /\ [r EXCEPT !.next = v].next = v
                           /\ [r EXCEPT !.next = v].prev = r.prev
                           /\ [r EXCEPT !.next = v].live = r.live
                           /\ [r EXCEPT !.next = v].frame = r.frame
<1> SUFFICES ASSUME NEW v \in Nat
             PROVE  /\ [r EXCEPT !.prev = v] \in Object /\ [r EXCEPT !.prev = v].prev = v
                    /\ [r EXCEPT !.prev = v].next = r.next
                    /\ [r EXCEPT !.prev = v].live = r.live
                    /\ [r EXCEPT !.prev = v].frame = r.frame
                    /\ [r EXCEPT !.next = v] \in Object /\ [r EXCEPT !.next = v].next = v
                    /\ [r EXCEPT !.next = v].prev = r.prev
                    /\ [r EXCEPT !.next = v].live = r.live
                    /\ [r EXCEPT !.next = v].frame = r.frame
  OBVIOUS
<1> QED BY SMT DEF Object

LEMMA LinkedParts ==
  ASSUME NEW m, NEW lo, NEW hi, Linked(m, lo, hi)
  PROVE  /\ m \in Memories /\ ~ m.fault /\ hi = Len(m.object) /\ hi \in Nat /\ hi \in 1..Len(m.object)
         /\ lo \in Nat /\ lo \in 1..hi /\ m.object[hi].live
BY MemoryParts DEF Linked

LEMMA TouchLive ==
  ASSUME NEW m \in Memories, NEW x \in 1..Len(m.object), m.object[x].live
  PROVE  Touch(m, x) = m
BY MemoryParts DEF Touch, Live

\* free of an object that lives.
LEMMA FreeLive ==
  ASSUME NEW m \in Memories, NEW x \in 1..Len(m.object), m.object[x].live
  PROVE  /\ Free(m, x) \in Memories
         /\ Free(m, x).fault = m.fault
         /\ Len(Free(m, x).object) = Len(m.object)
         /\ \A y \in 1..Len(m.object) :
              /\ Free(m, x).object[y].prev = m.object[y].prev
              /\ Free(m, x).object[y].next = m.object[y].next
              /\ Free(m, x).object[y].live <=> m.object[y].live /\ y # x
<1> DEFINE o == [m.object[x] EXCEPT !.live = FALSE]
<1>1. o \in Object /\ o.prev = m.object[x].prev /\ o.next = m.object[x].next /\ ~ o.live
  BY MemoryParts DEF Object
<1>2. Free(m, x) = [m EXCEPT !.object[x] = o]
  BY MemoryParts DEF Free, Live
<1> HIDE DEF o
<1> QED BY <1>1, <1>2, StoreObject

LEMMA FreeType ==
  ASSUME NEW m \in Memories, NEW x
  PROVE  Free(m, x) \in Memories
<1>1. CASE Live(m, x)
  BY <1>1, MemoryParts, FreeLive DEF Live
<1>2. CASE ~ Live(m, x)
  BY <1>2, MemoryParts DEF Free, Memories
<1> QED BY <1>1, <1>2

\* The walk along prev_frame ends at the first object of the list.
LEMMA FirstOfList ==
  ASSUME NEW m, NEW lo, NEW hi, Linked(m, lo, hi)
  PROVE  First(m, hi) = lo
<1> DEFINE prev(y) == m.object[y].prev
           F == [k \in 1..hi |-> [x \in Nat |-> IF prev(k) = NULL THEN k ELSE x]]
           Equation(f) == f = [y \in DOMAIN m.object |-> IF prev(y) = NULL THEN y ELSE f[prev(y)]]
           first == CHOOSE f : Equation(f)
<1>0. /\ hi \in Nat /\ lo \in Nat /\ lo >= 1 /\ lo <= hi /\ hi - lo \in Nat /\ DOMAIN m.object = 1..hi
      /\ \A y \in 1..hi : prev(y) \in {0, y - 1}
  BY MemoryParts DEF Linked, Adjacent, NULL
<1>1. PICK f : Trace(f, hi, Nat, 0, F)
  <2>1. \A k \in 1..hi : \A x \in Nat : F[k][x] \in Nat
    BY <1>0
  <2> HIDE DEF F
  <2> QED BY <1>0, <2>1, TraceExists
<1>2. \A y \in 1..hi : f[y] = IF prev(y) = NULL THEN y ELSE f[prev(y)]
  <2> SUFFICES ASSUME NEW y \in 1..hi PROVE f[y] = IF prev(y) = NULL THEN y ELSE f[prev(y)]
    OBVIOUS
  <2>1. y - 1 \in 0..hi /\ f[y - 1] \in Nat /\ f[y] = F[y][f[y - 1]]
    <3> HIDE DEF F
    <3>1. y - 1 \in 0..hi
      BY <1>0
    <3> QED BY <1>1, <3>1 DEF Trace
  <2>2. f[y] = IF prev(y) = NULL THEN y ELSE f[y - 1]
    BY <2>1
  <2>3. prev(y) = 0 \/ prev(y) = y - 1
    BY <1>0
  <2> QED BY <2>2, <2>3 DEF NULL
<1>3. Equation(first)
  <2>1. Equation([y \in DOMAIN m.object |-> f[y]])
    <3>1. \A y \in 1..hi : prev(y) # NULL => prev(y) \in 1..hi
      BY <1>0 DEF NULL
    <3> HIDE DEF F
    <3> QED BY <1>0, <1>2, <3>1
  <2> HIDE DEF Equation
  <2> QED BY <2>1
<1>4. \A y \in 1..hi : first[y] = IF prev(y) = NULL THEN y ELSE first[prev(y)]
  <2> HIDE DEF first
  <2> QED BY <1>0, <1>3
<1> HIDE DEF first
<1> DEFINE S == {k \in 0..hi - lo : first[lo + k] = lo}
<1>5. 0 \in S
  BY <1>0, <1>4 DEF Linked
<1>6. ASSUME NEW k \in 1..hi - lo, k - 1 \in S PROVE k \in S
  <2>1. lo + k \in lo..hi /\ lo + k \in 1..hi /\ lo + k # lo /\ lo + k - 1 = lo + (k - 1) /\ lo + k - 1 # NULL
    BY <1>0 DEF NULL
  <2>2. prev(lo + k) = lo + k - 1
    BY <2>1 DEF Linked
  <2> QED BY <1>0, <1>4, <1>6, <2>1, <2>2
<1>7. hi - lo \in S
  <2>1. \A k \in 0..hi - lo : k \in S
    <3> HIDE DEF S
    <3> QED BY <1>0, <1>5, <1>6, InductionUpTo
  <2>2. hi - lo \in 0..hi - lo
    BY <1>0
  <2> QED BY <2>1, <2>2
<1>8. lo + (hi - lo) = hi
  BY <1>0
<1>9. First(m, hi) = first[hi]
  BY DEF First, first
<1> QED BY <1>7, <1>8, <1>9

\* The objects y..hi, in order.
Upwards(y, hi) == [i \in 1..hi - y + 1 |-> y + i - 1]

LEMMA UpwardsParts ==
  ASSUME NEW hi \in Nat, NEW y \in 1..hi
  PROVE  /\ Upwards(y, hi) \in Seq(Nat) /\ Len(Upwards(y, hi)) = hi - y + 1
         /\ DOMAIN Upwards(y, hi) = 1..hi - y + 1
         /\ \A i \in 1..hi - y + 1 : Upwards(y, hi)[i] = y + i - 1
<1>1. hi - y + 1 \in Nat /\ \A i \in 1..hi - y + 1 : y + i - 1 \in Nat
  OBVIOUS
<1>2. Upwards(y, hi) \in [1..hi - y + 1 -> Nat]
  BY <1>1 DEF Upwards
<1>3. Upwards(y, hi) \in Seq(Nat)
  BY <1>1, <1>2
<1> QED BY <1>1, <1>2, <1>3, LenProperties DEF Upwards

LEMMA UpwardsStep ==
  ASSUME NEW hi \in Nat, NEW y \in 1..hi
  PROVE  Upwards(y, hi) = <<y>> \o (IF y = hi THEN <<>> ELSE Upwards(y + 1, hi))
<1> DEFINE rest == IF y = hi THEN <<>> ELSE Upwards(y + 1, hi)
<1>1. rest \in Seq(Nat) /\ Len(rest) = hi - y /\ \A i \in 1..hi - y : rest[i] = y + i
  <2>1. CASE y = hi
    BY <2>1
  <2>2. CASE y # hi
    <3>1. y + 1 \in 1..hi /\ hi - (y + 1) + 1 = hi - y /\ \A i \in 1..hi - y : (y + 1) + i - 1 = y + i
      BY <2>2
    <3> QED BY <2>2, <3>1, UpwardsParts
  <2> QED BY <2>1, <2>2
<1> HIDE DEF rest
<1> DEFINE one == <<y>>
           all == one \o rest
<1>2. one \in Seq(Nat) /\ Len(one) = 1 /\ one[1] = y
  OBVIOUS
<1> HIDE DEF one
<1>3. /\ all \in Seq(Nat) /\ Len(all) = Len(one) + Len(rest)
      /\ \A i \in 1..Len(one) + Len(rest) : all[i] = IF i <= Len(one) THEN one[i] ELSE rest[i - Len(one)]
  BY <1>1, <1>2, ConcatProperties
<1> HIDE DEF all
<1>4. Len(all) = hi - y + 1 /\ 1 + (hi - y) = hi - y + 1
  BY <1>1, <1>2, <1>3
<1>5. ASSUME NEW i \in 1..hi - y + 1 PROVE all[i] = y + i - 1
  <2>1. all[i] = IF i <= 1 THEN one[i] ELSE rest[i - 1]
    BY <1>1, <1>2, <1>3, <1>4
  <2>2. CASE i = 1
    BY <1>2, <2>1, <2>2
  <2>3. CASE i # 1
    <3>1. i - 1 \in 1..hi - y /\ y + (i - 1) = y + i - 1
      BY <2>3
    <3>2. all[i] = rest[i - 1]
      BY <2>1, <2>3
    <3> QED BY <1>1, <3>1, <3>2
  <2> QED BY <2>2, <2>3
<1>6. Upwards(y, hi) \in Seq(Nat) /\ Len(Upwards(y, hi)) = Len(all)
  BY <1>4, UpwardsParts
<1>7. \A i \in 1..Len(all) : Upwards(y, hi)[i] = all[i]
  BY <1>4, <1>5, UpwardsParts
<1>8. Upwards(y, hi) = all
  BY <1>3, <1>6, <1>7, SeqEqual
<1> QED BY <1>8 DEF all, one, rest

\* The walk along next_frame from the first object meets the list.
LEMMA ForwardFromFirst ==
  ASSUME NEW m, NEW lo, NEW hi, Linked(m, lo, hi)
  PROVE  Forward(m, lo) = Upwards(lo, hi)
<1> DEFINE next(y) == m.object[y].next
           V == Seq(Nat)
           F == [k \in 1..hi |-> [x \in V |-> <<hi - k + 1>> \o (IF next(hi - k + 1) = NULL THEN <<>> ELSE x)]]
           Equation(f) == f = [y \in {NULL} \cup DOMAIN m.object |->
                                 IF y = NULL THEN <<>> ELSE <<y>> \o f[next(y)]]
           walk == CHOOSE f : Equation(f)
<1>0. /\ hi \in Nat /\ lo \in Nat /\ lo >= 1 /\ lo <= hi /\ hi - lo \in Nat /\ DOMAIN m.object = 1..hi
      /\ \A y \in 1..hi : next(y) \in {0, y + 1} /\ next(y) <= hi
      /\ NULL = 0 /\ NULL \notin 1..hi
  BY MemoryParts DEF Linked, Adjacent, NULL
<1>1. PICK f : Trace(f, hi, V, <<>>, F)
  <2>1. ASSUME NEW k \in 1..hi, NEW x \in V PROVE F[k][x] \in V
    <3>1. hi - k + 1 \in Nat
      BY <1>0
    <3>2. <<hi - k + 1>> \in V /\ <<>> \in V
      BY <3>1
    <3> DEFINE z == IF next(hi - k + 1) = NULL THEN <<>> ELSE x
    <3>3. z \in V
      BY <3>2
    <3>4. F[k][x] = <<hi - k + 1>> \o z
      OBVIOUS
    <3> HIDE DEF z, F
    <3> QED BY <3>2, <3>3, <3>4, ConcatProperties
  <2>2. <<>> \in V
    OBVIOUS
  <2> HIDE DEF F, V
  <2> QED BY <1>0, <2>1, <2>2, TraceExists
<1> DEFINE g == [y \in {NULL} \cup DOMAIN m.object |-> IF y = NULL THEN <<>> ELSE f[hi - y + 1]]
<1>2. ASSUME NEW y \in 1..hi PROVE g[y] = <<y>> \o g[next(y)]
  <2>1. /\ hi - y + 1 \in 1..hi /\ (hi - y + 1) - 1 = hi - y /\ hi - y \in 0..hi
        /\ hi - (hi - y + 1) + 1 = y
    BY <1>0
  <2>2. f[hi - y + 1] = F[hi - y + 1][f[hi - y]] /\ f[hi - y] \in V
    <3> HIDE DEF F, V
    <3> QED BY <1>1, <2>1 DEF Trace
  <2>3. f[hi - y + 1] = <<y>> \o (IF next(y) = NULL THEN <<>> ELSE f[hi - y])
    <3> HIDE DEF V
    <3> QED BY <2>1, <2>2
  <2>4. g[y] = f[hi - y + 1]
    BY <1>0
  <2>5. g[next(y)] = IF next(y) = NULL THEN <<>> ELSE f[hi - y]
    <3>1. CASE next(y) = NULL
      BY <3>1
    <3>2. CASE next(y) # NULL
      <4>1. next(y) = y + 1 /\ y + 1 \in 1..hi /\ hi - (y + 1) + 1 = hi - y /\ y + 1 # NULL
        BY <1>0, <3>2
      <4> QED BY <1>0, <4>1
    <3> QED BY <3>1, <3>2
  <2> HIDE DEF g, F
  <2> QED BY <2>3, <2>4, <2>5
<1>3. Equation(walk)
  <2>1. Equation(g)
    <3>1. \A y \in {NULL} \cup DOMAIN m.object : g[y] = IF y = NULL THEN <<>> ELSE <<y>> \o g[next(y)]
      <4> SUFFICES ASSUME NEW y \in {NULL} \cup DOMAIN m.object
                   PROVE  g[y] = IF y = NULL THEN <<>> ELSE <<y>> \o g[next(y)]
        OBVIOUS
      <4>1. CASE y = NULL
        BY <4>1
      <4>2. CASE y # NULL
        <5>1. y \in 1..hi
          BY <1>0, <4>2
        <5> HIDE DEF g
        <5> QED BY <1>2, <4>2, <5>1
      <4> QED BY <4>1, <4>2
    <3>2. g = [y \in {NULL} \cup DOMAIN m.object |-> g[y]]
      OBVIOUS
    <3> HIDE DEF g
    <3> QED BY <3>1, <3>2
  <2> HIDE DEF Equation
  <2> QED BY <2>1
<1> HIDE DEF g
<1>4. /\ walk[NULL] = <<>>
      /\ \A y \in 1..hi : walk[y] = <<y>> \o walk[next(y)]
  <2> HIDE DEF walk
  <2> QED BY <1>0, <1>3
<1> HIDE DEF walk
<1> DEFINE S == {k \in 0..hi - lo : walk[hi - k] = Upwards(hi - k, hi)}
<1>5. 0 \in S
  <2>1. hi \in 1..hi /\ hi \in lo..hi /\ hi - 0 = hi /\ 0 \in 0..hi - lo
    BY <1>0
  <2>2. next(hi) = NULL
    BY <2>1 DEF Linked
  <2>3. walk[hi] = <<hi>> \o <<>>
    BY <1>4, <2>1, <2>2
  <2>4. Upwards(hi, hi) = <<hi>> \o <<>>
    BY <1>0, <2>1, UpwardsStep
  <2> QED BY <2>1, <2>3, <2>4
<1>6. ASSUME NEW k \in 1..hi - lo, k - 1 \in S PROVE k \in S
  <2> DEFINE y == hi - k
  <2>1. y \in 1..hi /\ y \in lo..hi /\ y # hi /\ y + 1 = hi - (k - 1)
    BY <1>0
  <2>2. next(y) = y + 1
    BY <2>1 DEF Linked
  <2>3. walk[y] = <<y>> \o walk[y + 1]
    <3> HIDE DEF y
    <3> QED BY <1>4, <2>1, <2>2
  <2>4. walk[y + 1] = Upwards(y + 1, hi)
    BY <1>6, <2>1
  <2>5. Upwards(y, hi) = <<y>> \o Upwards(y + 1, hi)
    <3> HIDE DEF y
    <3> QED BY <1>0, <2>1, UpwardsStep
  <2> QED BY <2>3, <2>4, <2>5
<1>7. hi - lo \in S
  <2>1. \A k \in 0..hi - lo : k \in S
    <3> HIDE DEF S
    <3> QED BY <1>0, <1>5, <1>6, InductionUpTo
  <2>2. hi - lo \in 0..hi - lo
    BY <1>0
  <2> QED BY <2>1, <2>2
<1>8. hi - (hi - lo) = lo
  BY <1>0
<1>9. Forward(m, lo) = walk[lo]
  BY DEF Forward, walk
<1> QED BY <1>7, <1>8, <1>9

\* libwebsock_cleanup_frames from the first object on frees every object, each
\* once.
LEMMA CleanupFreesAll ==
  ASSUME NEW m, NEW lo, NEW hi, Linked(m, lo, hi)
  PROVE  Freed(CleanupFrames(m, lo))
<1> DEFINE list == Forward(m, lo)
           n == Len(list)
           F == [k \in 1..n |-> [x \in Memories |-> Free(x, list[k])]]
           Equation(f) == f = [k \in 0..n |-> IF k = 0 THEN m ELSE Free(f[k - 1], list[k])]
           freed == CHOOSE f : Equation(f)
           FreedUpTo(x, k) ==
             /\ x \in Memories /\ ~ x.fault /\ Len(x.object) = hi
             /\ \A y \in 1..hi : /\ x.object[y].prev = m.object[y].prev
                                 /\ x.object[y].next = m.object[y].next
                                 /\ x.object[y].live <=> lo + k <= y
<1>00. /\ m \in Memories /\ ~ m.fault /\ hi = Len(m.object) /\ hi \in Nat /\ lo \in 1..hi
       /\ \A y \in 1..hi : m.object[y].live <=> lo <= y
  BY MemoryParts DEF Linked
<1>1. n = hi - lo + 1 /\ \A k \in 1..n : list[k] = lo + k - 1
  <2>1. list = Upwards(lo, hi)
    BY ForwardFromFirst
  <2>2. Len(Upwards(lo, hi)) = hi - lo + 1 /\ \A k \in 1..hi - lo + 1 : Upwards(lo, hi)[k] = lo + k - 1
    BY <1>00, UpwardsParts
  <2> HIDE DEF list
  <2> QED BY <2>1, <2>2
<1>0. /\ m \in Memories /\ ~ m.fault /\ hi = Len(m.object) /\ hi \in Nat /\ lo \in 1..hi /\ n \in Nat
      /\ \A y \in 1..hi : m.object[y].live <=> lo <= y
  BY <1>00, <1>1
<1>5. CleanupFrames(m, lo) = freed[n]
  BY DEF CleanupFrames
<1> HIDE DEF list
<1>2. PICK f : Trace(f, n, Memories, m, F)
  <2>1. \A k \in 1..n : \A x \in Memories : F[k][x] \in Memories
    BY FreeType
  <2> HIDE DEF F
  <2> QED BY <1>0, <2>1, TraceExists
<1>3. Equation(freed)
  <2>1. Equation(f)
    <3>1. \A k \in 1..n : f[k] = Free(f[k - 1], list[k])
      <4> SUFFICES ASSUME NEW k \in 1..n PROVE f[k] = Free(f[k - 1], list[k])
        OBVIOUS
      <4>1. k - 1 \in 0..n
        BY <1>0
      <4>2. f[k - 1] \in Memories /\ f[k] = F[k][f[k - 1]]
        <5> HIDE DEF F, n
        <5> QED BY <1>2, <4>1 DEF Trace
      <4> QED BY <4>2
    <3>2. f \in [0..n -> Memories] /\ f[0] = m
      <4> HIDE DEF F, n
      <4> QED BY <1>2 DEF Trace
    <3> QED BY <1>0, <3>1, <3>2
  <2> HIDE DEF Equation
  <2> QED BY <2>1
<1> HIDE DEF freed, n
<1>4. freed[0] = m /\ \A k \in 1..n : freed[k] = Free(freed[k - 1], list[k])
  BY <1>0, <1>3
<1> DEFINE S == {k \in 0..n : FreedUpTo(freed[k], k)}
<1>6. 0 \in S
  BY <1>0, <1>4
<1>7. ASSUME NEW k \in 1..n, k - 1 \in S PROVE k \in S
  <2> DEFINE x == freed[k - 1]
             a == lo + k - 1
  <2>1. FreedUpTo(x, k - 1) /\ a \in 1..hi /\ lo + (k - 1) = a
    BY <1>0, <1>1, <1>7
  <2>2. x.object[a].live
    BY <2>1
  <2>3. freed[k] = Free(x, a)
    BY <1>1, <1>4
  <2>4. /\ Free(x, a) \in Memories /\ Free(x, a).fault = x.fault
        /\ Len(Free(x, a).object) = Len(x.object)
        /\ \A y \in 1..Len(x.object) :
             /\ Free(x, a).object[y].prev = x.object[y].prev
             /\ Free(x, a).object[y].next = x.object[y].next
             /\ Free(x, a).object[y].live <=> x.object[y].live /\ y # a
    <3>1. x \in Memories /\ a \in 1..Len(x.object) /\ x.object[a].live
      BY <1>0, <2>1, <2>2
    <3> HIDE DEF x, a
    <3> QED BY ONLY <3>1, FreeLive
  <2>5. \A y \in 1..hi : (a <= y /\ y # a) <=> lo + k <= y
    BY <1>0
  <2>6. FreedUpTo(Free(x, a), k)
    <3> HIDE DEF x, a
    <3> QED BY <2>1, <2>4, <2>5
  <2> QED BY <2>3, <2>6
<1>8. n \in S
  <2>1. \A k \in 0..n : k \in S
    <3> HIDE DEF S
    <3> QED BY <1>0, <1>6, <1>7, InductionUpTo
  <2>2. n \in 0..n
    BY <1>0
  <2> QED BY <2>1, <2>2
<1>9. FreedUpTo(freed[n], n)
  BY <1>8
<1>10. \A y \in 1..hi : ~ (lo + n <= y)
  BY <1>0, <1>1
<1>11. Freed(freed[n])
  BY <1>0, <1>9, <1>10 DEF Freed, Adjacent, Linked
<1> QED BY <1>5, <1>11

\* libwebsock_free_all_frames, whether there is a frame or not.
LEMMA FreeAllFrees ==
  ASSUME NEW m, IF current = NULL THEN Freed(m) ELSE \E lo : Linked(m, lo, current)
  PROVE  Freed(FreeAll(m))
<1>1. CASE current = NULL
  BY <1>1 DEF FreeAll
<1>2. CASE current # NULL
  <2>1. PICK lo : Linked(m, lo, current)
    BY <1>2
  <2>2. m \in Memories /\ current \in 1..Len(m.object) /\ m.object[current].live
    BY <2>1, MemoryParts DEF Linked
  <2>3. Touch(m, current) = m
    BY <2>2, TouchLive
  <2> QED BY <1>2, <2>1, <2>3, FirstOfList, CleanupFreesAll DEF FreeAll
<1> QED BY <1>1, <1>2

\* The last object of the list is given another frame, or none.
LEMMA StoreFrame ==
  ASSUME NEW m, NEW lo, NEW hi, Linked(m, lo, hi), NEW f \in Frame \cup {None}
  PROVE  /\ Linked([m EXCEPT !.object[hi].frame = f], lo, hi)
         /\ \A y \in 1..hi :
              [m EXCEPT !.object[hi].frame = f].object[y].frame = IF y = hi THEN f ELSE m.object[y].frame
<1> DEFINE o == [m.object[hi] EXCEPT !.frame = f]
           n == [m EXCEPT !.object[hi] = o]
<1>1. m \in Memories /\ hi \in 1..Len(m.object) /\ hi = Len(m.object)
  BY MemoryParts DEF Linked
<1>2. m.object[hi] \in Object
  BY <1>1, MemoryParts
<1>3. /\ o \in Object /\ o.prev = m.object[hi].prev /\ o.next = m.object[hi].next
      /\ o.live = m.object[hi].live /\ o.frame = f
  BY <1>2 DEF Object
<1>4. [m EXCEPT !.object[hi].frame = f] = n
  OBVIOUS
<1> HIDE DEF o
<1>5. /\ n \in Memories /\ n.fault = m.fault /\ Len(n.object) = Len(m.object)
      /\ \A y \in 1..hi : n.object[y] = IF y = hi THEN o ELSE m.object[y]
  BY <1>1, <1>3, StoreObject
<1> HIDE DEF n
<1>6. \A y \in 1..hi : /\ n.object[y].prev = m.object[y].prev /\ n.object[y].next = m.object[y].next
                       /\ n.object[y].live = m.object[y].live
                       /\ n.object[y].frame = IF y = hi THEN f ELSE m.object[y].frame
  BY <1>3, <1>5
<1>7. Linked(n, lo, hi)
  <2>1. lo \in 1..hi
    BY DEF Linked
  <2>2. \A y \in lo..hi : y \in 1..hi
    BY <2>1, <1>1
  <2>3. Adjacent(n)
    BY <1>1, <1>5, <1>6 DEF Linked, Adjacent
  <2> QED BY <1>1, <1>5, <1>6, <2>2, <2>3 DEF Linked
<1> QED BY <1>4, <1>6, <1>7

LEMMA AllocParts ==
  ASSUME NEW m \in Memories
  PROVE  /\ Alloc(m) \in Memories /\ Alloc(m).fault = m.fault
         /\ Len(Alloc(m).object) = Len(m.object) + 1
         /\ \A y \in 1..Len(m.object) : Alloc(m).object[y] = m.object[y]
         /\ Alloc(m).object[Len(m.object) + 1] = Unlinked
<1> DEFINE s == Append(m.object, Unlinked)
<1>1. Unlinked \in Object
  BY DEF Unlinked, Object, NULL
<1>2. /\ s \in Seq(Object) /\ Len(s) = Len(m.object) + 1 /\ s[Len(m.object) + 1] = Unlinked
      /\ \A y \in 1..Len(m.object) : s[y] = m.object[y]
  BY <1>1, MemoryParts, AppendProperties
<1>3. Alloc(m) \in Memories /\ Alloc(m).object = s /\ Alloc(m).fault = m.fault
  <2>1. m \in [object : Seq(Object), fault : BOOLEAN]
    BY DEF Memories
  <2>2. Alloc(m) = [m EXCEPT !.object = s]
    BY DEF Alloc
  <2> HIDE DEF s
  <2> QED BY <1>2, <2>1, <2>2, SMT DEF Memories
<1> HIDE DEF s
<1> QED BY <1>2, <1>3

\* A first frame: a list of one.
LEMMA AllocLinks ==
  ASSUME NEW m, Freed(m)
  PROVE  Linked(Alloc(m), Allocated(m), Allocated(m))
<1> DEFINE hi == Len(m.object) + 1
<1>1. m \in Memories /\ Len(m.object) \in Nat /\ Allocated(m) = hi
  BY MemoryParts DEF Freed, Allocated
<1>2. /\ Alloc(m) \in Memories /\ ~ Alloc(m).fault /\ Len(Alloc(m).object) = hi
      /\ \A y \in 1..Len(m.object) : Alloc(m).object[y] = m.object[y]
      /\ Alloc(m).object[hi] = Unlinked
  BY <1>1, AllocParts DEF Freed
<1>3. \A y \in 1..hi : y = hi \/ y \in 1..Len(m.object)
  BY <1>1
<1>4. Unlinked.prev = NULL /\ Unlinked.next = NULL /\ Unlinked.live
  BY DEF Unlinked
<1>5. Adjacent(Alloc(m))
  <2> SUFFICES ASSUME NEW y \in 1..hi
               PROVE  /\ Alloc(m).object[y].prev \in {NULL, y - 1}
                      /\ Alloc(m).object[y].next \in {NULL, y + 1} /\ Alloc(m).object[y].next <= hi
    BY <1>2 DEF Adjacent
  <2>1. CASE y = hi
    BY <1>1, <1>2, <1>4, <2>1 DEF NULL
  <2>2. CASE y \in 1..Len(m.object)
    <3>1. m.object[y].next \in Nat
      BY <1>1, <2>2, MemoryParts DEF Object
    <3> QED BY <1>1, <1>2, <2>2, <3>1 DEF Freed, Adjacent
  <2> QED BY <1>3, <2>1, <2>2
<1>6. \A y \in 1..hi : Alloc(m).object[y].live <=> hi <= y
  <2> SUFFICES ASSUME NEW y \in 1..hi PROVE Alloc(m).object[y].live <=> hi <= y
    OBVIOUS
  <2>1. CASE y = hi
    BY <1>1, <1>2, <1>4, <2>1
  <2>2. CASE y \in 1..Len(m.object)
    BY <1>1, <1>2, <2>2 DEF Freed
  <2> QED BY <1>3, <2>1, <2>2
<1>7. \A y \in hi..hi : y = hi
  BY <1>1
<1>8. hi \in 1..hi
  BY <1>1
<1> QED BY <1>1, <1>2, <1>4, <1>5, <1>6, <1>7, <1>8 DEF Linked

\* libwebsock_new_continuation_frame: the list is one longer at its end, and
\* holds the same frames.
LEMMA ContinuationLinks ==
  ASSUME NEW m, NEW lo, Linked(m, lo, current), ContinuationFrame(m)
  PROVE  /\ current' = current + 1 /\ Linked(mem', lo, current + 1)
         /\ \A y \in 1..current : mem'.object[y].frame = m.object[y].frame
<1> DEFINE top == current + 1
           a == Alloc(m)
           o == [a.object[top] EXCEPT !.prev = current]
           b == [a EXCEPT !.object[top] = o]
           p == [b.object[current] EXCEPT !.next = top]
           c == [b EXCEPT !.object[current] = p]
<1>1. /\ m \in Memories /\ current \in 1..Len(m.object) /\ current = Len(m.object)
      /\ m.object[current].live /\ current \in Nat /\ lo \in 1..current /\ Allocated(m) = top
  BY MemoryParts DEF Linked, Allocated
<1>2. mem' = c /\ current' = top
  <2>1. Touch(m, current) = m
    BY <1>1, TouchLive
  <2>2. mem' = [a EXCEPT !.object[top].prev = current, !.object[current].next = top]
    BY <1>1, <2>1 DEF ContinuationFrame
  <2> QED BY <1>1, <2>2 DEF ContinuationFrame
<1>3. /\ a \in Memories /\ ~ a.fault /\ Len(a.object) = top
      /\ \A y \in 1..current : a.object[y] = m.object[y]
      /\ a.object[top] = Unlinked
  BY <1>1, AllocParts DEF Linked
<1>4. top \in 1..top /\ current \in 1..top /\ top # current
  BY <1>1
<1> HIDE DEF a
<1>5. o \in Object /\ o.prev = current /\ o.next = NULL /\ o.live
  <2>1. Unlinked \in Object /\ Unlinked.next = NULL /\ Unlinked.live
    BY DEF Unlinked, Object, NULL
  <2>2. o = [Unlinked EXCEPT !.prev = current]
    BY <1>3
  <2> HIDE DEF o
  <2> QED BY <1>1, <2>1, <2>2, ObjectFields
<1> HIDE DEF o
<1>6. /\ b \in Memories /\ ~ b.fault /\ Len(b.object) = top
      /\ \A y \in 1..top : b.object[y] = IF y = top THEN o ELSE a.object[y]
  BY <1>3, <1>4, <1>5, StoreObject
<1> HIDE DEF b
<1>7. b.object[current] = m.object[current] /\ m.object[current] \in Object
  BY <1>1, <1>3, <1>4, <1>6, MemoryParts
<1>8. /\ p \in Object /\ p.prev = m.object[current].prev /\ p.next = top
      /\ p.live = m.object[current].live /\ p.frame = m.object[current].frame
  <2>1. p = [m.object[current] EXCEPT !.next = top] /\ top \in Nat
    BY <1>1, <1>7
  <2> HIDE DEF p, top
  <2> QED BY <1>7, <2>1, ObjectFields
<1> HIDE DEF p
<1>9. /\ c \in Memories /\ ~ c.fault /\ Len(c.object) = top
      /\ \A y \in 1..top : c.object[y] = IF y = current THEN p ELSE b.object[y]
  BY <1>4, <1>6, <1>8, StoreObject
<1> HIDE DEF c
<1>10. ASSUME NEW y \in 1..top
       PROVE  /\ c.object[y].prev = IF y = top THEN current ELSE m.object[y].prev
              /\ c.object[y].next = IF y = top THEN NULL ELSE IF y = current THEN top ELSE m.object[y].next
              /\ c.object[y].live <=> y = top \/ m.object[y].live
              /\ y # top => c.object[y].frame = m.object[y].frame
  <2>1. CASE y = top
    BY <1>4, <1>5, <1>6, <1>9, <2>1
  <2>2. CASE y = current
    BY <1>4, <1>8, <1>9, <2>2
  <2>3. CASE y # top /\ y # current
    <3>1. y \in 1..current
      BY <1>1, <2>3
    <3> QED BY <1>3, <1>6, <1>9, <2>3, <3>1
  <2> QED BY <2>1, <2>2, <2>3
<1>11. \A y \in 1..top : y = top \/ y = current \/ y \in 1..current
  BY <1>1
<1>12. Adjacent(c)
  <2> SUFFICES ASSUME NEW y \in 1..top
               PROVE  /\ c.object[y].prev \in {NULL, y - 1}
                      /\ c.object[y].next \in {NULL, y + 1} /\ c.object[y].next <= top
    BY <1>9 DEF Adjacent
  <2>1. CASE y = top
    BY <1>1, <1>10, <2>1 DEF NULL
  <2>2. CASE y # top
    <3>1. y \in 1..current
      BY <1>1, <2>2
    <3>2. /\ m.object[y].prev \in {NULL, y - 1}
          /\ m.object[y].next \in {NULL, y + 1} /\ m.object[y].next <= current
      BY <1>1, <3>1 DEF Linked, Adjacent
    <3>3. c.object[y].next = IF y = current THEN y + 1 ELSE m.object[y].next
      BY <1>10, <2>2
    <3>4. m.object[y].next = NULL \/ m.object[y].next = y + 1
      BY <3>2
    <3>5. c.object[y].next \in {NULL, y + 1} /\ c.object[y].next <= top
      BY <1>1, <3>1, <3>3, <3>4 DEF NULL
    <3> QED BY <1>10, <2>2, <3>2, <3>5
  <2> QED BY <2>1, <2>2
<1>13. \A y \in 1..top : c.object[y].live <=> lo <= y
  <2> SUFFICES ASSUME NEW y \in 1..top PROVE c.object[y].live <=> lo <= y
    OBVIOUS
  <2>1. CASE y = top
    BY <1>1, <1>10, <2>1
  <2>2. CASE y # top
    <3>1. y \in 1..current
      BY <1>1, <2>2
    <3> QED BY <1>10, <2>2, <3>1 DEF Linked
  <2> QED BY <2>1, <2>2
<1>14. ASSUME NEW y \in lo..top
       PROVE  /\ c.object[y].prev = IF y = lo THEN NULL ELSE y - 1
              /\ c.object[y].next = IF y = top THEN NULL ELSE y + 1
  <2>0. y \in 1..top
    BY <1>1
  <2>1. CASE y = top
    BY <1>1, <1>10, <2>0, <2>1
  <2>2. CASE y # top
    <3>1. y \in lo..current
      BY <1>1, <2>2
    <3>2. /\ m.object[y].prev = IF y = lo THEN NULL ELSE y - 1
          /\ m.object[y].next = IF y = current THEN NULL ELSE y + 1
      BY <3>1 DEF Linked
    <3> QED BY <1>10, <2>0, <2>2, <3>2
  <2> QED BY <2>1, <2>2
<1>15. Linked(c, lo, top)
  <2>1. lo \in 1..top
    BY <1>1
  <2> QED BY <1>9, <1>12, <1>13, <1>14, <2>1 DEF Linked
<1>16. \A y \in 1..current : c.object[y].frame = m.object[y].frame
  <2>1. \A y \in 1..current : y \in 1..top /\ y # top
    BY <1>1
  <2> QED BY <1>10, <2>1
<1> QED BY <1>2, <1>15, <1>16

-----------------------------------------------------------------------------
(* The handlers: what Connection says of the frames, and what memory does.  *)

LEMMA ControlOutcome ==
  ASSUME Receiving, NEW f, Control(f)
  PROVE  \/ "PROCESSING_ERROR" \in flags' /\ frames' = <<>> /\ ~ stuck'
         \/ "PROCESSING_ERROR" \notin flags' /\ UNCHANGED <<frames, stuck>>
BY DEF Receiving, Control, Close, OnClose, Ping, Error, Fail, MakeClose

LEMMA DispatchOutcome ==
  ASSUME Receiving, NEW fs, Dispatch(fs)
  PROVE  \/ stuck' /\ frames' = fs
         \/ ~ stuck' /\ frames' = <<>>
BY DEF Dispatch, IgnoreMessage, Error

\* fs are the frames of the list, that of current_frame included.
LEMMA HandlerKeeps ==
  ASSUME MemInv, ~ destroyed, UNCHANGED destroyed, current # NULL,
         NEW m, NEW fs \in Seq(Frame), fs # <<>>, NEW f,
         Linked(m, current + 1 - Len(fs), current),
         \A i \in DOMAIN fs : m.object[current + 1 - Len(fs) + i - 1].frame = fs[i],
         HandlerFrames(m, f),
         \/ /\ HandlerOf(f) = "control" /\ ~ stuck /\ fs = Append(frames, f)
            /\ \/ "PROCESSING_ERROR" \in flags' /\ frames' = <<>> /\ ~ stuck'
               \/ "PROCESSING_ERROR" \notin flags' /\ UNCHANGED <<frames, stuck>>
         \/ HandlerOf(f) = "continuation" /\ frames' = fs /\ ~ stuck'
         \/ /\ HandlerOf(f) = "dispatch"
            /\ \/ stuck' /\ frames' = fs
               \/ ~ stuck' /\ frames' = <<>>
         \/ HandlerOf(f) = "fail" /\ frames' = <<>> /\ ~ stuck',
         frames \in Seq(Frame)
  PROVE  MemInv'
<1> DEFINE lo == current + 1 - Len(fs)
<1>0. Linked(m, lo, current) /\ \A i \in DOMAIN fs : m.object[lo + i - 1].frame = fs[i]
  BY Zenon
<1>1. /\ Len(fs) \in Nat /\ Len(fs) >= 1 /\ DOMAIN fs = 1..Len(fs) /\ current \in Nat
      /\ lo \in 1..current /\ lo = current + 1 - Len(fs)
  <2>1. Len(fs) \in Nat /\ Len(fs) # 0 /\ DOMAIN fs = 1..Len(fs)
    BY LenProperties, EmptySeq
  <2>2. lo \in 1..current /\ current \in Nat
    BY <1>0, LinkedParts
  <2> QED BY ONLY <2>1, <2>2
<1> HIDE DEF lo
<1>2. Touch(m, current) = m
  BY ONLY <1>0, LinkedParts, TouchLive
<1>3. ASSUME Freed(mem'), current' = NULL, frames' = <<>>, ~ stuck' PROVE MemInv'
  BY <1>3 DEF MemInv, NULL
<1>4. ASSUME ErrorFrames(m), frames' = <<>>, ~ stuck' PROVE MemInv'
  <2>1. Freed(FreeAll(m))
    BY <1>0, FreeAllFrees
  <2> QED BY <1>3, <1>4, <2>1 DEF ErrorFrames
<1>5. CASE HandlerOf(f) = "control"
  <2>1. ControlFrame(m)
    BY <1>5 DEF HandlerFrames
  <2>2. CASE "PROCESSING_ERROR" \in flags' /\ frames' = <<>> /\ ~ stuck'
    BY <1>4, <2>1, <2>2 DEF ControlFrame
  <2>3. CASE "PROCESSING_ERROR" \notin flags' /\ UNCHANGED <<frames, stuck>> /\ ~ stuck /\ fs = Append(frames, f)
    <3>1. mem' = [m EXCEPT !.object[current].frame = None] /\ current' = current
      BY <1>2, <2>1, <2>3 DEF ControlFrame
    <3>2. /\ Linked(mem', lo, current)
          /\ \A y \in 1..current : mem'.object[y].frame = IF y = current THEN None ELSE m.object[y].frame
      <4> DEFINE n == [m EXCEPT !.object[current].frame = None]
      <4>1. /\ Linked(n, lo, current)
            /\ \A y \in 1..current : n.object[y].frame = IF y = current THEN None ELSE m.object[y].frame
        BY ONLY <1>0, StoreFrame
      <4>2. mem' = n
        BY <3>1
      <4> HIDE DEF n
      <4> QED BY ONLY <4>1, <4>2
    <3>3. /\ Len(frames) \in Nat /\ Len(fs) = Len(frames) + 1 /\ DOMAIN frames = 1..Len(frames)
          /\ \A i \in 1..Len(frames) : fs[i] = frames[i]
      <4>1. Len(frames) \in Nat /\ DOMAIN frames = 1..Len(frames)
        BY LenProperties
      <4>2. Len(Append(frames, f)) = Len(frames) + 1 /\ \A i \in 1..Len(frames) : Append(frames, f)[i] = frames[i]
        BY <4>1
      <4> QED BY <2>3, <4>1, <4>2
    <3>4. ListHead' = lo
      BY ONLY <1>1, <2>3, <3>1, <3>3 DEF ListHead
    <3>5. \A i \in DOMAIN frames' : mem'.object[lo + i - 1].frame = frames'[i]
      <4> SUFFICES ASSUME NEW i \in 1..Len(frames) PROVE mem'.object[lo + i - 1].frame = frames[i]
        BY <2>3, <3>3
      <4>1. i \in DOMAIN fs /\ lo + i - 1 \in 1..current /\ lo + i - 1 # current
        BY ONLY <1>1, <3>3, i \in 1..Len(frames)
      <4> QED BY ONLY <1>0, <3>2, <3>3, <4>1
    <3> QED BY <1>1, <2>3, <3>1, <3>2, <3>4, <3>5 DEF MemInv
  <2> QED BY <1>5, <2>2, <2>3
<1>6. CASE HandlerOf(f) = "continuation"
  <2>1. ContinuationFrame(m) /\ frames' = fs /\ ~ stuck'
    BY <1>6 DEF HandlerFrames
  <2>2. /\ current' = current + 1 /\ Linked(mem', lo, current + 1)
        /\ \A y \in 1..current : mem'.object[y].frame = m.object[y].frame
    BY ONLY <1>0, <2>1, ContinuationLinks
  <2>3. ListHead' = lo /\ current' # NULL /\ current' \in Nat
    BY ONLY <1>1, <2>1, <2>2 DEF ListHead, NULL
  <2>4. \A i \in DOMAIN frames' : mem'.object[lo + i - 1].frame = frames'[i]
    <3>1. \A i \in DOMAIN fs : lo + i - 1 \in 1..current
      BY ONLY <1>1
    <3> QED BY ONLY <1>0, <2>1, <2>2, <3>1
  <2> QED BY <2>1, <2>2, <2>3, <2>4 DEF MemInv
<1>7. CASE HandlerOf(f) = "dispatch"
  <2>1. DispatchFrames(m)
    BY <1>7 DEF HandlerFrames
  <2>2. CASE stuck' /\ frames' = fs
    <3>1. mem' = m /\ current' = current
      BY <2>1, <2>2 DEF DispatchFrames
    <3>2. ListHead' = lo
      BY ONLY <1>1, <2>2, <3>1 DEF ListHead
    <3> QED BY <1>0, <1>1, <2>2, <3>1, <3>2 DEF MemInv
  <2>3. CASE ~ stuck' /\ frames' = <<>>
    <3>1. CASE ErrorFrames(m)
      BY <1>4, <2>3, <3>1
    <3>2. CASE mem' = CleanupFrames(m, First(m, current)) /\ current' = NULL
      <4>1. Freed(mem')
        BY ONLY <1>0, <3>2, FirstOfList, CleanupFreesAll
      <4> QED BY <1>3, <2>3, <3>2, <4>1
    <3> QED BY <2>1, <2>3, <3>1, <3>2 DEF DispatchFrames
  <2> QED BY <1>7, <2>2, <2>3
<1>8. CASE HandlerOf(f) = "fail"
  BY <1>4, <1>8 DEF HandlerFrames
<1> QED BY <1>5, <1>6, <1>7, <1>8

-----------------------------------------------------------------------------
(* The steps.                                                              *)

LEMMA InitMemInv == MemInit => MemInv
<1> SUFFICES ASSUME MemInit PROVE MemInv
  OBVIOUS
<1>1. mem.object = <<>> /\ mem.fault = FALSE /\ mem \in Memories
  BY DEF MemInit, Memories
<1>2. Len(mem.object) = 0
  BY <1>1
<1>3. Freed(mem)
  BY <1>1, <1>2 DEF Freed, Adjacent
<1>4. frames = <<>> /\ stuck = FALSE /\ current = NULL /\ destroyed = FALSE
  BY DEF MemInit, Init
<1>5. DOMAIN frames = {} /\ current \in Nat /\ destroyed \in BOOLEAN
  <2>1. DOMAIN <<>> = {}
    OBVIOUS
  <2>2. 0 \in Nat /\ FALSE \in BOOLEAN
    OBVIOUS
  <2> QED BY ONLY <1>4, <2>1, <2>2 DEF NULL
<1> QED BY ONLY <1>3, <1>4, <1>5 DEF MemInv

LEMMA StoreStep ==
  ASSUME MemInv, StoreFirstByte
  PROVE  MemInv'
<1>1. Freed(mem) /\ frames = <<>> /\ ~ stuck
  BY DEF MemInv, StoreFirstByte
<1>2. Linked(mem', current', current') /\ UNCHANGED <<frames, stuck, destroyed>>
  BY <1>1, AllocLinks DEF StoreFirstByte, vars
<1>3. current' \in Nat /\ current' # NULL
  <2>1. current' \in Nat /\ current' \in 1..current'
    BY ONLY <1>2, LinkedParts
  <2> QED BY <2>1 DEF NULL
<1>4. ListHead' = current'
  <2>1. frames' = <<>> /\ ~ stuck'
    BY <1>1, <1>2
  <2>2. Len(frames') = 0
    BY <2>1
  <2>3. ListHead' = current' + 1 - Len(frames') - 1
    BY <2>1 DEF ListHead
  <2> DEFINE c == current'
             n == Len(frames')
             h == ListHead'
  <2>4. c \in Nat /\ n = 0 /\ h = c + 1 - n - 1
    BY <1>3, <2>2, <2>3
  <2> HIDE DEF c, n, h
  <2>5. h = c
    BY ONLY <2>4, SMT
  <2> QED BY <2>5 DEF c, h
<1>5. DOMAIN frames' = {} /\ ~ destroyed' /\ destroyed' \in BOOLEAN
  <2>1. ~ destroyed /\ destroyed \in BOOLEAN
    BY DEF MemInv, StoreFirstByte
  <2> QED BY <1>1, <1>2, <2>1
<1>6. Linked(mem', ListHead', current')
  BY <1>2, <1>4
<1> QED BY ONLY <1>3, <1>5, <1>6 DEF MemInv

LEMMA ReceiveIntoStep ==
  ASSUME IInv, MemInv, NEW f \in RxFrames, ReceiveInto(f)
  PROVE  MemInv'
<1> DEFINE m == [mem EXCEPT !.object[current].frame = f]
           fs == Append(frames, f)
<1>1. /\ ~ destroyed /\ UNCHANGED destroyed /\ current # NULL /\ ~ stuck /\ Receiving /\ HandleFrame(f)
      /\ HandlerFrames([Touch(mem, current) EXCEPT !.object[current].frame = f], f)
  BY DEF ReceiveInto, Receive
<1>2. Linked(mem, ListHead, current) /\ \A i \in DOMAIN frames : mem.object[ListHead + i - 1].frame = frames[i]
  BY <1>1 DEF MemInv
<1>3. Touch(mem, current) = mem
  BY ONLY <1>2, LinkedParts, TouchLive
<1>4. HandlerFrames(m, f)
  BY <1>1, <1>3
<1>5. frames \in Seq(Frame) /\ f \in Frame
  BY FramesAssumption DEF IInv, TypeOK
<1>6. /\ fs \in Seq(Frame) /\ fs # <<>> /\ Len(frames) \in Nat /\ Len(fs) = Len(frames) + 1
      /\ DOMAIN fs = 1..Len(fs) /\ DOMAIN frames = 1..Len(frames)
      /\ fs[Len(fs)] = f /\ \A i \in 1..Len(frames) : fs[i] = frames[i]
  BY <1>5, AppendProperties, LenProperties
<1> HIDE DEF fs
<1>7. ListHead = current + 1 - Len(fs) /\ current \in Nat
  <2>1. current \in Nat
    BY <1>2, LinkedParts
  <2> QED BY <1>1, <1>6, <2>1 DEF ListHead
<1>8. /\ Linked(m, ListHead, current)
      /\ \A y \in 1..current : m.object[y].frame = IF y = current THEN f ELSE mem.object[y].frame
  BY ONLY <1>2, <1>5, StoreFrame
<1>9. \A i \in DOMAIN fs : m.object[current + 1 - Len(fs) + i - 1].frame = fs[i]
  <2> SUFFICES ASSUME NEW i \in 1..Len(fs) PROVE m.object[current + 1 - Len(fs) + i - 1].frame = fs[i]
    BY <1>6
  <2>0. ListHead \in 1..current
    BY <1>2, LinkedParts
  <2> HIDE DEF m
  <2>1. current + 1 - Len(fs) + i - 1 \in 1..current /\ (current + 1 - Len(fs) + i - 1 = current <=> i = Len(fs))
    BY ONLY <1>6, <1>7, <2>0, i \in 1..Len(fs)
  <2>2. CASE i = Len(fs)
    BY <1>6, <1>8, <2>1, <2>2
  <2>3. CASE i # Len(fs)
    <3>1. i \in DOMAIN frames
      BY <1>6, <2>3
    <3> QED BY <1>2, <1>6, <1>7, <1>8, <2>1, <2>3, <3>1
  <2> QED BY <2>2, <2>3
<1>10. \/ /\ HandlerOf(f) = "control" /\ ~ stuck /\ fs = Append(frames, f)
          /\ \/ "PROCESSING_ERROR" \in flags' /\ frames' = <<>> /\ ~ stuck'
             \/ "PROCESSING_ERROR" \notin flags' /\ UNCHANGED <<frames, stuck>>
       \/ HandlerOf(f) = "continuation" /\ frames' = fs /\ ~ stuck'
       \/ /\ HandlerOf(f) = "dispatch"
          /\ \/ stuck' /\ frames' = fs
             \/ ~ stuck' /\ frames' = <<>>
       \/ HandlerOf(f) = "fail" /\ frames' = <<>> /\ ~ stuck'
  <2>1. CASE HandlerOf(f) = "control" /\ Control(f)
    BY <1>1, <2>1, ControlOutcome DEF fs
  <2>2. CASE HandlerOf(f) = "continuation" /\ NewContinuation(f)
    BY <1>1, <2>2 DEF fs, NewContinuation
  <2>3. CASE HandlerOf(f) = "dispatch" /\ Dispatch(Append(frames, f))
    BY <1>1, <2>3, DispatchOutcome DEF fs
  <2>4. CASE HandlerOf(f) = "fail" /\ Fail(flags)
    BY <2>4 DEF Fail, Error
  <2> QED BY <1>1, <2>1, <2>2, <2>3, <2>4 DEF HandleFrame
<1> HIDE DEF m
<1>11. Linked(m, current + 1 - Len(fs), current)
  BY <1>7, <1>8
<1> QED BY ONLY MemInv, <1>1, <1>4, <1>5, <1>6, <1>9, <1>10, <1>11, HandlerKeeps

LEMMA RedispatchFrameStep ==
  ASSUME IInv, MemInv, RedispatchFrame
  PROVE  MemInv'
<1> DEFINE f == mem.object[current].frame
<1>1. /\ ~ destroyed /\ UNCHANGED destroyed /\ stuck /\ Receiving /\ Redispatch
      /\ HandlerFrames(Touch(mem, current), f)
  BY DEF RedispatchFrame, Redispatch
<1>2. frames \in Seq(Frame) /\ frames # <<>> /\ current # NULL
  BY <1>1 DEF IInv, TypeOK, StuckFrame, MemInv
<1>3. Linked(mem, ListHead, current) /\ \A i \in DOMAIN frames : mem.object[ListHead + i - 1].frame = frames[i]
  BY <1>1, <1>2 DEF MemInv
<1>4. HandlerFrames(mem, f)
  <2>1. Touch(mem, current) = mem
    BY ONLY <1>3, LinkedParts, TouchLive
  <2> QED BY <1>1, <2>1
<1>5. ListHead = current + 1 - Len(frames) /\ current \in Nat /\ Len(frames) \in DOMAIN frames /\ Len(frames) \in Nat
  <2>1. current \in Nat
    BY <1>3, LinkedParts
  <2>2. Len(frames) \in Nat /\ Len(frames) # 0 /\ DOMAIN frames = 1..Len(frames)
    BY <1>2, LenProperties, EmptySeq
  <2> QED BY <1>1, <2>1, <2>2 DEF ListHead
<1>6. f = Last(frames)
  <2>1. mem.object[ListHead + Len(frames) - 1].frame = frames[Len(frames)]
    BY <1>3, <1>5
  <2>2. ListHead + Len(frames) - 1 = current
    BY <1>5
  <2> QED BY <2>1, <2>2 DEF Last
<1>7. \/ /\ HandlerOf(f) = "dispatch"
         /\ \/ stuck' /\ frames' = frames
            \/ ~ stuck' /\ frames' = <<>>
      \/ HandlerOf(f) = "fail" /\ frames' = <<>> /\ ~ stuck'
  <2> HIDE DEF f
  <2>1. CASE HandlerOf(f) = "dispatch" /\ Dispatch(frames)
    BY <1>1, <2>1, DispatchOutcome
  <2>2. CASE HandlerOf(f) = "fail" /\ Fail(flags)
    BY <2>2 DEF Fail, Error
  <2> QED BY <1>1, <1>6, <2>1, <2>2 DEF Redispatch
<1> HIDE DEF f
<1> QED BY <1>1, <1>2, <1>3, <1>4, <1>5, <1>7, HandlerKeeps

LEMMA ElsewhereStep ==
  ASSUME MemInv, Elsewhere
  PROVE  MemInv'
<1>1. UNCHANGED <<frames, stuck>>
  BY DEF Elsewhere, PopulateHandshake, App, AppPing, AppPong, AppClose, AppWhole, AppInit,
         AppContinuation, AppEnd, Call
<1>2. UNCHANGED <<mem, current, destroyed>>
  BY DEF Elsewhere, memory
<1> QED BY <1>1, <1>2 DEF MemInv, ListHead

LEMMA DestroyStep ==
  ASSUME MemInv, Destroy
  PROVE  MemInv'
<1>1. UNCHANGED <<frames, stuck, current>> /\ destroyed' = TRUE /\ ~ destroyed /\ mem' = FreeAll(mem)
  BY DEF Destroy, vars
<1>2. Freed(FreeAll(mem))
  BY <1>1, FreeAllFrees DEF MemInv
<1> QED BY <1>1, <1>2 DEF MemInv

\* A step of the memory is a step of the connection, or concerns memory only,
\* and it keeps both invariants.
LEMMA MemStep == IInv /\ MemInv /\ [MemNext]_memVars => IInv' /\ MemInv' /\ [Next]_vars
<1> SUFFICES ASSUME IInv, MemInv, [MemNext]_memVars PROVE IInv' /\ MemInv' /\ [Next]_vars
  OBVIOUS
<1>1. [Next]_vars
  BY DEF MemNext, StoreFirstByte, ReceiveInto, RedispatchFrame, Elsewhere, Destroy, memVars, Next
<1>2. IInv'
  BY <1>1, NextStep
<1>3. MemInv'
  <2>1. CASE UNCHANGED memVars
    BY <2>1 DEF memVars, memory, vars, MemInv, ListHead
  <2> QED BY <2>1, StoreStep, ReceiveIntoStep, RedispatchFrameStep, ElsewhereStep, DestroyStep DEF MemNext
<1> QED BY <1>1, <1>2, <1>3

-----------------------------------------------------------------------------
(* The theorems.                                                           *)

\* The links in memory implement the connection of module Connection: all
\* that is proved of its specification holds of the program with memory.
THEOREM MemoryImplements == MemSpec => Spec
<1>1. MemInit => Init /\ IInv /\ MemInv
  BY InitIInv, InitMemInv DEF MemInit
<1> QED BY <1>1, MemStep, PTL DEF MemSpec, Spec

\* MemInv is an invariant of the frames in memory.
THEOREM MemoryInvariant == MemSpec => []MemInv
<1>1. MemInit => IInv /\ MemInv
  BY InitIInv, InitMemInv DEF MemInit
<1> QED BY <1>1, MemStep, PTL DEF MemSpec

\* No object is read, written or freed after it was freed, and none is lost.
THEOREM MemoryCorrect == MemSpec => []MemorySafe
<1>1. MemInv => MemorySafe
  <2> SUFFICES ASSUME MemInv PROVE MemorySafe
    OBVIOUS
  <2>1. CASE destroyed \/ current = NULL
    <3>1. Freed(mem)
      BY <2>1 DEF MemInv
    <3>2. LiveObjects = {}
      BY <3>1, MemoryParts DEF Freed, LiveObjects, Objects
    <3> QED BY <2>1, <3>1, <3>2 DEF MemorySafe, Freed
  <2>2. CASE ~ (destroyed \/ current = NULL)
    <3>1. Linked(mem, ListHead, current)
      BY <2>2 DEF MemInv
    <3>2. First(mem, current) = ListHead /\ Forward(mem, ListHead) = Upwards(ListHead, current)
      BY <3>1, FirstOfList, ForwardFromFirst
    <3>3. /\ current \in Nat /\ ListHead \in 1..current /\ ListHead \in Nat /\ ~ mem.fault
          /\ DOMAIN mem.object = 1..current
      BY <3>1, LinkedParts, MemoryParts
    <3>4. LiveObjects = ListHead..current
      <4>1. \A y \in 1..current : mem.object[y].live <=> ListHead <= y
        BY <3>1 DEF Linked
      <4> QED BY <3>3, <4>1 DEF LiveObjects, Objects
    <3>5. Range(Upwards(ListHead, current)) = ListHead..current
      <4>1. \A y \in ListHead..current : y - ListHead + 1 \in 1..current - ListHead + 1
                                         /\ ListHead + (y - ListHead + 1) - 1 = y
        BY <3>3
      <4>2. \A i \in 1..current - ListHead + 1 : ListHead + i - 1 \in ListHead..current
        BY <3>3
      <4> DEFINE s == Upwards(ListHead, current)
      <4>3. /\ DOMAIN s = 1..current - ListHead + 1
            /\ \A i \in 1..current - ListHead + 1 : s[i] = ListHead + i - 1
        BY <3>3, UpwardsParts
      <4> HIDE DEF s
      <4>4. ASSUME NEW y \in Range(s) PROVE y \in ListHead..current
        <5>1. PICK i \in DOMAIN s : y = s[i]
          BY DEF Range
        <5> QED BY ONLY <4>2, <4>3, <5>1
      <4>5. ASSUME NEW y \in ListHead..current PROVE y \in Range(s)
        <5>1. y = s[y - ListHead + 1] /\ y - ListHead + 1 \in DOMAIN s
          BY ONLY <4>1, <4>3, y \in ListHead..current
        <5> QED BY <5>1 DEF Range
      <4> QED BY <4>4, <4>5 DEF s
    <3> QED BY <2>2, <3>2, <3>3, <3>4, <3>5 DEF MemorySafe
  <2> QED BY <2>1, <2>2
<1> QED BY <1>1, MemoryInvariant, PTL

\* The links are the list of frames of Connection, in both directions.
THEOREM LinksCorrect == MemSpec => []LinksAreFrames
<1>1. IInv /\ MemInv => LinksAreFrames
  <2> SUFFICES ASSUME IInv, MemInv, ~ destroyed PROVE LinksAreFrames
    BY DEF LinksAreFrames
  <2>1. CASE current = NULL
    <3>1. frames = <<>> /\ ~ stuck
      BY <2>1 DEF MemInv
    <3> QED BY <2>1, <3>1 DEF LinksAreFrames
  <2>2. CASE current # NULL
    <3> DEFINE list == Upwards(ListHead, current)
               done == IF stuck \/ list = <<>> THEN list ELSE Front(list)
    <3>1. Linked(mem, ListHead, current) /\ \A i \in DOMAIN frames : mem.object[ListHead + i - 1].frame = frames[i]
      BY <2>2 DEF MemInv
    <3>2. First(mem, current) = ListHead /\ Forward(mem, ListHead) = list
      BY <3>1, FirstOfList, ForwardFromFirst
    <3>3. current \in Nat /\ ListHead \in 1..current /\ ListHead \in Nat
      BY <3>1, LinkedParts
    <3>4. /\ list \in Seq(Nat) /\ Len(list) = current - ListHead + 1 /\ list # <<>>
          /\ DOMAIN list = 1..current - ListHead + 1
          /\ \A i \in 1..current - ListHead + 1 : list[i] = ListHead + i - 1
      <4>1. current - ListHead + 1 # 0
        BY <3>3
      <4> QED BY <3>3, <4>1, UpwardsParts, EmptySeq
    <3> HIDE DEF list
    <3>5. /\ frames \in Seq(Frame) /\ Len(frames) \in Nat /\ DOMAIN frames = 1..Len(frames)
          /\ Len(frames) = IF stuck THEN Len(list) ELSE Len(list) - 1
      <4>1. frames \in Seq(Frame) /\ Len(frames) \in Nat /\ DOMAIN frames = 1..Len(frames)
        BY LenProperties DEF IInv, TypeOK
      <4> QED BY <3>3, <3>4, <4>1 DEF ListHead
    <3>6. /\ DOMAIN done = 1..Len(frames)
          /\ \A i \in 1..Len(frames) : done[i] = ListHead + i - 1
      <4>1. CASE stuck
        BY <3>4, <3>5, <4>1
      <4>2. CASE ~ stuck
        <5>1. done = SubSeq(list, 1, Len(list) - 1)
          BY <3>4, <4>2 DEF Front
        <5>2. \A i \in 1..Len(list) - 1 : list[i] \in Nat
          BY <3>3, <3>4
        <5>3. Len(list) - 1 \in Nat
          BY <3>3, <3>4
        <5>4. /\ done \in Seq(Nat) /\ Len(done) = Len(list) - 1
              /\ \A i \in 1..Len(list) - 1 : done[i] = list[i]
          <6> DEFINE k == Len(list) - 1
          <6>1. k \in Nat /\ k \in Int /\ 1 \in Int
            BY <5>3
          <6> HIDE DEF done, k
          <6>2. /\ SubSeq(list, 1, k) \in Seq(Nat)
                /\ Len(SubSeq(list, 1, k)) = IF 1 <= k THEN k - 1 + 1 ELSE 0
                /\ \A i \in 1..k - 1 + 1 : SubSeq(list, 1, k)[i] = list[1 + i - 1]
            <7>1. \A i \in 1..k : list[i] \in Nat
              BY <5>2 DEF k
            <7> QED BY ONLY <6>1, <7>1, SubSeqProperties
          <6>3. done = SubSeq(list, 1, k)
            BY <5>1 DEF k
          <6>4. Len(done) = k /\ \A i \in 1..k : done[i] = list[i]
            <7>1. 1..k - 1 + 1 = 1..k /\ \A i \in 1..k : 1 + i - 1 = i
              BY <6>1
            <7>2. (IF 1 <= k THEN k - 1 + 1 ELSE 0) = k
              BY <6>1
            <7> QED BY <6>2, <6>3, <7>1, <7>2
          <6> QED BY <6>2, <6>3, <6>4 DEF k
        <5> HIDE DEF done
        <5> QED BY <3>3, <3>4, <3>5, <4>2, <5>4, LenProperties
      <4> QED BY <4>1, <4>2
    <3> HIDE DEF done
    <3>7. [i \in DOMAIN done |-> mem.object[done[i]].frame] = frames
      <4>1. \A i \in 1..Len(frames) : mem.object[done[i]].frame = frames[i]
        BY <3>1, <3>5, <3>6
      <4>2. frames = [i \in 1..Len(frames) |-> frames[i]]
        BY <3>5
      <4> QED BY <3>6, <4>1, <4>2
    <3>8. Last(list) = current
      BY <3>3, <3>4 DEF Last
    <3>9. \A i \in DOMAIN list : mem.object[list[i]].prev = IF i = 1 THEN NULL ELSE list[i - 1]
      <4> SUFFICES ASSUME NEW i \in 1..current - ListHead + 1
                   PROVE  mem.object[list[i]].prev = IF i = 1 THEN NULL ELSE list[i - 1]
        BY <3>4
      <4>1. list[i] = ListHead + i - 1 /\ list[i] \in ListHead..current /\ (list[i] = ListHead <=> i = 1)
        BY <3>3, <3>4
      <4>2. mem.object[list[i]].prev = IF i = 1 THEN NULL ELSE list[i] - 1
        BY <3>1, <4>1 DEF Linked
      <4>3. i # 1 => list[i - 1] = list[i] - 1
        BY <3>3, <3>4, <4>1
      <4> QED BY <4>2, <4>3
    <3> QED BY <2>2, <3>2, <3>4, <3>7, <3>8, <3>9 DEF LinksAreFrames, done
  <2> QED BY <2>1, <2>2
<1>2. MemInit => IInv /\ MemInv
  BY InitIInv, InitMemInv DEF MemInit
<1> QED BY <1>1, <1>2, MemStep, PTL DEF MemSpec
=============================================================================
