---------------------------- MODULE ServerProofs ----------------------------
(* The descriptors of the server's processes, for any number of clients,   *)
(* any limit of descriptors and of processes.                              *)
EXTENDS Server, SequenceLemmas

\* The table of a process that holds at most one connection, at fd.
Table(listening, fd, c) ==
  [d \in Fd |-> IF d = listening_socket THEN listening ELSE IF d = fd THEN c ELSE None]

\* A process that holds the connection c beside what it has for listening.
Holds(p, listening, c) ==
  /\ accepted_socket[p] # listening_socket
  /\ fds[p] = Table(listening, accepted_socket[p], c)

Types ==
  /\ pc \in {"accept", "fork", "close", "exited"}
  /\ accepted_socket \in [Process -> Fd]
  /\ fds \in [Process -> [Fd -> Clients \cup {Listening, None}]]
  /\ child \in [Clients -> {"none", "forked", "serving", "closed", "exited"}]

\* The parent holds one connection from its accept to its close and none in
\* between.
ParentFiles ==
  /\ pc = "accept" => fds[Parent] = Table(Listening, listening_socket, None)
  /\ pc \in {"fork", "close"} => \E c \in Clients : Holds(Parent, Listening, c)

\* A child has a copy of that until it closes the listening socket.
ChildFiles ==
  \A c \in Clients : /\ child[c] = "forked" => Holds(c, Listening, c)
                     /\ child[c] = "serving" => Holds(c, None, c)

IInv == Types /\ ParentFiles /\ ChildFiles

-----------------------------------------------------------------------------
LEMMA Sockets == /\ listening_socket \in Fd /\ Fd \subseteq Nat
                 /\ Parent \in Process /\ Clients \subseteq Process /\ Parent \notin Clients
BY ServerAssumption DEF listening_socket, Fd, Process

\* A table with one connection is a table of files.
LEMMA TableType ==
  ASSUME NEW l \in {Listening, None}, NEW fd \in Fd, NEW c \in Clients \cup {None}
  PROVE  Table(l, fd, c) \in [Fd -> Clients \cup {Listening, None}]
BY DEF Table

\* What the parent holds between two connections, and a child at work.
LEMMA ParentHeld == Range(Table(Listening, listening_socket, None)) \ {None} = {Listening}
BY Sockets, ServerAssumption DEF Table, Range

LEMMA ChildHeld ==
  ASSUME NEW fd \in Fd, fd # listening_socket, NEW c \in Clients
  PROVE  Range(Table(None, fd, c)) \ {None} = {c}
BY Sockets, ServerAssumption DEF Table, Range

\* The connection put at a free descriptor of the parent's table.
LEMMA TableAccept ==
  ASSUME NEW fd \in Fd, fd # listening_socket, NEW c
  PROVE  [Table(Listening, listening_socket, None) EXCEPT ![fd] = c] = Table(Listening, fd, c)
BY DEF Table

\* The parent's close.
LEMMA TableClose ==
  ASSUME NEW fd \in Fd, fd # listening_socket, NEW c
  PROVE  [Table(Listening, fd, c) EXCEPT ![fd] = None] = Table(Listening, listening_socket, None)
BY DEF Table

\* The child's close of the listening socket.
LEMMA TableStart ==
  ASSUME NEW fd \in Fd, fd # listening_socket, NEW c
  PROVE  [Table(Listening, fd, c) EXCEPT ![listening_socket] = None] = Table(None, fd, c)
BY Sockets DEF Table

LEMMA InitIInv == Init => IInv
<1> SUFFICES ASSUME Init PROVE IInv
  OBVIOUS
<1>1. NoFiles \in [Fd -> Clients \cup {Listening, None}]
  BY DEF NoFiles
<1>2. [NoFiles EXCEPT ![listening_socket] = Listening] = Table(Listening, listening_socket, None)
  BY Sockets DEF NoFiles, Table
<1>3. fds[Parent] = Table(Listening, listening_socket, None)
  BY <1>2, Sockets DEF Init
<1>4. Types
  <2>1. Table(Listening, listening_socket, None) \in [Fd -> Clients \cup {Listening, None}]
    BY TableType, Sockets
  <2> QED BY <1>1, <1>2, <2>1, Sockets DEF Init, Types
<1> QED BY <1>3, <1>4 DEF Init, IInv, ParentFiles, ChildFiles

-----------------------------------------------------------------------------
(* One lemma per step of main, one for the steps of a child.               *)

\* accept puts the connection beside the listening socket.
LEMMA AcceptStep ==
  ASSUME IInv, NEW c \in Clients, Accept(c)
  PROVE  IInv'
<1> DEFINE fd == Min(Free)
<1>1. fds[Parent] = Table(Listening, listening_socket, None)
  BY DEF Accept, IInv, ParentFiles
<1>2. fd \in Fd /\ fd # listening_socket
  <2>1. Free \in SUBSET Nat /\ Free # {}
    BY Sockets DEF Free, Accept
  <2>2. Min(Free) \in Free
    BY <2>1, MinOfNats
  <2>3. listening_socket \notin Free
    BY <1>1, Sockets, ServerAssumption DEF Free, Table
  <2> QED BY <2>2, <2>3 DEF Free
<1> HIDE DEF fd
<1>3. /\ accepted_socket' = [accepted_socket EXCEPT ![Parent] = fd]
      /\ fds' = [fds EXCEPT ![Parent][fd] = c]
      /\ pc' = "fork" /\ child' = child
  BY DEF Accept, fd
<1>4. fds' = [fds EXCEPT ![Parent] = Table(Listening, fd, c)]
  BY <1>1, <1>2, <1>3, TableAccept
<1>5. Types'
  BY <1>2, <1>3, <1>4, TableType, Sockets DEF IInv, Types
<1>6. ParentFiles'
  <2>1. accepted_socket'[Parent] = fd /\ fds'[Parent] = Table(Listening, fd, c)
    BY <1>3, <1>4, Sockets DEF IInv, Types
  <2> QED BY <1>2, <1>3, <2>1 DEF ParentFiles, Holds
<1>7. ChildFiles'
  BY <1>3, <1>4, Sockets DEF IInv, Types, ChildFiles, Holds
<1> QED BY <1>5, <1>6, <1>7 DEF IInv

\* fork copies the parent's descriptors to the child of the connection.
LEMMA ForkStep ==
  ASSUME IInv, Fork
  PROVE  IInv'
<1>1. PICK c \in Clients : Holds(Parent, Listening, c)
  BY DEF Fork, IInv, ParentFiles
<1>2. accepted_socket[Parent] \in Fd
  BY Sockets DEF IInv, Types
<1>3. fds[Parent][accepted_socket[Parent]] = c
  BY <1>1, <1>2 DEF Holds, Table
<1>4. /\ child' = [child EXCEPT ![c] = "forked"]
      /\ fds' = [fds EXCEPT ![c] = fds[Parent]]
      /\ accepted_socket' = [accepted_socket EXCEPT ![c] = accepted_socket[Parent]]
      /\ pc' = "close"
  BY <1>3 DEF Fork
<1>5. Types'
  BY <1>4, Sockets DEF IInv, Types
<1>6. ParentFiles'
  BY <1>1, <1>4, Sockets DEF ParentFiles, Holds, IInv, Types
<1>7. ChildFiles'
  BY <1>1, <1>4, Sockets DEF IInv, Types, ChildFiles, Holds
<1> QED BY <1>5, <1>6, <1>7 DEF IInv

\* The parent's close leaves it the listening socket.
LEMMA ParentClosesStep ==
  ASSUME IInv, ParentCloses
  PROVE  IInv'
<1>1. PICK c \in Clients : Holds(Parent, Listening, c)
  BY DEF ParentCloses, IInv, ParentFiles
<1> DEFINE fd == accepted_socket[Parent]
<1>2. fd \in Fd /\ fd # listening_socket /\ fds[Parent] = Table(Listening, fd, c)
  BY <1>1, Sockets DEF IInv, Types, Holds
<1>3. /\ fds' = [fds EXCEPT ![Parent][fd] = None]
      /\ pc' = "accept" /\ accepted_socket' = accepted_socket /\ child' = child
  BY DEF ParentCloses, Close
<1> HIDE DEF fd
<1>4. fds' = [fds EXCEPT ![Parent] = Table(Listening, listening_socket, None)]
  BY <1>2, <1>3, TableClose
<1>5. Types'
  <2>1. Table(Listening, listening_socket, None) \in [Fd -> Clients \cup {Listening, None}]
    BY TableType, Sockets
  <2> QED BY <1>3, <1>4, <2>1, Sockets DEF IInv, Types
<1>6. ParentFiles'
  BY <1>3, <1>4, Sockets DEF ParentFiles, IInv, Types
<1>7. ChildFiles'
  BY <1>3, <1>4, Sockets DEF IInv, Types, ChildFiles, Holds
<1> QED BY <1>5, <1>6, <1>7 DEF IInv

\* An error of accept or fork ends the parent.
LEMMA ExitStep ==
  ASSUME IInv, ExitParent
  PROVE  IInv'
<1>1. NoFiles \in [Fd -> Clients \cup {Listening, None}]
  BY DEF NoFiles
<1>2. Types'
  BY <1>1, Sockets DEF ExitParent, IInv, Types
<1>3. ParentFiles'
  BY DEF ExitParent, ParentFiles
<1>4. ChildFiles'
  BY Sockets DEF ExitParent, IInv, Types, ChildFiles, Holds
<1> QED BY <1>2, <1>3, <1>4 DEF IInv

\* A child's steps touch its own table alone.
LEMMA ChildStep ==
  ASSUME IInv, NEW c \in Clients, ChildStarts(c) \/ ChildCloses(c) \/ ChildExits(c)
  PROVE  IInv'
<1>1. c # Parent /\ c \in Process
  BY Sockets
<1>2. /\ \E files \in [Fd -> Clients \cup {Listening, None}] : fds' = [fds EXCEPT ![c] = files]
      /\ \E at \in {"serving", "closed", "exited"} : child' = [child EXCEPT ![c] = at]
      /\ UNCHANGED <<pc, accepted_socket>>
  <2>1. \A fd \in Fd : [fds[c] EXCEPT ![fd] = None] \in [Fd -> Clients \cup {Listening, None}]
    BY <1>1 DEF IInv, Types
  <2>2. accepted_socket[c] \in Fd
    BY <1>1 DEF IInv, Types
  <2>3. NoFiles \in [Fd -> Clients \cup {Listening, None}]
    BY DEF NoFiles
  <2>4. CASE ChildStarts(c)
    BY <2>1, <2>4, Sockets DEF ChildStarts, Close
  <2>5. CASE ChildCloses(c)
    BY <2>1, <2>2, <2>5 DEF ChildCloses, Close
  <2>6. CASE ChildExits(c)
    BY <2>3, <2>6 DEF ChildExits
  <2> QED BY <2>4, <2>5, <2>6
<1>3. Types'
  BY <1>1, <1>2 DEF IInv, Types
<1>4. ParentFiles'
  BY <1>1, <1>2, Sockets DEF IInv, Types, ParentFiles, Holds
<1>5. child'[c] = "serving" => Holds(c, None, c)'
  <2> SUFFICES ASSUME child'[c] = "serving" PROVE Holds(c, None, c)'
    OBVIOUS
  <2>1. /\ child[c] = "forked" /\ fds' = [fds EXCEPT ![c][listening_socket] = None]
        /\ accepted_socket' = accepted_socket
    BY DEF ChildStarts, ChildCloses, ChildExits, Close, IInv, Types
  <2>2. Holds(c, Listening, c)
    BY <2>1 DEF IInv, ChildFiles
  <2>3. accepted_socket[c] \in Fd
    BY <1>1 DEF IInv, Types
  <2>4. fds'[c] = Table(None, accepted_socket[c], c)
    BY <1>1, <2>1, <2>2, <2>3, TableStart DEF Holds, IInv, Types
  <2> QED BY <2>1, <2>2, <2>4 DEF Holds
<1>6. ChildFiles'
  BY <1>1, <1>2, <1>5 DEF IInv, Types, ChildFiles, Holds
<1> QED BY <1>3, <1>4, <1>6 DEF IInv

LEMMA NextIInv == IInv /\ [Next]_vars => IInv'
<1> SUFFICES ASSUME IInv, [Next]_vars PROVE IInv'
  OBVIOUS
<1>1. ASSUME NEW c \in Clients, Accept(c) PROVE IInv'
  BY <1>1, AcceptStep
<1>2. ASSUME NEW c \in Clients, AcceptFails(c) PROVE IInv'
  BY <1>2, ExitStep DEF AcceptFails
<1>3. CASE Fork
  BY <1>3, ForkStep
<1>4. CASE ForkFails
  BY <1>4, ExitStep DEF ForkFails
<1>5. CASE ParentCloses
  BY <1>5, ParentClosesStep
<1>6. ASSUME NEW c \in Clients, ChildStarts(c) \/ ChildCloses(c) \/ ChildExits(c) PROVE IInv'
  BY <1>6, ChildStep
<1>7. CASE UNCHANGED <<pc, accepted_socket, fds, child>>
  BY <1>7 DEF IInv, Types, ParentFiles, ChildFiles, Holds
<1>8. ASSUME NEW c \in Clients, Connect(c) PROVE IInv'
  BY <1>8, <1>7 DEF Connect
<1> QED BY <1>1, <1>2, <1>3, <1>4, <1>5, <1>6, <1>7, <1>8 DEF Next, Main, vars

-----------------------------------------------------------------------------
\* However many connections are served, and in whatever order the processes
\* run, a child at work holds its own socket and no other.
THEOREM ChildrenApart == Spec => []OwnSocketOnly
<1>1. IInv => OwnSocketOnly
  <2> SUFFICES ASSUME IInv, NEW c \in Clients, child[c] = "serving"
               PROVE  Held(c) = {c}
    BY DEF OwnSocketOnly
  <2>1. Holds(c, None, c)
    BY DEF IInv, ChildFiles
  <2>2. accepted_socket[c] \in Fd
    BY Sockets DEF IInv, Types
  <2> QED BY <2>1, <2>2, ChildHeld DEF Held, Holds
<1> QED BY <1>1, InitIInv, NextIInv, PTL DEF Spec

\* Every accept finds the parent with the listening socket alone: it never
\* runs out of descriptors.
THEOREM ParentKeepsNothing == Spec => []NoDescriptorLeaks
<1>1. IInv => NoDescriptorLeaks
  BY ParentHeld DEF IInv, ParentFiles, NoDescriptorLeaks, Held
<1> QED BY <1>1, InitIInv, NextIInv, PTL DEF Spec
=============================================================================
