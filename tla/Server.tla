------------------------------- MODULE Server -------------------------------
(***************************************************************************)
(* main of examples/autobahn-echo.c: a process that accepts connections    *)
(* and forks a child for each, and the descriptors the processes hold.     *)
(* What a child does with its connection is module EchoHost; here it ends  *)
(* at some point or never.                                                 *)
(***************************************************************************)
EXTENDS Integers, FiniteSets, FiniteSetsExt, Functions

CONSTANTS
  Clients,       \* each connects once
  Parent,        \* the process of main; the child for a client bears its name
  Listening,     \* the listening socket; a connection bears its client's name
  None,          \* no file at a descriptor
  MaxFd,         \* the highest descriptor of a process
  MaxProcesses   \* the children the system allows, ended ones that nobody
                 \* waited for included

ASSUME ServerAssumption ==
  /\ {Parent, Listening, None} \cap Clients = {}
  /\ Parent # Listening /\ Parent # None /\ Listening # None
  /\ MaxFd \in Nat \ {0} /\ MaxProcesses \in Nat \ {0}

Process == Clients \cup {Parent}
Fd == 0..MaxFd
listening_socket == 0

VARIABLES
  client,           \* "away", "waiting" in the backlog, "taken" or "lost"
  pc,               \* where main is: "accept", "fork", "close", or "exited"
  accepted_socket,  \* the descriptor, in every process
  fds,              \* the files of every process
  child             \* "none", "forked", "serving", "closed" or "exited"

vars == <<client, pc, accepted_socket, fds, child>>

NoFiles == [fd \in Fd |-> None]
Held(p) == Range(fds[p]) \ {None}
Open(file) == \E p \in Process : file \in Held(p)

Init == /\ client = [c \in Clients |-> "away"]
        /\ pc = "accept"
        /\ accepted_socket = [p \in Process |-> listening_socket]
        /\ fds = [p \in Process |-> IF p = Parent THEN [NoFiles EXCEPT ![listening_socket] = Listening]
                                    ELSE NoFiles]
        /\ child = [c \in Clients |-> "none"]

-----------------------------------------------------------------------------
\* The kernel puts a connection in the backlog while some process listens.
Connect(c) == /\ client[c] = "away"
              /\ Open(Listening)
              /\ client' = [client EXCEPT ![c] = "waiting"]
              /\ UNCHANGED <<pc, accepted_socket, fds, child>>

ExitParent == /\ pc' = "exited"
              /\ fds' = [fds EXCEPT ![Parent] = NoFiles]
              /\ UNCHANGED <<accepted_socket, child>>

Free == {fd \in Fd : fds[Parent][fd] = None}

\* accept gives the least descriptor that is free.
Accept(c) == /\ pc = "accept"
             /\ client[c] = "waiting"
             /\ Free # {}
             /\ client' = [client EXCEPT ![c] = "taken"]
             /\ accepted_socket' = [accepted_socket EXCEPT ![Parent] = Min(Free)]
             /\ fds' = [fds EXCEPT ![Parent][Min(Free)] = c]
             /\ pc' = "fork"
             /\ UNCHANGED child

\* A connection aborted before it was accepted, or no descriptor left.
AcceptFails(c) == /\ pc = "accept"
                  /\ client[c] = "waiting"
                  /\ client' = [client EXCEPT ![c] = "lost"]
                  /\ ExitParent

Fork == LET c == fds[Parent][accepted_socket[Parent]]
        IN  /\ pc = "fork"
            /\ Cardinality({d \in Clients : child[d] # "none"}) < MaxProcesses
            /\ child' = [child EXCEPT ![c] = "forked"]
            /\ fds' = [fds EXCEPT ![c] = fds[Parent]]
            /\ accepted_socket' = [accepted_socket EXCEPT ![c] = accepted_socket[Parent]]
            /\ pc' = "close"
            /\ UNCHANGED client

ForkFails == /\ pc = "fork"
             /\ Cardinality({d \in Clients : child[d] # "none"}) >= MaxProcesses
             /\ ExitParent
             /\ UNCHANGED client

Close(p, fd) == fds' = [fds EXCEPT ![p][fd] = None]

\* (An operator named after another with a suffix is a plausible error in it.)
ParentClosesNothing == /\ pc = "close"
                       /\ pc' = "accept"
                       /\ UNCHANGED <<client, accepted_socket, fds, child>>

ParentWaits == /\ pc = "close"
               /\ child[fds[Parent][accepted_socket[Parent]]] = "exited"
               /\ Close(Parent, accepted_socket[Parent])
               /\ pc' = "accept"
               /\ UNCHANGED <<client, accepted_socket, child>>

\* The parent's branch after the fork.
ParentCloses == /\ pc = "close"
                /\ Close(Parent, accepted_socket[Parent])
                /\ pc' = "accept"
                /\ UNCHANGED <<client, accepted_socket, child>>

ChildStartsListening(c) ==
  /\ child[c] = "forked"
  /\ child' = [child EXCEPT ![c] = "serving"]
  /\ UNCHANGED <<client, pc, accepted_socket, fds>>

\* The child's branch: the listening socket is closed, and do_processing runs.
ChildStarts(c) == /\ child[c] = "forked"
                  /\ Close(c, listening_socket)
                  /\ child' = [child EXCEPT ![c] = "serving"]
                  /\ UNCHANGED <<client, pc, accepted_socket>>

\* The end of do_processing.
ChildCloses(c) == /\ child[c] = "serving"
                  /\ Close(c, accepted_socket[c])
                  /\ child' = [child EXCEPT ![c] = "closed"]
                  /\ UNCHANGED <<client, pc, accepted_socket>>

ChildExits(c) == /\ child[c] = "closed"
                 /\ fds' = [fds EXCEPT ![c] = NoFiles]
                 /\ child' = [child EXCEPT ![c] = "exited"]
                 /\ UNCHANGED <<client, pc, accepted_socket>>

Main == (\E c \in Clients : Accept(c) \/ AcceptFails(c)) \/ Fork \/ ForkFails \/ ParentCloses

Next == \/ Main
        \/ \E c \in Clients : Connect(c) \/ ChildStarts(c) \/ ChildCloses(c) \/ ChildExits(c)

\* Processes run; a connection need not end.
Fairness == WF_vars(Main) /\ \A c \in Clients : WF_vars(ChildStarts(c)) /\ WF_vars(ChildExits(c))

Spec == Init /\ [][Next]_vars /\ Fairness

-----------------------------------------------------------------------------
(* The properties.                                                         *)

\* A child works on its own connection and holds no other: neither one that
\* was accepted before or after it was forked, nor the listening socket.
OwnSocketOnly == \A c \in Clients : child[c] = "serving" => Held(c) = {c}

\* Between connections the server holds its listening socket and nothing
\* else, however many it has served: accept does not run out of descriptors.
NoDescriptorLeaks == pc = "accept" => Held(Parent) = {Listening}

\* When the child is done with a connection the peer is told: no process
\* keeps the socket open for ever, also when the child is faster than its
\* parent or the parent ends.
ConnectionsEnd == \A c \in Clients : child[c] \in {"closed", "exited"} ~> ~ Open(c)

\* Every client that waits gets a child of its own, or the server ends.
ClientsServed == \A c \in Clients : client[c] = "waiting" ~> child[c] = "serving" \/ pc = "exited"
=============================================================================
