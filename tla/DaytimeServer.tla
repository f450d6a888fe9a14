--------------------------- MODULE DaytimeServer ----------------------------
(***************************************************************************)
(* The asynchronous server (src/async_server.cpp): one thread runs the     *)
(* handlers of an io_context; a connection lives as long as a handler that *)
(* waits for its operation refers to it.  Sockets and the io_context are   *)
(* external: an operation completes with success or with an error.         *)
(***************************************************************************)
EXTENDS Naturals, FiniteSets

CONSTANT MaxConnections \* bound: the connections that are created

Connections == 1..MaxConnections
None == 0

VARIABLES
    created,   \* 0..MaxConnections
    accepting, \* the connections that a pending accept operation refers to
    writing,   \* ... and a pending write operation
    owned,     \* [Connections -> Nat]: shared pointers to it
    handler,   \* None, or the connection whose handle_accept() runs
    failed,    \* the accept has failed: handle_accept() has an error
    answered   \* SUBSET Connections: accepted, and the write is over

vars == <<created, accepting, writing, owned, handler, failed, answered>>

\* start_accept(): a new connection, with the pointer that the accept operation binds.
Accepts(c) == created' = created + 1 /\ accepting' = accepting \cup {c}

Init ==
    /\ created = 1 /\ accepting = {1} /\ writing = {}
    /\ owned = [c \in Connections |-> IF c = 1 THEN 1 ELSE 0]
    /\ handler = None /\ failed = FALSE /\ answered = {}

-----------------------------------------------------------------------------
\* A client connects, or the accept fails: handle_accept() gets the pointer.
Complete ==
    /\ handler = None /\ created < MaxConnections
    /\ \E c \in accepting : handler' = c /\ accepting' = accepting \ {c}
    /\ failed' \in BOOLEAN
    /\ UNCHANGED <<created, writing, owned, answered>>

\* handle_accept(): start(), if there is no error, binds shared_from_this() to
\* the write operation; then start_accept(), and the parameter is gone.
Bound_raw == 0 \* mutant: `this` in the place of shared_from_this()
Bound == 1
Again_onSuccess == ~failed \* mutant: `return` on an error
Again == TRUE

HandleAccept ==
    /\ handler # None
    /\ LET c == handler
           d == created + 1
       IN  /\ writing' = IF failed THEN writing ELSE writing \cup {c}
           /\ owned' = [owned EXCEPT ![c] = @ - 1 + (IF failed THEN 0 ELSE Bound),
                                     ![d] = IF Again THEN 1 ELSE 0]
           /\ IF Again THEN Accepts(d) ELSE UNCHANGED <<created, accepting>>
    /\ handler' = None /\ failed' = FALSE
    /\ UNCHANGED answered

\* handle_write(), which does nothing: the write is over, its pointer goes.
HandleWrite ==
    /\ handler = None
    /\ \E c \in writing :
          /\ writing' = writing \ {c} /\ answered' = answered \cup {c}
          /\ owned' = [owned EXCEPT ![c] = IF @ > 0 THEN @ - 1 ELSE @]
    /\ UNCHANGED <<created, accepting, handler, failed>>

Server == HandleAccept \/ HandleWrite

Next == Complete \/ Server

Spec == Init /\ [][Next]_vars

-----------------------------------------------------------------------------
\* Every variable has its type.
TypeOK ==
    /\ created \in 1..MaxConnections /\ accepting \in SUBSET Connections /\ writing \in SUBSET Connections
    /\ owned \in [Connections -> 0..1] /\ handler \in {None} \cup Connections
    /\ failed \in BOOLEAN /\ answered \in SUBSET Connections

\* A connection and its m_message exist exactly as long as an operation or a
\* handler uses them: none is freed under a write (54-72), none is leaked behind it.
OwnedWhileUsed ==
    \A c \in Connections : owned[c] > 0 <=> c \in accepting \cup writing \cup {handler}

\* The server always has one accept operation pending, or is about to: an error of
\* one client does not end the service (120-125).
KeepsAccepting == Cardinality(accepting) + (IF handler = None THEN 0 ELSE 1) = 1

\* The inductive invariant: an operation or a handler is of a connection that was
\* created, and no two of them are of the same one.
IInv ==
    /\ TypeOK /\ OwnedWhileUsed
    /\ accepting \cup writing \subseteq 1..created /\ handler <= created
    /\ accepting \cap writing = {} /\ handler \notin accepting \cup writing
    /\ IF handler = None THEN \E c \in Connections : accepting = {c} ELSE accepting = {}
    /\ handler # None => created < MaxConnections
=============================================================================
