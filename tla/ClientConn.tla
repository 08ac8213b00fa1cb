------------------------------ MODULE ClientConn ------------------------------
(***************************************************************************)
(* The metadata client's connection handling (pkg/network/client).        *)
(*                                                                         *)
(* One Client caches one net.Conn in c.conn under c.mu.  Two goroutines   *)
(* of the remote versioned store use it at once (spec.md 4.6 and 6): the  *)
(* request sender calls Send, the background reader calls Receive in a    *)
(* loop.  Both go through doWithConn: getCachedConn (under c.mu, dialing  *)
(* when c.conn is nil), then the encoder or decoder on that connection    *)
(* with the lock released, then, on an error, closeBoth(conn) under c.mu. *)
(*                                                                         *)
(* A connection is a model value; what is written or read on it is left  *)
(* out, only whether the operation fails matters.  The network may break *)
(* a connection (every later read or write on it fails) and a dial may    *)
(* fail; the user may call Close at any time.  These disruptions are      *)
(* bounded by MaxDisruptions.                                              *)
(***************************************************************************)
EXTENDS Naturals, FiniteSets

CONSTANTS
  Sender,          \* the goroutine sending requests
  Reader,          \* the goroutine receiving responses and broadcasts
  ConnIds,         \* the connections the client may dial
  NoConn,          \* nil
  MaxDisruptions   \* broken connections, failed dials and Close calls

ASSUME NoConn \notin ConnIds
ASSUME MaxDisruptions \in Nat

Procs == {Sender, Reader}

VARIABLES
  conn,     \* c.conn
  dialed,   \* connections dialed so far
  closed,   \* connections the client has closed
  broken,   \* connections the network has broken
  pc,       \* pc[p]: "idle", "io" (in the consumer) or "failed"
  held,     \* held[p]: the connection p's doWithConn works on
  disruptions

vars == <<conn, dialed, closed, broken, pc, held, disruptions>>

\* A dial returns a new net.Conn.  A connection that is closed and that
\* no variable of the client refers to any more is garbage, and its model
\* value may stand for the next connection dialed.
Free ==
  {c \in ConnIds : c \notin dialed \/
                   (c \in closed /\ \A p \in Procs : held[p] # c)}

\* Dial c: it becomes c.conn and the connection p works on.
DialAs(p, c) ==
  /\ conn' = c
  /\ dialed' = dialed \cup {c}
  /\ closed' = closed \ {c}
  /\ broken' = broken \ {c}
  /\ held' = [held EXCEPT ![p] = c]
  /\ pc' = [pc EXCEPT ![p] = "io"]

(***************************************************************************)
(* Client.                                                                 *)
(***************************************************************************)

\* Mutant: the nil test on cached dropped, so Close closes a nil
\* connection (a panic in Go).
CloseBothNoNilCheck(cached) ==
  /\ closed' = closed \cup ({cached} \ {conn}) \cup ({conn} \ {NoConn})
  /\ conn' = NoConn

\* Mutant: only the failed connection is closed; c.conn is dropped unclosed.
CloseBothCachedOnly(cached) ==
  /\ closed' = closed \cup ({cached} \ {NoConn})
  /\ conn' = NoConn

\* closeBoth(cached), under c.mu: close cached if it is not c.conn, then
\* close c.conn, whatever connection it is now, and set it to nil.
CloseBoth(cached) ==
  /\ closed' = closed \cup ({cached, conn} \ {NoConn})
  /\ conn' = NoConn

\* Close: closeBoth(nil).
Close ==
  /\ disruptions < MaxDisruptions
  /\ CloseBoth(NoConn)
  /\ disruptions' = disruptions + 1
  /\ UNCHANGED <<dialed, broken, pc, held>>

\* doWithConn's call of getCachedConn, under c.mu: return c.conn if set;
\* otherwise dial (TLS, then plain TCP as a fallback) and cache the new
\* connection.  A failed dial returns an error, and doWithConn goes on to
\* closeBoth(nil).
GetCachedConn(p) ==
  /\ pc[p] = "idle"
  /\ \/ /\ conn # NoConn
        /\ held' = [held EXCEPT ![p] = conn]
        /\ pc' = [pc EXCEPT ![p] = "io"]
        /\ UNCHANGED <<conn, dialed, closed, broken, disruptions>>
     \/ /\ conn = NoConn
        /\ \E c \in Free : DialAs(p, c)
        /\ UNCHANGED disruptions
     \/ /\ conn = NoConn
        /\ disruptions < MaxDisruptions
        /\ held' = [held EXCEPT ![p] = NoConn]
        /\ pc' = [pc EXCEPT ![p] = "failed"]
        /\ disruptions' = disruptions + 1
        /\ UNCHANGED <<conn, dialed, closed, broken>>

\* The consumer, outside c.mu: Encode (Send) or Decode (Receive) on the
\* connection getCachedConn returned.  It fails on a connection that is
\* closed or broken, and then doWithConn calls closeBoth(conn).
Consume(p) ==
  /\ pc[p] = "io"
  /\ IF held[p] \in closed \cup broken
       THEN /\ pc' = [pc EXCEPT ![p] = "failed"]
            /\ UNCHANGED held
       ELSE /\ pc' = [pc EXCEPT ![p] = "idle"]
            /\ held' = [held EXCEPT ![p] = NoConn]
  /\ UNCHANGED <<conn, dialed, closed, broken, disruptions>>

\* Mutant: the error returned without closeBoth.
FailWithoutClose(p) ==
  /\ pc[p] = "failed"
  /\ pc' = [pc EXCEPT ![p] = "idle"]
  /\ held' = [held EXCEPT ![p] = NoConn]
  /\ UNCHANGED <<conn, dialed, closed, broken, disruptions>>

\* doWithConn after an error: closeBoth(conn), then return the error.
Fail(p) ==
  /\ pc[p] = "failed"
  /\ CloseBoth(held[p])
  /\ pc' = [pc EXCEPT ![p] = "idle"]
  /\ held' = [held EXCEPT ![p] = NoConn]
  /\ UNCHANGED <<dialed, broken, disruptions>>

\* The network breaks an open connection (reset, timeout, server shutdown).
Break(c) ==
  /\ disruptions < MaxDisruptions
  /\ c \in dialed \ (closed \cup broken)
  /\ broken' = broken \cup {c}
  /\ disruptions' = disruptions + 1
  /\ UNCHANGED <<conn, dialed, closed, pc, held>>

(***************************************************************************)
(* Specification.                                                          *)
(***************************************************************************)
Init ==
  /\ conn = NoConn
  /\ dialed = {}
  /\ closed = {}
  /\ broken = {}
  /\ pc = [p \in Procs |-> "idle"]
  /\ held = [p \in Procs |-> NoConn]
  /\ disruptions = 0

Next ==
  \/ \E p \in Procs : GetCachedConn(p) \/ Consume(p) \/ Fail(p)
  \/ \E c \in ConnIds : Break(c)
  \/ Close

\* The reader loops for the life of the store; a Send, once started, runs
\* to its end.  Nothing obliges the sender to start a request.
Fairness ==
  /\ WF_vars(GetCachedConn(Reader) \/ Consume(Reader) \/ Fail(Reader))
  /\ WF_vars(Consume(Sender)) /\ WF_vars(Fail(Sender))

Spec == Init /\ [][Next]_vars /\ Fairness

(***************************************************************************)
(* Properties.                                                             *)
(***************************************************************************)
TypeOK ==
  /\ conn \in ConnIds \cup {NoConn}
  /\ dialed \subseteq ConnIds /\ closed \subseteq dialed
  /\ broken \subseteq dialed
  /\ pc \in [Procs -> {"idle", "io", "failed"}]
  /\ held \in [Procs -> ConnIds \cup {NoConn}]
  /\ disruptions \in 0..MaxDisruptions

\* No connection leaks: every connection dialed and not closed is c.conn
\* or is in use by a goroutine's doWithConn; closeBoth and Close never
\* drop a connection without closing it.
NoLeakedConn ==
  \A c \in dialed \ closed : c = conn \/ \E p \in Procs : held[p] = c

\* A connection the network broke is eventually closed by the client: the
\* reader's loop reaches it through c.conn and its failure closes it, or
\* closeBoth closes it as the current connection.
BrokenEventuallyClosed ==
  \A c \in ConnIds : c \in broken ~> c \in closed

\* Spec.md 4.6: "On any read/write error, the connection is closed and
\* the next send redials".  After the disruptions stop, the client
\* settles on a working connection.
Recovers == <>[](conn # NoConn /\ conn \notin closed \cup broken)

==============================================================================
