----------------------------- MODULE MetaServer -----------------------------
(***************************************************************************)
(* The metadata server (Server: Listen/Serve/removeConn/broadcast/Shutdown *)
(* and ApplyMessage over a VersionedWrapper) with raw clients that dial,   *)
(* send tagged requests of any kind and version, and close.                *)
(*                                                                         *)
(* Goroutines: the accept loop (Serve), one handler per connection (read a *)
(* message, authenticate or apply it, reply, broadcast an accepted put),   *)
(* and Shutdown.  ApplyMessage runs under the VersionedWrapper lock, which *)
(* Put releases on return; broadcast takes only the server mutex, so the  *)
(* apply and the broadcast of one put are two steps.  The per-connection  *)
(* handler is not in the repository; its steps follow spec.md section 4.5. *)
(***************************************************************************)
EXTENDS Naturals, Sequences, FiniteSets

CONSTANTS
  Conns,        \* client connections (server ids are never reused)
  Keys,         \* metadata keys
  Values,       \* metadata values
  Versions,     \* versions a client may put
  NoEntry,      \* store entry of a key never put
  NoConn,       \* Serve holds no accepted connection
  NoMsg,        \* a handler has no broadcast pending
  NoKey, NoValue,
  AuthRequired, \* the server was given an auth hash
  MaxReqs       \* requests each client sends at most

ASSUME AuthRequired \in BOOLEAN /\ MaxReqs \in Nat /\ Versions \subseteq Nat

VARIABLES
  store,      \* store[k]: the VersionedWrapper entry
  listening,  \* the listener is open
  serving,    \* Serve's accept loop has not returned
  acc,        \* the connection Serve accepted and has not yet registered
  conns,      \* s.conns: connections registered for broadcast
  stage,      \* stage[c]: "idle", "dialed", "accepted", "serving", "done"
  open,       \* open[c]: the TCP connection is open
  authorized, \* authorized[c]: the auth handshake succeeded
  req,        \* req[c]: requests written by the client, not yet read
  resp,       \* resp[c]: every message the server wrote to c
  pend,       \* pend[c]: the put c's handler applied and has yet to broadcast
  sent,       \* sent[c]: requests the client has sent (its last tag)
  shut        \* Shutdown's progress: "running", "closing", "done"

vars == <<store, listening, serving, acc, conns, stage, open, authorized,
          req, resp, pend, sent, shut>>

Msg(kind, tag, key, value, version) ==
  [kind |-> kind, tag |-> tag, key |-> key, value |-> value, version |-> version]

ErrorMsg(tag) == Msg("error", tag, NoKey, NoValue, 0)

Requests(t) ==
  {Msg("get", t, k, NoValue, 0) : k \in Keys}
  \cup {Msg("put", t, k, v, n) : k \in Keys, v \in Values, n \in Versions}
  \cup {Msg("auth", t, NoKey, p, 0) : p \in {"good", "bad"}}

Authorized(c) == ~AuthRequired \/ authorized[c]

(***************************************************************************)
(* The versioned store and ApplyMessage.                                   *)
(***************************************************************************)

\* VersionedWrapper.Put: stale iff an entry exists and version < its + 1.
PutAccepted(entry, v) ==
  entry = NoEntry \/ ~(v < entry.version + 1)

\* Mutant: the wrapper prefixes the value with version + 1.
ApplyMessageStoresNext(m) ==
  CASE m.kind = "get" /\ store[m.key] = NoEntry ->
         [out |-> ErrorMsg(m.tag), store |-> store]
    [] m.kind = "get" ->
         [out |-> Msg("put", m.tag, m.key, store[m.key].value,
                      store[m.key].version),
          store |-> store]
    [] m.kind = "put" /\ PutAccepted(store[m.key], m.version) ->
         [out |-> m,
          store |-> [store EXCEPT ![m.key] =
                       [version |-> m.version + 1, value |-> m.value]]]
    [] OTHER -> [out |-> ErrorMsg(m.tag), store |-> store]

\* Mutant: an accepted put is answered with its broadcast copy (tag 0).
ApplyMessageUntagged(m) ==
  CASE m.kind = "get" /\ store[m.key] = NoEntry ->
         [out |-> ErrorMsg(m.tag), store |-> store]
    [] m.kind = "get" ->
         [out |-> Msg("put", m.tag, m.key, store[m.key].value,
                      store[m.key].version),
          store |-> store]
    [] m.kind = "put" /\ PutAccepted(store[m.key], m.version) ->
         [out |-> [m EXCEPT !.tag = 0],
          store |-> [store EXCEPT ![m.key] =
                       [version |-> m.version, value |-> m.value]]]
    [] OTHER -> [out |-> ErrorMsg(m.tag), store |-> store]

\* ApplyMessage: the reply, and the store after it.
ApplyMessage(m) ==
  CASE m.kind = "get" /\ store[m.key] = NoEntry ->
         [out |-> ErrorMsg(m.tag), store |-> store]
    [] m.kind = "get" ->
         [out |-> Msg("put", m.tag, m.key, store[m.key].value,
                      store[m.key].version),
          store |-> store]
    [] m.kind = "put" /\ PutAccepted(store[m.key], m.version) ->
         [out |-> m,
          store |-> [store EXCEPT ![m.key] =
                       [version |-> m.version, value |-> m.value]]]
    [] OTHER -> [out |-> ErrorMsg(m.tag), store |-> store]

\* Message.ForBroadcast: the same put with tag 0.
ForBroadcast(m) == [m EXCEPT !.tag = 0]

Reply(c, m) == resp' = [resp EXCEPT ![c] = Append(@, m)]

(***************************************************************************)
(* Clients.                                                                *)
(***************************************************************************)
Dial(c) ==
  /\ stage[c] = "idle" /\ listening
  /\ stage' = [stage EXCEPT ![c] = "dialed"]
  /\ open' = [open EXCEPT ![c] = TRUE]
  /\ UNCHANGED <<store, listening, serving, acc, conns, authorized, req, resp,
                 pend, sent, shut>>

Send(c) ==
  /\ open[c] /\ stage[c] # "idle" /\ sent[c] < MaxReqs
  /\ \E m \in Requests(sent[c] + 1) : req' = [req EXCEPT ![c] = Append(@, m)]
  /\ sent' = [sent EXCEPT ![c] = @ + 1]
  /\ UNCHANGED <<store, listening, serving, acc, conns, stage, open,
                 authorized, resp, pend, shut>>

ClientClose(c) ==
  /\ open[c]
  /\ open' = [open EXCEPT ![c] = FALSE]
  /\ UNCHANGED <<store, listening, serving, acc, conns, stage, authorized,
                 req, resp, pend, sent, shut>>

(***************************************************************************)
(* Serve: Accept, then register the connection and spawn its handler.      *)
(***************************************************************************)
Accept(c) ==
  /\ serving /\ listening /\ acc = NoConn /\ stage[c] = "dialed"
  /\ acc' = c
  /\ stage' = [stage EXCEPT ![c] = "accepted"]
  /\ UNCHANGED <<store, listening, serving, conns, open, authorized, req,
                 resp, pend, sent, shut>>

Register ==
  /\ acc # NoConn
  /\ conns' = conns \cup {acc}
  /\ stage' = [stage EXCEPT ![acc] = "serving"]
  /\ acc' = NoConn
  /\ UNCHANGED <<store, listening, serving, open, authorized, req, resp, pend,
                 sent, shut>>

\* Accept fails with "use of closed network connection": leave the loop.
ServeReturns ==
  /\ serving /\ ~listening /\ acc = NoConn
  /\ serving' = FALSE
  /\ UNCHANGED <<store, listening, acc, conns, stage, open, authorized, req,
                 resp, pend, sent, shut>>

(***************************************************************************)
(* The handler of connection c.                                            *)
(***************************************************************************)

\* The auth handshake: while unauthorized only a right password is served.
Authenticate(c, m) ==
  /\ UNCHANGED <<store, pend>>
  /\ \/ /\ m.kind = "auth" /\ m.value = "good"
        /\ authorized' = [authorized EXCEPT ![c] = TRUE]
        /\ Reply(c, Msg("auth", m.tag, NoKey, NoValue, 0))
        /\ UNCHANGED open
     \/ /\ m.kind = "auth" /\ m.value # "good"
        /\ Reply(c, ErrorMsg(m.tag))
        /\ open' = [open EXCEPT ![c] = FALSE]
        /\ UNCHANGED authorized
     \/ /\ m.kind # "auth"
        /\ Reply(c, ErrorMsg(m.tag))
        /\ UNCHANGED <<open, authorized>>

\* Apply the message, reply, and keep an accepted put for broadcast.
Apply(c, m) ==
  LET r == ApplyMessage(m) IN
  /\ store' = r.store
  /\ Reply(c, r.out)
  /\ pend' = [pend EXCEPT ![c] = IF m.kind = "put" /\ r.out = m
                                 THEN ForBroadcast(m) ELSE NoMsg]
  /\ UNCHANGED <<open, authorized>>

Handle(c) ==
  LET m == Head(req[c]) IN
  /\ stage[c] = "serving" /\ open[c] /\ req[c] # <<>> /\ pend[c] = NoMsg
  /\ req' = [req EXCEPT ![c] = Tail(@)]
  /\ IF AuthRequired /\ ~authorized[c] THEN Authenticate(c, m) ELSE Apply(c, m)
  /\ UNCHANGED <<listening, serving, acc, conns, stage, sent, shut>>

\* Mutant: the sender is not excluded.
BroadcastToAll(c) ==
  /\ pend[c] # NoMsg
  /\ resp' = [o \in Conns |->
                IF o \in conns /\ Authorized(o) /\ open[o]
                THEN Append(resp[o], pend[c]) ELSE resp[o]]
  /\ pend' = [pend EXCEPT ![c] = NoMsg]
  /\ UNCHANGED <<store, listening, serving, acc, conns, stage, open,
                 authorized, req, sent, shut>>

\* Mutant: unauthorized connections are not skipped.
BroadcastIgnoringAuth(c) ==
  /\ pend[c] # NoMsg
  /\ resp' = [o \in Conns |->
                IF o \in conns /\ o # c /\ open[o]
                THEN Append(resp[o], pend[c]) ELSE resp[o]]
  /\ pend' = [pend EXCEPT ![c] = NoMsg]
  /\ UNCHANGED <<store, listening, serving, acc, conns, stage, open,
                 authorized, req, sent, shut>>

\* Mutant: the exclusion test inverted, so only the sender is written to.
BroadcastToSenderOnly(c) ==
  /\ pend[c] # NoMsg
  /\ resp' = [o \in Conns |->
                IF o \in conns /\ o = c /\ Authorized(o) /\ open[o]
                THEN Append(resp[o], pend[c]) ELSE resp[o]]
  /\ pend' = [pend EXCEPT ![c] = NoMsg]
  /\ UNCHANGED <<store, listening, serving, acc, conns, stage, open,
                 authorized, req, sent, shut>>

\* Server.broadcast(c's id, put): under s.mu, to every registered,
\* authorized connection but c; a write to a closed one fails and is logged.
Broadcast(c) ==
  /\ pend[c] # NoMsg
  /\ resp' = [o \in Conns |->
                IF o \in conns /\ o # c /\ Authorized(o) /\ open[o]
                THEN Append(resp[o], pend[c]) ELSE resp[o]]
  /\ pend' = [pend EXCEPT ![c] = NoMsg]
  /\ UNCHANGED <<store, listening, serving, acc, conns, stage, open,
                 authorized, req, sent, shut>>

\* The read fails on a closed connection: the handler calls removeConn.
HandlerExit(c) ==
  /\ stage[c] = "serving" /\ ~open[c] /\ pend[c] = NoMsg
  /\ conns' = conns \ {c}
  /\ stage' = [stage EXCEPT ![c] = "done"]
  /\ UNCHANGED <<store, listening, serving, acc, open, authorized, req, resp,
                 pend, sent, shut>>

(***************************************************************************)
(* Shutdown: close the listener (resetting connections not yet accepted), *)
(* then, under s.mu, close every registered connection.                   *)
(***************************************************************************)
CloseListener ==
  /\ shut = "running"
  /\ listening' = FALSE
  /\ open' = [c \in Conns |-> IF stage[c] = "dialed" THEN FALSE ELSE open[c]]
  /\ shut' = "closing"
  /\ UNCHANGED <<store, serving, acc, conns, stage, authorized, req, resp,
                 pend, sent>>

CloseConns ==
  /\ shut = "closing"
  /\ open' = [c \in Conns |-> IF c \in conns THEN FALSE ELSE open[c]]
  /\ shut' = "done"
  /\ UNCHANGED <<store, listening, serving, acc, conns, stage, authorized,
                 req, resp, pend, sent>>

(***************************************************************************)
(* Specification.                                                          *)
(***************************************************************************)
Init ==
  /\ store = [k \in Keys |-> NoEntry]
  /\ listening = TRUE /\ serving = TRUE /\ acc = NoConn /\ conns = {}
  /\ stage = [c \in Conns |-> "idle"]
  /\ open = [c \in Conns |-> FALSE]
  /\ authorized = [c \in Conns |-> FALSE]
  /\ req = [c \in Conns |-> <<>>]
  /\ resp = [c \in Conns |-> <<>>]
  /\ pend = [c \in Conns |-> NoMsg]
  /\ sent = [c \in Conns |-> 0]
  /\ shut = "running"

Next ==
  \/ \E c \in Conns :
       \/ Dial(c) \/ Send(c) \/ ClientClose(c)
       \/ Accept(c) \/ Handle(c) \/ Broadcast(c) \/ HandlerExit(c)
  \/ Register \/ ServeReturns \/ CloseListener \/ CloseConns

\* Every goroutine of the server runs when it can.
Fairness ==
  /\ \A c \in Conns : WF_vars(Handle(c)) /\ WF_vars(Broadcast(c))
                      /\ WF_vars(HandlerExit(c))
  /\ WF_vars(Register) /\ WF_vars(ServeReturns)

Spec == Init /\ [][Next]_vars /\ Fairness

(***************************************************************************)
(* Properties.                                                             *)
(***************************************************************************)
States == {"idle", "dialed", "accepted", "serving", "done"}

AnyMsg == [kind : {"get", "put", "error", "auth"}, tag : Nat,
           key : Keys \cup {NoKey}, value : Values \cup {NoValue, "good", "bad"},
           version : Nat]

TypeOK ==
  /\ store \in [Keys -> [version : Versions, value : Values] \cup {NoEntry}]
  /\ listening \in BOOLEAN /\ serving \in BOOLEAN
  /\ acc \in Conns \cup {NoConn} /\ conns \subseteq Conns
  /\ stage \in [Conns -> States] /\ open \in [Conns -> BOOLEAN]
  /\ authorized \in [Conns -> BOOLEAN]
  /\ req \in [Conns -> Seq(AnyMsg)] /\ resp \in [Conns -> Seq(AnyMsg)]
  /\ pend \in [Conns -> AnyMsg \cup {NoMsg}]
  /\ sent \in [Conns -> 0..MaxReqs]
  /\ shut \in {"running", "closing", "done"}

\* The broadcasts a connection has received, in order.
Broadcasts(o) == SelectSeq(resp[o], LAMBDA m : m.tag = 0)

\* The replies a connection has received, in order.
Replies(o) == SelectSeq(resp[o], LAMBDA m : m.tag # 0)

\* Request/response correlation (spec.md 4.1, 4.6): every request the
\* handler has read got exactly one reply, and the replies carry the tags
\* 1, 2, ... of the requests in order; every tag-0 message is a broadcast
\* put.  The handler's replies and the broadcasts of other handlers share
\* the connection.
RepliesMatchRequests ==
  \A o \in Conns :
    /\ Len(Replies(o)) = sent[o] - Len(req[o])
    /\ \A i \in 1..Len(Replies(o)) : Replies(o)[i].tag = i
    /\ \A i \in 1..Len(Broadcasts(o)) : Broadcasts(o)[i].kind = "put"

\* A connection only ever hears of puts that the store accepted from some
\* other connection, and only once it has authenticated (Server.broadcast
\* skips the sender and unauthorized connections).  A broadcast's version
\* is never above the store's.
BroadcastsAreOthersPuts ==
  \A o \in Conns : \A i \in 1..Len(Broadcasts(o)) :
    LET b == Broadcasts(o)[i] IN
    /\ Authorized(o)
    /\ store[b.key] # NoEntry /\ b.version <= store[b.key].version
    /\ \E c \in Conns \ {o} : \E j \in 1..Len(Replies(c)) :
         Replies(c)[j] = [b EXCEPT !.tag = Replies(c)[j].tag]

\* Broadcast visibility (spec.md section 8): once a handler holds an
\* accepted put, every other registered, authorized and open connection
\* eventually receives it, unless that connection closes.
BroadcastVisibility ==
  \A c, o \in Conns : \A k \in Keys, v \in Values, n \in Versions :
    LET b == Msg("put", 0, k, v, n) IN
    (c # o /\ pend[c] = b /\ o \in conns /\ Authorized(o) /\ open[o])
      ~> (\E i \in 1..Len(resp[o]) : resp[o][i] = b) \/ ~open[o]

\* Spec.md 4.5: broadcasts of one key are emitted in the order the store
\* accepted them, so each receiver sees that key's versions increase.
BroadcastOrder ==
  \A o \in Conns : \A i, j \in 1..Len(Broadcasts(o)) :
    LET bi == Broadcasts(o)[i]  bj == Broadcasts(o)[j] IN
    (i < j /\ bi.key = bj.key) => bi.version < bj.version

\* Spec.md 4.5: Shutdown closes every open connection; once it has run
\* and Serve has returned, no connection the server serves is open.
ShutdownClosesAll ==
  (shut = "done" /\ ~serving)
    => \A c \in Conns : stage[c] = "serving" => ~open[c]

\* The versioned store as clients see it (spec.md 4.2 and 8): a put on a
\* present key succeeds only at exactly the next version.
VReg == INSTANCE VersionedRegister WITH reg <- store
StoreRefinesRegister == VReg!Spec

====
