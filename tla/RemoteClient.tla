---------------------------- MODULE RemoteClient ----------------------------
(***************************************************************************)
(* HEClient of he_client/client.py: callers that each hold one session of  *)
(* the gateway and the handles of its ciphertexts.  A call sends a request *)
(* and waits for the response.  It fails when the connection is lost or    *)
(* the timeout passes: the request may then still be served later.         *)
(***************************************************************************)
EXTENDS Gateway

CONSTANT MaxBacklog \* connections that the listening socket holds

ASSUME BacklogAssumption == MaxBacklog \in Nat \ {0}

VARIABLES
  session, \* client -> _session_id
  closed,  \* client -> _closed
  handles, \* RemoteCiphertext objects in the hands of the callers
  call     \* client -> the request whose response it waits for, or None

clients == <<session, closed, handles, call>>
vars == <<server, backlog, response, clients>>

RemoteCiphertext ==
  [client : Clients, sid : Ids, id : CiphertextIds, length : LogicalLengths]

TypeOK ==
  /\ GatewayTypeOK
  /\ session \in [Clients -> Ids \cup {None}]
  /\ closed \in [Clients -> BOOLEAN]
  /\ handles \subseteq RemoteCiphertext
  /\ call \in [Clients -> Request \cup {None}]

Init ==
  /\ GatewayInit
  /\ session = [c \in Clients |-> None]
  /\ closed = [c \in Clients |-> FALSE]
  /\ handles = {}
  /\ call = [c \in Clients |-> None]

-----------------------------------------------------------------------------
(* Calls.                                                                  *)

\* How many identifiers the requests under way may still use up: the bound on
\* the sessions of a behaviour.
CreatesWaiting == Cardinality({i \in 1..Len(backlog) : backlog[i].op = "create"})

Send(c, op, sid, left, right, len) ==
  LET q == [from |-> c, op |-> op, sid |-> sid, left |-> left, right |-> right, len |-> len]
  IN  /\ call[c] = None /\ Len(backlog) < MaxBacklog
      /\ backlog' = Append(backlog, q)
      /\ call' = [call EXCEPT ![c] = q]
      /\ UNCHANGED <<server, response, session, closed, handles>>

\* encrypt: the first call creates the session.
CallEncrypt(c, len) ==
  /\ ~closed[c]
  /\ IF session[c] = None
     THEN /\ Cardinality(Ids \ minted) > CreatesWaiting
          /\ Send(c, "create", None, None, None, len)
     ELSE Send(c, "encrypt", session[c], None, None, len)

\* _owned
Owned(c, h) == ~closed[c] /\ h.client = c /\ h.sid = session[c]

\* _evaluate: the length of a public vector is checked here, the lengths of two
\* ciphertexts are not.
CallEvaluate(c, h) ==
  /\ Owned(c, h)
  /\ \/ \E g \in handles : Owned(c, g) /\ Send(c, "binary", session[c], h.id, g.id, None)
     \/ Send(c, "public", session[c], h.id, None, h.length)
     \/ Send(c, "square", session[c], h.id, None, None)
     \/ Send(c, "sum", session[c], h.id, None, None)

CallDecrypt(c, h) ==
  /\ Owned(c, h)
  /\ Send(c, "decrypt", session[c], h.id, None, None)

\* close: without a session there is nothing to delete.
Close(c) ==
  /\ ~closed[c] /\ call[c] = None
  /\ IF session[c] = None
     THEN /\ closed' = [closed EXCEPT ![c] = TRUE]
          /\ UNCHANGED <<server, backlog, response, session, handles, call>>
     ELSE Send(c, "delete", session[c], None, None, None)

-----------------------------------------------------------------------------
(* Responses.                                                              *)

\* The call returns or raises, and the response is used up.
Returned(c) ==
  /\ call' = [call EXCEPT ![c] = None]
  /\ response' = [response EXCEPT ![c] = None]

\* The length a client gives to the result of a request.
HandleLength(q) ==
  IF q.op = "sum" THEN 1
  ELSE IF q.len # None THEN q.len
  ELSE (CHOOSE h \in handles : h.client = q.from /\ h.sid = q.sid /\ h.id = q.left).length

NewHandle(c) ==
  handles' = handles \cup {[client |-> c, sid |-> response[c].sid, id |-> response[c].id,
                            length |-> HandleLength(call[c])]}

ReceiveError(c) ==
  /\ response[c] # None /\ ~response[c].ok
  /\ Returned(c)
  /\ UNCHANGED <<server, backlog, session, closed, handles>>

ReceiveCreated(c) ==
  /\ response[c] # None /\ response[c].ok /\ call[c].op = "create"
  /\ session' = [session EXCEPT ![c] = response[c].sid]
  /\ NewHandle(c)
  /\ Returned(c)
  /\ UNCHANGED <<server, backlog, closed>>

ReceiveCiphertext(c) ==
  /\ response[c] # None /\ response[c].ok
  /\ call[c].op \in {"encrypt", "binary", "public", "square", "sum"}
  /\ NewHandle(c)
  /\ Returned(c)
  /\ UNCHANGED <<server, backlog, session, closed>>

ReceiveValues(c) ==
  /\ response[c] # None /\ response[c].ok /\ call[c].op = "decrypt"
  /\ Returned(c)
  /\ UNCHANGED <<server, backlog, session, closed, handles>>

ReceiveDeleted(c) ==
  /\ response[c] # None /\ response[c].ok /\ call[c].op = "delete"
  /\ closed' = [closed EXCEPT ![c] = TRUE]
  /\ session' = [session EXCEPT ![c] = None]
  /\ Returned(c)
  /\ UNCHANGED <<server, backlog, handles>>

\* The connection is reset before the request is served.
ConnectionLost(c) ==
  \E i \in 1..Len(backlog) :
    /\ backlog[i].from = c
    /\ backlog' = SubSeq(backlog, 1, i - 1) \o SubSeq(backlog, i + 1, Len(backlog))
    /\ call' = [call EXCEPT ![c] = None]
    /\ UNCHANGED <<server, response, session, closed, handles>>

\* Mutant: close gives up the session even when its request has failed.
TimeoutCloses(c) ==
  /\ call[c] # None
  /\ Returned(c)
  /\ closed' = [closed EXCEPT ![c] = @ \/ call[c].op = "delete"]
  /\ backlog' = [i \in 1..Len(backlog) |->
                   IF backlog[i].from = c THEN [backlog[i] EXCEPT !.from = None]
                                          ELSE backlog[i]]
  /\ UNCHANGED <<server, session, handles>>

\* The timeout passes, or the response is lost: a request that is not served yet
\* stays in the backlog.
Timeout(c) ==
  /\ call[c] # None
  /\ Returned(c)
  /\ backlog' = [i \in 1..Len(backlog) |->
                   IF backlog[i].from = c THEN [backlog[i] EXCEPT !.from = None]
                                          ELSE backlog[i]]
  /\ UNCHANGED <<server, session, closed, handles>>

-----------------------------------------------------------------------------
Receive(c) ==
  \/ ReceiveError(c) \/ ReceiveCreated(c) \/ ReceiveCiphertext(c)
  \/ ReceiveValues(c) \/ ReceiveDeleted(c)

Serving == Handle /\ UNCHANGED clients
Ticking == Tick /\ UNCHANGED clients
Restarting == Restart /\ UNCHANGED clients

Next ==
  \/ Serving
  \/ Ticking
  \/ Restarting
  \/ \E c \in Clients :
       \/ \E len \in Lengths : CallEncrypt(c, len)
       \/ \E h \in handles : CallEvaluate(c, h) \/ CallDecrypt(c, h)
       \/ Close(c)
       \/ Receive(c)
       \/ ConnectionLost(c)
       \/ Timeout(c)

Spec == Init /\ [][Next]_vars

\* serve_forever serves, and a response that has arrived is read.  Nobody has to
\* call anything, and the clock may stand still.
FairSpec ==
  /\ Spec
  /\ WF_vars(Serving)
  /\ \A c \in Clients : WF_vars(Receive(c))

-----------------------------------------------------------------------------
(* Properties.                                                             *)

\* A handle names a ciphertext of its length as long as its session is there,
\* whatever was lost, served late or served without anybody waiting: the length
\* check of a client is that of the gateway.
HandlesResolve ==
  \A h \in handles :
    sessions[h.sid] # None =>
      /\ h.id <= Len(sessions[h.sid].ciphertexts)
      /\ sessions[h.sid].ciphertexts[h.id] = h.length

\* After close nothing of the session is left in the gateway, also when earlier
\* requests of the client are served late.
ClosedLeavesNothing ==
  \A h \in handles : closed[h.client] => sessions[h.sid] = None

\* A session that is asked for anything within its time limit is not purged:
\* it ends by a delete, by a restart, or by its own silence.
UsedSessionsStay ==
  [][\A s \in Ids : sessions[s] # None /\ sessions'[s] = None =>
       \/ quiet[s] >= TTL
       \/ Handle /\ Head(backlog).op = "delete" /\ Head(backlog).sid = s
       \/ Restart]_vars

\* A new session is refused only while as many others are within their limit.
LimitMeansLive ==
  [][\A c \in Clients :
       response[c] = None /\ response'[c] = Refused("session limit")
         => Cardinality({s \in Ids : Live(s)}) >= MaxSessions]_vars

\* Every call returns.
CallsReturn == \A c \in Clients : call[c] # None ~> call[c] = None

=============================================================================
