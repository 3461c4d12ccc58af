------------------------------ MODULE Gateway ------------------------------
(***************************************************************************)
(* The trusted gateway of gateway/app.py: sessions with a time to live and *)
(* the ciphertexts stored in each, behind an HTTPServer that answers one   *)
(* request at a time in the order of the connections.  The server does not *)
(* know whether the client of a request still waits for the response.      *)
(*                                                                         *)
(* A ciphertext is its logical length, and its number in its session is    *)
(* its identifier.  Requests are well-formed: do_POST refuses others       *)
(* before they reach a session.                                            *)
(***************************************************************************)
EXTENDS Naturals, Sequences, FiniteSets

CONSTANTS
  Clients,
  Ids,            \* session identifiers; uuid4 returns a fresh one each time
  Lengths,        \* vector lengths
  MaxSessions,    \* MAX_SESSIONS
  MaxCiphertexts, \* MAX_CIPHERTEXTS_PER_SESSION
  TTL,            \* SESSION_TTL_SECONDS, in ticks of the clock
  None

ASSUME ConstantsAssumption ==
  /\ Lengths \subseteq Nat \ {0}
  /\ MaxSessions \in Nat \ {0} /\ MaxCiphertexts \in Nat \ {0} /\ TTL \in Nat \ {0}
  /\ None \notin Clients \cup Ids \cup Nat

VARIABLES
  sessions, \* identifier -> its session, or None
  minted,   \* identifiers given out so far
  backlog,  \* requests that wait for the server
  response, \* client -> the response that has arrived for it, or None
  quiet     \* history: ticks since a request last found the session

server == <<sessions, minted, quiet>>

CiphertextIds == 1..MaxCiphertexts
LogicalLengths == Lengths \cup {1}

Session == [vector_length : Lengths, ciphertexts : Seq(LogicalLengths), life : 0..TTL]

Operations == {"create", "encrypt", "binary", "public", "square", "sum", "decrypt", "delete"}

Request == [from  : Clients \cup {None}, \* None: the client does not wait any more
            op    : Operations,
            sid   : Ids \cup {None},
            left  : CiphertextIds \cup {None},
            right : CiphertextIds \cup {None},
            len   : Lengths \cup {1, None}]

Reasons == {"connection", "crypto", "session limit", "ciphertext limit",
            "unknown session", "unknown ciphertext", "length"}

Refused(why) == [ok |-> FALSE, why |-> why]
Accepted(s, n) == [ok |-> TRUE, sid |-> s, id |-> n]

Response ==
  [ok : {FALSE}, why : Reasons] \cup [ok : {TRUE}, sid : Ids, id : CiphertextIds \cup {None}]

\* None is no record.
ASSUME RecordsAssumption == None \notin Session /\ None \notin Request /\ None \notin Response

GatewayTypeOK ==
  /\ sessions \in [Ids -> Session \cup {None}]
  /\ \A s \in Ids : sessions[s] # None => Len(sessions[s].ciphertexts) \in CiphertextIds
  /\ minted \subseteq Ids
  /\ backlog \in Seq(Request)
  /\ response \in [Clients -> Response \cup {None}]
  /\ quiet \in [Ids -> 0..TTL]

GatewayInit ==
  /\ sessions = [s \in Ids |-> None]
  /\ minted = {}
  /\ backlog = <<>>
  /\ response = [c \in Clients |-> None]
  /\ quiet = [s \in Ids |-> 0]

-----------------------------------------------------------------------------
Live(s) == sessions[s] # None /\ sessions[s].life > 0

\* _purge_expired
Purged == [s \in Ids |-> IF Live(s) THEN sessions[s] ELSE None]

\* Mutant: the time limit is that of the creation.
FoundStill(s) == Purged

\* _session: the session is found, and lives on from now.
Found(s) == [Purged EXCEPT ![s].life = TTL]

Respond(q, r) ==
  response' = IF q.from = None THEN response ELSE [response EXCEPT ![q.from] = r]

Refuse(q, why) ==
  /\ sessions' = Purged
  /\ Respond(q, Refused(why))
  /\ UNCHANGED <<minted, quiet>>

\* A request that has found its session is refused: the session is renewed.
RefuseFound(q, why) ==
  /\ sessions' = Found(q.sid)
  /\ quiet' = [quiet EXCEPT ![q.sid] = 0]
  /\ Respond(q, Refused(why))
  /\ UNCHANGED minted

\* Mutant: the limit counts sessions that have expired.
CreateUnpurged(q) ==
  IF Cardinality({s \in Ids : sessions[s] # None}) >= MaxSessions
  THEN Refuse(q, "session limit")
  ELSE \E s \in Ids \ minted :
         /\ sessions' = [Purged EXCEPT ![s] = [vector_length |-> q.len,
                                               ciphertexts   |-> <<q.len>>,
                                               life          |-> TTL]]
         /\ minted' = minted \cup {s}
         /\ quiet' = [quiet EXCEPT ![s] = 0]
         /\ Respond(q, Accepted(s, 1))

\* create_session
Create(q) ==
  IF Cardinality({s \in Ids : Live(s)}) >= MaxSessions
  THEN Refuse(q, "session limit")
  ELSE \/ Refuse(q, "crypto")
       \/ \E s \in Ids \ minted :
            /\ sessions' = [Purged EXCEPT ![s] = [vector_length |-> q.len,
                                                  ciphertexts   |-> <<q.len>>,
                                                  life          |-> TTL]]
            /\ minted' = minted \cup {s}
            /\ quiet' = [quiet EXCEPT ![s] = 0]
            /\ Respond(q, Accepted(s, 1))

\* Mutant: the limit is checked after the ciphertext is stored.
StoreBeyond(q, length) ==
  LET n == Len(sessions[q.sid].ciphertexts) + 1
  IN  IF n > MaxCiphertexts + 1
      THEN RefuseFound(q, "ciphertext limit")
      ELSE /\ sessions' = [Found(q.sid) EXCEPT ![q.sid].ciphertexts = Append(@, length)]
           /\ quiet' = [quiet EXCEPT ![q.sid] = 0]
           /\ Respond(q, Accepted(q.sid, n))
           /\ UNCHANGED minted

\* _store
Store(q, length) ==
  LET n == Len(sessions[q.sid].ciphertexts) + 1
  IN  IF n > MaxCiphertexts
      THEN RefuseFound(q, "ciphertext limit")
      ELSE /\ sessions' = [Found(q.sid) EXCEPT ![q.sid].ciphertexts = Append(@, length)]
           /\ quiet' = [quiet EXCEPT ![q.sid] = 0]
           /\ Respond(q, Accepted(q.sid, n))
           /\ UNCHANGED minted

\* The binding computes, or raises.
ComputeAndStore(q, length) == RefuseFound(q, "crypto") \/ Store(q, length)

\* _ciphertext
Has(q, n) == n \in 1..Len(sessions[q.sid].ciphertexts)
LengthOf(q, n) == sessions[q.sid].ciphertexts[n]

Encrypt(q) ==
  IF q.len # sessions[q.sid].vector_length
  THEN RefuseFound(q, "length")
  ELSE ComputeAndStore(q, q.len)

\* Mutant: a reduction keeps the length of its operand.
ResultLengthKept(q) == LengthOf(q, q.left)

\* A reduction leaves one value.
ResultLength(q) == IF q.op = "sum" THEN 1 ELSE LengthOf(q, q.left)

\* evaluate: on two ciphertexts, on a ciphertext and a public vector, or on one
\* ciphertext ("square" stands for a public scalar as well, "sum" for the mean).
Evaluate(q) ==
  IF ~Has(q, q.left) \/ (q.op = "binary" /\ ~Has(q, q.right))
  THEN RefuseFound(q, "unknown ciphertext")
  ELSE IF \/ q.op = "binary" /\ LengthOf(q, q.left) # LengthOf(q, q.right)
          \/ q.op = "public" /\ LengthOf(q, q.left) # q.len
  THEN RefuseFound(q, "length")
  ELSE ComputeAndStore(q, ResultLength(q))

Decrypt(q) ==
  IF ~Has(q, q.left)
  THEN RefuseFound(q, "unknown ciphertext")
  ELSE \/ RefuseFound(q, "crypto")
       \/ /\ sessions' = Found(q.sid)
          /\ quiet' = [quiet EXCEPT ![q.sid] = 0]
          /\ Respond(q, Accepted(q.sid, q.left))
          /\ UNCHANGED minted

\* delete_session: whether it has expired or not, and without a purge.
Delete(q) ==
  /\ sessions' = [sessions EXCEPT ![q.sid] = None]
  /\ Respond(q, IF sessions[q.sid] = None THEN Refused("unknown session")
                                          ELSE Accepted(q.sid, None))
  /\ UNCHANGED <<minted, quiet>>

Serve(q) ==
  \/ q.op = "create" /\ Create(q)
  \/ q.op = "delete" /\ Delete(q)
  \/ /\ q.op \notin {"create", "delete"} /\ ~Live(q.sid)
     /\ Refuse(q, "unknown session")
  \/ /\ q.op \notin {"create", "delete"} /\ Live(q.sid)
     /\ \/ q.op = "encrypt" /\ Encrypt(q)
        \/ q.op = "decrypt" /\ Decrypt(q)
        \/ q.op \in {"binary", "public", "square", "sum"} /\ Evaluate(q)

\* Mutant: the request of a client that has gone is served again.
HandleAgain ==
  /\ backlog # <<>>
  /\ Serve(Head(backlog))
  /\ backlog' = IF Head(backlog).from = None THEN backlog ELSE Tail(backlog)

\* The server is single-threaded: the oldest connection, and one step.
Handle ==
  /\ backlog # <<>>
  /\ Serve(Head(backlog))
  /\ backlog' = Tail(backlog)

-----------------------------------------------------------------------------
\* The clock: a session that has reached its limit is not looked at before the
\* next request.
Tick ==
  /\ \E s \in Ids : Live(s)
  /\ sessions' = [s \in Ids |-> IF Live(s) THEN [sessions[s] EXCEPT !.life = @ - 1]
                                           ELSE sessions[s]]
  /\ quiet' = [s \in Ids |-> IF Live(s) /\ quiet[s] < TTL THEN quiet[s] + 1 ELSE quiet[s]]
  /\ UNCHANGED <<minted, backlog, response>>

\* The Pod restarts: the sessions are gone, and every connection is reset.
Restart ==
  /\ sessions' = [s \in Ids |-> None]
  /\ backlog' = <<>>
  /\ response' = [c \in Clients |->
                    IF \E i \in 1..Len(backlog) : backlog[i].from = c
                    THEN Refused("connection") ELSE response[c]]
  /\ UNCHANGED <<minted, quiet>>

=============================================================================
