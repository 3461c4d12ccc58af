------------------------- MODULE RemoteClientProofs -------------------------
(***************************************************************************)
(* Proofs about RemoteClient, for any number of clients, sessions and      *)
(* requests under way: handles and ciphertexts stay in step, close leaves  *)
(* nothing behind, only silence, a delete or a restart ends a session, the *)
(* limit counts sessions that are within their time, and whoever waits has *)
(* one request under way or one response.                                  *)
(***************************************************************************)
EXTENDS RemoteClient, SequenceTheorems, TLAPS

-----------------------------------------------------------------------------
(* Requests and the invariants of the server and its backlog.              *)

Stored(s) == sessions[s].ciphertexts
Computations == {"binary", "public", "square", "sum"}

\* A request names its session and what it needs there.
WellFormed(q) ==
  /\ q \in Request
  /\ q.op = "create" => q.len \in Lengths
  /\ q.op # "create" => q.sid \in Ids
  /\ q.op = "encrypt" => q.len \in Lengths
  /\ q.op = "public" => q.len \in LogicalLengths
  /\ q.op \in Computations \cup {"decrypt"} => q.left \in CiphertextIds
  /\ q.op \in {"binary", "square", "sum"} => q.len = None

\* A session was given out, and its remaining time and its silence add up.
ServerInv ==
  \A s \in Ids : sessions[s] # None => s \in minted /\ sessions[s].life + quiet[s] = TTL

\* What waits is well-formed, and of a client that waits there is one request.
BacklogInv ==
  /\ \A i \in 1..Len(backlog) :
       /\ WellFormed(backlog[i])
       /\ backlog[i].from # None => /\ call[backlog[i].from] = backlog[i]
                                    /\ response[backlog[i].from] = None
  /\ \A i, j \in 1..Len(backlog) :
       backlog[i].from = backlog[j].from /\ backlog[i].from # None => i = j

-----------------------------------------------------------------------------
(* Records.                                                                *)

LEMMA ConstantFacts ==
  /\ TTL \in Nat \ {0} /\ TTL \in 0..TTL /\ MaxCiphertexts \in Nat \ {0}
  /\ 1 \in CiphertextIds /\ 1 \in LogicalLengths /\ Lengths \subseteq LogicalLengths
BY ConstantsAssumption DEF CiphertextIds, LogicalLengths

LEMMA ResponseFacts ==
  /\ \A why \in Reasons : Refused(why) \in Response /\ ~Refused(why).ok
  /\ \A s \in Ids, n \in CiphertextIds \cup {None} :
       /\ Accepted(s, n) \in Response /\ Accepted(s, n).ok
       /\ Accepted(s, n).sid = s /\ Accepted(s, n).id = n
  /\ \A r \in Response : r # None
  /\ \A r \in Response : r.ok => r.sid \in Ids /\ r.id \in CiphertextIds \cup {None}
<1>1. \A why \in Reasons : Refused(why) \in Response /\ ~Refused(why).ok
  BY DEF Refused, Response
<1>2. ASSUME NEW s \in Ids, NEW n \in CiphertextIds \cup {None}
      PROVE  /\ Accepted(s, n) \in Response /\ Accepted(s, n).ok
             /\ Accepted(s, n).sid = s /\ Accepted(s, n).id = n
  BY DEF Accepted, Response
<1>3. \A r \in Response : r # None
  BY RecordsAssumption
<1>4. ASSUME NEW r \in Response, r.ok
      PROVE  r.sid \in Ids /\ r.id \in CiphertextIds \cup {None}
  BY <1>4 DEF Response
<1> QED BY <1>1, <1>2, <1>3, <1>4

LEMMA ReasonsDiffer ==
  /\ \A v, w : Refused(v) = Refused(w) => v = w
  /\ \A w, s, n : Refused(w) # Accepted(s, n)
<1>1. \A v, w : Refused(v) = Refused(w) => v = w
  <2> SUFFICES ASSUME NEW v, NEW w, Refused(v) = Refused(w) PROVE v = w
    OBVIOUS
  <2>1. Refused(v).why = v /\ Refused(w).why = w
    BY DEF Refused
  <2> QED BY <2>1
<1>2. \A w, s, n : Refused(w) # Accepted(s, n)
  <2> SUFFICES ASSUME NEW w, NEW s, NEW n, Refused(w) = Accepted(s, n) PROVE FALSE
    OBVIOUS
  <2>1. Refused(w).ok = FALSE
    BY DEF Refused
  <2>2. Accepted(s, n).ok = TRUE
    BY DEF Accepted
  <2> QED BY <2>1, <2>2
<1> QED BY <1>1, <1>2

LEMMA SessionFacts ==
  ASSUME NEW x \in Session
  PROVE  /\ x # None /\ x.ciphertexts \in Seq(LogicalLengths)
         /\ x.life \in 0..TTL /\ x.vector_length \in Lengths
BY RecordsAssumption DEF Session

LEMMA RequestFacts ==
  ASSUME NEW q \in Request
  PROVE  /\ q # None /\ q.from \in Clients \cup {None} /\ q.op \in Operations
         /\ q.len \in LogicalLengths \cup {None}
         /\ [q EXCEPT !.from = None] \in Request
BY RecordsAssumption DEF Request, LogicalLengths

LEMMA RespondTyped ==
  ASSUME GatewayTypeOK, NEW q \in Request, NEW r \in Response, Respond(q, r)
  PROVE  /\ response' \in [Clients -> Response \cup {None}]
         /\ \A c \in Clients : response'[c] = IF c = q.from THEN r ELSE response[c]
<1>1. q.from \in Clients \cup {None} /\ None \notin Clients
  BY RequestFacts, ConstantsAssumption
<1> QED BY <1>1 DEF Respond, GatewayTypeOK

-----------------------------------------------------------------------------
(* What a step does to the sessions.                                       *)

\* Sessions only grow, or end.
Grown ==
  /\ minted \subseteq minted'
  /\ \A s \in minted : sessions'[s] # None =>
       /\ sessions[s] # None
       /\ Len(Stored(s)) <= Len(sessions'[s].ciphertexts)
       /\ \A n \in 1..Len(Stored(s)) : sessions'[s].ciphertexts[n] = Stored(s)[n]

LEMMA PurgedFacts ==
  ASSUME GatewayTypeOK
  PROVE  /\ Purged \in [Ids -> Session \cup {None}]
         /\ \A s \in Ids : Purged[s] = IF Live(s) THEN sessions[s] ELSE None
         /\ \A s \in Ids : Live(s) => /\ sessions[s] \in Session /\ Len(Stored(s)) \in CiphertextIds
                                      /\ sessions[s] # None
         /\ \A s \in Ids : sessions[s] # None => Live(s) \/ sessions[s].life = 0
<1>1. ASSUME NEW s \in Ids, sessions[s] # None, ~Live(s)
      PROVE  sessions[s].life = 0
  <2>1. sessions[s] \in Session
    BY <1>1 DEF GatewayTypeOK
  <2>2. sessions[s].life \in 0..TTL
    BY <2>1, SessionFacts
  <2> QED BY <1>1, <2>2, ConstantFacts DEF Live
<1> QED BY <1>1 DEF Purged, Live, GatewayTypeOK, Stored

\* The session of s after a step is none, as before, or one of its own.
LEMMA FoundFacts ==
  ASSUME GatewayTypeOK, NEW s \in Ids, Live(s), NEW w \in Seq(LogicalLengths), Len(w) \in CiphertextIds,
         NEW f, f = [Found(s) EXCEPT ![s].ciphertexts = w] \/ (f = Found(s) /\ w = Stored(s))
  PROVE  /\ f \in [Ids -> Session \cup {None}]
         /\ \A u \in Ids \ {s} : f[u] = IF Live(u) THEN sessions[u] ELSE None
         /\ f[s] \in Session /\ f[s] # None /\ f[s].life = TTL /\ f[s].ciphertexts = w
<1> DEFINE x == sessions[s]
<1>1. x \in Session
  BY PurgedFacts
<1>2. Purged \in [Ids -> Session \cup {None}] /\ Purged[s] = x
  BY PurgedFacts
<1>3. \A u \in Ids \ {s} : Purged[u] = IF Live(u) THEN sessions[u] ELSE None
  BY PurgedFacts
<1> DEFINE y == [x EXCEPT !.life = TTL]
           z == [y EXCEPT !.ciphertexts = w]
<1>4. y \in Session /\ y.life = TTL /\ y.ciphertexts = x.ciphertexts
  BY <1>1, ConstantFacts DEF Session
<1>5. z \in Session /\ z.life = TTL /\ z.ciphertexts = w
  BY <1>4 DEF Session
<1>6. Found(s) = [Purged EXCEPT ![s] = y]
  BY <1>2 DEF Found
<1>7. [Found(s) EXCEPT ![s].ciphertexts = w] = [Purged EXCEPT ![s] = z]
  BY <1>2, <1>6
<1>8. x.ciphertexts = Stored(s)
  BY DEF Stored
<1> HIDE DEF x, y, z
<1>9. \E v \in {y, z} : f = [Purged EXCEPT ![s] = v] /\ v.ciphertexts = w
  BY <1>4, <1>5, <1>6, <1>7, <1>8
<1>10. PICK v \in {y, z} : f = [Purged EXCEPT ![s] = v] /\ v.ciphertexts = w
  BY <1>9
<1>11. v \in Session /\ v.life = TTL /\ v # None
  BY <1>4, <1>5, RecordsAssumption
<1>12. f[s] = v /\ f \in [Ids -> Session \cup {None}]
  BY <1>2, <1>10, <1>11
<1>13. \A u \in Ids \ {s} : f[u] = IF Live(u) THEN sessions[u] ELSE None
  BY <1>2, <1>3, <1>10
<1> QED BY <1>10, <1>11, <1>12, <1>13

-----------------------------------------------------------------------------
(* The cases of a served request.                                          *)

\* What the gateway may do with a request.
Creates(q, s) ==
  /\ sessions' = [Purged EXCEPT ![s] = [vector_length |-> q.len, ciphertexts |-> <<q.len>>, life |-> TTL]]
  /\ minted' = minted \cup {s}
  /\ quiet' = [quiet EXCEPT ![s] = 0]
  /\ Respond(q, Accepted(s, 1))

Renews(q, r) ==
  /\ Live(q.sid) /\ sessions' = Found(q.sid)
  /\ quiet' = [quiet EXCEPT ![q.sid] = 0]
  /\ Respond(q, r)
  /\ UNCHANGED minted

Stores(q, length) ==
  /\ Live(q.sid) /\ Len(Stored(q.sid)) + 1 <= MaxCiphertexts
  /\ sessions' = [Found(q.sid) EXCEPT ![q.sid].ciphertexts = Append(Stored(q.sid), length)]
  /\ quiet' = [quiet EXCEPT ![q.sid] = 0]
  /\ Respond(q, Accepted(q.sid, Len(Stored(q.sid)) + 1))
  /\ UNCHANGED minted

\* The length of the result of a request, in the gateway.
LengthIn(q) ==
  IF q.op = "sum" THEN 1 ELSE IF q.len # None THEN q.len ELSE Stored(q.sid)[q.left]

LEMMA LengthsInSession ==
  ASSUME GatewayTypeOK, NEW s \in Ids, Live(s)
  PROVE  /\ Len(Stored(s)) \in Nat /\ Stored(s) \in Seq(LogicalLengths)
         /\ \A n \in 1..Len(Stored(s)) : Stored(s)[n] \in LogicalLengths
<1>1. sessions[s] \in Session
  BY PurgedFacts
<1>2. Stored(s) \in Seq(LogicalLengths)
  BY <1>1, SessionFacts DEF Stored
<1> QED BY <1>2

LEMMA ComputeCases ==
  ASSUME GatewayTypeOK, NEW q, WellFormed(q), NEW length, Live(q.sid), ComputeAndStore(q, length), q.sid \in Ids
  PROVE  \/ Stores(q, length)
         \/ \E why \in Reasons \ {"session limit"} : Renews(q, Refused(why))
<1>1. {"crypto", "ciphertext limit"} \subseteq Reasons \ {"session limit"}
  BY DEF Reasons
<1>2. CASE RefuseFound(q, "crypto")
  BY <1>1, <1>2 DEF RefuseFound, Renews
<1>3. CASE Store(q, length)
  <2> DEFINE n == Len(Stored(q.sid)) + 1
  <2>1. n \in Nat /\ MaxCiphertexts \in Nat
    BY LengthsInSession, ConstantFacts
  <2>2. CASE n > MaxCiphertexts
    <3>1. RefuseFound(q, "ciphertext limit")
      BY <1>3, <2>2 DEF Store, Stored
    <3> QED BY <1>1, <3>1 DEF RefuseFound, Renews
  <2>3. CASE ~(n > MaxCiphertexts)
    <3>1. /\ sessions' = [Found(q.sid) EXCEPT ![q.sid].ciphertexts = Append(@, length)]
          /\ quiet' = [quiet EXCEPT ![q.sid] = 0]
          /\ Respond(q, Accepted(q.sid, n))
          /\ UNCHANGED minted
      BY <1>3, <2>3 DEF Store, Stored
    <3>2. Found(q.sid)[q.sid].ciphertexts = Stored(q.sid)
      <4>1. Stored(q.sid) \in Seq(LogicalLengths) /\ Len(Stored(q.sid)) \in CiphertextIds
        BY LengthsInSession, PurgedFacts
      <4> QED BY <4>1, FoundFacts
    <3>3. sessions' = [Found(q.sid) EXCEPT ![q.sid].ciphertexts = Append(Stored(q.sid), length)]
      BY <3>1, <3>2
    <3>4. n <= MaxCiphertexts
      BY <2>1, <2>3
    <3> QED BY <3>1, <3>3, <3>4 DEF Stores
  <2> QED BY <2>2, <2>3
<1> QED BY <1>2, <1>3 DEF ComputeAndStore

\* A request is refused, or does one of five things to one session.
LEMMA ServeCases ==
  ASSUME GatewayTypeOK, NEW q, WellFormed(q), Serve(q)
  PROVE  \/ \E why \in Reasons :
              /\ Refuse(q, why)
              /\ why = "session limit" => Cardinality({s \in Ids : Live(s)}) >= MaxSessions
         \/ q.op = "create" /\ \E s \in Ids \ minted : Creates(q, s)
         \/ q.op = "delete" /\ Delete(q)
         \/ q.sid \in Ids /\ q.op \notin {"create", "delete"}
            /\ \E why \in Reasons \ {"session limit"} : Renews(q, Refused(why))
         \/ q.sid \in Ids /\ q.op = "decrypt" /\ Renews(q, Accepted(q.sid, q.left))
         \/ /\ q.sid \in Ids /\ q.op \in Computations \cup {"encrypt"} /\ Stores(q, LengthIn(q))
            /\ q.op \in {"binary", "square"} => q.left \in 1..Len(Stored(q.sid))
            /\ LengthIn(q) \in LogicalLengths
<1>0. /\ {"crypto", "session limit", "unknown session", "unknown ciphertext", "length"} \subseteq Reasons
      /\ {"crypto", "unknown ciphertext", "length"} \subseteq Reasons \ {"session limit"}
  BY DEF Reasons
<1>1. CASE q.op = "create" /\ Create(q)
  <2>1. CASE Cardinality({s \in Ids : Live(s)}) >= MaxSessions
    <3>1. Refuse(q, "session limit")
      BY <1>1, <2>1 DEF Create
    <3> QED BY <1>0, <2>1, <3>1
  <2>2. CASE Refuse(q, "crypto")
    BY <1>0, <2>2
  <2>3. CASE \E s \in Ids \ minted : Creates(q, s)
    BY <1>1, <2>3
  <2> QED BY <1>1, <2>1, <2>2, <2>3 DEF Create, Creates
<1>2. CASE q.op = "delete" /\ Delete(q)
  BY <1>2
<1>3. CASE q.op \notin {"create", "delete"} /\ Refuse(q, "unknown session")
  BY <1>0, <1>3
<1>4. CASE q.op = "encrypt" /\ Live(q.sid) /\ Encrypt(q)
  <2>1. q.sid \in Ids /\ q.len \in Lengths /\ None \notin Lengths
    BY <1>4, ConstantsAssumption DEF WellFormed
  <2>2. CASE RefuseFound(q, "length")
    BY <1>0, <1>4, <2>1, <2>2 DEF RefuseFound, Renews
  <2>3. CASE ComputeAndStore(q, q.len)
    <3>1. LengthIn(q) = q.len /\ q.len \in LogicalLengths
      BY <1>4, <2>1, ConstantFacts DEF LengthIn
    <3> QED BY <1>4, <2>1, <2>3, <3>1, ComputeCases
  <2> QED BY <1>4, <2>2, <2>3 DEF Encrypt
<1>5. CASE q.op = "decrypt" /\ Live(q.sid) /\ Decrypt(q)
  <2>1. q.sid \in Ids
    BY <1>5 DEF WellFormed
  <2> QED BY <1>0, <1>5, <2>1 DEF Decrypt, RefuseFound, Renews
<1>6. CASE q.op \in Computations /\ Live(q.sid) /\ Evaluate(q)
  <2>1. q.sid \in Ids
    BY <1>6 DEF WellFormed, Computations
  <2>2. ASSUME NEW why \in Reasons \ {"session limit"}, RefuseFound(q, why)
        PROVE  Renews(q, Refused(why))
    BY <1>6, <2>2 DEF RefuseFound, Renews
  <2>3. CASE /\ Has(q, q.left) /\ (q.op = "public" => LengthOf(q, q.left) = q.len)
             /\ ComputeAndStore(q, ResultLength(q))
    <3>1. q.left \in 1..Len(Stored(q.sid)) /\ LengthOf(q, q.left) = Stored(q.sid)[q.left]
      BY <2>3 DEF Has, LengthOf, Stored
    <3>2. Stored(q.sid)[q.left] \in LogicalLengths
      BY <1>6, <2>1, <3>1, LengthsInSession
    <3>3. ResultLength(q) = LengthIn(q)
      BY <1>6, <2>3, <3>1 DEF ResultLength, LengthIn, WellFormed, Computations
    <3>4. LengthIn(q) \in LogicalLengths
      BY <3>1, <3>2, <3>3, ConstantFacts DEF ResultLength
    <3> QED BY <1>6, <2>1, <2>3, <3>1, <3>3, <3>4, ComputeCases DEF Computations
  <2> QED BY <1>0, <1>6, <2>1, <2>2, <2>3 DEF Evaluate, Computations
<1> QED BY <1>1, <1>2, <1>3, <1>4, <1>5, <1>6 DEF Serve, Computations

-----------------------------------------------------------------------------
(* What each case keeps of the server.                                     *)

\* The types of the gateway without its backlog.
ServerTypes ==
  /\ sessions \in [Ids -> Session \cup {None}]
  /\ \A s \in Ids : sessions[s] # None => Len(sessions[s].ciphertexts) \in CiphertextIds
  /\ minted \subseteq Ids
  /\ response \in [Clients -> Response \cup {None}]
  /\ quiet \in [Ids -> 0..TTL]

LEMMA ServerTypesParts == GatewayTypeOK <=> ServerTypes /\ backlog \in Seq(Request)
BY DEF GatewayTypeOK, ServerTypes

\* What every step keeps of the server.
Kept == ServerTypes' /\ ServerInv' /\ Grown

LEMMA StoredFacts ==
  ASSUME GatewayTypeOK, NEW s \in Ids, sessions[s] # None
  PROVE  /\ sessions[s] \in Session /\ sessions[s].life \in 0..TTL
         /\ Stored(s) \in Seq(LogicalLengths) /\ Len(Stored(s)) \in CiphertextIds
         /\ Len(Stored(s)) \in Nat
<1>1. sessions[s] \in Session
  BY DEF GatewayTypeOK
<1> QED BY <1>1, SessionFacts DEF Stored, GatewayTypeOK

\* A session that is as before, or gone.
Spared(s) == sessions'[s] = None \/ sessions'[s] = sessions[s]

LEMMA SparedGrown ==
  ASSUME GatewayTypeOK, ServerInv, NEW s \in Ids, Spared(s), quiet'[s] = quiet[s], minted \subseteq minted'
  PROVE  sessions'[s] # None =>
           /\ sessions[s] # None /\ sessions'[s] \in Session /\ Len(sessions'[s].ciphertexts) \in CiphertextIds
           /\ s \in minted' /\ sessions'[s].life + quiet'[s] = TTL
           /\ Len(Stored(s)) <= Len(sessions'[s].ciphertexts)
           /\ \A n \in 1..Len(Stored(s)) : sessions'[s].ciphertexts[n] = Stored(s)[n]
<1> SUFFICES ASSUME sessions'[s] # None
             PROVE  /\ sessions[s] # None /\ sessions'[s] \in Session
                    /\ Len(sessions'[s].ciphertexts) \in CiphertextIds
                    /\ s \in minted' /\ sessions'[s].life + quiet'[s] = TTL
                    /\ Len(Stored(s)) <= Len(sessions'[s].ciphertexts)
                    /\ \A n \in 1..Len(Stored(s)) : sessions'[s].ciphertexts[n] = Stored(s)[n]
  OBVIOUS
<1>1. sessions'[s] = sessions[s] /\ sessions[s] # None
  BY DEF Spared
<1>2. sessions[s] \in Session /\ Len(Stored(s)) \in CiphertextIds /\ Len(Stored(s)) \in Nat
  BY <1>1, StoredFacts
<1>3. s \in minted' /\ sessions'[s].life + quiet'[s] = TTL
  BY <1>1 DEF ServerInv
<1>4. Len(Stored(s)) <= Len(Stored(s))
  BY <1>2
<1> QED BY <1>1, <1>2, <1>3, <1>4 DEF Stored

\* What a step must see to, session by session.
LEMMA KeptBy ==
  ASSUME GatewayTypeOK, ServerInv,
         DOMAIN sessions' = Ids, sessions' = [s \in Ids |-> sessions'[s]],
         minted \subseteq minted', minted' \subseteq Ids,
         response' \in [Clients -> Response \cup {None}], quiet' \in [Ids -> 0..TTL],
         \A s \in Ids : sessions'[s] # None =>
           /\ sessions'[s] \in Session /\ Len(sessions'[s].ciphertexts) \in CiphertextIds
           /\ s \in minted' /\ sessions'[s].life + quiet'[s] = TTL
           /\ s \in minted =>
                /\ sessions[s] # None /\ Len(Stored(s)) <= Len(sessions'[s].ciphertexts)
                /\ \A n \in 1..Len(Stored(s)) : sessions'[s].ciphertexts[n] = Stored(s)[n]
  PROVE  Kept
<1>1. sessions' \in [Ids -> Session \cup {None}]
  OBVIOUS
<1>2. ServerTypes'
  BY <1>1 DEF ServerTypes
<1>3. ServerInv'
  BY DEF ServerInv
<1>4. Grown
  BY DEF Grown, GatewayTypeOK
<1> QED BY <1>2, <1>3, <1>4 DEF Kept

LEMMA RefuseKept ==
  ASSUME GatewayTypeOK, ServerInv, NEW q \in Request, NEW why \in Reasons, Refuse(q, why)
  PROVE  Kept
<1>1. sessions' = Purged /\ UNCHANGED <<minted, quiet>>
  BY DEF Refuse
<1>2. \A s \in Ids : Spared(s)
  BY <1>1, PurgedFacts DEF Spared
<1>3. response' \in [Clients -> Response \cup {None}]
  BY RespondTyped, ResponseFacts DEF Refuse
<1>4. sessions' = [s \in Ids |-> sessions'[s]] /\ DOMAIN sessions' = Ids
  BY <1>1, PurgedFacts
<1> QED BY <1>1, <1>2, <1>3, <1>4, SparedGrown, KeptBy DEF GatewayTypeOK

LEMMA CreateKept ==
  ASSUME GatewayTypeOK, ServerInv, NEW q \in Request, q.len \in Lengths, NEW s \in Ids \ minted, Creates(q, s)
  PROVE  Kept /\ sessions'[s].ciphertexts = <<q.len>>
<1> DEFINE x == [vector_length |-> q.len, ciphertexts |-> <<q.len>>, life |-> TTL]
<1>1. <<q.len>> \in Seq(LogicalLengths) /\ Len(<<q.len>>) = 1
  BY ConstantFacts
<1>2. x \in Session /\ Len(x.ciphertexts) \in CiphertextIds /\ x.life + 0 = TTL /\ x.ciphertexts = <<q.len>>
  BY <1>1, ConstantFacts DEF Session
<1>3. sessions' = [Purged EXCEPT ![s] = x] /\ minted' = minted \cup {s} /\ quiet' = [quiet EXCEPT ![s] = 0]
  BY DEF Creates
<1> HIDE DEF x
<1>4. sessions'[s] = x /\ quiet'[s] = 0
  BY <1>3, PurgedFacts DEF GatewayTypeOK
<1>5. \A u \in Ids \ {s} : Spared(u) /\ quiet'[u] = quiet[u]
  BY <1>3, PurgedFacts DEF Spared, GatewayTypeOK
<1>6. response' \in [Clients -> Response \cup {None}]
  BY RespondTyped, ResponseFacts, ConstantFacts DEF Creates
<1>7. sessions' = [u \in Ids |-> sessions'[u]] /\ DOMAIN sessions' = Ids
  BY <1>3, PurgedFacts
<1>8. quiet' \in [Ids -> 0..TTL] /\ minted' \subseteq Ids /\ minted \subseteq minted'
  BY <1>3, ConstantFacts DEF GatewayTypeOK
<1>9. \A u \in Ids : sessions'[u] # None =>
           /\ sessions'[u] \in Session /\ Len(sessions'[u].ciphertexts) \in CiphertextIds
           /\ u \in minted' /\ sessions'[u].life + quiet'[u] = TTL
           /\ u \in minted =>
                /\ sessions[u] # None /\ Len(Stored(u)) <= Len(sessions'[u].ciphertexts)
                /\ \A n \in 1..Len(Stored(u)) : sessions'[u].ciphertexts[n] = Stored(u)[n]
  <2>1. s \in minted' /\ s \notin minted
    BY <1>3
  <2>2. ASSUME NEW u \in Ids \ {s}, sessions'[u] # None
        PROVE  /\ sessions'[u] \in Session /\ Len(sessions'[u].ciphertexts) \in CiphertextIds
               /\ u \in minted' /\ sessions'[u].life + quiet'[u] = TTL
               /\ sessions[u] # None /\ Len(Stored(u)) <= Len(sessions'[u].ciphertexts)
               /\ \A n \in 1..Len(Stored(u)) : sessions'[u].ciphertexts[n] = Stored(u)[n]
    BY <1>5, <1>8, <2>2, SparedGrown
  <2> QED BY <1>2, <1>4, <2>1, <2>2
<1>10. Kept
  BY <1>6, <1>7, <1>8, <1>9, KeptBy
<1> QED BY <1>2, <1>4, <1>10

\* The session of a request is renewed, perhaps with one more ciphertext.
LEMMA RenewKept ==
  ASSUME GatewayTypeOK, ServerInv, NEW q \in Request, NEW s \in Ids, Live(s),
         NEW w \in Seq(LogicalLengths), Len(w) \in CiphertextIds, Len(Stored(s)) <= Len(w),
         \A n \in 1..Len(Stored(s)) : w[n] = Stored(s)[n],
         NEW r \in Response, Respond(q, r),
         sessions' = [Found(s) EXCEPT ![s].ciphertexts = w] \/ (sessions' = Found(s) /\ w = Stored(s)),
         quiet' = [quiet EXCEPT ![s] = 0], UNCHANGED minted
  PROVE  Kept /\ sessions'[s].ciphertexts = w
<1>1. /\ sessions' \in [Ids -> Session \cup {None}]
      /\ \A u \in Ids \ {s} : sessions'[u] = IF Live(u) THEN sessions[u] ELSE None
      /\ sessions'[s] \in Session /\ sessions'[s] # None
      /\ sessions'[s].life = TTL /\ sessions'[s].ciphertexts = w
  BY FoundFacts
<1>2. sessions[s] # None /\ s \in minted
  BY DEF Live, ServerInv
<1>3. quiet'[s] = 0 /\ \A u \in Ids \ {s} : quiet'[u] = quiet[u]
  BY DEF GatewayTypeOK
<1>4. \A u \in Ids \ {s} : Spared(u)
  BY <1>1 DEF Spared
<1>5. response' \in [Clients -> Response \cup {None}] /\ quiet' \in [Ids -> 0..TTL]
  BY RespondTyped, ConstantFacts DEF GatewayTypeOK
<1>6. sessions' = [u \in Ids |-> sessions'[u]] /\ DOMAIN sessions' = Ids
  BY <1>1
<1>7. TTL + 0 = TTL
  BY ConstantFacts
<1>8. \A u \in Ids : sessions'[u] # None =>
           /\ sessions'[u] \in Session /\ Len(sessions'[u].ciphertexts) \in CiphertextIds
           /\ u \in minted' /\ sessions'[u].life + quiet'[u] = TTL
           /\ u \in minted =>
                /\ sessions[u] # None /\ Len(Stored(u)) <= Len(sessions'[u].ciphertexts)
                /\ \A n \in 1..Len(Stored(u)) : sessions'[u].ciphertexts[n] = Stored(u)[n]
  <2>1. ASSUME NEW u \in Ids \ {s}, sessions'[u] # None
        PROVE  /\ sessions'[u] \in Session /\ Len(sessions'[u].ciphertexts) \in CiphertextIds
               /\ u \in minted' /\ sessions'[u].life + quiet'[u] = TTL
               /\ sessions[u] # None /\ Len(Stored(u)) <= Len(sessions'[u].ciphertexts)
               /\ \A n \in 1..Len(Stored(u)) : sessions'[u].ciphertexts[n] = Stored(u)[n]
    BY <1>3, <1>4, <2>1, SparedGrown
  <2> QED BY <1>1, <1>2, <1>3, <1>7, <2>1
<1>9. minted' \subseteq Ids /\ minted \subseteq minted'
  BY DEF GatewayTypeOK
<1>10. Kept
  BY <1>5, <1>6, <1>8, <1>9, KeptBy
<1> QED BY <1>1, <1>10

LEMMA RenewsKept ==
  ASSUME GatewayTypeOK, ServerInv, NEW q \in Request, q.sid \in Ids, NEW r \in Response, Renews(q, r)
  PROVE  Kept
<1>1. Live(q.sid) /\ sessions[q.sid] # None
  BY DEF Renews, Live
<1>2. /\ Stored(q.sid) \in Seq(LogicalLengths) /\ Len(Stored(q.sid)) \in CiphertextIds
      /\ Len(Stored(q.sid)) <= Len(Stored(q.sid))
  BY <1>1, StoredFacts
<1> QED BY <1>1, <1>2, RenewKept DEF Renews

LEMMA StoresKept ==
  ASSUME GatewayTypeOK, ServerInv, NEW q \in Request, q.sid \in Ids, NEW length \in LogicalLengths,
         Stores(q, length)
  PROVE  /\ Kept
         /\ sessions'[q.sid].ciphertexts = Append(Stored(q.sid), length)
         /\ Accepted(q.sid, Len(Stored(q.sid)) + 1) \in Response
         /\ Len(Stored(q.sid)) + 1 \in CiphertextIds
<1> DEFINE w == Append(Stored(q.sid), length)
<1>1. Live(q.sid) /\ sessions[q.sid] # None
  BY DEF Stores, Live
<1>2. Stored(q.sid) \in Seq(LogicalLengths) /\ Len(Stored(q.sid)) \in Nat /\ Len(Stored(q.sid)) \in CiphertextIds
  BY <1>1, StoredFacts
<1>3. /\ w \in Seq(LogicalLengths) /\ Len(w) = Len(Stored(q.sid)) + 1
      /\ \A n \in 1..Len(Stored(q.sid)) : w[n] = Stored(q.sid)[n]
  BY <1>2
<1>4. Len(w) \in CiphertextIds /\ Len(Stored(q.sid)) <= Len(w)
  BY <1>2, <1>3, ConstantFacts DEF Stores, CiphertextIds
<1>5. Accepted(q.sid, Len(Stored(q.sid)) + 1) \in Response
  BY <1>3, <1>4, ResponseFacts
<1>6. Kept /\ sessions'[q.sid].ciphertexts = w
  <2> HIDE DEF w
  <2>1. sessions' = [Found(q.sid) EXCEPT ![q.sid].ciphertexts = w]
    BY DEF Stores, w
  <2>2. PICK r \in Response : r = Accepted(q.sid, Len(Stored(q.sid)) + 1)
    BY <1>5
  <2>3. Respond(q, r)
    BY <2>2 DEF Stores, Respond
  <2> QED BY <1>1, <1>3, <1>4, <2>1, <2>3, RenewKept DEF Stores
<1> QED BY <1>3, <1>4, <1>5, <1>6

LEMMA DeleteKept ==
  ASSUME GatewayTypeOK, ServerInv, NEW q \in Request, q.sid \in Ids, Delete(q)
  PROVE  Kept /\ sessions'[q.sid] = None
<1>1. sessions' = [sessions EXCEPT ![q.sid] = None] /\ UNCHANGED <<minted, quiet>>
  BY DEF Delete
<1>2. (\A s \in Ids : Spared(s)) /\ sessions'[q.sid] = None
  BY <1>1 DEF Spared, GatewayTypeOK
<1>3. "unknown session" \in Reasons
  BY DEF Reasons
<1>4. response' \in [Clients -> Response \cup {None}]
  <2>1. Refused("unknown session") \in Response /\ Accepted(q.sid, None) \in Response
    BY <1>3, ResponseFacts
  <2>2. PICK r \in Response :
          r = IF sessions[q.sid] = None THEN Refused("unknown session") ELSE Accepted(q.sid, None)
    BY <2>1
  <2>3. Respond(q, r)
    BY <2>2 DEF Delete, Respond
  <2> QED BY <2>3, RespondTyped
<1>5. sessions' = [s \in Ids |-> sessions'[s]] /\ DOMAIN sessions' = Ids
  BY <1>1 DEF GatewayTypeOK
<1>6. Kept
  BY <1>1, <1>2, <1>4, <1>5, SparedGrown, KeptBy DEF GatewayTypeOK
<1> QED BY <1>2, <1>6

LEMMA TickKept ==
  ASSUME GatewayTypeOK, ServerInv, Tick
  PROVE  Kept
<1>1. /\ sessions' = [s \in Ids |-> IF Live(s) THEN [sessions[s] EXCEPT !.life = @ - 1] ELSE sessions[s]]
      /\ quiet' = [s \in Ids |-> IF Live(s) /\ quiet[s] < TTL THEN quiet[s] + 1 ELSE quiet[s]]
      /\ UNCHANGED <<minted, backlog, response>>
  BY DEF Tick
<1>2. quiet' \in [Ids -> 0..TTL]
  BY <1>1, ConstantFacts DEF GatewayTypeOK
<1>3. ASSUME NEW s \in Ids, Live(s)
      PROVE  /\ sessions'[s] \in Session /\ sessions'[s].ciphertexts = Stored(s)
             /\ sessions'[s].life + quiet'[s] = TTL /\ sessions[s] # None /\ s \in minted
             /\ Len(Stored(s)) \in CiphertextIds /\ Len(Stored(s)) <= Len(Stored(s))
    <2>1. sessions[s] # None /\ sessions[s].life > 0
      BY <1>3 DEF Live
    <2>2. /\ sessions[s] \in Session /\ sessions[s].life \in 0..TTL /\ s \in minted
          /\ sessions[s].life + quiet[s] = TTL /\ quiet[s] \in 0..TTL
          /\ Len(Stored(s)) \in CiphertextIds /\ Len(Stored(s)) <= Len(Stored(s))
      BY <2>1, StoredFacts DEF ServerInv, GatewayTypeOK
    <2>3. sessions[s].life - 1 \in 0..TTL
      BY <2>1, <2>2, ConstantFacts
    <2>4. sessions'[s] = [sessions[s] EXCEPT !.life = sessions[s].life - 1]
      BY <1>1, <1>3
    <2>5. /\ sessions'[s] \in Session /\ sessions'[s].life = sessions[s].life - 1
          /\ sessions'[s].ciphertexts = Stored(s)
      BY <2>2, <2>3, <2>4 DEF Session, Stored
    <2>6. quiet'[s] = quiet[s] + 1
      BY <1>1, <1>3, <2>1, <2>2, ConstantFacts
    <2>7. sessions'[s].life + quiet'[s] = TTL
      BY <2>2, <2>5, <2>6, ConstantFacts
    <2> QED BY <2>1, <2>2, <2>5, <2>7
<1>4. ASSUME NEW s \in Ids, ~Live(s)
      PROVE  Spared(s) /\ quiet'[s] = quiet[s]
  BY <1>1, <1>4 DEF Spared
<1>5. \A s \in Ids : sessions'[s] # None =>
           /\ sessions'[s] \in Session /\ Len(sessions'[s].ciphertexts) \in CiphertextIds
           /\ s \in minted' /\ sessions'[s].life + quiet'[s] = TTL
           /\ s \in minted =>
                /\ sessions[s] # None /\ Len(Stored(s)) <= Len(sessions'[s].ciphertexts)
                /\ \A n \in 1..Len(Stored(s)) : sessions'[s].ciphertexts[n] = Stored(s)[n]
  BY <1>1, <1>3, <1>4, SparedGrown
<1>6. sessions' = [s \in Ids |-> sessions'[s]] /\ DOMAIN sessions' = Ids
  BY <1>1
<1> QED BY <1>1, <1>2, <1>5, <1>6, KeptBy DEF GatewayTypeOK

LEMMA RestartKept ==
  ASSUME GatewayTypeOK, ServerInv, Restart
  PROVE  Kept /\ backlog' = <<>>
<1>1. /\ sessions' = [s \in Ids |-> None] /\ backlog' = <<>> /\ UNCHANGED <<minted, quiet>>
  BY DEF Restart
<1>2. "connection" \in Reasons
  BY DEF Reasons
<1>3. response' \in [Clients -> Response \cup {None}]
  <2>1. Refused("connection") \in Response
    BY <1>2, ResponseFacts
  <2>2. response' = [c \in Clients |-> response'[c]] /\ \A c \in Clients : response'[c] \in {Refused("connection"), response[c]}
    BY DEF Restart
  <2> QED BY <2>1, <2>2 DEF GatewayTypeOK
<1>4. Kept
  BY <1>1, <1>3, KeptBy DEF GatewayTypeOK
<1> QED BY <1>1, <1>4

\* The clients do not touch the server.
LEMMA SameServerKept ==
  ASSUME GatewayTypeOK, ServerInv, UNCHANGED <<sessions, minted, quiet>>,
         response' \in [Clients -> Response \cup {None}]
  PROVE  Kept
<1>1. \A s \in Ids : Spared(s)
  BY DEF Spared
<1>2. sessions' = [s \in Ids |-> sessions'[s]] /\ DOMAIN sessions' = Ids
  BY DEF GatewayTypeOK
<1> QED BY <1>1, <1>2, SparedGrown, KeptBy DEF GatewayTypeOK

-----------------------------------------------------------------------------
(* The invariant of the clients.                                           *)

\* What a client that waits for q may rely on.
CallInv(c) ==
  LET q == call[c]
  IN  /\ WellFormed(q) /\ q.from = c /\ ~closed[c]
      /\ q.op = "create" => session[c] = None
      /\ q.op # "create" => q.sid = session[c] /\ q.sid \in minted
      /\ q.op \in Computations =>
           \E h \in handles : h.client = c /\ h.sid = q.sid /\ h.id = q.left

Resulting == Computations \cup {"create", "encrypt"}

\* A response that has arrived: what it names is in the gateway, or the session is gone.
Arrived(q, r) ==
  /\ r.ok /\ q.op = "delete" => sessions[q.sid] = None
  /\ r.ok /\ q.op \in Resulting =>
       /\ r.sid \in minted /\ r.id \in CiphertextIds
       /\ q.op # "create" => r.sid = q.sid
       /\ sessions[r.sid] # None =>
            /\ r.id <= Len(Stored(r.sid))
            /\ q.op \in {"binary", "square"} => q.left \in 1..Len(Stored(r.sid))
            /\ Stored(r.sid)[r.id] = LengthIn(q)

\* A handle is of the session of its client, or that session is gone for good.
HandleInv(h) ==
  /\ h.sid \in minted
  /\ h.sid = session[h.client] \/ (closed[h.client] /\ sessions[h.sid] = None)

\* What the clients hold fits what the gateway holds.
ClientInv ==
  /\ \A c \in Clients : call[c] # None => CallInv(c)
  /\ \A c \in Clients : response[c] # None => call[c] # None /\ Arrived(call[c], response[c])
  /\ \A h \in handles : HandleInv(h)
  /\ \A c \in Clients : session[c] # None => session[c] \in minted /\ ~closed[c]

\* The inductive invariant.
IInv == TypeOK /\ ServerInv /\ BacklogInv /\ ClientInv /\ HandlesResolve

ClientTypes ==
  /\ session \in [Clients -> Ids \cup {None}]
  /\ closed \in [Clients -> BOOLEAN]
  /\ handles \subseteq RemoteCiphertext
  /\ call \in [Clients -> Request \cup {None}]

LEMMA TypesParts == TypeOK <=> GatewayTypeOK /\ ClientTypes
BY DEF TypeOK, ClientTypes

-----------------------------------------------------------------------------
(* What sessions that only grow leave true.                                *)

LEMMA GrownStored ==
  ASSUME GatewayTypeOK, Kept, NEW s \in minted, sessions'[s] # None, NEW n \in 1..Len(Stored(s))
  PROVE  /\ sessions[s] # None /\ n \in Nat
         /\ Stored(s)' = sessions'[s].ciphertexts
         /\ n \in 1..Len(sessions'[s].ciphertexts) /\ sessions'[s].ciphertexts[n] = Stored(s)[n]
<1>1. /\ sessions[s] # None /\ Len(Stored(s)) <= Len(sessions'[s].ciphertexts)
      /\ sessions'[s].ciphertexts[n] = Stored(s)[n]
  BY DEF Kept, Grown
<1>2. Len(sessions'[s].ciphertexts) \in CiphertextIds /\ Len(Stored(s)) \in CiphertextIds
  BY <1>1, StoredFacts DEF Kept, ServerTypes, GatewayTypeOK
<1>3. n \in 1..Len(sessions'[s].ciphertexts) /\ n \in Nat
  BY <1>1, <1>2 DEF CiphertextIds
<1> QED BY <1>1, <1>3 DEF Stored

LEMMA LengthGiven ==
  ASSUME NEW q, WellFormed(q)
  PROVE  q.op \in Resulting /\ q.op \notin {"binary", "square", "sum"} => q.len # None
<1>1. None \notin LogicalLengths /\ None \notin Lengths
  <2>1. None \notin Nat /\ Lengths \subseteq Nat
    BY ConstantsAssumption
  <2>2. None # 1 /\ 1 \in Nat
    BY <2>1
  <2> QED BY <2>1, <2>2 DEF LogicalLengths
<1> QED BY <1>1 DEF WellFormed, Resulting, Computations

\* A response that has arrived stays true while sessions grow or end.
LEMMA ArrivedStays ==
  ASSUME GatewayTypeOK, Kept, NEW q, WellFormed(q), q.op # "create" => q.sid \in minted,
         NEW r \in Response, Arrived(q, r)
  PROVE  Arrived(q, r)'
<1>1. ASSUME r.ok, q.op = "delete"
      PROVE  sessions'[q.sid] = None
  BY <1>1 DEF Arrived, Kept, Grown
<1>2. ASSUME r.ok, q.op \in Resulting
      PROVE  /\ r.sid \in minted' /\ r.id \in CiphertextIds
             /\ q.op # "create" => r.sid = q.sid
             /\ sessions'[r.sid] # None =>
                  /\ r.id <= Len(Stored(r.sid)')
                  /\ q.op \in {"binary", "square"} => q.left \in 1..Len(Stored(r.sid)')
                  /\ Stored(r.sid)'[r.id] = LengthIn(q)'
  <2>1. /\ r.sid \in minted /\ r.id \in CiphertextIds
        /\ q.op # "create" => r.sid = q.sid
    BY <1>2 DEF Arrived
  <2>2. r.sid \in minted'
    BY <2>1 DEF Kept, Grown
  <2>3. ASSUME sessions'[r.sid] # None
        PROVE  /\ r.id <= Len(Stored(r.sid)')
               /\ q.op \in {"binary", "square"} => q.left \in 1..Len(Stored(r.sid)')
               /\ Stored(r.sid)'[r.id] = LengthIn(q)'
    <3>1. sessions[r.sid] # None
      BY <2>1, <2>3 DEF Kept, Grown
    <3>2. /\ r.id <= Len(Stored(r.sid))
          /\ q.op \in {"binary", "square"} => q.left \in 1..Len(Stored(r.sid))
          /\ Stored(r.sid)[r.id] = LengthIn(q)
      BY <1>2, <3>1 DEF Arrived
    <3>3. r.id \in 1..Len(Stored(r.sid))
      BY <2>1, <3>2, <3>1, StoredFacts DEF CiphertextIds, GatewayTypeOK
    <3>4. /\ Stored(r.sid)' = sessions'[r.sid].ciphertexts
          /\ r.id \in 1..Len(sessions'[r.sid].ciphertexts) /\ sessions'[r.sid].ciphertexts[r.id] = Stored(r.sid)[r.id]
      BY <2>1, <2>3, <3>3, GrownStored
    <3>5. q.op \in {"binary", "square"} =>
            /\ q.left \in 1..Len(sessions'[r.sid].ciphertexts)
            /\ sessions'[r.sid].ciphertexts[q.left] = Stored(r.sid)[q.left]
      BY <2>1, <2>3, <3>2, GrownStored
    <3>6. LengthIn(q)' = LengthIn(q)
      <4>1. CASE q.op \in {"binary", "square"}
        <5>1. r.sid = q.sid
          BY <2>1, <4>1
        <5> QED BY <3>4, <3>5, <4>1, <5>1 DEF LengthIn
      <4>2. CASE q.op \notin {"binary", "square"}
        <5>1. q.op = "sum" \/ q.len # None
          BY <1>2, <4>2, LengthGiven
        <5> QED BY <5>1 DEF LengthIn
      <4> QED BY <4>1, <4>2
    <3>7. r.id <= Len(sessions'[r.sid].ciphertexts)
      BY <3>4
    <3> QED BY <3>2, <3>4, <3>5, <3>6, <3>7
  <2> QED BY <2>1, <2>2, <2>3
<1> QED BY <1>1, <1>2 DEF Arrived

LEMMA ResolveStays ==
  ASSUME TypeOK, HandlesResolve, Kept, NEW h \in handles, h.sid \in minted, sessions'[h.sid] # None
  PROVE  h.id <= Len(sessions'[h.sid].ciphertexts) /\ sessions'[h.sid].ciphertexts[h.id] = h.length
<1>0. GatewayTypeOK /\ h.id \in CiphertextIds
  BY DEF TypeOK, RemoteCiphertext
<1>1. sessions[h.sid] # None
  BY DEF Kept, Grown
<1>2. h.id <= Len(Stored(h.sid)) /\ Stored(h.sid)[h.id] = h.length
  BY <1>1 DEF HandlesResolve, Stored
<1>3. h.id \in 1..Len(Stored(h.sid))
  BY <1>0, <1>1, <1>2, StoredFacts DEF CiphertextIds, GatewayTypeOK
<1> QED BY <1>0, <1>2, <1>3, GrownStored

-----------------------------------------------------------------------------
(* A step that leaves the clients alone.                                   *)

LEMMA ClientsStay ==
  ASSUME IInv, Kept, UNCHANGED clients,
         \A c \in Clients : response'[c] # None /\ response'[c] # response[c] =>
           call[c] # None /\ Arrived(call[c], response[c])'
  PROVE  ClientInv' /\ HandlesResolve' /\ ClientTypes'
<1>0. /\ GatewayTypeOK /\ ClientTypes /\ ClientInv /\ HandlesResolve
      /\ UNCHANGED <<session, closed, handles, call>>
  BY TypesParts DEF IInv, clients
<1>1. ClientTypes'
  BY <1>0 DEF ClientTypes
<1>2. \A c \in Clients : call'[c] # None => CallInv(c)'
  BY <1>0 DEF ClientInv, CallInv, Kept, Grown, WellFormed
<1>3. \A c \in Clients : response'[c] # None => call'[c] # None /\ Arrived(call[c], response[c])'
  <2> SUFFICES ASSUME NEW c \in Clients, response'[c] # None
               PROVE  call'[c] # None /\ Arrived(call[c], response[c])'
    OBVIOUS
  <2>1. CASE response'[c] # response[c]
    BY <1>0, <2>1
  <2>2. CASE response'[c] = response[c]
    <3>1. call[c] # None /\ Arrived(call[c], response[c])
      BY <1>0, <2>2 DEF ClientInv
    <3>2. CallInv(c) /\ response[c] \in Response
      BY <1>0, <2>2, <3>1 DEF ClientInv, GatewayTypeOK
    <3>3. WellFormed(call[c]) /\ (call[c].op # "create" => call[c].sid \in minted)
      BY <3>2 DEF CallInv
    <3>4. PICK q, r : q = call[c] /\ r = response[c]
      OBVIOUS
    <3>5. Arrived(q, r)'
      BY <1>0, <3>1, <3>2, <3>3, <3>4, ArrivedStays
    <3> QED BY <1>0, <2>2, <3>1, <3>4, <3>5
  <2> QED BY <2>1, <2>2
<1>4. \A h \in handles' : HandleInv(h)'
  BY <1>0 DEF ClientInv, HandleInv, Kept, Grown
<1>5. \A c \in Clients : session'[c] # None => session'[c] \in minted' /\ ~closed'[c]
  BY <1>0 DEF ClientInv, Kept, Grown
<1>6. HandlesResolve'
  BY <1>0, ResolveStays DEF IInv, ClientInv, HandleInv, HandlesResolve
<1> QED BY <1>1, <1>2, <1>3, <1>4, <1>5, <1>6 DEF ClientInv

-----------------------------------------------------------------------------
(* Serving the oldest request.                                             *)

\* The head of the backlog is well-formed, its client waits for it, and the rest
\* of the backlog is from others.
LEMMA HeadFacts ==
  ASSUME GatewayTypeOK, BacklogInv, backlog # <<>>
  PROVE  /\ WellFormed(Head(backlog)) /\ Head(backlog) \in Request
         /\ Tail(backlog) \in Seq(Request) /\ Len(Tail(backlog)) = Len(backlog) - 1
         /\ Head(backlog).from # None =>
              call[Head(backlog).from] = Head(backlog) /\ response[Head(backlog).from] = None
         /\ \A i \in 1..Len(Tail(backlog)) :
              /\ Tail(backlog)[i] = backlog[i + 1] /\ i + 1 \in 1..Len(backlog)
              /\ Head(backlog).from # None => Tail(backlog)[i].from # Head(backlog).from
<1>1. backlog \in Seq(Request) /\ Len(backlog) \in Nat /\ Len(backlog) # 0
  BY DEF GatewayTypeOK
<1>2. Head(backlog) = backlog[1] /\ 1 \in 1..Len(backlog) /\ backlog[1] \in Request
  BY <1>1
<1>3. Tail(backlog) \in Seq(Request) /\ Len(Tail(backlog)) = Len(backlog) - 1
  BY <1>1
<1>4. \A i \in 1..Len(Tail(backlog)) : Tail(backlog)[i] = backlog[i + 1] /\ i + 1 \in 1..Len(backlog) /\ i + 1 # 1
  BY <1>1, <1>3
<1>5. \A i \in 1..Len(Tail(backlog)) : Head(backlog).from # None => Tail(backlog)[i].from # Head(backlog).from
  BY <1>2, <1>4 DEF BacklogInv
<1> QED BY <1>2, <1>3, <1>4, <1>5 DEF BacklogInv

LEMMA TailBacklog ==
  ASSUME GatewayTypeOK, BacklogInv, backlog # <<>>, backlog' = Tail(backlog), UNCHANGED call,
         \A c \in Clients : response'[c] = response[c] \/ c = Head(backlog).from
  PROVE  BacklogInv' /\ backlog' \in Seq(Request)
<1>1. /\ backlog' \in Seq(Request) /\ Len(backlog') = Len(backlog) - 1 /\ Len(backlog) \in Nat
      /\ \A i \in 1..Len(backlog') :
           /\ backlog'[i] = backlog[i + 1] /\ i + 1 \in 1..Len(backlog)
           /\ Head(backlog).from # None => backlog'[i].from # Head(backlog).from
  <2>1. Len(backlog) \in Nat
    BY DEF GatewayTypeOK
  <2>2. PICK b : b = Tail(backlog)
    OBVIOUS
  <2>3. /\ b \in Seq(Request) /\ Len(b) = Len(backlog) - 1
        /\ \A i \in 1..Len(b) :
             /\ b[i] = backlog[i + 1] /\ i + 1 \in 1..Len(backlog)
             /\ Head(backlog).from # None => b[i].from # Head(backlog).from
    BY <2>2, HeadFacts
  <2>4. backlog' = b
    BY <2>2
  <2> QED BY <2>1, <2>3, <2>4, Zenon
<1>2. \A i \in 1..Len(backlog') : backlog'[i].from \in Clients \cup {None}
  <2>1. \A i \in 1..Len(backlog') : backlog'[i] \in Request
    BY <1>1
  <2> QED BY <2>1, RequestFacts
<1>3. ASSUME NEW i \in 1..Len(backlog')
      PROVE  /\ WellFormed(backlog'[i])
             /\ backlog'[i].from # None => /\ call'[backlog'[i].from] = backlog'[i]
                                           /\ response'[backlog'[i].from] = None
  BY <1>1, <1>2 DEF BacklogInv
<1>4. ASSUME NEW i \in 1..Len(backlog'), NEW j \in 1..Len(backlog'),
             backlog'[i].from = backlog'[j].from, backlog'[i].from # None
      PROVE  i = j
  <2>1. i + 1 = j + 1
    BY <1>1, <1>4 DEF BacklogInv
  <2> QED BY <1>1, <2>1
<1>5. \A i \in 1..Len(backlog') : WellFormed(backlog'[i]) <=> WellFormed(backlog[i])'
  BY DEF WellFormed
<1> QED BY <1>1, <1>3, <1>4, <1>5 DEF BacklogInv

\* What a fresh response says holds when it arrives.
\* Serving a request keeps the server and makes a response that is true.
LEMMA Responds ==
  ASSUME GatewayTypeOK, ServerInv, NEW q, WellFormed(q), Serve(q), q.op # "create" /\ q.from # None => q.sid \in minted
  PROVE  /\ Kept
         /\ \E r \in Response : Respond(q, r) /\ (q.from # None => Arrived(q, r)')
<1>0. q \in Request
  BY DEF WellFormed
<1>1. ASSUME NEW why \in Reasons, Respond(q, Refused(why))
      PROVE  \E r \in Response : Respond(q, r) /\ (q.from # None => Arrived(q, r)')
  <2>1. PICK r \in Response : r = Refused(why) /\ ~r.ok
    BY ResponseFacts
  <2>2. Arrived(q, r)'
    BY <2>1 DEF Arrived
  <2>3. Respond(q, r)
    BY <1>1, <2>1
  <2> QED BY <2>2, <2>3
<1>2. ASSUME NEW why \in Reasons, Refuse(q, why)
      PROVE  Kept /\ \E r \in Response : Respond(q, r) /\ (q.from # None => Arrived(q, r)')
  BY <1>0, <1>1, <1>2, RefuseKept DEF Refuse
<1>3. ASSUME q.op = "create", NEW s \in Ids \ minted, Creates(q, s)
      PROVE  Kept /\ \E r \in Response : Respond(q, r) /\ (q.from # None => Arrived(q, r)')
  <2>1. q.len \in Lengths /\ q.len # None
    BY <1>3, LengthGiven DEF WellFormed, Resulting
  <2>2. Kept /\ sessions'[s].ciphertexts = <<q.len>>
    BY <1>0, <1>3, <2>1, CreateKept
  <2>3. PICK r \in Response : r = Accepted(s, 1) /\ r.sid = s /\ r.id = 1
    BY ResponseFacts, ConstantFacts
  <2>4. s \in minted' /\ 1 \in CiphertextIds
    BY <1>3, ConstantFacts DEF Creates
  <2>5. LengthIn(q)' = q.len
    BY <1>3, <2>1 DEF LengthIn
  <2>6. Len(<<q.len>>) = 1 /\ <<q.len>>[1] = q.len
    OBVIOUS
  <2>7. Arrived(q, r)'
    BY <1>3, <2>2, <2>3, <2>4, <2>5, <2>6 DEF Arrived, Stored
  <2>8. Respond(q, r)
    BY <1>3, <2>3 DEF Creates
  <2> QED BY <2>2, <2>7, <2>8
<1>4. ASSUME q.op = "delete", Delete(q)
      PROVE  Kept /\ \E r \in Response : Respond(q, r) /\ (q.from # None => Arrived(q, r)')
  <2>1. q.sid \in Ids
    BY <1>4 DEF WellFormed
  <2>2. Kept /\ sessions'[q.sid] = None
    BY <1>0, <1>4, <2>1, DeleteKept
  <2>3. Refused("unknown session") \in Response /\ Accepted(q.sid, None) \in Response
    BY <2>1, ResponseFacts DEF Reasons
  <2>4. PICK r \in Response :
          r = IF sessions[q.sid] = None THEN Refused("unknown session") ELSE Accepted(q.sid, None)
    BY <2>3
  <2>5. Respond(q, r)
    BY <1>4, <2>4 DEF Delete, Respond
  <2>6. Arrived(q, r)'
    BY <1>4, <2>2 DEF Arrived, Resulting, Computations
  <2> QED BY <2>2, <2>5, <2>6
<1>5. ASSUME q.sid \in Ids, NEW why \in Reasons, Renews(q, Refused(why))
      PROVE  Kept /\ \E r \in Response : Respond(q, r) /\ (q.from # None => Arrived(q, r)')
  <2>1. Refused(why) \in Response
    BY ResponseFacts
  <2> QED BY <1>0, <1>1, <1>5, <2>1, RenewsKept DEF Renews
<1>6. ASSUME q.sid \in Ids, q.op = "decrypt", Renews(q, Accepted(q.sid, q.left))
      PROVE  Kept /\ \E r \in Response : Respond(q, r) /\ (q.from # None => Arrived(q, r)')
  <2>1. q.left \in CiphertextIds
    BY <1>6 DEF WellFormed
  <2>2. PICK r \in Response : r = Accepted(q.sid, q.left)
    BY <1>6, <2>1, ResponseFacts
  <2>3. Renews(q, r)
    BY <1>6, <2>2
  <2>4. Arrived(q, r)'
    BY <1>6 DEF Arrived, Resulting, Computations
  <2> QED BY <1>0, <1>6, <2>3, <2>4, RenewsKept DEF Renews
<1>7. ASSUME q.sid \in Ids, q.op \in Computations \cup {"encrypt"}, Stores(q, LengthIn(q)),
             q.op \in {"binary", "square"} => q.left \in 1..Len(Stored(q.sid)),
             LengthIn(q) \in LogicalLengths
      PROVE  Kept /\ \E r \in Response : Respond(q, r) /\ (q.from # None => Arrived(q, r)')
  <2>1. PICK length \in LogicalLengths : length = LengthIn(q)
    BY <1>7
  <2>2. Stores(q, length)
    BY <1>7, <2>1
  <2>3. /\ Kept
        /\ sessions'[q.sid].ciphertexts = Append(Stored(q.sid), length)
        /\ Accepted(q.sid, Len(Stored(q.sid)) + 1) \in Response
        /\ Len(Stored(q.sid)) + 1 \in CiphertextIds
    BY <1>0, <1>7, <2>1, <2>2, StoresKept
  <2>4. PICK n \in CiphertextIds : n = Len(Stored(q.sid)) + 1
    BY <2>3
  <2>5. PICK r \in Response : r = Accepted(q.sid, n) /\ r.sid = q.sid /\ r.id = n
    BY <1>7, <2>3, <2>4, ResponseFacts
  <2>6. Respond(q, r)
    BY <2>2, <2>4, <2>5 DEF Stores, Respond
  <2>7. sessions[q.sid] # None /\ q.sid \in minted
    BY <1>7, <2>2 DEF Stores, Live, ServerInv
  <2>8. Stored(q.sid) \in Seq(LogicalLengths) /\ Len(Stored(q.sid)) \in Nat
    BY <1>7, <2>7, StoredFacts
  <2> DEFINE w == sessions'[q.sid].ciphertexts
  <2>9. /\ Len(w) = n /\ w[n] = length
        /\ \A i \in 1..Len(Stored(q.sid)) : w[i] = Stored(q.sid)[i] /\ i \in 1..Len(w)
    BY <2>3, <2>4, <2>8
  <2>10. Stored(q.sid)' = w
    BY DEF Stored
  <2>11. LengthIn(q)' = length
    <3>1. CASE q.op \in {"binary", "square"}
      BY <1>7, <2>1, <2>9, <2>10, <3>1 DEF LengthIn
    <3>2. CASE q.op \notin {"binary", "square"}
      <4>1. q.op = "sum" \/ q.len # None
        BY <1>7, <3>2, LengthGiven DEF Resulting
      <4> QED BY <2>1, <4>1 DEF LengthIn
    <3> QED BY <3>1, <3>2
  <2>12. q.sid \in minted' /\ q.op # "delete" /\ n <= n
    BY <1>7, <2>2, <2>4, <2>7 DEF Stores, Computations, CiphertextIds
  <2> HIDE DEF w
  <2>13. Arrived(q, r)'
    BY <1>7, <2>5, <2>9, <2>10, <2>11, <2>12 DEF Arrived
  <2> QED BY <2>3, <2>6, <2>13
<1> QED BY <1>2, <1>3, <1>4, <1>5, <1>6, <1>7, ServeCases

LEMMA KeptTypes ==
  ASSUME Kept, backlog' \in Seq(Request)
  PROVE  GatewayTypeOK'
BY DEF Kept, ServerTypes, GatewayTypeOK

LEMMA ServingKeeps ==
  ASSUME IInv, Serving
  PROVE  IInv' /\ Kept
<1>q. PICK q : q = Head(backlog)
  OBVIOUS
<1>0. GatewayTypeOK /\ ServerInv /\ BacklogInv /\ ClientInv /\ backlog # <<>> /\ backlog' = Tail(backlog)
  BY TypesParts DEF IInv, Serving, Handle
<1>1. Serve(q) /\ UNCHANGED clients
  BY <1>q DEF Serving, Handle
<1>2. /\ WellFormed(q) /\ q \in Request
      /\ q.from # None => call[q.from] = q /\ response[q.from] = None
  BY <1>0, <1>q, HeadFacts
<1>3. q # None /\ q.from \in Clients \cup {None}
  BY <1>2, RequestFacts
<1>4. q.op # "create" /\ q.from # None => q.sid \in minted
  BY <1>0, <1>2, <1>3 DEF ClientInv, CallInv
<1>5. Kept /\ \E r \in Response : Respond(q, r) /\ (q.from # None => Arrived(q, r)')
  BY <1>0, <1>1, <1>2, <1>4, Responds
<1>6. PICK r \in Response : Respond(q, r) /\ (q.from # None => Arrived(q, r)')
  BY <1>5
<1>7. \A c \in Clients : response'[c] = IF c = q.from THEN r ELSE response[c]
  BY <1>0, <1>2, <1>6, RespondTyped
<1>8. BacklogInv' /\ backlog' \in Seq(Request)
  BY <1>0, <1>q, <1>1, <1>7, TailBacklog DEF clients
<1>9. \A c \in Clients : response'[c] # None /\ response'[c] # response[c] =>
           call[c] # None /\ Arrived(call[c], response[c])'
  <2> SUFFICES ASSUME NEW c \in Clients, response'[c] # None, response'[c] # response[c]
               PROVE  call[c] # None /\ Arrived(call[c], response[c])'
    OBVIOUS
  <2>1. c = q.from /\ response'[c] = r
    BY <1>7
  <2>2. q.from # None /\ call[c] = q
    BY <1>2, <2>1, ConstantsAssumption
  <2>3. call'[c] = q
    BY <1>1, <2>2 DEF clients
  <2> QED BY <1>3, <1>6, <2>1, <2>2, <2>3
<1>10. ClientInv' /\ HandlesResolve' /\ ClientTypes'
  BY <1>1, <1>5, <1>9, ClientsStay
<1>11. GatewayTypeOK'
  BY <1>5, <1>8, KeptTypes
<1>12. TypeOK'
  BY <1>10, <1>11, TypesParts, PTL
<1> QED BY <1>5, <1>8, <1>10, <1>12 DEF IInv, Kept

-----------------------------------------------------------------------------
(* The clock and the restart.                                              *)

LEMMA EmptyBacklog ==
  ASSUME backlog' = <<>>
  PROVE  BacklogInv' /\ backlog' \in Seq(Request)
<1>1. Len(backlog') = 0 /\ backlog' \in Seq(Request)
  OBVIOUS
<1> QED BY <1>1 DEF BacklogInv

LEMMA TickingKeeps ==
  ASSUME IInv, Ticking
  PROVE  IInv' /\ Kept
<1>0. GatewayTypeOK /\ ServerInv /\ BacklogInv /\ UNCHANGED clients /\ UNCHANGED <<backlog, response>>
  BY TypesParts DEF IInv, Ticking, Tick
<1>1. Kept
  BY <1>0, TickKept DEF Ticking
<1>2. ClientInv' /\ HandlesResolve' /\ ClientTypes'
  BY <1>0, <1>1, ClientsStay
<1>3. BacklogInv' /\ backlog' \in Seq(Request)
  BY <1>0 DEF BacklogInv, clients, GatewayTypeOK, WellFormed
<1>4. TypeOK'
  BY <1>1, <1>2, <1>3, KeptTypes, TypesParts, PTL
<1> QED BY <1>1, <1>2, <1>3, <1>4 DEF IInv, Kept

LEMMA RestartingKeeps ==
  ASSUME IInv, Restarting
  PROVE  IInv' /\ Kept
<1>0. GatewayTypeOK /\ ServerInv /\ BacklogInv /\ UNCHANGED clients
  BY TypesParts DEF IInv, Restarting
<1>1. Kept /\ backlog' = <<>>
  BY <1>0, RestartKept DEF Restarting
<1>2. BacklogInv' /\ backlog' \in Seq(Request)
  BY <1>1, EmptyBacklog
<1>3. \A c \in Clients : response'[c] # None /\ response'[c] # response[c] =>
           call[c] # None /\ Arrived(call[c], response[c])'
  <2> SUFFICES ASSUME NEW c \in Clients, response'[c] # response[c]
               PROVE  call[c] # None /\ Arrived(call[c], response[c])'
    OBVIOUS
  <2>1. (\E i \in 1..Len(backlog) : backlog[i].from = c) /\ response'[c] = Refused("connection")
    BY DEF Restarting, Restart
  <2>2. PICK i \in 1..Len(backlog) : backlog[i].from = c
    BY <2>1
  <2>3. call[c] = backlog[i] /\ backlog[i] \in Request
    BY <1>0, <2>2, ConstantsAssumption DEF BacklogInv, WellFormed
  <2>4. ~response'[c].ok
    <3>1. ~Refused("connection").ok
      BY ResponseFacts DEF Reasons
    <3> QED BY <2>1, <3>1
  <2> QED BY <2>3, <2>4, RequestFacts DEF Arrived
<1>4. ClientInv' /\ HandlesResolve' /\ ClientTypes'
  BY <1>0, <1>1, <1>3, ClientsStay
<1>5. TypeOK'
  BY <1>1, <1>2, <1>4, KeptTypes, TypesParts, PTL
<1> QED BY <1>1, <1>2, <1>4, <1>5 DEF IInv, Kept

-----------------------------------------------------------------------------
(* The clients leave the server alone.                                     *)

LEMMA SameServer ==
  ASSUME IInv, UNCHANGED server, backlog' \in Seq(Request), response' \in [Clients -> Response \cup {None}]
  PROVE  GatewayTypeOK' /\ ServerInv' /\ Kept
<1>1. Kept
  BY SameServerKept, TypesParts DEF IInv, server
<1> QED BY <1>1, KeptTypes DEF Kept

\* What concerns one client, when the server is left alone and the others as well.
LEMMA OneClient ==
  ASSUME IInv, NEW c \in Clients, UNCHANGED server,
         \A d \in Clients \ {c} :
           /\ response'[d] = response[d] /\ call'[d] = call[d]
           /\ session'[d] = session[d] /\ closed'[d] = closed[d],
         handles \subseteq handles',
         call'[c] # None => CallInv(c)',
         response'[c] # None => call'[c] # None /\ Arrived(call[c], response[c])',
         \A h \in handles' : (h \notin handles \/ h.client = c) => HandleInv(h)',
         session'[c] # None => session'[c] \in minted /\ ~closed'[c],
         \A h \in handles' \ handles :
           sessions[h.sid] # None => h.id <= Len(Stored(h.sid)) /\ Stored(h.sid)[h.id] = h.length
  PROVE  ClientInv' /\ HandlesResolve'
<1>0. ClientInv /\ HandlesResolve /\ TypeOK /\ UNCHANGED <<sessions, minted, quiet>>
  BY DEF IInv, server
<1>1. \A d \in Clients : call'[d] # None => CallInv(d)'
  <2> SUFFICES ASSUME NEW d \in Clients \ {c}, call'[d] # None PROVE CallInv(d)'
    OBVIOUS
  <2>1. CallInv(d)
    BY <1>0 DEF ClientInv
  <2> QED BY <1>0, <2>1 DEF CallInv, WellFormed
<1>2. \A d \in Clients : response'[d] # None => call'[d] # None /\ Arrived(call[d], response[d])'
  <2> SUFFICES ASSUME NEW d \in Clients \ {c}, response'[d] # None
               PROVE  call'[d] # None /\ Arrived(call[d], response[d])'
    OBVIOUS
  <2>1. call[d] # None /\ Arrived(call[d], response[d])
    BY <1>0 DEF ClientInv
  <2>2. PICK q, r : q = call[d] /\ r = response[d]
    OBVIOUS
  <2>3. Arrived(q, r)'
    <3>1. \A s : Stored(s)' = Stored(s)
      BY <1>0 DEF Stored
    <3>2. LengthIn(q)' = LengthIn(q)
      BY <1>0 DEF LengthIn, Stored
    <3> QED BY <1>0, <2>1, <2>2, <3>1, <3>2, Zenon DEF Arrived
  <2> QED BY <2>1, <2>2, <2>3
<1>3. \A h \in handles' : HandleInv(h)'
  <2> SUFFICES ASSUME NEW h \in handles, h.client # c PROVE HandleInv(h)'
    OBVIOUS
  <2>1. HandleInv(h) /\ h.client \in Clients
    BY <1>0 DEF ClientInv, TypeOK, RemoteCiphertext
  <2> QED BY <1>0, <2>1 DEF HandleInv
<1>4. \A d \in Clients : session'[d] # None => session'[d] \in minted' /\ ~closed'[d]
  BY <1>0 DEF ClientInv
<1>5. HandlesResolve'
  BY <1>0 DEF HandlesResolve, Stored
<1> QED BY <1>1, <1>2, <1>3, <1>4, <1>5 DEF ClientInv

\* A client that has no call has nothing in the backlog, and no response.
LEMMA Idle ==
  ASSUME IInv, NEW c \in Clients, call[c] = None
  PROVE  response[c] = None /\ \A i \in 1..Len(backlog) : backlog[i].from # c
<1>1. response[c] = None
  BY DEF IInv, ClientInv
<1>2. ASSUME NEW i \in 1..Len(backlog), backlog[i].from = c
      PROVE  FALSE
  <2>1. call[c] = backlog[i] /\ backlog[i] \in Request
    BY <1>2, ConstantsAssumption DEF IInv, BacklogInv, WellFormed
  <2> QED BY <2>1, RequestFacts
<1> QED BY <1>1, <1>2

\* A request that is sent is well-formed and from a client that did not wait.
LEMMA SendKeeps ==
  ASSUME IInv, NEW c \in Clients, NEW op, NEW sid, NEW left, NEW right, NEW len,
         Send(c, op, sid, left, right, len),
         WellFormed([from |-> c, op |-> op, sid |-> sid, left |-> left, right |-> right, len |-> len]),
         ~closed[c],
         op = "create" => session[c] = None,
         op # "create" => sid = session[c] /\ sid # None,
         op \in Computations => \E h \in handles : h.client = c /\ h.sid = sid /\ h.id = left
  PROVE  IInv' /\ Kept
<1>0. GatewayTypeOK /\ ClientTypes /\ BacklogInv /\ ClientInv
  BY TypesParts DEF IInv
<1>q. PICK q : q = [from |-> c, op |-> op, sid |-> sid, left |-> left, right |-> right, len |-> len]
  OBVIOUS
<1>1. /\ call[c] = None /\ backlog' = Append(backlog, q) /\ call' = [call EXCEPT ![c] = q]
      /\ UNCHANGED <<server, response, session, closed, handles>>
  BY <1>q DEF Send
<1>2. /\ q.from = c /\ q.op = op /\ q.sid = sid /\ q.left = left /\ WellFormed(q) /\ q \in Request
  BY <1>q DEF WellFormed
<1>3. q # None /\ c # None
  BY <1>2, RequestFacts, ConstantsAssumption
<1>4. response[c] = None /\ \A i \in 1..Len(backlog) : backlog[i].from # c
  BY <1>1, Idle
<1>5. /\ backlog' \in Seq(Request) /\ Len(backlog') = Len(backlog) + 1 /\ Len(backlog) \in Nat
      /\ backlog'[Len(backlog) + 1] = q
      /\ \A i \in 1..Len(backlog) : backlog'[i] = backlog[i]
  BY <1>0, <1>1, <1>2 DEF GatewayTypeOK
<1>6. call'[c] = q /\ \A d \in Clients \ {c} : call'[d] = call[d]
  BY <1>0, <1>1 DEF ClientTypes
<1>7. \A i \in 1..Len(backlog') : i \in 1..Len(backlog) \/ i = Len(backlog) + 1
  BY <1>5
<1>8. BacklogInv'
  <2>1. ASSUME NEW i \in 1..Len(backlog')
        PROVE  /\ WellFormed(backlog'[i])
               /\ backlog'[i].from # None => /\ call'[backlog'[i].from] = backlog'[i]
                                             /\ response'[backlog'[i].from] = None
    <3>1. CASE i \in 1..Len(backlog)
      <4>1. backlog'[i] = backlog[i] /\ backlog[i] \in Request /\ backlog[i].from # c /\ WellFormed(backlog[i])
        BY <1>0, <1>4, <1>5, <3>1 DEF BacklogInv, WellFormed
      <4>2. backlog[i].from \in Clients \cup {None}
        BY <4>1, RequestFacts
      <4> QED BY <1>0, <1>1, <1>6, <3>1, <4>1, <4>2 DEF BacklogInv
    <3>2. CASE i = Len(backlog) + 1
      BY <1>1, <1>2, <1>4, <1>5, <1>6, <3>2
    <3> QED BY <1>7, <3>1, <3>2
  <2>2. ASSUME NEW i \in 1..Len(backlog'), NEW j \in 1..Len(backlog'),
               backlog'[i].from = backlog'[j].from, backlog'[i].from # None
        PROVE  i = j
    BY <1>0, <1>2, <1>4, <1>5, <1>7, <2>2 DEF BacklogInv
  <2>3. \A i \in 1..Len(backlog') : WellFormed(backlog'[i]) <=> WellFormed(backlog[i])'
    BY DEF WellFormed
  <2> QED BY <2>1, <2>2, <2>3 DEF BacklogInv
<1>9. ClientTypes'
  BY <1>0, <1>1, <1>2 DEF ClientTypes
<1>10. GatewayTypeOK' /\ ServerInv' /\ Kept
  BY <1>0, <1>1, <1>5, SameServer DEF GatewayTypeOK
<1>11. CallInv(c)'
  <2>1. op # "create" => sid \in minted
    BY <1>0 DEF ClientInv
  <2>2. WellFormed(q) <=> WellFormed(call[c])'
    BY <1>6 DEF WellFormed
  <2> QED BY <1>1, <1>2, <1>6, <2>1, <2>2 DEF CallInv, server
<1>12. ClientInv' /\ HandlesResolve'
  <2>1. \A h \in handles' : HandleInv(h)'
    BY <1>0, <1>1 DEF ClientInv, HandleInv, server
  <2>2. session'[c] # None => session'[c] \in minted /\ ~closed'[c]
    BY <1>0, <1>1 DEF ClientInv
  <2> QED BY <1>1, <1>4, <1>6, <1>11, <2>1, <2>2, OneClient
<1>13. TypeOK'
  BY <1>9, <1>10, TypesParts, PTL
<1> QED BY <1>8, <1>10, <1>12, <1>13 DEF IInv

-----------------------------------------------------------------------------
(* Calls.                                                                  *)

LEMMA HandleFacts ==
  ASSUME IInv, NEW c \in Clients, NEW h \in handles, Owned(c, h)
  PROVE  /\ ~closed[c] /\ h.client = c /\ h.sid = session[c] /\ h.sid \in Ids
         /\ h.id \in CiphertextIds /\ h.length \in LogicalLengths
BY DEF IInv, TypeOK, RemoteCiphertext, Owned

LEMMA SentFields ==
  ASSUME NEW c \in Clients, NEW op \in Operations, NEW sid \in Ids \cup {None},
         NEW left \in CiphertextIds \cup {None}, NEW right \in CiphertextIds \cup {None},
         NEW len \in Lengths \cup {1, None},
         op = "create" => len \in Lengths, op # "create" => sid \in Ids, op = "encrypt" => len \in Lengths,
         op = "public" => len \in LogicalLengths,
         op \in Computations \cup {"decrypt"} => left \in CiphertextIds,
         op \in {"binary", "square", "sum"} => len = None
  PROVE  WellFormed([from |-> c, op |-> op, sid |-> sid, left |-> left, right |-> right, len |-> len])
BY DEF WellFormed, Request

LEMMA CallKeeps ==
  ASSUME IInv, NEW c \in Clients,
         \/ \E len \in Lengths : CallEncrypt(c, len)
         \/ \E h \in handles : CallEvaluate(c, h) \/ CallDecrypt(c, h)
  PROVE  IInv' /\ Kept
<1>0. /\ session[c] \in Ids \cup {None} /\ None \notin Ids
      /\ {"create", "encrypt", "binary", "public", "square", "sum", "decrypt"} \subseteq Operations
  BY ConstantsAssumption DEF IInv, TypeOK, Operations
<1>1. ASSUME NEW len \in Lengths, CallEncrypt(c, len)
      PROVE  IInv' /\ Kept
  <2>1. CASE session[c] = None
    <3>1. ~closed[c] /\ Send(c, "create", None, None, None, len)
      BY <1>1, <2>1 DEF CallEncrypt
    <3>2. WellFormed([from |-> c, op |-> "create", sid |-> None, left |-> None, right |-> None, len |-> len])
      BY <1>0, SentFields DEF Computations
    <3> QED BY <2>1, <3>1, <3>2, SendKeeps DEF Computations
  <2>2. CASE session[c] # None
    <3>1. ~closed[c] /\ Send(c, "encrypt", session[c], None, None, len)
      BY <1>1, <2>2 DEF CallEncrypt
    <3>2. WellFormed([from |-> c, op |-> "encrypt", sid |-> session[c], left |-> None, right |-> None, len |-> len])
      BY <1>0, <2>2, SentFields DEF Computations
    <3> QED BY <2>2, <3>1, <3>2, SendKeeps DEF Computations
  <2> QED BY <2>1, <2>2
<1>2. ASSUME NEW h \in handles, Owned(c, h), NEW op \in Computations \cup {"decrypt"},
             NEW right \in CiphertextIds \cup {None}, NEW len \in Lengths \cup {1, None},
             op = "public" => len = h.length, op \in {"binary", "square", "sum"} => len = None,
             Send(c, op, session[c], h.id, right, len)
      PROVE  IInv' /\ Kept
  <2>1. /\ ~closed[c] /\ h.client = c /\ h.sid = session[c] /\ session[c] \in Ids
        /\ h.id \in CiphertextIds /\ h.length \in LogicalLengths /\ session[c] # None
    BY <1>0, <1>2, HandleFacts
  <2>2. op \in Operations /\ op # "create" /\ op # "encrypt"
    BY <1>0, <1>2 DEF Computations
  <2>3. WellFormed([from |-> c, op |-> op, sid |-> session[c], left |-> h.id, right |-> right, len |-> len])
    BY <1>2, <2>1, <2>2, SentFields
  <2> QED BY <1>2, <2>1, <2>2, <2>3, SendKeeps
<1>3. ASSUME NEW h \in handles, CallEvaluate(c, h)
      PROVE  IInv' /\ Kept
  <2>1. Owned(c, h) /\ h.length \in Lengths \cup {1, None}
    BY <1>3, HandleFacts DEF CallEvaluate, LogicalLengths
  <2>2. ASSUME NEW g \in handles, Owned(c, g), Send(c, "binary", session[c], h.id, g.id, None)
        PROVE  IInv' /\ Kept
    <3>1. g.id \in CiphertextIds
      BY <2>2, HandleFacts
    <3> QED BY <1>2, <2>1, <2>2, <3>1 DEF Computations
  <2>3. CASE Send(c, "public", session[c], h.id, None, h.length)
    BY <1>2, <2>1, <2>3 DEF Computations
  <2>4. CASE Send(c, "square", session[c], h.id, None, None) \/ Send(c, "sum", session[c], h.id, None, None)
    BY <1>2, <2>1, <2>4 DEF Computations
  <2> QED BY <1>3, <2>2, <2>3, <2>4 DEF CallEvaluate
<1>4. ASSUME NEW h \in handles, CallDecrypt(c, h)
      PROVE  IInv' /\ Kept
  BY <1>2, <1>4 DEF CallDecrypt
<1> QED BY <1>1, <1>3, <1>4

LEMMA CloseKeeps ==
  ASSUME IInv, NEW c \in Clients, Close(c)
  PROVE  IInv' /\ Kept
<1>0. /\ GatewayTypeOK /\ ClientTypes /\ BacklogInv /\ ClientInv /\ ~closed[c] /\ call[c] = None
      /\ session[c] \in Ids \cup {None} /\ None \notin Ids
  BY TypesParts, ConstantsAssumption DEF IInv, Close, ClientTypes
<1>1. CASE session[c] # None
  <2>1. Send(c, "delete", session[c], None, None, None)
    BY <1>1 DEF Close
  <2>2. WellFormed([from |-> c, op |-> "delete", sid |-> session[c], left |-> None, right |-> None, len |-> None])
    BY <1>0, <1>1, SentFields DEF Computations, Operations
  <2> QED BY <1>0, <1>1, <2>1, <2>2, SendKeeps DEF Computations
<1>2. CASE session[c] = None
  <2>1. /\ closed' = [closed EXCEPT ![c] = TRUE]
        /\ UNCHANGED <<server, backlog, response, session, handles, call>>
    BY <1>2 DEF Close
  <2>2. closed' \in [Clients -> BOOLEAN] /\ \A d \in Clients \ {c} : closed'[d] = closed[d]
    BY <1>0, <2>1 DEF ClientTypes
  <2>3. GatewayTypeOK' /\ ServerInv' /\ Kept
    BY <1>0, <2>1, SameServer DEF GatewayTypeOK
  <2>4. \A h \in handles : h.client # c
    <3> SUFFICES ASSUME NEW h \in handles, h.client = c PROVE FALSE
      OBVIOUS
    <3>1. HandleInv(h) /\ h.sid \in Ids
      BY <1>0 DEF ClientInv, ClientTypes, RemoteCiphertext
    <3> QED BY <1>0, <1>2, <3>1 DEF HandleInv
  <2>5. response[c] = None
    BY <1>0, Idle
  <2>6. ClientInv' /\ HandlesResolve'
    BY <1>0, <1>2, <2>1, <2>2, <2>4, <2>5, OneClient
  <2>7. BacklogInv' /\ ClientTypes'
    BY <1>0, <2>1, <2>2 DEF BacklogInv, ClientTypes, WellFormed
  <2>8. TypeOK'
    BY <2>3, <2>7, TypesParts, PTL
  <2> QED BY <2>3, <2>6, <2>7, <2>8 DEF IInv
<1> QED BY <1>1, <1>2

-----------------------------------------------------------------------------
(* Answers.                                                                *)

\* While the call of one client ends, the backlog has nothing of it.
LEMMA NotWaiting ==
  ASSUME IInv, NEW c \in Clients, response[c] # None
  PROVE  /\ call[c] # None /\ CallInv(c) /\ Arrived(call[c], response[c])
         /\ response[c] \in Response
         /\ \A i \in 1..Len(backlog) : backlog[i].from # c
<1>1. call[c] # None /\ CallInv(c) /\ Arrived(call[c], response[c]) /\ response[c] \in Response
  BY DEF IInv, ClientInv, TypeOK, GatewayTypeOK
<1>2. \A i \in 1..Len(backlog) : backlog[i].from # c
  BY ConstantsAssumption DEF IInv, BacklogInv
<1> QED BY <1>1, <1>2

LEMMA ReturnedFacts ==
  ASSUME IInv, NEW c \in Clients, Returned(c)
  PROVE  /\ response' \in [Clients -> Response \cup {None}] /\ call' \in [Clients -> Request \cup {None}]
         /\ response'[c] = None /\ call'[c] = None
         /\ \A d \in Clients \ {c} : response'[d] = response[d] /\ call'[d] = call[d]
BY DEF Returned, IInv, TypeOK, GatewayTypeOK

LEMMA BacklogWithout ==
  ASSUME IInv, NEW c \in Clients, \A i \in 1..Len(backlog) : backlog[i].from # c, UNCHANGED backlog,
         \A d \in Clients \ {c} : response'[d] = response[d] /\ call'[d] = call[d]
  PROVE  BacklogInv' /\ backlog' \in Seq(Request)
<1>1. \A i \in 1..Len(backlog) : backlog[i].from \in Clients \cup {None}
  BY RequestFacts DEF IInv, BacklogInv, WellFormed
<1> QED BY <1>1 DEF IInv, BacklogInv, WellFormed, TypeOK, GatewayTypeOK

\* The length of a handle is that of the ciphertext.
LEMMA LengthsAgree ==
  ASSUME IInv, NEW c \in Clients, call[c] # None, CallInv(c), call[c].op \in Resulting
  PROVE  /\ HandleLength(call[c]) \in LogicalLengths
         /\ call[c].op = "create" \/ sessions[call[c].sid] # None => HandleLength(call[c]) = LengthIn(call[c])
<1>q. PICK q : q = call[c]
  OBVIOUS
<1>1. WellFormed(q) /\ q.from = c /\ q.op \in Resulting /\ q \in Request
  BY <1>q DEF CallInv, WellFormed
<1>2. CASE q.op = "sum"
  BY <1>q, <1>2, ConstantFacts DEF HandleLength, LengthIn
<1>3. CASE q.op # "sum" /\ q.len # None
  <2>1. q.len \in LogicalLengths
    BY <1>1, <1>3, RequestFacts
  <2> QED BY <1>q, <1>3, <2>1 DEF HandleLength, LengthIn
<1>4. CASE q.op # "sum" /\ q.len = None
  <2>1. q.op \in {"binary", "square"}
    BY <1>1, <1>4, LengthGiven
  <2>2. \E h \in handles : h.client = c /\ h.sid = q.sid /\ h.id = q.left
    BY <1>q, <2>1 DEF CallInv, Computations
  <2> DEFINE g == CHOOSE h \in handles : h.client = q.from /\ h.sid = q.sid /\ h.id = q.left
  <2>3. g \in handles /\ g.client = q.from /\ g.sid = q.sid /\ g.id = q.left
    BY <1>1, <2>2
  <2>4. HandleLength(q) = g.length
    BY <1>4 DEF HandleLength
  <2> HIDE DEF g
  <2>5. g.length \in LogicalLengths
    BY <2>3 DEF IInv, TypeOK, RemoteCiphertext
  <2>6. sessions[q.sid] # None => g.length = Stored(q.sid)[q.left]
    BY <2>3 DEF IInv, HandlesResolve, Stored
  <2>7. LengthIn(q) = Stored(q.sid)[q.left]
    BY <1>4 DEF LengthIn
  <2> QED BY <1>q, <2>1, <2>4, <2>5, <2>6, <2>7
<1> QED BY <1>2, <1>3, <1>4

\* A client gets a handle.
LEMMA NewHandleKeeps ==
  ASSUME IInv, NEW c \in Clients, response[c] # None, response[c].ok, call[c].op \in Resulting,
         NewHandle(c), Returned(c), UNCHANGED <<server, backlog, closed>>,
         call[c].op = "create" => session' = [session EXCEPT ![c] = response[c].sid],
         call[c].op # "create" => session' = session
  PROVE  IInv' /\ Kept
<1>0. GatewayTypeOK /\ ClientTypes /\ BacklogInv /\ ClientInv /\ UNCHANGED <<sessions, minted, quiet>>
  BY TypesParts DEF IInv, server
<1>q. PICK q, r : q = call[c] /\ r = response[c]
  OBVIOUS
<1>1. /\ call[c] # None /\ CallInv(c) /\ Arrived(q, r) /\ r \in Response
      /\ \A i \in 1..Len(backlog) : backlog[i].from # c
  BY <1>q, NotWaiting
<1>2. /\ r.sid \in minted /\ r.id \in CiphertextIds
      /\ q.op # "create" => r.sid = q.sid
      /\ sessions[r.sid] # None => r.id <= Len(Stored(r.sid)) /\ Stored(r.sid)[r.id] = LengthIn(q)
  BY <1>q, <1>1 DEF Arrived
<1>3. r.sid \in Ids /\ r.sid # None
  BY <1>0, <1>2, ConstantsAssumption DEF GatewayTypeOK
<1> DEFINE len == HandleLength(q)
           h == [client |-> c, sid |-> r.sid, id |-> r.id, length |-> len]
<1>4. len \in LogicalLengths /\ (q.op = "create" \/ sessions[r.sid] # None => len = LengthIn(q))
  BY <1>q, <1>1, <1>2, LengthsAgree
<1>5. handles' = handles \cup {h}
  BY <1>q DEF NewHandle
<1>h. PICK x : x = h
  OBVIOUS
<1> HIDE DEF len
<1>6. /\ x \in RemoteCiphertext /\ x.client = c /\ x.sid = r.sid /\ x.id = r.id /\ x.length = len
  BY <1>h, <1>2, <1>3, <1>4 DEF RemoteCiphertext
<1> HIDE DEF h
<1>7. /\ session' \in [Clients -> Ids \cup {None}] /\ session'[c] = r.sid
      /\ \A d \in Clients \ {c} : session'[d] = session[d]
  BY <1>0, <1>q, <1>1, <1>2, <1>3 DEF CallInv, ClientTypes
<1>8. /\ response' \in [Clients -> Response \cup {None}] /\ call' \in [Clients -> Request \cup {None}]
      /\ response'[c] = None /\ call'[c] = None
      /\ \A d \in Clients \ {c} : response'[d] = response[d] /\ call'[d] = call[d]
  BY ReturnedFacts
<1>9. ~closed[c] /\ (q.op = "create" => session[c] = None) /\ (q.op # "create" => r.sid = session[c])
  BY <1>q, <1>1, <1>2 DEF CallInv
<1>10. \A g \in handles' : (g \notin handles \/ g.client = c) => HandleInv(g)'
  <2>1. HandleInv(x)'
    BY <1>0, <1>2, <1>6, <1>7 DEF HandleInv
  <2>2. ASSUME NEW g \in handles, g.client = c
        PROVE  HandleInv(g)'
    <3>1. HandleInv(g) /\ g.sid \in Ids /\ g.sid # None
      BY <1>0, ConstantsAssumption DEF ClientInv, ClientTypes, RemoteCiphertext
    <3>2. g.sid = session[c]
      BY <1>9, <2>2, <3>1 DEF HandleInv
    <3> QED BY <1>0, <1>7, <1>9, <2>2, <3>1, <3>2 DEF HandleInv
  <2> QED BY <1>5, <1>h, <2>1, <2>2
<1>11. \A g \in handles' \ handles :
         sessions[g.sid] # None => g.id <= Len(Stored(g.sid)) /\ Stored(g.sid)[g.id] = g.length
  BY <1>2, <1>4, <1>5, <1>6, <1>h
<1>12. session'[c] # None => session'[c] \in minted /\ ~closed'[c]
  BY <1>2, <1>7, <1>9
<1>13. ClientInv' /\ HandlesResolve'
  BY <1>5, <1>7, <1>8, <1>10, <1>11, <1>12, OneClient
<1>14. BacklogInv' /\ backlog' \in Seq(Request)
  BY <1>1, <1>8, BacklogWithout
<1>15. GatewayTypeOK' /\ ServerInv' /\ Kept
  BY <1>8, <1>14, SameServer
<1>16. ClientTypes'
  BY <1>0, <1>5, <1>6, <1>7, <1>8, <1>h DEF ClientTypes
<1>17. TypeOK'
  BY <1>15, <1>16, TypesParts, PTL
<1> QED BY <1>13, <1>14, <1>15, <1>17 DEF IInv

\* The call of a client ends, and it gets nothing of it.
LEMMA EndedKeeps ==
  ASSUME IInv, NEW c \in Clients, Returned(c), UNCHANGED <<server, handles>>,
         BacklogInv', backlog' \in Seq(Request),
         \/ UNCHANGED <<session, closed>>
         \/ /\ closed' = [closed EXCEPT ![c] = TRUE] /\ session' = [session EXCEPT ![c] = None]
            /\ session[c] # None => sessions[session[c]] = None
  PROVE  IInv' /\ Kept
<1>0. GatewayTypeOK /\ ClientTypes /\ ClientInv /\ UNCHANGED <<sessions, minted, quiet>>
  BY TypesParts DEF IInv, server
<1>1. /\ response' \in [Clients -> Response \cup {None}] /\ call' \in [Clients -> Request \cup {None}]
      /\ response'[c] = None /\ call'[c] = None
      /\ \A d \in Clients \ {c} : response'[d] = response[d] /\ call'[d] = call[d]
  BY ReturnedFacts
<1>2. ClientTypes' /\ \A d \in Clients \ {c} : session'[d] = session[d] /\ closed'[d] = closed[d]
  BY <1>0, <1>1 DEF ClientTypes
<1>3. \A h \in handles : h.client = c => HandleInv(h)'
  <2> SUFFICES ASSUME NEW h \in handles, h.client = c PROVE HandleInv(h)'
    OBVIOUS
  <2>1. HandleInv(h) /\ h.sid \in Ids /\ h.sid # None
    BY <1>0, ConstantsAssumption DEF ClientInv, ClientTypes, RemoteCiphertext
  <2>2. CASE UNCHANGED <<session, closed>>
    BY <1>0, <2>1, <2>2 DEF HandleInv
  <2>3. CASE /\ closed' = [closed EXCEPT ![c] = TRUE] /\ session' = [session EXCEPT ![c] = None]
             /\ session[c] # None => sessions[session[c]] = None
    <3>1. closed'[c] /\ sessions[h.sid] = None
      BY <1>0, <2>1, <2>3 DEF HandleInv, ClientTypes
    <3> QED BY <1>0, <2>1, <3>1 DEF HandleInv
  <2> QED BY <2>2, <2>3
<1>4. session'[c] # None => session'[c] \in minted /\ ~closed'[c]
  BY <1>0 DEF ClientInv, ClientTypes
<1>5. ClientInv' /\ HandlesResolve'
  BY <1>1, <1>2, <1>3, <1>4, OneClient
<1>6. GatewayTypeOK' /\ ServerInv' /\ Kept
  BY <1>1, SameServer
<1>7. TypeOK'
  BY <1>2, <1>6, TypesParts, PTL
<1> QED BY <1>5, <1>6, <1>7 DEF IInv

LEMMA ReceiveKeeps ==
  ASSUME IInv, NEW c \in Clients, Receive(c)
  PROVE  IInv' /\ Kept
<1>0. response[c] # None /\ Returned(c) /\ UNCHANGED <<server, backlog>>
  BY DEF Receive, ReceiveError, ReceiveCreated, ReceiveCiphertext, ReceiveValues, ReceiveDeleted
<1>1. BacklogInv' /\ backlog' \in Seq(Request)
  BY <1>0, NotWaiting, ReturnedFacts, BacklogWithout
<1>2. CASE ReceiveError(c) \/ ReceiveValues(c)
  BY <1>0, <1>1, <1>2, EndedKeeps DEF ReceiveError, ReceiveValues
<1>3. CASE ReceiveCreated(c) \/ ReceiveCiphertext(c)
  BY <1>0, <1>3, NewHandleKeeps DEF ReceiveCreated, ReceiveCiphertext, Resulting, Computations
<1>4. CASE ReceiveDeleted(c)
  <2>1. /\ response[c].ok /\ call[c].op = "delete" /\ UNCHANGED handles
        /\ closed' = [closed EXCEPT ![c] = TRUE] /\ session' = [session EXCEPT ![c] = None]
    BY <1>4 DEF ReceiveDeleted
  <2>2. CallInv(c) /\ Arrived(call[c], response[c])
    BY <1>0, NotWaiting
  <2>3. sessions[session[c]] = None
    BY <2>1, <2>2 DEF CallInv, Arrived
  <2> QED BY <1>0, <1>1, <2>1, <2>3, EndedKeeps
<1> QED BY <1>2, <1>3, <1>4 DEF Receive

-----------------------------------------------------------------------------
(* Requests that are lost or given up.                                     *)

\* The two parts of a sequence around its letter m + 1.
LEMMA PartsOf ==
  ASSUME NEW S, NEW s \in Seq(S), NEW m \in Nat, NEW n \in Nat, Len(s) = m + 1 + n
  PROVE  /\ SubSeq(s, 1, m) \in Seq(S) /\ Len(SubSeq(s, 1, m)) = m
         /\ \A k \in 1..m : SubSeq(s, 1, m)[k] = s[k]
         /\ SubSeq(s, m + 2, m + 1 + n) \in Seq(S) /\ Len(SubSeq(s, m + 2, m + 1 + n)) = n
         /\ \A k \in 1..n : SubSeq(s, m + 2, m + 1 + n)[k] = s[m + 1 + k]
<1>1. \A k \in 1..(m + 1 + n) : s[k] \in S
  OBVIOUS
<1>2. /\ SubSeq(s, 1, m) \in Seq(S) /\ Len(SubSeq(s, 1, m)) = IF 1 <= m THEN m - 1 + 1 ELSE 0
      /\ \A k \in 1..(m - 1 + 1) : SubSeq(s, 1, m)[k] = s[1 + k - 1]
  <2>1. \A k \in 1..m : s[k] \in S
    BY <1>1
  <2>2. 1 \in Int /\ m \in Int
    OBVIOUS
  <2> QED BY <2>1, <2>2, SubSeqProperties
<1>3. /\ SubSeq(s, m + 2, m + 1 + n) \in Seq(S)
      /\ Len(SubSeq(s, m + 2, m + 1 + n)) = IF m + 2 <= m + 1 + n THEN m + 1 + n - (m + 2) + 1 ELSE 0
      /\ \A k \in 1..(m + 1 + n - (m + 2) + 1) : SubSeq(s, m + 2, m + 1 + n)[k] = s[m + 2 + k - 1]
  <2>1. \A k \in (m + 2)..(m + 1 + n) : s[k] \in S
    BY <1>1
  <2>2. m + 2 \in Int /\ m + 1 + n \in Int
    OBVIOUS
  <2> QED BY <2>1, <2>2, SubSeqProperties
<1>4. /\ m - 1 + 1 = m /\ m + 1 + n - (m + 2) + 1 = n
      /\ (IF 1 <= m THEN m ELSE 0) = m /\ (IF m + 2 <= m + 1 + n THEN n ELSE 0) = n
      /\ \A k \in 1..m : 1 + k - 1 = k
      /\ \A k \in 1..n : m + 2 + k - 1 = m + 1 + k
  OBVIOUS
<1> QED BY <1>2, <1>3, <1>4, Zenon

\* b is s without its letter i.
Without(s, i, b) ==
  /\ b = SubSeq(s, 1, i - 1) \o SubSeq(s, i + 1, Len(s)) /\ Len(b) = Len(s) - 1
  /\ \A k \in 1..Len(b) : \E m \in 1..Len(s) :
       m # i /\ b[k] = s[m] /\ m = IF k < i THEN k ELSE k + 1

LEMMA Removal ==
  ASSUME NEW S, NEW s \in Seq(S), NEW i \in 1..Len(s)
  PROVE  \E b \in Seq(S) : Without(s, i, b)
<1>1. PICK m \in Nat, n \in Nat : i = m + 1 /\ Len(s) = m + 1 + n
  <2>1. i - 1 \in Nat /\ Len(s) - i \in Nat /\ i = (i - 1) + 1 /\ Len(s) = (i - 1) + 1 + (Len(s) - i)
    OBVIOUS
  <2> QED BY <2>1
<1>2. PICK u, v : u = SubSeq(s, 1, m) /\ v = SubSeq(s, m + 2, m + 1 + n)
  OBVIOUS
<1>3. /\ u \in Seq(S) /\ Len(u) = m /\ \A k \in 1..m : u[k] = s[k]
      /\ v \in Seq(S) /\ Len(v) = n /\ \A k \in 1..n : v[k] = s[m + 1 + k]
  <2>1. /\ SubSeq(s, 1, m) \in Seq(S) /\ Len(SubSeq(s, 1, m)) = m
        /\ \A k \in 1..m : SubSeq(s, 1, m)[k] = s[k]
        /\ SubSeq(s, m + 2, m + 1 + n) \in Seq(S) /\ Len(SubSeq(s, m + 2, m + 1 + n)) = n
        /\ \A k \in 1..n : SubSeq(s, m + 2, m + 1 + n)[k] = s[m + 1 + k]
    BY <1>1, PartsOf, SMTT(30)
  <2> QED BY <1>2, <2>1, Zenon
<1>4. PICK b \in Seq(S) : b = u \o v
  BY <1>3, ConcatProperties, Zenon
<1>5. Len(b) = m + n /\ \A k \in 1..(m + n) : b[k] = IF k <= m THEN u[k] ELSE v[k - m]
  <2>1. /\ Len(u \o v) = Len(u) + Len(v)
        /\ \A k \in 1..(Len(u) + Len(v)) : (u \o v)[k] = IF k <= Len(u) THEN u[k] ELSE v[k - Len(u)]
    BY <1>3, ConcatProperties
  <2> QED BY <1>3, <1>4, <2>1, Zenon
<1>6. ASSUME NEW k \in 1..(m + n)
      PROVE  \E j \in 1..(m + 1 + n) :
                j # m + 1 /\ b[k] = s[j] /\ j = IF k < m + 1 THEN k ELSE k + 1
  <2>1. CASE k <= m
    <3>1. k \in 1..m /\ k \in 1..(m + 1 + n) /\ k # m + 1 /\ k < m + 1
      BY <2>1
    <3>2. b[k] = s[k]
      BY <1>3, <1>5, <2>1, <3>1, Zenon
    <3> QED BY <3>1, <3>2
  <2>2. CASE ~(k <= m)
    <3>1. /\ k - m \in 1..n /\ m + 1 + (k - m) = k + 1 /\ k + 1 \in 1..(m + 1 + n)
          /\ k + 1 # m + 1 /\ ~(k < m + 1)
      BY <2>2
    <3>2. b[k] = s[k + 1]
      <4>1. b[k] = v[k - m]
        BY <1>5, <2>2, Zenon
      <4>2. v[k - m] = s[m + 1 + (k - m)]
        BY <1>3, <3>1, Zenon
      <4> QED BY <3>1, <4>1, <4>2, Zenon
    <3> QED BY <3>1, <3>2
  <2> QED BY <2>1, <2>2
<1>7. i - 1 = m /\ i + 1 = m + 2 /\ Len(s) - 1 = m + n
  BY <1>1
<1>8. b = SubSeq(s, 1, i - 1) \o SubSeq(s, i + 1, Len(s))
  BY <1>1, <1>2, <1>4, <1>7, Zenon
<1>9. Len(b) = Len(s) - 1 /\ \A k \in 1..Len(b) : \E j \in 1..Len(s) :
        j # i /\ b[k] = s[j] /\ j = IF k < i THEN k ELSE k + 1
  BY <1>1, <1>5, <1>6, <1>7
<1> QED BY <1>8, <1>9, Zenon DEF Without

\* A connection is reset: one request disappears from the backlog.
LEMMA LostKeeps ==
  ASSUME IInv, NEW c \in Clients, ConnectionLost(c)
  PROVE  IInv' /\ Kept
<1>1. PICK i \in 1..Len(backlog) :
        /\ backlog[i].from = c
        /\ backlog' = SubSeq(backlog, 1, i - 1) \o SubSeq(backlog, i + 1, Len(backlog))
        /\ call' = [call EXCEPT ![c] = None]
        /\ UNCHANGED <<server, response, session, closed, handles>>
  BY DEF ConnectionLost
<1>2. GatewayTypeOK /\ BacklogInv /\ backlog \in Seq(Request) /\ Len(backlog) \in Nat /\ c # None
  BY TypesParts, ConstantsAssumption DEF IInv, GatewayTypeOK
<1>3. response[c] = None
  BY <1>1, <1>2 DEF BacklogInv
<1>4. Returned(c)
  <2>1. response' = [response EXCEPT ![c] = None]
    BY <1>1, <1>2, <1>3 DEF GatewayTypeOK
  <2> QED BY <1>1, <2>1 DEF Returned
<1>5. PICK b \in Seq(Request) : Without(backlog, i, b)
  BY <1>2, Removal
<1>7. backlog' = b
  BY <1>1, <1>5, Zenon DEF Without
<1>8. \A k \in 1..Len(b) : k \in Int /\ i \in Int
  BY <1>2
<1>9. ASSUME NEW k \in 1..Len(b)
      PROVE  \E m \in 1..Len(backlog) : m # i /\ b[k] = backlog[m] /\ m = IF k < i THEN k ELSE k + 1
  BY <1>5, Zenon DEF Without
<1>10. /\ response'[c] = None /\ call'[c] = None
       /\ \A d \in Clients \ {c} : response'[d] = response[d] /\ call'[d] = call[d]
  BY <1>4, ReturnedFacts
<1>11. ASSUME NEW k \in 1..Len(b)
       PROVE  /\ WellFormed(b[k])
              /\ b[k].from # None => /\ call'[b[k].from] = b[k] /\ response'[b[k].from] = None
  <2>1. PICK m \in 1..Len(backlog) : m # i /\ b[k] = backlog[m]
    BY <1>9
  <2>2. /\ WellFormed(backlog[m])
        /\ backlog[m].from # None => /\ call[backlog[m].from] = backlog[m]
                                     /\ response[backlog[m].from] = None
    BY <1>2 DEF BacklogInv
  <2>3. backlog[m].from \in Clients \cup {None}
    BY <2>2, RequestFacts DEF WellFormed
  <2>4. backlog[m].from # c
    BY <1>1, <1>2, <2>1 DEF BacklogInv
  <2> QED BY <1>10, <2>1, <2>2, <2>3, <2>4
<1>12. ASSUME NEW j \in 1..Len(b), NEW k \in 1..Len(b), b[j].from = b[k].from, b[j].from # None
       PROVE  j = k
  <2>1. PICK m \in 1..Len(backlog) : b[j] = backlog[m] /\ m = IF j < i THEN j ELSE j + 1
    BY <1>9
  <2>2. PICK n \in 1..Len(backlog) : b[k] = backlog[n] /\ n = IF k < i THEN k ELSE k + 1
    BY <1>9
  <2>3. m = n
    BY <1>2, <1>12, <2>1, <2>2 DEF BacklogInv
  <2> QED BY <1>8, <2>1, <2>2, <2>3
<1>13. \A k \in 1..Len(b) : WellFormed(b[k]) <=> WellFormed(backlog[k])'
  BY <1>7 DEF WellFormed
<1>14. BacklogInv' /\ backlog' \in Seq(Request)
  BY <1>7, <1>11, <1>12, <1>13 DEF BacklogInv
<1> QED BY <1>1, <1>4, <1>14, EndedKeeps

\* A client gives up: its request stays, and nobody waits for it.
LEMMA TimeoutKeeps ==
  ASSUME IInv, NEW c \in Clients, Timeout(c)
  PROVE  IInv' /\ Kept
<1>1. /\ Returned(c) /\ UNCHANGED <<server, session, closed, handles>>
      /\ backlog' = [i \in 1..Len(backlog) |->
                       IF backlog[i].from = c THEN [backlog[i] EXCEPT !.from = None] ELSE backlog[i]]
  BY DEF Timeout
<1>2. BacklogInv /\ backlog \in Seq(Request) /\ Len(backlog) \in Nat /\ c # None
  BY TypesParts, ConstantsAssumption DEF IInv, GatewayTypeOK
<1>3. /\ response'[c] = None /\ call'[c] = None
      /\ \A d \in Clients \ {c} : response'[d] = response[d] /\ call'[d] = call[d]
  BY <1>1, ReturnedFacts
<1>4. Len(backlog') = Len(backlog) /\ backlog' \in Seq(Request)
  <2>1. \A i \in 1..Len(backlog) : backlog[i] \in Request /\ [backlog[i] EXCEPT !.from = None] \in Request
    BY <1>2, RequestFacts
  <2>2. backlog' \in [1..Len(backlog) -> Request]
    BY <1>1, <2>1
  <2> QED BY <1>2, <2>2
<1>5. ASSUME NEW i \in 1..Len(backlog)
      PROVE  /\ backlog[i].from = c => backlog'[i].from = None
             /\ backlog[i].from # c => backlog'[i] = backlog[i]
             /\ WellFormed(backlog'[i])
  <2>1. PICK q : q = backlog[i]
    OBVIOUS
  <2>2. WellFormed(q) /\ q \in Request
    BY <1>2, <2>1 DEF BacklogInv, WellFormed
  <2>3. CASE q.from = c
    <3>1. PICK p : p = [q EXCEPT !.from = None]
      OBVIOUS
    <3>2. p \in Request
      BY <2>2, <3>1, RequestFacts
    <3>3. p.from = None /\ p.op = q.op /\ p.sid = q.sid /\ p.len = q.len /\ p.left = q.left
      BY <2>2, <3>1 DEF Request
    <3>4. WellFormed(p)
      BY <2>2, <3>2, <3>3 DEF WellFormed
    <3>5. backlog'[i] = p
      BY <1>1, <2>1, <2>3, <3>1
    <3> QED BY <2>1, <2>3, <3>3, <3>4, <3>5
  <2>4. CASE q.from # c
    <3>1. backlog'[i] = q
      BY <1>1, <2>1, <2>4
    <3> QED BY <2>1, <2>2, <2>4, <3>1
  <2> QED BY <2>3, <2>4
<1>6. ASSUME NEW i \in 1..Len(backlog), backlog'[i].from # None
      PROVE  /\ backlog'[i] = backlog[i] /\ backlog[i].from # c /\ backlog[i].from # None
             /\ backlog[i].from \in Clients
  <2>1. backlog[i].from # c
    BY <1>5, <1>6
  <2>2. backlog[i] \in Request
    BY <1>2
  <2> QED BY <1>5, <1>6, <2>1, <2>2, RequestFacts
<1>7. ASSUME NEW i \in 1..Len(backlog), backlog'[i].from # None
      PROVE  call'[backlog'[i].from] = backlog'[i] /\ response'[backlog'[i].from] = None
  <2>1. /\ backlog'[i] = backlog[i] /\ backlog[i].from \in Clients \ {c}
        /\ backlog[i].from # None
    BY <1>6, <1>7
  <2>2. call[backlog[i].from] = backlog[i] /\ response[backlog[i].from] = None
    BY <1>2, <2>1 DEF BacklogInv
  <2> QED BY <1>3, <2>1, <2>2
<1>8. ASSUME NEW i \in 1..Len(backlog), NEW j \in 1..Len(backlog),
             backlog'[i].from = backlog'[j].from, backlog'[i].from # None
      PROVE  i = j
  BY <1>2, <1>6, <1>8 DEF BacklogInv
<1>9. \A i \in 1..Len(backlog) : WellFormed(backlog'[i]) <=> WellFormed(backlog[i])'
  BY DEF WellFormed
<1>10. BacklogInv'
  BY <1>4, <1>5, <1>7, <1>8, <1>9 DEF BacklogInv
<1> QED BY <1>1, <1>4, <1>10, EndedKeeps

-----------------------------------------------------------------------------
LEMMA InitIInv == Init => IInv
<1> SUFFICES ASSUME Init PROVE IInv
  OBVIOUS
<1>1. GatewayInit /\ backlog = <<>> /\ handles = {} /\ minted = {}
  BY DEF Init, GatewayInit
<1>2. /\ \A c \in Clients : call[c] = None /\ session[c] = None /\ response[c] = None
      /\ \A s \in Ids : sessions[s] = None
  BY DEF Init, GatewayInit
<1>3. GatewayTypeOK
  BY <1>1, <1>2, ConstantFacts DEF GatewayTypeOK, GatewayInit
<1>4. ClientTypes
  BY DEF Init, ClientTypes
<1>5. BacklogInv
  BY <1>1 DEF BacklogInv
<1> QED BY <1>1, <1>2, <1>3, <1>4, <1>5, TypesParts DEF IInv, ServerInv, ClientInv, HandlesResolve

\* Every step keeps the invariant: one case for each kind of step.
LEMMA NextKeeps ==
  ASSUME IInv, Next
  PROVE  IInv' /\ Kept
<1>1. CASE Serving
  BY <1>1, ServingKeeps
<1>2. CASE Ticking
  BY <1>2, TickingKeeps
<1>3. CASE Restarting
  BY <1>3, RestartingKeeps
<1>4. ASSUME NEW c \in Clients,
             \/ \E len \in Lengths : CallEncrypt(c, len)
             \/ \E h \in handles : CallEvaluate(c, h) \/ CallDecrypt(c, h)
      PROVE  IInv' /\ Kept
  BY <1>4, CallKeeps
<1>5. ASSUME NEW c \in Clients, Close(c)
      PROVE  IInv' /\ Kept
  BY <1>5, CloseKeeps
<1>6. ASSUME NEW c \in Clients, Receive(c)
      PROVE  IInv' /\ Kept
  BY <1>6, ReceiveKeeps
<1>7. ASSUME NEW c \in Clients, ConnectionLost(c)
      PROVE  IInv' /\ Kept
  BY <1>7, LostKeeps
<1>8. ASSUME NEW c \in Clients, Timeout(c)
      PROVE  IInv' /\ Kept
  BY <1>8, TimeoutKeeps
<1> QED BY <1>1, <1>2, <1>3, <1>4, <1>5, <1>6, <1>7, <1>8 DEF Next

LEMMA StutterKeeps ==
  ASSUME IInv, UNCHANGED vars
  PROVE  IInv'
<1>0. UNCHANGED <<sessions, minted, quiet, backlog, response, session, closed, handles, call>>
  BY DEF vars, server, clients
<1>1. TypeOK'
  BY <1>0 DEF IInv, TypeOK, GatewayTypeOK
<1>2. ServerInv' /\ HandlesResolve'
  BY <1>0 DEF IInv, ServerInv, HandlesResolve
<1>3. BacklogInv'
  BY <1>0 DEF IInv, BacklogInv, WellFormed
<1>4. ClientInv'
  <2>1. \A s : Stored(s)' = Stored(s)
    BY <1>0 DEF Stored
  <2>2. \A q : LengthIn(q)' = LengthIn(q)
    BY <1>0 DEF LengthIn, Stored
  <2>3. ASSUME NEW q, NEW r, Arrived(q, r)
        PROVE  Arrived(q, r)'
    <3>1. LengthIn(q)' = LengthIn(q)
      BY <2>2
    <3> QED BY <1>0, <2>1, <2>3, <3>1, Zenon DEF Arrived
  <2>4. \A c \in Clients : CallInv(c)' <=> CallInv(c)
    BY <1>0 DEF CallInv, WellFormed
  <2> QED BY <1>0, <2>3, <2>4 DEF IInv, ClientInv, HandleInv
<1> QED BY <1>1, <1>2, <1>3, <1>4 DEF IInv

\* The inductive invariant holds in every reachable state.
THEOREM InductiveInvariant == Spec => []IInv
<1>1. IInv /\ [Next]_vars => IInv'
  BY NextKeeps, StutterKeeps
<1> QED BY InitIInv, <1>1, PTL DEF Spec

\* Every variable keeps its type; in particular no session ever stores more
\* ciphertexts than its limit, whoever still waits for them.
THEOREM TypeCorrect == Spec => []TypeOK
<1>1. IInv => TypeOK
  BY DEF IInv
<1> QED BY InductiveInvariant, <1>1, PTL

\* A handle names a ciphertext of its length as long as its session is there.
THEOREM HandlesAlwaysResolve == Spec => []HandlesResolve
<1>1. IInv => HandlesResolve
  BY DEF IInv
<1> QED BY InductiveInvariant, <1>1, PTL

\* After a close nothing of the session is left, whatever is served late.
THEOREM NothingLeftAfterClose == Spec => []ClosedLeavesNothing
<1>1. ASSUME IInv, NEW h \in handles, closed[h.client]
      PROVE  sessions[h.sid] = None
  <2>1. HandleInv(h) /\ h.client \in Clients /\ h.sid \in Ids /\ h.sid # None
    BY <1>1, ConstantsAssumption DEF IInv, ClientInv, TypeOK, RemoteCiphertext
  <2>2. session[h.client] = None
    BY <1>1, <2>1 DEF IInv, ClientInv
  <2> QED BY <2>1, <2>2 DEF HandleInv
<1>2. IInv => ClosedLeavesNothing
  BY <1>1 DEF ClosedLeavesNothing
<1> QED BY InductiveInvariant, <1>2, PTL

-----------------------------------------------------------------------------
(* What may end a session, and who is refused one.                         *)

\* A step of a client leaves the server alone, and makes no response.
LEMMA ClientSteps ==
  ASSUME IInv, NEW c \in Clients,
         \/ \E len \in Lengths : CallEncrypt(c, len)
         \/ \E h \in handles : CallEvaluate(c, h) \/ CallDecrypt(c, h)
         \/ Close(c) \/ Receive(c) \/ ConnectionLost(c) \/ Timeout(c)
  PROVE  UNCHANGED server /\ \A d \in Clients : response'[d] \in {response[d], None}
<1>1. CASE Receive(c) \/ Timeout(c)
  <2>1. Returned(c) /\ UNCHANGED server
    BY <1>1 DEF Receive, ReceiveError, ReceiveCreated, ReceiveCiphertext, ReceiveValues,
                ReceiveDeleted, Timeout
  <2> QED BY <2>1, ReturnedFacts
<1>2. ASSUME NEW op, NEW sid, NEW left, NEW right, NEW len, Send(c, op, sid, left, right, len)
      PROVE  UNCHANGED <<server, response>>
  BY <1>2 DEF Send
<1>3. CASE ~(Receive(c) \/ Timeout(c))
  <2>1. UNCHANGED <<server, response>>
    BY <1>2, <1>3 DEF CallEncrypt, CallEvaluate, CallDecrypt, Close, ConnectionLost
  <2> QED BY <2>1
<1> QED BY <1>1, <1>3

\* Who may change the server, or answer.
LEMMA NextSteps ==
  ASSUME IInv, [Next]_vars
  PROVE  \/ Serving \/ Ticking \/ Restarting
         \/ UNCHANGED server /\ \A d \in Clients : response'[d] \in {response[d], None}
<1>1. ASSUME UNCHANGED vars
      PROVE  UNCHANGED server /\ \A d \in Clients : response'[d] \in {response[d], None}
  BY <1>1 DEF vars
<1> QED BY <1>1, ClientSteps DEF Next

\* A session that a purge removes was silent for as long as its time.
LEMMA SilentWhenPurged ==
  ASSUME IInv, NEW s \in Ids, sessions[s] # None, ~Live(s)
  PROVE  quiet[s] >= TTL
<1>1. sessions[s].life = 0 /\ sessions[s].life + quiet[s] = TTL /\ quiet[s] \in 0..TTL
  BY PurgedFacts, TypesParts DEF IInv, ServerInv, GatewayTypeOK
<1> QED BY <1>1, ConstantFacts

\* A request ends no session that is within its time, unless it deletes it.
LEMMA ServedEnds ==
  ASSUME IInv, NEW q, WellFormed(q), Serve(q), NEW s \in Ids, sessions[s] # None, sessions'[s] = None
  PROVE  ~Live(s) \/ (q.op = "delete" /\ q.sid = s)
<1>0. GatewayTypeOK /\ q \in Request /\ s \in minted
  BY TypesParts DEF IInv, WellFormed, ServerInv
<1>1. ASSUME NEW why \in Reasons, Refuse(q, why)
      PROVE  ~Live(s)
  BY <1>0, <1>1, PurgedFacts DEF Refuse
<1>2. ASSUME NEW u \in Ids \ minted, Creates(q, u)
      PROVE  ~Live(s)
  BY <1>0, <1>2, PurgedFacts DEF Creates
<1>3. ASSUME q.op = "delete", Delete(q)
      PROVE  q.sid = s
  BY <1>0, <1>3 DEF Delete, GatewayTypeOK
<1>4. ASSUME q.sid \in Ids, NEW w \in Seq(LogicalLengths), Len(w) \in CiphertextIds, Live(q.sid),
             \/ sessions' = [Found(q.sid) EXCEPT ![q.sid].ciphertexts = w]
             \/ sessions' = Found(q.sid) /\ w = Stored(q.sid)
      PROVE  ~Live(s)
  <2>1. /\ \A u \in Ids \ {q.sid} : sessions'[u] = IF Live(u) THEN sessions[u] ELSE None
        /\ sessions'[q.sid] # None
    BY <1>0, <1>4, FoundFacts
  <2> QED BY <2>1
<1>5. ASSUME q.sid \in Ids, NEW r, Renews(q, r)
      PROVE  ~Live(s)
  <2>1. Live(q.sid) /\ sessions' = Found(q.sid)
    BY <1>5 DEF Renews
  <2>2. Stored(q.sid) \in Seq(LogicalLengths) /\ Len(Stored(q.sid)) \in CiphertextIds
    BY <1>0, <1>5, <2>1, StoredFacts DEF Live
  <2> QED BY <1>4, <1>5, <2>1, <2>2
<1>6. ASSUME q.sid \in Ids, Stores(q, LengthIn(q)), LengthIn(q) \in LogicalLengths
      PROVE  ~Live(s)
  <2>1. PICK w : w = Append(Stored(q.sid), LengthIn(q))
    OBVIOUS
  <2>2. /\ Live(q.sid) /\ Len(Stored(q.sid)) + 1 <= MaxCiphertexts
        /\ sessions' = [Found(q.sid) EXCEPT ![q.sid].ciphertexts = w]
    BY <1>6, <2>1 DEF Stores
  <2>3. Stored(q.sid) \in Seq(LogicalLengths) /\ Len(Stored(q.sid)) \in Nat
    BY <1>0, <1>6, <2>2, StoredFacts DEF Live
  <2>4. w \in Seq(LogicalLengths) /\ Len(w) = Len(Stored(q.sid)) + 1
    BY <1>6, <2>1, <2>3
  <2>5. Len(w) \in CiphertextIds
    BY <2>2, <2>3, <2>4, ConstantFacts DEF CiphertextIds
  <2> QED BY <1>4, <1>6, <2>2, <2>4, <2>5
<1> QED BY <1>0, <1>1, <1>2, <1>3, <1>5, <1>6, ServeCases

\* How a step ends a session.
LEMMA EndsStep ==
  ASSUME IInv, [Next]_vars, NEW s \in Ids, sessions[s] # None, sessions'[s] = None
  PROVE  \/ quiet[s] >= TTL
         \/ Handle /\ Head(backlog).op = "delete" /\ Head(backlog).sid = s
         \/ Restart
<1>0. GatewayTypeOK /\ BacklogInv
  BY TypesParts DEF IInv
<1>1. CASE Serving
  <2>1. PICK q : q = Head(backlog)
    OBVIOUS
  <2>2. Handle /\ backlog # <<>> /\ Serve(q) /\ WellFormed(q)
    BY <1>0, <1>1, <2>1, HeadFacts DEF Serving, Handle
  <2>3. ~Live(s) \/ (q.op = "delete" /\ q.sid = s)
    BY <2>2, ServedEnds
  <2> QED BY <2>1, <2>2, <2>3, SilentWhenPurged
<1>2. CASE Ticking
  <2>1. CASE Live(s)
    <3>1. sessions[s] \in Session /\ sessions[s].life \in 0..TTL /\ sessions[s].life > 0
      BY <1>0, <2>1, StoredFacts DEF Live
    <3>2. sessions[s].life - 1 \in 0..TTL
      BY <3>1, ConstantFacts
    <3>3. sessions'[s] = [sessions[s] EXCEPT !.life = sessions[s].life - 1]
      BY <1>2, <2>1 DEF Ticking, Tick
    <3>4. sessions'[s] \in Session
      BY <3>1, <3>2, <3>3 DEF Session
    <3> QED BY <3>4, RecordsAssumption
  <2>2. CASE ~Live(s)
    BY <2>2, SilentWhenPurged
  <2> QED BY <2>1, <2>2
<1>3. CASE Restarting
  BY <1>3 DEF Restarting
<1>4. CASE UNCHANGED server
  BY <1>4 DEF server
<1> QED BY <1>1, <1>2, <1>3, <1>4, NextSteps

\* A session ends by a delete, by a restart, or after its own silence.
THEOREM UseKeepsSessions == Spec => UsedSessionsStay
<1>1. IInv /\ [Next]_vars =>
        \A s \in Ids : sessions[s] # None /\ sessions'[s] = None =>
          \/ quiet[s] >= TTL
          \/ Handle /\ Head(backlog).op = "delete" /\ Head(backlog).sid = s
          \/ Restart
  BY EndsStep
<1> QED BY InductiveInvariant, <1>1, PTL DEF Spec, UsedSessionsStay

LEMMA NextId == \A n \in Nat : n + 1 <= MaxCiphertexts => n + 1 \in CiphertextIds
BY ConstantFacts DEF CiphertextIds

\* Who is told of the limit is told at the limit.
LEMMA ServedLimit ==
  ASSUME IInv, NEW q, WellFormed(q), Serve(q), NEW c \in Clients,
         response[c] = None, response'[c] = Refused("session limit")
  PROVE  Cardinality({s \in Ids : Live(s)}) >= MaxSessions
<1>0. GatewayTypeOK /\ q \in Request
  BY TypesParts DEF IInv, WellFormed
<1>1. ASSUME NEW r \in Response, Respond(q, r)
      PROVE  r = Refused("session limit")
  <2>1. response'[c] = IF c = q.from THEN r ELSE response[c]
    BY <1>0, <1>1, RespondTyped
  <2>2. Refused("session limit") # None
    BY ResponseFacts DEF Reasons
  <2> QED BY <2>1, <2>2
<1>2. ASSUME NEW why \in Reasons, Respond(q, Refused(why))
      PROVE  why = "session limit"
  BY <1>1, <1>2, ResponseFacts, ReasonsDiffer
<1>3. ASSUME NEW s \in Ids, NEW n \in CiphertextIds \cup {None}, Respond(q, Accepted(s, n))
      PROVE  FALSE
  BY <1>1, <1>3, ResponseFacts, ReasonsDiffer
<1>4. ASSUME NEW why \in Reasons, Refuse(q, why),
             why = "session limit" => Cardinality({s \in Ids : Live(s)}) >= MaxSessions
      PROVE  Cardinality({s \in Ids : Live(s)}) >= MaxSessions
  BY <1>2, <1>4 DEF Refuse
<1>5. ASSUME NEW s \in Ids, Creates(q, s)
      PROVE  FALSE
  BY <1>3, <1>5, ConstantFacts DEF Creates
<1>6. ASSUME q.op = "delete", Delete(q)
      PROVE  FALSE
  <2>1. q.sid \in Ids /\ "unknown session" \in Reasons
    BY <1>6 DEF WellFormed, Reasons
  <2>2. Respond(q, Refused("unknown session")) \/ Respond(q, Accepted(q.sid, None))
    BY <1>6 DEF Delete
  <2> QED BY <1>2, <1>3, <2>1, <2>2
<1>7. ASSUME NEW why \in Reasons \ {"session limit"}, Renews(q, Refused(why))
      PROVE  FALSE
  BY <1>2, <1>7 DEF Renews
<1>8. ASSUME q.sid \in Ids, q.op = "decrypt", Renews(q, Accepted(q.sid, q.left))
      PROVE  FALSE
  <2>1. q.left \in CiphertextIds
    BY <1>8 DEF WellFormed
  <2> QED BY <1>3, <1>8, <2>1 DEF Renews
<1>9. ASSUME q.sid \in Ids, Stores(q, LengthIn(q))
      PROVE  FALSE
  <2>1. /\ Len(Stored(q.sid)) + 1 <= MaxCiphertexts /\ Live(q.sid)
        /\ Respond(q, Accepted(q.sid, Len(Stored(q.sid)) + 1))
    BY <1>9 DEF Stores
  <2>2. Len(Stored(q.sid)) \in Nat
    BY <1>0, <1>9, <2>1, StoredFacts DEF Live
  <2>3. Len(Stored(q.sid)) + 1 \in CiphertextIds
    BY <2>1, <2>2, NextId, Zenon
  <2> QED BY <1>3, <1>9, <2>1, <2>3
<1> QED BY <1>0, <1>4, <1>5, <1>6, <1>7, <1>8, <1>9, ServeCases

LEMMA LimitStep ==
  ASSUME IInv, [Next]_vars, NEW c \in Clients, response[c] = None, response'[c] = Refused("session limit")
  PROVE  Cardinality({s \in Ids : Live(s)}) >= MaxSessions
<1>0. GatewayTypeOK /\ BacklogInv
  BY TypesParts DEF IInv
<1>1. Refused("session limit") # None /\ Refused("session limit") # Refused("connection")
  <2>1. Refused("session limit") # None
    BY ResponseFacts DEF Reasons
  <2>2. "session limit" # "connection"
    OBVIOUS
  <2> QED BY <2>1, <2>2, ReasonsDiffer
<1>2. CASE Serving
  <2>1. PICK q : q = Head(backlog)
    OBVIOUS
  <2>2. Serve(q) /\ WellFormed(q)
    BY <1>0, <1>2, <2>1, HeadFacts DEF Serving, Handle
  <2> QED BY <2>2, ServedLimit
<1>3. CASE Ticking
  BY <1>1, <1>3 DEF Ticking, Tick
<1>4. CASE Restarting
  BY <1>1, <1>4 DEF Restarting, Restart
<1>5. CASE \A d \in Clients : response'[d] \in {response[d], None}
  BY <1>1, <1>5
<1> QED BY <1>2, <1>3, <1>4, <1>5, NextSteps

\* A session is refused only at the limit of sessions within their time.
THEOREM RefusedAtLimit == Spec => LimitMeansLive
<1>1. IInv /\ [Next]_vars =>
        \A c \in Clients : response[c] = None /\ response'[c] = Refused("session limit")
          => Cardinality({s \in Ids : Live(s)}) >= MaxSessions
  BY LimitStep
<1> QED BY InductiveInvariant, <1>1, PTL DEF Spec, LimitMeansLive

-----------------------------------------------------------------------------
(* Who waits is answered, or has its request under way.                    *)

\* A client that waits without a response has its request in the backlog.
UnderWay(c) == \E i \in 1..Len(backlog) : backlog[i] = call[c]
Expecting == \A c \in Clients : call[c] # None /\ response[c] = None => UnderWay(c)

\* A request that stays in the backlog, of a client whose call does not change.
LEMMA StillUnderWay ==
  ASSUME NEW c \in Clients, NEW i \in 1..Len(backlog), backlog[i] = call[c], call'[c] = call[c],
         NEW k \in 1..Len(backlog'), backlog'[k] = backlog[i]
  PROVE  UnderWay(c)'
BY DEF UnderWay

\* What leaves the backlog as it is keeps what it says of a client that goes on waiting.
LEMMA BacklogStays ==
  ASSUME IInv, Expecting, UNCHANGED backlog, NEW c \in Clients,
         call'[c] # None, response'[c] = None, call'[c] = call[c], response'[c] = response[c]
  PROVE  UnderWay(c)'
BY DEF Expecting, UnderWay

\* The request that is served is answered, and the others move up.
LEMMA ServingExpects ==
  ASSUME IInv, Expecting, Serving
  PROVE  Expecting'
<1>0. GatewayTypeOK /\ ServerInv /\ BacklogInv /\ ClientInv /\ backlog # <<>> /\ backlog' = Tail(backlog)
  BY TypesParts DEF IInv, Serving, Handle
<1>1. UNCHANGED <<session, closed, handles, call>> /\ Len(backlog) \in Nat
  BY <1>0 DEF Serving, clients, GatewayTypeOK
<1>2. PICK q : q = Head(backlog)
  OBVIOUS
<1>3. WellFormed(q) /\ Serve(q) /\ (q.from # None => call[q.from] = q)
  BY <1>0, <1>2, HeadFacts DEF Serving, Handle
<1>4. q.op # "create" /\ q.from # None => q.sid \in minted
  <2> SUFFICES ASSUME q.op # "create", q.from # None
               PROVE  q.sid \in minted
    OBVIOUS
  <2>1. q.from \in Clients /\ q # None
    BY <1>3, RequestFacts DEF WellFormed
  <2> QED BY <1>0, <1>3, <2>1 DEF ClientInv, CallInv
<1>5. PICK r \in Response : Respond(q, r)
  BY <1>0, <1>3, <1>4, Responds
<1>6. SUFFICES ASSUME NEW c \in Clients, call'[c] # None, response'[c] = None
               PROVE  UnderWay(c)'
  BY DEF Expecting
<1>7. q.from # c /\ response[c] = None
  <2>1. c # None /\ r # None
    BY ConstantsAssumption, ResponseFacts
  <2>2. IF q.from = None THEN response' = response ELSE response' = [response EXCEPT ![q.from] = r]
    BY <1>5 DEF Respond
  <2> QED BY <1>0, <1>6, <2>1, <2>2 DEF GatewayTypeOK
<1>8. PICK i \in 1..Len(backlog) : backlog[i] = call[c]
  BY <1>1, <1>6, <1>7 DEF Expecting, UnderWay
<1>9. i # 1
  <2>1. call[c].from = c
    BY <1>0, <1>1, <1>6 DEF ClientInv, CallInv
  <2>2. q = backlog[1]
    BY <1>0, <1>2 DEF GatewayTypeOK
  <2> QED BY <1>7, <1>8, <2>1, <2>2
<1>10. Len(backlog') = Len(backlog) - 1 /\ \A k \in 1..Len(backlog') : backlog'[k] = backlog[k + 1]
  <2>1. PICK b : b = Tail(backlog)
    OBVIOUS
  <2>2. Len(b) = Len(backlog) - 1 /\ \A k \in 1..Len(b) : b[k] = backlog[k + 1]
    BY <1>0, <2>1, HeadFacts
  <2> QED BY <1>0, <2>1, <2>2
<1>11. i - 1 \in 1..Len(backlog') /\ backlog'[i - 1] = backlog[i]
  <2>1. i - 1 \in 1..Len(backlog') /\ (i - 1) + 1 = i
    BY <1>1, <1>9, <1>10
  <2> QED BY <1>10, <2>1
<1> QED BY <1>1, <1>8, <1>11, StillUnderWay

\* A restart answers everybody whose request it drops.
LEMMA RestartingExpects ==
  ASSUME IInv, Expecting, Restarting
  PROVE  Expecting'
<1>1. GatewayTypeOK /\ ClientInv /\ UNCHANGED call
  BY TypesParts DEF IInv, Restarting, clients
<1>2. ASSUME NEW c \in Clients, call[c] # None, response[c] = None
      PROVE  response'[c] # None
  <2>1. PICK i \in 1..Len(backlog) : backlog[i] = call[c]
    BY <1>2 DEF Expecting, UnderWay
  <2>2. backlog[i].from = c
    BY <1>1, <1>2, <2>1 DEF ClientInv, CallInv
  <2>3. response'[c] = Refused("connection")
    BY <2>2 DEF Restarting, Restart
  <2>4. Refused("connection") # None
    BY ResponseFacts DEF Reasons
  <2> QED BY <2>3, <2>4
<1>3. ASSUME NEW c \in Clients, response[c] # None
      PROVE  response'[c] # None
  <2>1. response'[c] \in {Refused("connection"), response[c]}
    BY DEF Restarting, Restart
  <2>2. Refused("connection") # None
    BY ResponseFacts DEF Reasons
  <2> QED BY <1>3, <2>1, <2>2
<1> QED BY <1>1, <1>2, <1>3 DEF Expecting

\* A call that is sent is at the end of the backlog.
LEMMA SendExpects ==
  ASSUME IInv, Expecting, NEW c \in Clients, NEW op, NEW sid, NEW left, NEW right, NEW len,
         Send(c, op, sid, left, right, len)
  PROVE  Expecting'
<1>1. PICK q : q = [from |-> c, op |-> op, sid |-> sid, left |-> left, right |-> right, len |-> len]
  OBVIOUS
<1>2. backlog' = Append(backlog, q) /\ call' = [call EXCEPT ![c] = q] /\ response' = response
  BY <1>1 DEF Send
<1>3. backlog \in Seq(Request) /\ call \in [Clients -> Request \cup {None}] /\ Len(backlog) \in Nat
  BY DEF IInv, TypeOK, GatewayTypeOK
<1>4. /\ Len(backlog') = Len(backlog) + 1 /\ backlog'[Len(backlog) + 1] = q
      /\ \A i \in 1..Len(backlog) : backlog'[i] = backlog[i]
  BY <1>2, <1>3
<1>5. UnderWay(c)'
  <2>1. call'[c] = q /\ Len(backlog) + 1 \in 1..Len(backlog')
    BY <1>2, <1>3, <1>4
  <2> QED BY <1>4, <2>1 DEF UnderWay
<1>6. ASSUME NEW d \in Clients \ {c}, call'[d] # None, response'[d] = None
      PROVE  UnderWay(d)'
  <2>1. call'[d] = call[d] /\ response[d] = None
    BY <1>2, <1>3, <1>6
  <2>2. PICK i \in 1..Len(backlog) : backlog[i] = call[d]
    BY <1>6, <2>1 DEF Expecting, UnderWay
  <2>3. i \in 1..Len(backlog') /\ backlog'[i] = backlog[i]
    BY <1>3, <1>4, <2>2
  <2> QED BY <2>1, <2>2, <2>3, StillUnderWay
<1> QED BY <1>5, <1>6 DEF Expecting

\* A request that disappears was that of the client whose call ends with it.
LEMMA LostExpects ==
  ASSUME IInv, Expecting, NEW c \in Clients, ConnectionLost(c)
  PROVE  Expecting'
<1>1. PICK i \in 1..Len(backlog) :
        /\ backlog[i].from = c
        /\ backlog' = SubSeq(backlog, 1, i - 1) \o SubSeq(backlog, i + 1, Len(backlog))
        /\ call' = [call EXCEPT ![c] = None] /\ UNCHANGED response
  BY DEF ConnectionLost
<1>2. /\ backlog \in Seq(Request) /\ Len(backlog) \in Nat /\ ClientInv
      /\ call \in [Clients -> Request \cup {None}]
  BY DEF IInv, TypeOK, GatewayTypeOK
<1>3. PICK b \in Seq(Request) : Without(backlog, i, b)
  BY <1>2, Removal
<1>4. backlog' = b /\ Len(b) = Len(backlog) - 1
  BY <1>1, <1>3, Zenon DEF Without
<1>5. ASSUME NEW k \in 1..Len(b), NEW m, m = IF k < i THEN k ELSE k + 1
      PROVE  b[k] = backlog[m]
  BY <1>3, <1>5, Zenon DEF Without
<1>6. SUFFICES ASSUME NEW d \in Clients, call'[d] # None, response'[d] = None
               PROVE  UnderWay(d)'
  BY DEF Expecting
<1>7. d # c /\ call'[d] = call[d] /\ call[d] # None /\ response[d] = None
  BY <1>1, <1>2, <1>6
<1>8. PICK j \in 1..Len(backlog) : backlog[j] = call[d]
  BY <1>7 DEF Expecting, UnderWay
<1>9. j # i
  BY <1>1, <1>2, <1>7, <1>8 DEF ClientInv, CallInv
<1>10. PICK k \in 1..Len(b) : j = IF k < i THEN k ELSE k + 1
  <2>1. CASE j < i
    BY <1>2, <1>4, <2>1
  <2>2. CASE j > i
    <3>1. j - 1 \in 1..Len(b) /\ ~(j - 1 < i) /\ j = (j - 1) + 1
      BY <1>2, <1>4, <2>2
    <3> QED BY <3>1
  <2> QED BY <1>9, <2>1, <2>2
<1>11. backlog'[k] = backlog[j] /\ k \in 1..Len(backlog')
  BY <1>4, <1>5, <1>10
<1> QED BY <1>7, <1>8, <1>11, StillUnderWay

\* A client that gives up leaves the requests of the others as they are.
LEMMA TimeoutExpects ==
  ASSUME IInv, Expecting, NEW c \in Clients, Timeout(c)
  PROVE  Expecting'
<1>1. /\ Returned(c)
      /\ backlog' = [i \in 1..Len(backlog) |->
                       IF backlog[i].from = c THEN [backlog[i] EXCEPT !.from = None] ELSE backlog[i]]
  BY DEF Timeout
<1>2. /\ call'[c] = None
      /\ \A d \in Clients \ {c} : response'[d] = response[d] /\ call'[d] = call[d]
  BY <1>1, ReturnedFacts
<1>3. ClientInv /\ Len(backlog) \in Nat
  BY DEF IInv, TypeOK, GatewayTypeOK
<1>4. Len(backlog') = Len(backlog)
  BY <1>1, <1>3
<1>5. SUFFICES ASSUME NEW d \in Clients, call'[d] # None, response'[d] = None
               PROVE  UnderWay(d)'
  BY DEF Expecting
<1>6. d # c /\ call'[d] = call[d] /\ call[d] # None /\ response[d] = None
  BY <1>2, <1>5
<1>7. PICK i \in 1..Len(backlog) : backlog[i] = call[d]
  BY <1>6 DEF Expecting, UnderWay
<1>8. backlog[i].from # c
  BY <1>3, <1>6, <1>7 DEF ClientInv, CallInv
<1>9. backlog'[i] = backlog[i] /\ i \in 1..Len(backlog')
  BY <1>1, <1>4, <1>7, <1>8
<1> QED BY <1>6, <1>7, <1>9, StillUnderWay

LEMMA NextExpects ==
  ASSUME IInv, Expecting, [Next]_vars
  PROVE  Expecting'
<1>1. ASSUME UNCHANGED <<backlog, response, call>>
      PROVE  Expecting'
  BY <1>1 DEF Expecting, UnderWay
<1>2. CASE Ticking \/ UNCHANGED vars
  BY <1>1, <1>2 DEF Ticking, Tick, clients, vars
<1>3. ASSUME NEW c \in Clients,
             \/ \E len \in Lengths : CallEncrypt(c, len)
             \/ \E h \in handles : CallEvaluate(c, h) \/ CallDecrypt(c, h)
             \/ Close(c)
      PROVE  Expecting'
  <2>1. CASE \E op, sid, left, right, len : Send(c, op, sid, left, right, len)
    BY <2>1, SendExpects
  <2>2. CASE UNCHANGED <<backlog, response, call>>
    BY <1>1, <2>2
  <2> QED BY <1>3, <2>1, <2>2 DEF CallEncrypt, CallEvaluate, CallDecrypt, Close
<1>4. ASSUME NEW c \in Clients, Receive(c)
      PROVE  Expecting'
  <2>1. Returned(c) /\ UNCHANGED backlog
    BY <1>4 DEF Receive, ReceiveError, ReceiveCreated, ReceiveCiphertext, ReceiveValues, ReceiveDeleted
  <2>2. /\ call'[c] = None
        /\ \A d \in Clients \ {c} : response'[d] = response[d] /\ call'[d] = call[d]
    BY <2>1, ReturnedFacts
  <2> QED BY <2>1, <2>2, BacklogStays DEF Expecting
<1> QED BY <1>2, <1>3, <1>4, ServingExpects, RestartingExpects, LostExpects, TimeoutExpects DEF Next

\* Nobody is forgotten, and nobody is answered twice: a client that does not wait
\* has neither a request in the backlog nor a response, and one that waits has
\* either a response that has arrived or one request in the backlog, its own.
\* With the fairness of the server this is why a call returns.
Attended(c) ==
  LET Waiting == {i \in 1..Len(backlog) : backlog[i].from = c}
  IN  \/ call[c] = None /\ response[c] = None /\ Waiting = {}
      \/ call[c] # None /\ response[c] # None /\ Waiting = {}
      \/ /\ call[c] # None /\ response[c] = None
         /\ \E i \in 1..Len(backlog) : backlog[i] = call[c] /\ Waiting = {i}

THEOREM EveryCallAttended == Spec => []\A c \in Clients : Attended(c)
<1>1. Init => Expecting
  BY DEF Init, Expecting
<1>2. IInv /\ Expecting /\ [Next]_vars => Expecting'
  BY NextExpects
<1>3. IInv /\ Expecting => \A c \in Clients : Attended(c)
  <2> SUFFICES ASSUME IInv, Expecting, NEW c \in Clients
               PROVE  Attended(c)
    OBVIOUS
  <2>1. BacklogInv /\ ClientInv /\ c # None
    BY ConstantsAssumption DEF IInv
  <2>2. CASE call[c] = None
    <3>1. response[c] = None
      BY <2>1, <2>2 DEF ClientInv
    <3>2. ASSUME NEW i \in 1..Len(backlog), backlog[i].from = c
          PROVE  FALSE
      <4>1. backlog[i] \in Request /\ backlog[i] = None
        BY <2>1, <2>2, <3>2 DEF BacklogInv, WellFormed
      <4> QED BY <4>1, RequestFacts
    <3> QED BY <2>2, <3>1, <3>2 DEF Attended
  <2>3. CASE response[c] # None
    <3>1. call[c] # None /\ \A i \in 1..Len(backlog) : backlog[i].from # c
      BY <2>3, NotWaiting
    <3> QED BY <2>3, <3>1 DEF Attended
  <2>4. CASE call[c] # None /\ response[c] = None
    <3>1. PICK i \in 1..Len(backlog) : backlog[i] = call[c]
      BY <2>4 DEF Expecting, UnderWay
    <3>2. backlog[i].from = c
      BY <2>1, <2>4, <3>1 DEF ClientInv, CallInv
    <3>3. \A j \in 1..Len(backlog) : backlog[j].from = c => j = i
      BY <2>1, <3>2 DEF BacklogInv
    <3>4. {j \in 1..Len(backlog) : backlog[j].from = c} = {i}
      BY <3>2, <3>3
    <3> QED BY <2>4, <3>1, <3>4 DEF Attended
  <2> QED BY <2>2, <2>3, <2>4
<1> QED BY InductiveInvariant, <1>1, <1>2, <1>3, PTL DEF Spec

=============================================================================
