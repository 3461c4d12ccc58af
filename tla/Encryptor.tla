----------------------------- MODULE Encryptor -----------------------------
(***************************************************************************)
(* The trusted encryptor of encryptor/app.py: it encrypts a pair of        *)
(* vectors under fresh keys, keeps the secret key in a session, and        *)
(* decrypts one result, which ends the session.  An HTTPServer serves one  *)
(* request at a time, in the order of the connections.                     *)
(*                                                                         *)
(* What validate_vectors and decode_ciphertext refuse does not reach the   *)
(* sessions: of such a request only its answer is left.  A result is the   *)
(* operation by which it was computed from the pair.                       *)
(***************************************************************************)
EXTENDS Callers, FiniteSets

CONSTANTS
  Ids,           \* session identifiers; uuid4 returns a fresh one each time
  TrialOps,      \* operations on the two ciphertexts that need no keys
  MaxSessions,   \* MAX_SESSIONS
  TTL            \* SESSION_TTL_SECONDS, in ticks of the clock

ASSUME EncryptorAssumption ==
  /\ MaxSessions \in Nat \ {0} /\ TTL \in Nat \ {0}
  /\ None \notin Ids \cup TrialOps \cup Nat

VARIABLES
  life,     \* identifier -> ticks to expires_at while its session is there, or None
  minted,   \* identifiers given out so far
  encBox,   \* connections that wait for the server
  released  \* history: identifier -> the operations whose results were given out

encryptor == <<life, minted, encBox, released>>

\* A letter asks for a pair (op is None), or for the decryption of a result.
Letter == [from : Clients \cup {None}, sid : Ids \cup {None}, op : TrialOps \cup {None}]

EncryptorTypeOK ==
  /\ life \in [Ids -> (0..TTL) \cup {None}]
  /\ minted \subseteq Ids
  /\ encBox \in Seq(Letter)
  /\ \A i \in 1..Len(encBox) : encBox[i].op # None => encBox[i].sid # None
  /\ released \in [Ids -> Seq(TrialOps)]

EncryptorInit ==
  /\ life = [s \in Ids |-> None]
  /\ minted = {}
  /\ encBox = <<>>
  /\ released = [s \in Ids |-> <<>>]

-----------------------------------------------------------------------------
Held(s) == life[s] # None
Live(s) == Held(s) /\ life[s] > 0

\* _purge_expired
Purged == [s \in Ids |-> IF Live(s) THEN life[s] ELSE None]

\* Refused before the sessions are looked at: what it brings is not well-formed,
\* or the binding cannot be imported.
TurnedAway(q) ==
  /\ Respond(q.from, [kind |-> "error", sid |-> q.sid])
  /\ UNCHANGED <<life, minted, released>>

\* Refused by encrypt_pair or decrypt, which begin with the purge.
EncryptorRefuses(q, why) ==
  /\ life' = Purged
  /\ Respond(q.from, [kind |-> why, sid |-> q.sid])
  /\ UNCHANGED <<minted, released>>

\* encrypt_pair: refused at the limit, or the binding raises, or there is a new
\* session (as long as there are identifiers: the bound of a behaviour).  Its
\* time runs from the start of the call: the clock may tick before the client
\* has read the response.
EncryptPair(q) ==
  IF Cardinality({s \in Ids : Live(s)}) >= MaxSessions
  THEN EncryptorRefuses(q, "limit")
  ELSE \/ EncryptorRefuses(q, "error")
       \/ \E s \in Ids \ minted :
            /\ life' = [Purged EXCEPT ![s] = TTL]
            /\ minted' = minted \cup {s}
            /\ Respond(q.from, [kind |-> "bundle", sid |-> s])
            /\ UNCHANGED released

Release(q) ==
  /\ released' = [released EXCEPT ![q.sid] = Append(@, q.op)]
  /\ Respond(q.from, [kind |-> "values", sid |-> q.sid])
  /\ UNCHANGED minted

\* Mutant: the session is given up before the result is decrypted.
DecryptTaken(q) ==
  IF Purged[q.sid] = None
  THEN EncryptorRefuses(q, "error")
  ELSE /\ life' = [Purged EXCEPT ![q.sid] = None]
       /\ \/ /\ Respond(q.from, [kind |-> "error", sid |-> q.sid])
             /\ UNCHANGED <<minted, released>>
          \/ Release(q)

\* Mutant: the session stays after its result was given out.
DecryptKept(q) ==
  IF Purged[q.sid] = None
  THEN EncryptorRefuses(q, "error")
  ELSE EncryptorRefuses(q, "error") \/ (life' = Purged /\ Release(q))

\* decrypt: a result that cannot be read, or not be decrypted, leaves the session.
Decrypt(q) ==
  IF Purged[q.sid] = None
  THEN EncryptorRefuses(q, "error")
  ELSE EncryptorRefuses(q, "error") \/ (life' = [Purged EXCEPT ![q.sid] = None] /\ Release(q))

\* do_POST of the oldest connection.
ServeEncryptor ==
  /\ encBox # <<>>
  /\ encBox' = Tail(encBox)
  /\ LET q == Head(encBox)
     IN  TurnedAway(q) \/ (q.op = None /\ EncryptPair(q)) \/ (q.op # None /\ Decrypt(q))

\* The clock: an expired session is not looked at before the next request.
EncryptorTick ==
  /\ \E s \in Ids : Live(s)
  /\ life' = [s \in Ids |-> IF Live(s) THEN life[s] - 1 ELSE life[s]]
  /\ UNCHANGED <<minted, encBox, released, mail>>

\* The Pod restarts: the sessions are gone, and every connection is reset.
EncryptorRestart ==
  /\ life' = [s \in Ids |-> None]
  /\ encBox' = <<>>
  /\ Reset(Senders(encBox))
  /\ UNCHANGED <<minted, released>>

=============================================================================
