------------------------------ MODULE Callers ------------------------------
(***************************************************************************)
(* Clients that call a service over HTTP and wait: what has arrived for    *)
(* each, and what becomes of the requests of one that does not wait any    *)
(* more.                                                                   *)
(***************************************************************************)
EXTENDS Naturals, Sequences

CONSTANTS Clients, None

ASSUME CallersAssumption == None \notin Clients

VARIABLE mail \* client -> the response that has arrived for it, or None

\* A response goes to the connection its request came from.
Respond(from, r) ==
  mail' = IF from = None THEN mail ELSE [mail EXCEPT ![from] = r]

\* The requests of a box after client c has gone: they stay, and will be served.
Orphaned(box, c) ==
  [i \in 1..Len(box) |-> IF box[i].from = c THEN [box[i] EXCEPT !.from = None] ELSE box[i]]

\* The service is gone: whoever waits for it gets an error.
Reset(waiting) ==
  mail' = [c \in Clients |-> IF c \in waiting THEN [kind |-> "error", sid |-> None] ELSE mail[c]]

Senders(box) == {box[i].from : i \in 1..Len(box)} \ {None}

=============================================================================
