----------------------------- MODULE PairLedger -----------------------------
(***************************************************************************)
(* What the encryptor promises for a pair of vectors: one result of it is  *)
(* decrypted, once, unless the pair lapses first.                          *)
(***************************************************************************)
EXTENDS Sequences

CONSTANTS Ids, TrialOps

VARIABLES
  pair,     \* identifier -> "none", "open", "answered" or "lapsed"
  released  \* identifier -> the operations whose results were given out

Init ==
  /\ pair = [s \in Ids |-> "none"]
  /\ released = [s \in Ids |-> <<>>]

Open(s) ==
  /\ pair[s] = "none"
  /\ pair' = [pair EXCEPT ![s] = "open"]
  /\ UNCHANGED released

Answer(s, op) ==
  /\ pair[s] = "open"
  /\ pair' = [pair EXCEPT ![s] = "answered"]
  /\ released' = [released EXCEPT ![s] = <<op>>]

\* Time passes, or the Pod restarts.
Lapse(gone) ==
  /\ \A s \in gone : pair[s] = "open"
  /\ pair' = [s \in Ids |-> IF s \in gone THEN "lapsed" ELSE pair[s]]
  /\ UNCHANGED released

Next ==
  \/ \E s \in Ids : Open(s) \/ \E op \in TrialOps : Answer(s, op)
  \/ \E gone \in SUBSET Ids : Lapse(gone)

Spec == Init /\ [][Next]_<<pair, released>>

=============================================================================
