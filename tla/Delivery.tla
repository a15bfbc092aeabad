----------------------------- MODULE Delivery ------------------------------
(***************************************************************************)
(* What a room promises a connection, without queues, workers and          *)
(* commands: first the document as it was at some sequence number, then    *)
(* the operations of the others in their order, each once.  A connection   *)
(* that is too slow may miss a message and still be given later ones, but  *)
(* then it is closed, and the browser synchronises anew.                   *)
(***************************************************************************)
EXTENDS Naturals, Sequences

CONSTANTS Clients

VARIABLES
  published,   (* operations the room has broadcast                        *)
  open,        (* connections that are given the operations                *)
  closed,      (* connections that have ended                              *)
  outbox,      (* per connection: sequence numbers not yet delivered       *)
  latest,      (* per connection: the number delivered last                *)
  missed       (* open connections that missed a message                   *)

vars == <<published, open, closed, outbox, latest, missed>>

Init ==
  /\ published = 0
  /\ open = {} /\ closed = {} /\ missed = {}
  /\ outbox = [c \in Clients |-> <<>>]
  /\ latest = [c \in Clients |-> 0]

(* The first message is the snapshot. *)
Join(c) ==
  /\ c \notin open \cup closed
  /\ open' = open \cup {c}
  /\ outbox' = [outbox EXCEPT ![c] = <<published>>]
  /\ UNCHANGED <<published, closed, latest, missed>>

(* An operation is not sent back to its sender s. *)
Publish(s) ==
  /\ published' = published + 1
  /\ outbox' = [c \in Clients |-> IF c \in open \ {s}
                                  THEN Append(outbox[c], published') ELSE outbox[c]]
  /\ UNCHANGED <<open, closed, latest, missed>>

Deliver(c) ==
  /\ c \in open
  /\ outbox[c] # <<>>
  /\ latest' = [latest EXCEPT ![c] = Head(outbox[c])]
  /\ outbox' = [outbox EXCEPT ![c] = Tail(@)]
  /\ UNCHANGED <<published, open, closed, missed>>

(* A message is missed: one of the outbox, or one that is no operation. *)
Miss(c) ==
  /\ c \in open
  /\ missed' = missed \cup {c}
  /\ \/ UNCHANGED outbox
     \/ \E i \in DOMAIN outbox[c] :
          outbox' = [outbox EXCEPT
                       ![c] = SubSeq(@, 1, i - 1) \o SubSeq(@, i + 1, Len(@))]
  /\ UNCHANGED <<published, open, closed, latest>>

Close(c) ==
  /\ c \notin closed
  /\ open' = open \ {c}
  /\ closed' = closed \cup {c}
  /\ outbox' = [outbox EXCEPT ![c] = <<>>]
  /\ missed' = missed \ {c}
  /\ UNCHANGED <<published, latest>>

Next == \E c \in Clients : Join(c) \/ Publish(c) \/ Deliver(c) \/ Miss(c) \/ Close(c)

Safety == Init /\ [][Next]_vars

(* What is in an outbox is delivered unless the connection ends, and a     *)
(* connection that missed a message does end.                              *)
Fairness == \A c \in Clients : /\ WF_vars(Deliver(c))
                               /\ WF_vars(c \in missed /\ Close(c))

Spec == Safety /\ Fairness
=============================================================================
