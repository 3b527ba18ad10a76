--------------------------- MODULE StreamDelivery ---------------------------
(***************************************************************************)
(* What a rover may rely on, whatever the forwarder does with buffers and  *)
(* locks: it is welcomed before it is sent data, what it is sent was       *)
(* published, each item at most once and never an older one after a newer  *)
(* one, and nothing comes once it has been let go.  Items are numbered in  *)
(* the order in which the sources published them.                          *)
(***************************************************************************)
EXTENDS Naturals, Sequences

CONSTANT Client

VARIABLES published,  \* number of items published so far
          member,     \* "out", "in" (welcomed), or "left"
          received    \* the items each client was sent, in order

dvars == <<published, member, received>>

DInit ==
    /\ published = 0
    /\ member = [c \in Client |-> "out"]
    /\ received = [c \in Client |-> <<>>]

Publish ==
    /\ published' = published + 1
    /\ UNCHANGED <<member, received>>

Welcome(c) ==
    /\ member[c] = "out"
    /\ member' = [member EXCEPT ![c] = "in"]
    /\ UNCHANGED <<published, received>>

\* Several clients may be let go in one step.
LetGo ==
    /\ \E C \in SUBSET Client :
          member' = [c \in Client |-> IF c \in C THEN "left" ELSE member[c]]
    /\ UNCHANGED <<published, received>>

\* A client is sent a run of consecutive items, all newer than what it has.
Deliver(c) ==
    /\ member[c] = "in"
    /\ \E first \in 1..published : \E last \in first..published :
          /\ \A i \in DOMAIN received[c] : received[c][i] < first
          /\ received' = [received EXCEPT
                 ![c] = @ \o [i \in 1..(last + 1 - first) |-> first + i - 1]]
    /\ UNCHANGED <<published, member>>

DNext == Publish \/ LetGo \/ \E c \in Client : Welcome(c) \/ Deliver(c)

DSpec == DInit /\ [][DNext]_dvars
=============================================================================
