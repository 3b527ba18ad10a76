------------------------ MODULE BroadcastAndService_proofs ------------------------
(***************************************************************************)
(* Proofs about two components that share no state.                        *)
(*                                                                         *)
(* Broadcast, for any clients, size of the ring and number of buffers: it  *)
(* implements StreamDelivery, and skips nothing that is still in the ring. *)
(*                                                                         *)
(* Service, for any bounds on signals and failures: the cleanup runs once, *)
(* and leaves up only what raised.  Its inductive invariant ServiceIInv    *)
(* says who is in the cleanup (OneCleaner), what the order of the start    *)
(* and of the cleanup give (StartsInOrder, StartStaysOver), and that what  *)
(* a step of the cleanup has stopped stays stopped (StoppedStaysStopped).  *)
(***************************************************************************)
EXTENDS Broadcast, Service, FiniteSetTheorems, SequenceTheorems, TLAPS

(***************************************************************************)
(* Broadcast.                                                               *)
(***************************************************************************)

(* What a buffer holds was uploaded before the next buffer was made.        *)
BuffersInOrder ==
    /\ \A g \in 1..gens : base[g] + write[g] <= total
    /\ \A g, h \in 1..gens : g < h => base[g] + write[g] <= base[h]
    /\ \A g \in Gen : g > gens => write[g] = 0

(* client_lock keeps the clients of a pass active.  A client that failed is *)
(* not served again, and what is being sent begins where the client is, or  *)
(* where the ring began or begins.                                          *)
OnlyActiveAreServed ==
    /\ Unlocked => failed = {}
    /\ ~Unlocked => \A c \in todo : phase[c] = "active" /\ c \notin failed
    /\ at = "sending" =>
         /\ who \notin todo /\ who \notin failed /\ phase[who] = "active"
         /\ next[who] <= span.from
         /\ span.from < span.upto /\ span.upto <= write[bgen]
         /\ span.from = next[who] \/ span.from <= Oldest(bgen)

Serveable(c) == phase[c] # "gone" /\ c \notin failed

(* What a client has is in the thread's buffer or older, and at or behind   *)
(* its index there for a client that may be sent more.                      *)
SentIsBehindIndex ==
    \A c \in Client :
        /\ phase[c] \in {"new", "read", "pending", "welcomed"} => got[c] = <<>>
        /\ got[c] # <<>> => bgen # 0
        /\ \A i \in DOMAIN got[c] : got[c][i] <= base[bgen] + write[bgen]
        /\ Serveable(c) => \A i \in DOMAIN got[c] : got[c][i] <= base[bgen] + next[c]

(* Once it has something of the thread's buffer its index is just behind.   *)
IndexFollowsLast ==
    \A c \in Client :
        /\ Serveable(c) /\ got[c] # <<>> /\ got[c][Len(got[c])] > base[bgen]
        => got[c][Len(got[c])] = base[bgen] + next[c]

IInv ==
    /\ TypeOK /\ BuffersInOrder /\ OnlyActiveAreServed
    /\ SentIsBehindIndex /\ IndexFollowsLast

----------------------------------------------------------------------------
(* Runs of consecutive items. *)
LEMMA ItemsAreConsecutive ==
    ASSUME NEW g, base[g] \in Nat, NEW lo \in Nat, NEW hi \in Nat, lo <= hi
    PROVE  /\ Items(g, lo, hi) \in Seq(Nat)
           /\ Len(Items(g, lo, hi)) = hi - lo
           /\ \A i \in 1..(hi - lo) : Items(g, lo, hi)[i] = base[g] + lo + i
<1> DEFINE n == hi - lo
<1>1. n \in Nat
  OBVIOUS
<1>2. Items(g, lo, hi) = [i \in 1..n |-> base[g] + lo + i]
  BY DEF Items
<1>3. \A i \in 1..n : base[g] + lo + i \in Nat
  BY <1>1
<1> HIDE DEF n
<1>4. Items(g, lo, hi) \in [1..n -> Nat]
  BY <1>2, <1>3
<1>5. Items(g, lo, hi) \in Seq(Nat)
  BY <1>1, <1>4, SeqDef
<1>6. Len(Items(g, lo, hi)) = n
  BY <1>1, <1>4, <1>5, LenProperties
<1> QED
  BY <1>2, <1>5, <1>6 DEF n

(* A client's items when a run is appended to them. *)
Extends(t, s, b, lo, hi) ==
    /\ t \in Seq(Nat)
    /\ Len(t) = Len(s) + (hi - lo)
    /\ \A i \in 1..Len(s) : t[i] = s[i]
    /\ \A i \in 1..(hi - lo) : t[Len(s) + i] = b + lo + i
    /\ \A i \in DOMAIN t : \/ i \in DOMAIN s /\ t[i] = s[i]
                           \/ t[i] > b + lo /\ t[i] <= b + hi
    /\ lo = hi => t = s
    /\ lo < hi => t # <<>> /\ t[Len(t)] = b + hi

(* Sums, for steps in which the provers see too much else. *)
LEMMA SumsAssociate == \A b, l, m \in Nat : b + l + m = b + (l + m)
OBVIOUS

LEMMA FirstToLast ==
    \A b, f, t \in Nat : f <= t /\ f # t =>
        /\ b + f + 1 \in Nat /\ b + t \in Nat
        /\ 1 <= b + f + 1 /\ b + f + 1 <= b + t
OBVIOUS

LEMMA PlaceInRun ==
    \A f, t, i \in Nat : f <= i /\ i + 1 < t =>
        i + 1 - f \in 1..(t - f) /\ f + (i + 1 - f) = i + 1
OBVIOUS

LEMMA SumsGrow ==
    \A b, v, w, x \in Nat : x <= b + v /\ v <= w => x <= b + w
OBVIOUS

LEMMA Appended ==
    ASSUME NEW s \in Seq(Nat), NEW g, base[g] \in Nat, NEW lo \in Nat, NEW hi \in Nat, lo <= hi
    PROVE  Extends(s \o Items(g, lo, hi), s, base[g], lo, hi)
<1> DEFINE r == Items(g, lo, hi)
           t == s \o r
           n == hi - lo
<1>0. n \in Nat /\ lo + n = hi /\ (lo = hi => n = 0) /\ (lo < hi => n \in 1..n)
  OBVIOUS
<1>1. /\ r \in Seq(Nat) /\ Len(r) = n
      /\ \A i \in 1..n : r[i] = base[g] + lo + i
  BY ItemsAreConsecutive, ZenonT(40)
<1>2. /\ Len(s) \in Nat /\ DOMAIN s = 1..Len(s)
  BY LenProperties
<1> HIDE DEF r, n
<1>3. /\ t \in Seq(Nat) /\ Len(t) = Len(s) + n
      /\ \A i \in 1..Len(s) + n : t[i] = IF i <= Len(s) THEN s[i] ELSE r[i - Len(s)]
  <2>1. /\ t \in Seq(Nat) /\ Len(t) = Len(s) + Len(r)
        /\ \A i \in 1..Len(s) + Len(r) : t[i] = IF i <= Len(s) THEN s[i] ELSE r[i - Len(s)]
    BY <1>1, ConcatProperties
  <2> QED
    BY <1>1, <2>1
<1>4. DOMAIN t = 1..Len(t)
  BY <1>3, LenProperties
<1> HIDE DEF t
<1>5. \A i \in 1..Len(s) : t[i] = s[i]
  BY <1>0, <1>2, <1>3
<1>6. ASSUME NEW i \in 1..n PROVE t[Len(s) + i] = base[g] + lo + i
  <2>1. Len(s) + i \in 1..Len(s) + n /\ ~(Len(s) + i <= Len(s)) /\ (Len(s) + i) - Len(s) = i
    BY <1>0, <1>2
  <2> QED
    BY <1>1, <1>3, <2>1
<1>7. ASSUME NEW i \in DOMAIN t
      PROVE  \/ i \in DOMAIN s /\ t[i] = s[i]
             \/ t[i] > base[g] + lo /\ t[i] <= base[g] + hi
  <2>1. CASE i <= Len(s)
    BY <1>2, <1>4, <1>5, <2>1
  <2>2. CASE i > Len(s)
    <3> DEFINE k == i - Len(s)
    <3>1. k \in 1..n /\ Len(s) + k = i
      BY <1>0, <1>2, <1>3, <1>4, <2>2
    <3> HIDE DEF k
    <3>2. t[i] = base[g] + lo + k
      BY <1>6, <3>1
    <3> QED
      BY <1>0, <3>1, <3>2
  <2> QED
    BY <1>0, <1>2, <1>4, <1>3, <2>1, <2>2
<1>8. ASSUME lo = hi PROVE t = s
  <2>1. Len(r) = 0
    BY <1>0, <1>1, <1>8
  <2>2. r = <<>>
    BY <1>1, <2>1, EmptySeq
  <2> QED
    BY <2>2, ConcatEmptySeq DEF t
<1>9. ASSUME lo < hi PROVE t # <<>> /\ t[Len(t)] = base[g] + hi
  <2>a. n \in 1..n
    BY <1>0, <1>9
  <2>b. base[g] + lo + n = base[g] + (lo + n)
    BY <1>0, SumsAssociate, SMTT(30)
  <2>1. n \in 1..n /\ base[g] + lo + n = base[g] + hi
    BY <1>0, <2>a, <2>b
  <2>2. t[Len(s) + n] = base[g] + hi
    BY <1>6, <2>1
  <2>3. Len(t) # 0
    BY <1>0, <1>2, <1>3, <2>1
  <2>4. t # <<>>
    BY <2>3, EmptySeq
  <2> QED
    BY <1>3, <2>2, <2>4
<1> QED
  BY <1>3, <1>5, <1>6, <1>7, <1>8, <1>9 DEF t, r, n, Extends

(* A pass sends its client a run of what its index misses, perhaps nothing. *)
LEMMA SentRun ==
    ASSUME TypeOK, OnlyActiveAreServed, at = "sending", NEW stop \in span.from .. span.upto,
           got' = [got EXCEPT ![who] = @ \o Items(bgen, span.from, stop)]
    PROVE  /\ bgen \in 1..gens /\ bgen \in Gen
           /\ base[bgen] \in Nat /\ write[bgen] \in Nat
           /\ who \in Client /\ span.from \in Nat /\ span.upto \in Nat /\ stop \in Nat
           /\ span.from <= stop /\ stop <= write[bgen]
           /\ next[who] \in Nat /\ got[who] \in Seq(Nat)
           /\ got' \in [Client -> Seq(Nat)]
           /\ \A c \in Client : c # who => got'[c] = got[c]
           /\ got'[who] = got[who] \o Items(bgen, span.from, stop)
<1>1. /\ bgen \in 1..gens /\ bgen \in Gen
      /\ base[bgen] \in Nat /\ write[bgen] \in Nat
      /\ who \in Client /\ span.from \in Nat /\ span.upto \in Nat
      /\ next[who] \in Nat /\ got[who] \in Seq(Nat) /\ got \in [Client -> Seq(Nat)]
  BY BroadcastAssumption DEF TypeOK, Gen
<1>2. stop \in Nat /\ span.from <= stop /\ stop <= write[bgen]
  BY <1>1 DEF OnlyActiveAreServed
<1>3. got[who] \o Items(bgen, span.from, stop) \in Seq(Nat)
  BY <1>1, <1>2, Appended DEF Extends
<1> QED
  BY <1>1, <1>2, <1>3

----------------------------------------------------------------------------
LEMMA InvInit == Init => IInv
<1> SUFFICES ASSUME Init PROVE IInv
  OBVIOUS
<1>1. TypeOK
  BY BroadcastAssumption, EmptySeq DEF Init, TypeOK
<1>2. \A c \in Client : got[c] = <<>> /\ DOMAIN got[c] = {}
  BY DEF Init
<1> QED
  BY <1>1, <1>2 DEF Init, IInv, BuffersInOrder, OnlyActiveAreServed, SentIsBehindIndex,
                    IndexFollowsLast, Unlocked

LEMMA TypeStep == TypeOK /\ OnlyActiveAreServed /\ [Next]_vars => TypeOK'
<1> SUFFICES ASSUME TypeOK, OnlyActiveAreServed, [Next]_vars PROVE TypeOK'
  OBVIOUS
<1> USE BroadcastAssumption DEF TypeOK, bufferVars, clientVars, threadVars
<1>1. CASE UNCHANGED vars
  BY <1>1 DEF vars
<1>2. CASE CreateBuffer
  BY <1>2, SMTT(30) DEF CreateBuffer, Gen
<1>3. CASE UploadItem
  BY <1>3 DEF UploadItem, Gen
<1>4. CASE RemoveBuffer
  BY <1>4 DEF RemoveBuffer
<1>5. ASSUME NEW c \in Client, ReadIndex(c) PROVE TypeOK'
  <2>1. (IF cur = 0 THEN 0 ELSE write[cur]) \in Nat
    BY DEF Gen
  <2> QED
    BY <1>5, <2>1 DEF ReadIndex
<1>6. ASSUME NEW c \in Client,
             AddClient(c) \/ SendResponse(c) \/ ActivateClient(c) \/ RemoveClient(c)
      PROVE  TypeOK'
  BY <1>6 DEF AddClient, SendResponse, ActivateClient, RemoveClient
<1>7. CASE DisconnectMount
  BY <1>7 DEF DisconnectMount
<1>8. CASE CopyTable \/ TakeLock
  BY <1>8 DEF CopyTable, TakeLock
<1>9. ASSUME NEW c \in Client, Fetch(c) PROVE TypeOK'
  <2>1. /\ bgen \in Gen /\ write[bgen] \in Nat /\ next[c] \in Nat
        /\ From(bgen, next[c]) \in Nat
    BY <1>9, SMTT(30) DEF Fetch, Gen, From, Oldest
  <2> QED
    BY <1>9, <2>1, SMTT(30) DEF Fetch
<1>10. CASE SendSucceeds
  <2>1. /\ at = "sending" /\ span.upto \in span.from .. span.upto
        /\ got' = [got EXCEPT ![who] = @ \o Items(bgen, span.from, span.upto)]
    BY <1>10 DEF SendSucceeds, Sent, OnlyActiveAreServed
  <2>2. got' \in [Client -> Seq(Nat)] /\ span.upto \in Nat
    BY <2>1, SentRun
  <2> QED
    BY <1>10, <2>2 DEF SendSucceeds, Sent
<1>11. CASE SendFails
  <2>1. PICK stop \in span.from .. span.upto - 1 :
               got' = [got EXCEPT ![who] = @ \o Items(bgen, span.from, stop)]
    BY <1>11 DEF SendFails
  <2>2. stop \in span.from .. span.upto /\ at = "sending"
    BY <1>11 DEF SendFails
  <2>3. got' \in [Client -> Seq(Nat)]
    BY <2>1, <2>2, SentRun
  <2> QED
    BY <1>11, <2>3 DEF SendFails
<1>12. CASE ReleaseLock
  BY <1>12 DEF ReleaseLock
<1> QED
  BY <1>1, <1>2, <1>3, <1>4, <1>5, <1>6, <1>7, <1>8, <1>9, <1>10, <1>11, <1>12
     DEF Next, BroadcastStep

LEMMA OrderStep == TypeOK /\ BuffersInOrder /\ [Next]_vars => BuffersInOrder'
<1> SUFFICES ASSUME TypeOK, BuffersInOrder, [Next]_vars PROVE BuffersInOrder'
  OBVIOUS
<1>a. /\ gens \in 0..MaxGens /\ total \in Nat /\ MaxGens \in Nat
      /\ base \in [Gen -> Nat] /\ write \in [Gen -> Nat] /\ 1..gens \subseteq Gen
  BY BroadcastAssumption DEF TypeOK, Gen
<1>1. CASE UNCHANGED <<total, gens, base, write>>
  BY <1>1 DEF BuffersInOrder
<1>2. CASE CreateBuffer
  <2>1. /\ gens' = gens + 1 /\ gens + 1 \in Gen /\ total' = total /\ write' = write
        /\ base' = [base EXCEPT ![gens + 1] = total]
    BY <1>a, <1>2 DEF CreateBuffer, Gen
  <2>2. write[gens + 1] = 0
    BY <1>a, <2>1 DEF BuffersInOrder
  <2>3. \A g \in 1..gens' : g # gens + 1 => g \in 1..gens /\ base'[g] = base[g]
    BY <1>a, <2>1
  <2>4. base'[gens + 1] = total
    BY <1>a, <2>1
  <2>5. ASSUME NEW g \in 1..gens' PROVE base'[g] + write'[g] <= total'
    BY <1>a, <2>1, <2>2, <2>3, <2>4 DEF BuffersInOrder
  <2>6. ASSUME NEW g \in 1..gens', NEW h \in 1..gens', g < h
        PROVE  base'[g] + write'[g] <= base'[h]
    <3>1. g \in 1..gens /\ base'[g] = base[g]
      BY <1>a, <2>1, <2>3, <2>6
    <3> QED
      BY <1>a, <2>1, <2>3, <2>4, <2>6, <3>1 DEF BuffersInOrder
  <2> QED
    BY <1>a, <2>1, <2>5, <2>6 DEF BuffersInOrder, Gen
<1>3. CASE UploadItem
  <2>1. /\ cur \in 1..gens /\ cur = gens
        /\ gens' = gens /\ base' = base /\ total' = total + 1
        /\ write' = [write EXCEPT ![cur] = @ + 1]
    BY <1>3 DEF UploadItem, TypeOK
  <2>2. \A g \in Gen : write'[g] = IF g = gens THEN write[g] + 1 ELSE write[g]
    BY <1>a, <2>1
  <2> QED
    BY <1>a, <2>1, <2>2 DEF BuffersInOrder
<1>4. ASSUME NEW c \in Client, ReadIndex(c) \/ AddClient(c) \/ SendResponse(c)
             \/ ActivateClient(c) \/ RemoveClient(c) \/ Fetch(c)
      PROVE  BuffersInOrder'
  BY <1>1, <1>4 DEF ReadIndex, AddClient, SendResponse, ActivateClient, RemoveClient, Fetch,
                    bufferVars
<1> QED
  BY <1>1, <1>2, <1>3, <1>4
     DEF Next, BroadcastStep, vars, bufferVars, RemoveBuffer, DisconnectMount, CopyTable, TakeLock,
         SendSucceeds, Sent, SendFails, ReleaseLock

LEMMA ServedStep == TypeOK /\ OnlyActiveAreServed /\ [Next]_vars => OnlyActiveAreServed'
<1> SUFFICES ASSUME TypeOK, OnlyActiveAreServed, [Next]_vars PROVE OnlyActiveAreServed'
  OBVIOUS
<1> USE DEF bufferVars, clientVars, threadVars
<1>a. /\ phase \in [Client -> {"new", "read", "pending", "welcomed", "active", "gone"}]
      /\ next \in [Client -> Nat] /\ write \in [Gen -> Nat]
      /\ todo \in SUBSET Client /\ failed \in SUBSET Client
      /\ at \in {"idle", "snapped", "locked", "sending"}
      /\ RingSize \in Nat \ {0}
      /\ at # "idle" => bgen \in Gen
      /\ at = "sending" => who \in Client
  BY BroadcastAssumption DEF TypeOK, Gen
<1>1. CASE UNCHANGED <<write, phase, next, at, bgen, todo, failed, who, span>>
  BY <1>1 DEF OnlyActiveAreServed, Unlocked, Oldest
<1>2. CASE UploadItem
  <2>1. /\ UNCHANGED <<phase, next, at, bgen, todo, failed, who, span>>
        /\ \A g \in Gen : write'[g] \in Nat /\ write'[g] >= write[g]
    BY <1>a, <1>2 DEF UploadItem
  <2>2. at = "sending" => /\ write'[bgen] >= write[bgen]
                          /\ Oldest(bgen)' >= Oldest(bgen)
                          /\ Oldest(bgen)' \in Nat /\ Oldest(bgen) \in Nat
    BY <1>a, <2>1 DEF Oldest
  <2>3. at = "sending" => span.upto \in Nat /\ span.from \in Nat
    BY DEF TypeOK
  <2>4. at = "sending" => span.upto <= write'[bgen]
    BY <1>a, <2>1, <2>2, <2>3 DEF OnlyActiveAreServed
  <2>5. at = "sending" => span.from = next[who] \/ span.from <= Oldest(bgen)'
    BY <2>2, <2>3 DEF OnlyActiveAreServed
  <2> QED
    BY <2>1, <2>4, <2>5 DEF OnlyActiveAreServed, Unlocked
(* A client that is not active is neither in the pass nor being sent to. *)
<1>3. ASSUME NEW c \in Client, phase[c] # "active",
             \A d \in Client \ {c} : phase'[d] = phase[d] /\ next'[d] = next[d],
             UNCHANGED <<write, at, bgen, todo, failed, who, span>>
      PROVE  OnlyActiveAreServed'
  <2>1. ~Unlocked => c \notin todo
    BY <1>3 DEF OnlyActiveAreServed
  <2>2. at = "sending" => who # c
    BY <1>3 DEF OnlyActiveAreServed
  <2> QED
    BY <1>a, <1>3, <2>1, <2>2 DEF OnlyActiveAreServed, Unlocked, Oldest
(* While the lock is free there is no pass. *)
<1>4. ASSUME Unlocked, UNCHANGED <<at, failed>> PROVE OnlyActiveAreServed'
  BY <1>4 DEF OnlyActiveAreServed, Unlocked
<1>5. ASSUME NEW c \in Client, ReadIndex(c) \/ SendResponse(c) PROVE OnlyActiveAreServed'
  BY <1>a, <1>3, <1>5 DEF ReadIndex, SendResponse
<1>6. ASSUME NEW c \in Client, AddClient(c) \/ ActivateClient(c) \/ RemoveClient(c)
      PROVE  OnlyActiveAreServed'
  BY <1>4, <1>6 DEF AddClient, ActivateClient, RemoveClient
<1>7. CASE DisconnectMount
  BY <1>4, <1>7 DEF DisconnectMount
<1>8. CASE CopyTable \/ TakeLock
  BY <1>a, <1>8 DEF CopyTable, TakeLock, OnlyActiveAreServed, Unlocked
<1>9. ASSUME NEW c \in Client, Fetch(c) PROVE OnlyActiveAreServed'
  <2>1. /\ at = "locked" /\ c \in todo /\ todo' = todo \ {c}
        /\ phase[c] = "active" /\ c \notin failed
        /\ UNCHANGED <<phase, next, failed, write, bgen>>
    BY <1>9 DEF Fetch, OnlyActiveAreServed, Unlocked
  <2>2. CASE ~(next[c] < write[bgen])
    BY <1>9, <2>1, <2>2 DEF Fetch, OnlyActiveAreServed, Unlocked
  <2>3. CASE next[c] < write[bgen]
    <3>1. /\ at' = "sending" /\ who' = c
          /\ span' = [from |-> From(bgen, next[c]), upto |-> write[bgen]]
      BY <1>9, <2>3 DEF Fetch
    <3>2. /\ next[c] <= From(bgen, next[c]) /\ From(bgen, next[c]) < write[bgen]
          /\ From(bgen, next[c]) = next[c] \/ From(bgen, next[c]) <= Oldest(bgen)
      BY <1>a, <2>1, <2>3 DEF From, Oldest
    <3>3. span'.upto <= write'[bgen']
      BY <1>a, <2>1, <3>1
    <3> QED
      BY <2>1, <3>1, <3>2, <3>3 DEF OnlyActiveAreServed, Unlocked, Oldest
  <2> QED
    BY <2>2, <2>3
<1>10. CASE SendSucceeds
  BY <1>10 DEF SendSucceeds, Sent, OnlyActiveAreServed, Unlocked
<1>11. CASE SendFails
  BY <1>11 DEF SendFails, OnlyActiveAreServed, Unlocked
<1>12. CASE ReleaseLock
  BY <1>12 DEF ReleaseLock, OnlyActiveAreServed, Unlocked
<1> QED
  BY <1>1, <1>2, <1>5, <1>6, <1>7, <1>8, <1>9, <1>10, <1>11, <1>12
     DEF Next, BroadcastStep, vars, CreateBuffer, RemoveBuffer

----------------------------------------------------------------------------
(* What the clients have.  Each client's part of the two invariants: *)
Behind(c) ==
    /\ phase[c] \in {"new", "read", "pending", "welcomed"} => got[c] = <<>>
    /\ got[c] # <<>> => bgen # 0
    /\ \A i \in DOMAIN got[c] : got[c][i] <= base[bgen] + write[bgen]
    /\ Serveable(c) => \A i \in DOMAIN got[c] : got[c][i] <= base[bgen] + next[c]
Follows(c) ==
    Serveable(c) /\ got[c] # <<>> /\ got[c][Len(got[c])] > base[bgen]
        => got[c][Len(got[c])] = base[bgen] + next[c]

LEMMA PerClient ==
    /\ SentIsBehindIndex <=> \A c \in Client : Behind(c)
    /\ IndexFollowsLast <=> \A c \in Client : Follows(c)
BY DEF SentIsBehindIndex, IndexFollowsLast, Behind, Follows

LEMMA NothingHasBound ==
    ASSUME NEW c \in Client, got'[c] = <<>> PROVE Behind(c)' /\ Follows(c)'
<1>1. DOMAIN got'[c] = {}
  OBVIOUS
<1> QED
  BY <1>1 DEF Behind, Follows

(* A client that keeps what it has, over the same buffer or a newer one. *)
LEMMA KeepsBound ==
    ASSUME TypeOK, BuffersInOrder, NEW c \in Client, Behind(c), Follows(c),
           got[c] # <<>>, got'[c] = got[c],
           next'[c] = next[c] \/ ~Serveable(c)',
           Serveable(c)' => Serveable(c),
           phase'[c] \in {"new", "read", "pending", "welcomed"} =>
              phase[c] \in {"new", "read", "pending", "welcomed"},
           bgen' \in bgen..gens, base'[bgen'] = base[bgen'],
           write'[bgen'] \in Nat, write'[bgen'] >= write[bgen']
    PROVE  Behind(c)' /\ Follows(c)'
<1>1. /\ bgen \in 1..gens /\ bgen' \in 1..gens
      /\ base[bgen] \in Nat /\ base[bgen'] \in Nat
      /\ write[bgen] \in Nat /\ write[bgen'] \in Nat /\ next[c] \in Nat
      /\ got[c] \in Seq(Nat) /\ DOMAIN got[c] = 1..Len(got[c])
      /\ \A i \in DOMAIN got[c] : got[c][i] \in Nat
      /\ Len(got[c]) \in DOMAIN got[c]
  <2>1. bgen \in 1..gens /\ bgen' \in 1..gens /\ gens \in 0..MaxGens /\ MaxGens \in Nat
    BY BroadcastAssumption DEF TypeOK, Behind
  <2>2. bgen \in Gen /\ bgen' \in Gen
    BY <2>1 DEF Gen
  <2>3. got[c] \in Seq(Nat) /\ next[c] \in Nat
    BY DEF TypeOK
  <2>4. Len(got[c]) \in Nat \ {0} /\ DOMAIN got[c] = 1..Len(got[c])
    BY <2>3, EmptySeq, LenProperties
  <2> QED
    BY <2>1, <2>2, <2>3, <2>4, ElementOfSeq, SMTT(30) DEF TypeOK
<1>2. CASE bgen' = bgen
  <2>1. base'[bgen'] = base[bgen] /\ write'[bgen'] >= write[bgen] /\ write'[bgen'] \in Nat
    BY <1>2
  <2>2. \A i \in DOMAIN got[c] : got[c][i] <= base'[bgen'] + write'[bgen']
    BY <1>1, <2>1, SumsGrow DEF Behind
  <2> QED
    BY <1>1, <1>2, <2>1, <2>2 DEF Behind, Follows
<1>3. CASE bgen' # bgen
  <2>1. base[bgen] + write[bgen] <= base[bgen']
    BY <1>1, <1>3 DEF BuffersInOrder
  <2> DEFINE b == base'[bgen']
             w == write'[bgen']
  <2>2. b \in Nat /\ w \in Nat /\ base[bgen] + write[bgen] <= b
    BY <1>1, <2>1
  <2> HIDE DEF b, w
  <2>3. ASSUME NEW i \in DOMAIN got[c]
        PROVE  got[c][i] <= b /\ got[c][i] <= b + w /\ got[c][i] <= b + next[c]
    <3>1. got[c][i] \in Nat /\ got[c][i] <= base[bgen] + write[bgen]
      BY <1>1 DEF Behind
    <3>2. base[bgen] + write[bgen] \in Nat /\ next[c] \in Nat
      BY <1>1
    <3> QED
      BY <2>2, <3>1, <3>2
  <2>4. ~(got[c][Len(got[c])] > b)
    <3>1. Len(got[c]) \in DOMAIN got[c] /\ got[c][Len(got[c])] \in Nat
      BY <1>1
    <3> QED
      BY <2>2, <2>3, <3>1
  <2> QED
    BY <1>1, <2>3, <2>4 DEF Behind, Follows, b, w
<1> QED
  BY <1>2, <1>3

LEMMA SentStep ==
    TypeOK /\ BuffersInOrder /\ OnlyActiveAreServed /\ SentIsBehindIndex /\ IndexFollowsLast
      /\ [Next]_vars => SentIsBehindIndex' /\ IndexFollowsLast'
<1> SUFFICES ASSUME TypeOK, BuffersInOrder, OnlyActiveAreServed, SentIsBehindIndex,
                    IndexFollowsLast, [Next]_vars, NEW c \in Client
             PROVE  Behind(c)' /\ Follows(c)'
  BY DEF SentIsBehindIndex, IndexFollowsLast, Behind, Follows, Serveable
<1> USE DEF bufferVars, clientVars, threadVars
<1>a. Behind(c) /\ Follows(c)
  BY PerClient
<1>b. /\ phase \in [Client -> {"new", "read", "pending", "welcomed", "active", "gone"}]
      /\ base \in [Gen -> Nat] /\ write \in [Gen -> Nat]
      /\ bgen \in 0..gens /\ 0..gens \subseteq Gen \cup {0} /\ gens \in Nat
      /\ got \in [Client -> Seq(Nat)] /\ cur \in {0, gens}
  BY BroadcastAssumption DEF TypeOK, Gen
<1>c. got[c] # <<>> => bgen \in 1..gens /\ bgen \in Gen
  BY <1>a, <1>b DEF Behind
(* Nothing is sent, and the thread's buffer is only written to. *)
<1>1. ASSUME UNCHANGED <<got, bgen, failed>>, \A g \in Gen : g <= gens => base'[g] = base[g],
             \A g \in Gen : write'[g] \in Nat /\ write'[g] >= write[g],
             next'[c] = next[c] \/ got[c] = <<>>,
             phase'[c] = phase[c] \/ phase'[c] = "gone" \/ got[c] = <<>>
      PROVE  Behind(c)' /\ Follows(c)'
  <2>1. CASE got[c] = <<>>
    BY <1>1, <2>1, NothingHasBound
  <2>2. CASE got[c] # <<>>
    <3>1. /\ bgen' \in bgen..gens /\ base'[bgen'] = base[bgen']
          /\ write'[bgen'] \in Nat /\ write'[bgen'] >= write[bgen']
      BY <1>b, <1>c, <1>1, <2>2
    <3>2. Serveable(c)' => Serveable(c)
      BY <1>1, <2>2 DEF Serveable
    <3> QED
      BY <1>a, <1>1, <2>2, <3>1, <3>2, KeepsBound
  <2> QED
    BY <2>1, <2>2
<1>d. write' = write => \A g \in Gen : write'[g] \in Nat /\ write'[g] >= write[g]
  BY <1>b
<1>2. CASE UNCHANGED <<base, write, phase, next, got, bgen, failed>>
  BY <1>1, <1>2, <1>d
<1>3. CASE CreateBuffer
  BY <1>b, <1>1, <1>3, <1>d DEF CreateBuffer
<1>4. CASE UploadItem
  <2>1. \A g \in Gen : write'[g] \in Nat /\ write'[g] >= write[g]
    BY <1>b, <1>4 DEF UploadItem
  <2> QED
    BY <1>1, <1>4, <2>1 DEF UploadItem
<1>5. ASSUME NEW d \in Client, ReadIndex(d) \/ AddClient(d) \/ SendResponse(d)
             \/ ActivateClient(d) \/ RemoveClient(d)
      PROVE  Behind(c)' /\ Follows(c)'
  <2>1. CASE c = d
    <3>1. phase[c] \in {"new", "read", "pending", "welcomed"} \/ RemoveClient(c)
      BY <1>5, <2>1 DEF ReadIndex, AddClient, SendResponse, ActivateClient
    <3>2. got[c] = <<>> \/ RemoveClient(c)
      BY <1>a, <3>1 DEF Behind
    <3> QED
      BY <1>b, <1>1, <1>5, <1>d, <2>1, <3>2
         DEF ReadIndex, AddClient, SendResponse, ActivateClient, RemoveClient
  <2>2. CASE c # d
    <3>1. /\ UNCHANGED <<got, bgen, failed, base, write>>
          /\ phase'[c] = phase[c] /\ next'[c] = next[c]
      BY <1>b, <1>5, <2>2
         DEF ReadIndex, AddClient, SendResponse, ActivateClient, RemoveClient, TypeOK
    <3> QED
      BY <1>1, <1>d, <3>1
  <2> QED
    BY <2>1, <2>2
<1>6. CASE DisconnectMount
  BY <1>b, <1>1, <1>6, <1>d DEF DisconnectMount
<1>7. CASE CopyTable
  <2>1. CASE got[c] = <<>>
    BY <1>7, <2>1, NothingHasBound DEF CopyTable
  <2>2. CASE got[c] # <<>>
    <3>1. /\ bgen' \in bgen..gens /\ base'[bgen'] = base[bgen']
          /\ write'[bgen'] \in Nat /\ write'[bgen'] >= write[bgen']
      BY <1>b, <1>c, <1>7, <2>2 DEF CopyTable
    <3> QED
      BY <1>a, <1>7, <2>2, <3>1, KeepsBound DEF CopyTable, Serveable
  <2> QED
    BY <2>1, <2>2
<1>8. ASSUME NEW d \in Client, Fetch(d) PROVE Behind(c)' /\ Follows(c)'
  BY <1>2, <1>8 DEF Fetch
(* What is sent lies between the client's index and the write index. *)
<1>9. ASSUME at = "sending", NEW stop \in span.from .. span.upto, c = who,
             got' = [got EXCEPT ![who] = @ \o Items(bgen, span.from, stop)],
             UNCHANGED <<base, write, phase, bgen>>
      PROVE  /\ got'[c] # <<>> => bgen # 0
             /\ phase[c] = "active"
             /\ \A i \in DOMAIN got'[c] : got'[c][i] <= base[bgen] + stop
             /\ \A i \in DOMAIN got'[c] : got'[c][i] <= base[bgen] + write[bgen]
             /\ span.from < stop => got'[c][Len(got'[c])] = base[bgen] + stop
  <2>1. /\ bgen \in 1..gens /\ base[bgen] \in Nat /\ write[bgen] \in Nat
        /\ span.from \in Nat /\ stop \in Nat /\ span.from <= stop /\ stop <= write[bgen]
        /\ next[who] \in Nat /\ got[who] \in Seq(Nat)
        /\ got'[c] = got[c] \o Items(bgen, span.from, stop)
    BY <1>9, SentRun
  <2>2. Serveable(c) /\ next[c] <= span.from /\ phase[c] = "active"
    BY <1>9 DEF OnlyActiveAreServed, Serveable
  <2>3. \A i \in DOMAIN got[c] : got[c][i] \in Nat /\ got[c][i] <= base[bgen] + next[c]
    BY <1>9, <1>a, <2>1, <2>2, ElementOfSeq, LenProperties DEF Behind
  <2> DEFINE new == got[who] \o Items(bgen, span.from, stop)
  <2>4. /\ new \in Seq(Nat)
        /\ \A i \in DOMAIN new :
              \/ i \in DOMAIN got[who] /\ new[i] = got[who][i]
              \/ new[i] > base[bgen] + span.from /\ new[i] <= base[bgen] + stop
        /\ span.from < stop => new[Len(new)] = base[bgen] + stop
    <3>1. /\ got[who] \in Seq(Nat) /\ base[bgen] \in Nat
          /\ span.from \in Nat /\ stop \in Nat /\ span.from <= stop
      BY <2>1
    <3>2. Extends(new, got[who], base[bgen], span.from, stop)
      BY <3>1, Appended
    <3> QED
      BY <3>2 DEF Extends
  <2>5. got'[c] = new /\ got[c] = got[who]
    BY <1>9, <2>1
  <2> HIDE DEF new
  <2>6. ASSUME NEW i \in DOMAIN new
        PROVE  new[i] <= base[bgen] + stop /\ new[i] <= base[bgen] + write[bgen]
    <3>1. new[i] \in Nat /\ base[bgen] \in Nat /\ write[bgen] \in Nat /\ stop \in Nat
      BY <2>1, <2>4, ElementOfSeq, LenProperties
    <3>2. next[c] \in Nat /\ span.from \in Nat /\ next[c] <= stop /\ stop <= write[bgen]
      BY <1>9, <2>1, <2>2
    <3>3. new[i] <= base[bgen] + stop
      BY <2>3, <2>4, <2>5, <3>1, <3>2, SMTT(30)
    <3> QED
      BY <3>1, <3>2, <3>3
  <2> QED
    BY <2>1, <2>2, <2>4, <2>5, <2>6
<1>10. CASE SendSucceeds
  <2>1. /\ at = "sending" /\ UNCHANGED <<base, write, phase, bgen, failed>>
        /\ span.upto \in span.from .. span.upto /\ span.from < span.upto
        /\ got' = [got EXCEPT ![who] = @ \o Items(bgen, span.from, span.upto)]
        /\ next' = [next EXCEPT ![who] = span.upto]
    BY <1>10 DEF SendSucceeds, Sent, OnlyActiveAreServed, TypeOK
  <2>2. CASE c = who
    <3>1. next'[c] = span.upto
      BY <2>1, <2>2 DEF TypeOK
    <3> QED
      BY <1>9, <2>1, <2>2, <3>1 DEF Behind, Follows
  <2>3. CASE c # who
    <3>1. got'[c] = got[c] /\ next'[c] = next[c]
      BY <2>1, <2>3 DEF TypeOK
    <3> QED
      BY <1>a, <2>1, <3>1 DEF Behind, Follows, Serveable
  <2> QED
    BY <2>2, <2>3
<1>11. CASE SendFails
  <2>1. PICK stop \in span.from .. span.upto - 1 :
               got' = [got EXCEPT ![who] = @ \o Items(bgen, span.from, stop)]
    BY <1>11 DEF SendFails
  <2>2. /\ at = "sending" /\ stop \in span.from .. span.upto
        /\ UNCHANGED <<base, write, phase, bgen, next>> /\ failed' = failed \cup {who}
    BY <1>11 DEF SendFails, TypeOK
  <2>3. CASE c = who
    BY <1>9, <2>1, <2>2, <2>3 DEF Behind, Follows, Serveable
  <2>4. CASE c # who
    <3>1. got'[c] = got[c]
      BY <2>1, <2>4 DEF TypeOK
    <3> QED
      BY <1>a, <2>2, <2>4, <3>1 DEF Behind, Follows, Serveable
  <2> QED
    BY <2>3, <2>4
<1>12. CASE ReleaseLock
  <2>1. /\ UNCHANGED <<base, write, next, got, bgen>>
        /\ phase'[c] = IF c \in failed THEN "gone" ELSE phase[c]
    BY <1>12 DEF ReleaseLock
  <2>2. Serveable(c)' => Serveable(c)
    BY <2>1 DEF Serveable
  <2> QED
    BY <1>a, <2>1, <2>2 DEF Behind, Follows
<1> QED
  BY <1>2, <1>3, <1>4, <1>5, <1>6, <1>7, <1>8, <1>10, <1>11, <1>12
     DEF Next, BroadcastStep, vars, RemoveBuffer, TakeLock

LEMMA Invariant == Spec => []IInv
<1>1. IInv /\ [Next]_vars => IInv'
  BY TypeStep, OrderStep, ServedStep, SentStep DEF IInv
<1> QED
  BY InvInit, <1>1, PTL DEF Spec

----------------------------------------------------------------------------
(* The mapping to StreamDelivery, as Delivery has it. *)
Member == [c \in Client |->
             IF phase[c] \in {"new", "read", "pending"} THEN "out"
             ELSE IF phase[c] = "gone" THEN "left" ELSE "in"]

LEMMA LetsGo ==
    ASSUME NEW C \in SUBSET Client, TypeOK,
           phase' = [c \in Client |-> IF c \in C THEN "gone" ELSE phase[c]],
           UNCHANGED <<total, got>>
    PROVE  Delivery!LetGo
<1>1. Member' = [c \in Client |-> IF c \in C THEN "left" ELSE Member[c]]
  BY DEF Member
<1> QED
  BY <1>1 DEF Delivery!LetGo, Member

(* A run of what the client's index misses is published and newer than what *)
(* it has.                                                                  *)
LEMMA Delivers ==
    ASSUME IInv, at = "sending", NEW stop \in span.from .. span.upto,
           got' = [got EXCEPT ![who] = @ \o Items(bgen, span.from, stop)],
           UNCHANGED <<phase, total>>
    PROVE  Delivery!Deliver(who) \/ UNCHANGED <<total, Member, got>>
<1> USE DEF IInv
<1>1. /\ bgen \in 1..gens /\ base[bgen] \in Nat /\ write[bgen] \in Nat
      /\ who \in Client /\ span.from \in Nat /\ stop \in Nat
      /\ span.from <= stop /\ stop <= write[bgen]
      /\ next[who] \in Nat /\ got[who] \in Seq(Nat)
  BY SentRun
<1>2. CASE stop = span.from
  <2>1. Extends(got[who] \o Items(bgen, span.from, stop), got[who], base[bgen], span.from, stop)
    BY <1>1, Appended
  <2>2. got'[who] = got[who]
    BY <1>1, <1>2, <2>1 DEF Extends, TypeOK
  <2>3. got' = got
    BY <1>1, <2>2 DEF TypeOK
  <2> QED
    BY <2>3 DEF Member
<1>3. CASE stop # span.from
  <2> DEFINE first == base[bgen] + span.from + 1
             last == base[bgen] + stop
  <2>1. /\ first \in 1..total /\ last \in first..total
    <3>1. base[bgen] + write[bgen] <= total /\ total \in Nat
      BY <1>1 DEF BuffersInOrder, TypeOK
    <3>2. first \in Nat /\ last \in Nat /\ 1 <= first /\ first <= last
      BY <1>1, <1>3, FirstToLast
    <3>3. last <= base[bgen] + write[bgen] /\ base[bgen] + write[bgen] \in Nat
      BY <1>1
    <3> HIDE DEF first, last
    <3> QED
      BY <3>1, <3>2, <3>3
  <2>2. \A i \in DOMAIN got[who] : got[who][i] < first
    <3>1. Serveable(who) /\ next[who] <= span.from
      BY DEF OnlyActiveAreServed, Serveable
    <3>2. ASSUME NEW i \in DOMAIN got[who] PROVE got[who][i] < first
      <4>1. got[who][i] <= base[bgen] + next[who]
        BY <1>1, <3>1 DEF SentIsBehindIndex
      <4>2. got[who][i] \in Nat
        BY <1>1, ElementOfSeq, LenProperties
      <4> QED
        BY <1>1, <3>1, <4>1, <4>2, SMTT(30)
    <3> QED
      BY <3>2
  <2>3. Items(bgen, span.from, stop) = [i \in 1..(last + 1 - first) |-> first + i - 1]
    <3>1. last + 1 - first = stop - span.from
      <4>1. \A b, f, t \in Nat : (b + t) + 1 - (b + f + 1) = t - f
        OBVIOUS
      <4> QED
        BY <1>1, <4>1
    <3>2. \A i \in 1..(stop - span.from) : base[bgen] + span.from + i = first + i - 1
      BY <1>1
    <3> QED
      BY <3>1, <3>2 DEF Items
  <2>4. Member[who] = "in"
    BY <1>1 DEF OnlyActiveAreServed, Member
  <2> HIDE DEF first, last
  <2>5. got' = [got EXCEPT ![who] = @ \o [i \in 1..(last + 1 - first) |-> first + i - 1]]
    BY <2>3
  <2>6. /\ \E f \in 1..total : \E l \in f..total :
             /\ \A i \in DOMAIN got[who] : got[who][i] < f
             /\ got' = [got EXCEPT ![who] = @ \o [i \in 1..(l + 1 - f) |-> f + i - 1]]
    BY <2>1, <2>2, <2>5
  <2> QED
    BY <2>4, <2>6 DEF Delivery!Deliver, Member
<1> QED
  BY <1>2, <1>3

LEMMA SendsRun ==
    ASSUME IInv, SendSucceeds \/ SendFails
    PROVE  \E stop \in span.from .. span.upto :
              got' = [got EXCEPT ![who] = @ \o Items(bgen, span.from, stop)]
<1>1. span.from \in Nat /\ span.upto \in Nat
  BY DEF IInv, TypeOK
<1>2. CASE SendSucceeds
  <2>1. span.upto \in span.from .. span.upto
    BY <1>1, <1>2 DEF IInv, SendSucceeds, Sent, OnlyActiveAreServed
  <2> QED
    BY <1>2, <2>1 DEF SendSucceeds, Sent
<1>3. CASE SendFails
  <2>1. PICK stop \in span.from .. span.upto - 1 :
               got' = [got EXCEPT ![who] = @ \o Items(bgen, span.from, stop)]
    BY <1>3 DEF SendFails
  <2>2. stop \in span.from .. span.upto
    BY <1>1
  <2> QED
    BY <2>1, <2>2
<1> QED
  BY <1>2, <1>3

LEMMA StepImplements == IInv /\ [Next]_vars => [Delivery!DNext]_(Delivery!dvars)
<1> SUFFICES ASSUME IInv, [Next]_vars
             PROVE  Delivery!DNext \/ UNCHANGED <<total, Member, got>>
  BY DEF Delivery!dvars, Member
<1>a. /\ TypeOK /\ OnlyActiveAreServed
      /\ phase \in [Client -> {"new", "read", "pending", "welcomed", "active", "gone"}]
      /\ failed \in SUBSET Client
  BY DEF IInv, TypeOK
<1> USE DEF bufferVars, clientVars, threadVars
<1>1. CASE UNCHANGED <<total, phase, got>>
  BY <1>1 DEF Member
<1>2. CASE UploadItem
  <2>1. Delivery!Publish
    BY <1>2 DEF UploadItem, Delivery!Publish
  <2> QED
    BY <2>1 DEF Delivery!DNext
<1>3. ASSUME NEW c \in Client, ReadIndex(c) \/ ActivateClient(c)
      PROVE  Delivery!DNext \/ UNCHANGED <<total, Member, got>>
  <2>1. Member' = Member
    BY <1>a, <1>3 DEF ReadIndex, ActivateClient, Member
  <2> QED
    BY <1>3, <2>1 DEF ReadIndex, ActivateClient
<1>4. ASSUME NEW c \in Client, phase' = [phase EXCEPT ![c] = "gone"], UNCHANGED <<total, got>>
      PROVE  Delivery!DNext
  <2>1. phase' = [d \in Client |-> IF d \in {c} THEN "gone" ELSE phase[d]]
    BY <1>a, <1>4
  <2>2. Delivery!LetGo
    BY <1>a, <1>4, <2>1, LetsGo
  <2> QED
    BY <2>2 DEF Delivery!DNext
<1>5. ASSUME NEW c \in Client, AddClient(c)
      PROVE  Delivery!DNext \/ UNCHANGED <<total, Member, got>>
  <2>1. CASE phase' = [phase EXCEPT ![c] = "pending"]
    <3>1. Member' = Member
      BY <1>a, <1>5, <2>1 DEF AddClient, Member
    <3> QED
      BY <1>5, <3>1 DEF AddClient
  <2>2. CASE phase' = [phase EXCEPT ![c] = "gone"]
    BY <1>4, <1>5, <2>2 DEF AddClient
  <2> QED
    BY <1>5, <2>1, <2>2 DEF AddClient
<1>6. ASSUME NEW c \in Client, SendResponse(c) PROVE Delivery!DNext
  <2>1. Member[c] = "out" /\ Member' = [Member EXCEPT ![c] = "in"]
    BY <1>a, <1>6 DEF SendResponse, Member
  <2>2. Delivery!Welcome(c)
    BY <1>6, <2>1 DEF SendResponse, Member, Delivery!Welcome
  <2> QED
    BY <2>2 DEF Delivery!DNext
<1>7. ASSUME NEW c \in Client, RemoveClient(c) PROVE Delivery!DNext
  BY <1>4, <1>7 DEF RemoveClient
<1>8. CASE DisconnectMount \/ ReleaseLock
  <2>1. /\ \E C \in SUBSET Client :
              phase' = [c \in Client |-> IF c \in C THEN "gone" ELSE phase[c]]
        /\ UNCHANGED <<total, got>>
    BY <1>a, <1>8 DEF DisconnectMount, ReleaseLock, Registered
  <2>2. Delivery!LetGo
    BY <1>a, <2>1, LetsGo
  <2> QED
    BY <2>2 DEF Delivery!DNext
<1>9. CASE SendSucceeds \/ SendFails
  <2>1. PICK stop \in span.from .. span.upto :
               got' = [got EXCEPT ![who] = @ \o Items(bgen, span.from, stop)]
    BY <1>9, SendsRun
  <2>2. at = "sending" /\ UNCHANGED <<phase, total>>
    BY <1>9 DEF SendSucceeds, SendFails, Sent
  <2>3. who \in Client
    BY <1>a, <2>2 DEF TypeOK
  <2>4. Delivery!Deliver(who) \/ UNCHANGED <<total, Member, got>>
    BY <2>1, <2>2, Delivers
  <2> QED
    BY <2>3, <2>4 DEF Delivery!DNext
<1>10. ASSUME NEW c \in Client, Fetch(c) PROVE UNCHANGED <<total, Member, got>>
  BY <1>1, <1>10 DEF Fetch, Member
<1> QED
  BY <1>1, <1>2, <1>3, <1>5, <1>6, <1>7, <1>8, <1>9, <1>10
     DEF Next, BroadcastStep, vars, CreateBuffer, RemoveBuffer, CopyTable, TakeLock

----------------------------------------------------------------------------
(* Every variable keeps its type. *)
THEOREM TypesHold == Spec => []TypeOK
<1>1. IInv => TypeOK
  BY DEF IInv
<1> QED
  BY Invariant, <1>1, PTL

(* The forwarder's buffers, indices and lock deliver what StreamDelivery    *)
(* promises a rover: after its welcome, in order, each item once, nothing   *)
(* after its removal, through any replacement of the buffer.                *)
THEOREM DeliversStreams == Spec => RefinesDelivery
<1>1. Init => Delivery!DInit
  BY DEF Init, Delivery!DInit
<1>2. IInv /\ [Next]_vars => [Delivery!DNext]_(Delivery!dvars)
  BY StepImplements
<1> QED
  BY <1>1, <1>2, Invariant, PTL DEF Spec, RefinesDelivery, Delivery!DSpec

----------------------------------------------------------------------------
(* What a step sends leaves no gap in the ring. *)
SkipsNothing(c) ==
    LET last == IF got[c] = <<>> THEN 0 ELSE got[c][Len(got[c])]
        new == got'[c][Len(got'[c])]
    IN  got'[c] # got[c] /\ last > base[bgen] =>
          \A i \in Oldest(bgen) .. write[bgen] - 1 :
             LET item == base[bgen] + i + 1 IN
             last < item /\ item < new => \E j \in DOMAIN got'[c] : got'[c][j] = item

LEMMA RunSkipsNothing ==
    ASSUME IInv, at = "sending", NEW stop \in span.from .. span.upto,
           got' = [got EXCEPT ![who] = @ \o Items(bgen, span.from, stop)]
    PROVE  SkipsNothing(who)
<1> USE DEF IInv
<1> DEFINE s == got[who]
           t == got'[who]
           last == IF s = <<>> THEN 0 ELSE s[Len(s)]
<1>1. /\ bgen \in Gen /\ base[bgen] \in Nat /\ write[bgen] \in Nat
      /\ who \in Client /\ span.from \in Nat /\ stop \in Nat
      /\ span.from <= stop /\ next[who] \in Nat /\ s \in Seq(Nat)
      /\ t = s \o Items(bgen, span.from, stop)
  BY SentRun
<1>2. Extends(t, s, base[bgen], span.from, stop)
  BY <1>1, Appended
<1>3. Oldest(bgen) \in Nat
  BY <1>1, BroadcastAssumption DEF Oldest
<1>4. span.from = next[who] \/ span.from <= Oldest(bgen)
  BY DEF OnlyActiveAreServed
<1>5. last > base[bgen] => last = base[bgen] + next[who]
  BY <1>1 DEF IndexFollowsLast, OnlyActiveAreServed, Serveable
<1>6. Len(s) \in Nat /\ Len(t) = Len(s) + (stop - span.from) /\ DOMAIN t = 1..Len(t)
  BY <1>1, <1>2, LenProperties DEF Extends
<1> HIDE DEF s, t, last
<1>7. ASSUME t # s, last > base[bgen], NEW i \in Oldest(bgen) .. write[bgen] - 1,
             last < base[bgen] + i + 1, base[bgen] + i + 1 < t[Len(t)]
      PROVE  \E j \in DOMAIN t : t[j] = base[bgen] + i + 1
  <2>1. span.from < stop /\ t[Len(t)] = base[bgen] + stop
    <3>1. span.from # stop
      BY <1>2, <1>7 DEF Extends
    <3>2. span.from < stop
      BY <1>1, <3>1
    <3> QED
      BY <1>2, <3>2 DEF Extends
  <2>2. last = base[bgen] + next[who] /\ i \in Nat /\ Oldest(bgen) <= i
    BY <1>1, <1>3, <1>5, <1>7
  <2>3. span.from <= i
    <3>1. next[who] < i + 1
      BY <1>1, <1>7, <2>2, SMTT(30)
    <3> QED
      BY <1>1, <1>3, <1>4, <2>2, <3>1
  <2>4. i + 1 < stop
    BY <1>1, <1>7, <2>1, <2>2
  <2> DEFINE k == i + 1 - span.from
  <2>5. k \in 1..(stop - span.from) /\ span.from + k = i + 1
    BY <1>1, <2>2, <2>3, <2>4, PlaceInRun
  <2> HIDE DEF k
  <2>6. t[Len(s) + k] = base[bgen] + span.from + k
    BY <1>2, <2>5 DEF Extends
  <2>7. Len(s) + k \in DOMAIN t
    <3>1. Len(s) + k \in 1..(Len(s) + (stop - span.from))
      BY <1>1, <1>6, <2>5
    <3> QED
      BY <1>6, <3>1
  <2>8. base[bgen] + span.from + k = base[bgen] + i + 1
    <3>1. base[bgen] \in Nat /\ span.from \in Nat /\ k \in Nat /\ i \in Nat
      BY <1>1, <2>2, <2>5
    <3>2. base[bgen] + span.from + k = base[bgen] + (span.from + k)
      BY <3>1, SumsAssociate
    <3>3. base[bgen] + i + 1 = base[bgen] + (i + 1)
      BY <3>1, SumsAssociate
    <3> QED
      BY <2>5, <3>2, <3>3
  <2> QED
    BY <2>6, <2>7, <2>8
<1> QED
  BY <1>7 DEF SkipsNothing, s, t, last

LEMMA StepSkipsNothing ==
    ASSUME IInv, [Next]_vars, NEW c \in Client PROVE SkipsNothing(c)
<1> USE DEF bufferVars, clientVars, threadVars
<1>1. CASE got'[c] = got[c]
  BY <1>1 DEF SkipsNothing
<1>2. CASE SendSucceeds \/ SendFails
  <2>1. PICK stop \in span.from .. span.upto :
               got' = [got EXCEPT ![who] = @ \o Items(bgen, span.from, stop)]
    BY <1>2, SendsRun
  <2>2. at = "sending"
    BY <1>2 DEF SendSucceeds, SendFails, Sent
  <2>3. CASE c = who
    BY <2>1, <2>2, <2>3, RunSkipsNothing
  <2>4. CASE c # who
    BY <1>1, <2>1, <2>4 DEF IInv, TypeOK
  <2> QED
    BY <2>3, <2>4
<1>3. CASE got' = got
  BY <1>1, <1>3
<1>4. ASSUME NEW d \in Client, ReadIndex(d) \/ AddClient(d) \/ SendResponse(d)
             \/ ActivateClient(d) \/ RemoveClient(d) \/ Fetch(d)
      PROVE  got' = got
  BY <1>4 DEF ReadIndex, AddClient, SendResponse, ActivateClient, RemoveClient, Fetch
<1> QED
  BY <1>2, <1>3, <1>4
     DEF Next, BroadcastStep, vars, CreateBuffer, UploadItem, RemoveBuffer, DisconnectMount,
         CopyTable, TakeLock, ReleaseLock

(* A client that has something of the buffer being sent misses nothing of   *)
(* it that is still in the ring, whatever was uploaded during the pass.     *)
THEOREM NothingIsSkipped == Spec => NothingSkippedInRing
<1>1. IInv /\ [Next]_vars => \A c \in Client : SkipsNothing(c)
  BY StepSkipsNothing
<1> QED
  BY <1>1, Invariant, PTL DEF Spec, NothingSkippedInRing, SkipsNothing

----------------------------------------------------------------------------
(***************************************************************************)
(* Service.                                                                 *)
(***************************************************************************)

(* Whether a call of stop_all_services is at one of these steps, on the     *)
(* main thread, in any of its frames, or on the web request's.              *)
AtOneOf(labels) == other \in labels \/ \E i \in DOMAIN frames : frames[i] \in labels

(* The claim is taken by one call, which stays in the cleanup until it has  *)
(* completed; a call nested in it or beside it never enters the cleanup.    *)
OneCleaner ==
    /\ owner = "nobody" => ~complete
    /\ owner # "nobody" => complete \/ AtOneOf(Cleaning)
    /\ complete \/ owner = "nobody" => ~AtOneOf(Cleaning)
    /\ owner = "main" => other \notin Cleaning
    /\ owner = "other" => \A i \in DOMAIN frames : frames[i] \notin Cleaning
    /\ \A i, j \in DOMAIN frames :
          frames[i] \in Cleaning /\ frames[j] \in Cleaning => i = j
    /\ other # "none" => asked.request

(* What the order of the start gives: which part is there before another.   *)
StartsInOrder ==
    /\ main \in {"push", "webThread"} \/ "push" \in up \/ web.thread # "none" => web.manager
    /\ main = "ntrip" \/ ntrip.thread # "none" => ntrip.caster
    /\ main \in {"forwarder", "web", "push", "webThread", "caster", "ntrip"} =>
          ntrip.thread = "none"
    /\ ntrip.thread = "none" => ntrip.socket = "none" /\ ~ntrip.running /\ ~ntrip.pool
    /\ owner = "nobody" /\ ntrip.stopped => ntrip.thread = "ended" /\ ~ntrip.pool

(* A start that was over when the shutdown was claimed stays over.          *)
StartStaysOver ==
    started =>
        /\ owner # "nobody"
        /\ main \in Loop \cup {"finally", "leaving", "exited"}
        /\ ntrip.thread \notin {"bind", "announce"}
        /\ ntrip.stopped => ~ntrip.pool

(* What each step of the cleanup has stopped stays stopped.                 *)
Beyond(labels) == complete \/ AtOneOf(labels)
AfterAccept == Cleaning \ {"accept"}
AfterWebRequest == AfterAccept \ {"webRequest"}
AfterPush == {"forwarder", "caster", "finish"}
AfterForwarder == {"caster", "finish"}

ListenerStopped == Beyond(AfterAccept) => ntrip.socket = "none" /\ ~ntrip.running
WebStopped ==
    Beyond(AfterWebRequest) /\ "webRequest" \notin raised =>
        web.thread # "serving" /\ (web.manager => web.requested)
PushStopped == Beyond(AfterPush) /\ "push" \in up => "push" \in raised
ForwarderStopped == Beyond(AfterForwarder) /\ "forwarder" \in up => "forwarder" \in raised
PoolStopped == Beyond({"finish"}) /\ ntrip.pool => "caster" \in raised

StoppedStaysStopped ==
    started =>
        ListenerStopped /\ WebStopped /\ PushStopped /\ ForwarderStopped /\ PoolStopped

ServiceIInv == ServiceTypeOK /\ OneCleaner /\ StartsInOrder /\ StartStaysOver /\ StoppedStaysStopped

----------------------------------------------------------------------------
Label == {"call", "locked", "await", "return"} \cup Cleaning

(* A call that goes on changes its own place only: the web request's, or    *)
(* the last frame.                                                          *)
LEMMA CallMoves ==
    ASSUME frames \in Seq(Label), NEW p \in Caller, NEW label \in Label,
           At(p) # "none", Goto(p, label)
    PROVE  \/ /\ p = "other" /\ At(p) = other
              /\ other' = label /\ frames' = frames
           \/ /\ p = "main" /\ other' = other
              /\ Len(frames) \in DOMAIN frames /\ At(p) = frames[Len(frames)]
              /\ frames' \in Seq(Label) /\ DOMAIN frames' = DOMAIN frames
              /\ frames'[Len(frames)] = label
              /\ \A i \in DOMAIN frames : i # Len(frames) => frames'[i] = frames[i]
<1>1. CASE p = "other"
  BY <1>1 DEF At, Goto
<1>2. CASE p = "main"
  <2>1. frames # <<>> /\ frames' = [frames EXCEPT ![Len(frames)] = label] /\ other' = other
    BY <1>2 DEF At, Goto
  <2>2. Len(frames) \in 1 .. Len(frames) /\ DOMAIN frames = 1 .. Len(frames)
    BY <2>1
  <2>3. At(p) = frames[Len(frames)]
    BY <1>2, <2>1 DEF At, Last
  <2>4. frames' \in Seq(Label) /\ Len(frames') = Len(frames)
    BY <2>1, <2>2, ExceptSeq
  <2> QED
    BY <1>2, <2>1, <2>2, <2>3, <2>4
<1> QED
  BY <1>1, <1>2 DEF Caller

LEMMA SignalPushes ==
    ASSUME frames \in Seq(Label), frames' = Append(frames, "call")
    PROVE  /\ frames' \in Seq(Label) /\ Len(frames) \in Nat
           /\ DOMAIN frames = 1 .. Len(frames) /\ DOMAIN frames' = 1 .. Len(frames) + 1
           /\ frames'[Len(frames) + 1] = "call"
           /\ \A i \in DOMAIN frames : frames'[i] = frames[i]
<1> "call" \in Label
  BY DEF Label
<1> QED
  BY AppendProperties, LenProperties

LEMMA ReturnPops ==
    ASSUME frames \in Seq(Label), frames # <<>>, frames' = Front(frames)
    PROVE  /\ frames' \in Seq(Label)
           /\ DOMAIN frames' = DOMAIN frames \ {Len(frames)}
           /\ \A i \in DOMAIN frames' : frames'[i] = frames[i]
<1>1. Len(frames) \in Nat \ {0} /\ DOMAIN frames = 1 .. Len(frames)
  BY EmptySeq, LenProperties
<1>2. frames' = SubSeq(frames, 1, Len(frames) - 1)
  BY DEF Front
<1>3. \A i \in 1 .. Len(frames) - 1 : frames[i] \in Label
  BY <1>1, ElementOfSeq
<1>4. /\ frames' \in Seq(Label) /\ Len(frames') = Len(frames) - 1
      /\ \A i \in 1 .. Len(frames) - 1 : frames'[i] = frames[i]
  BY <1>1, <1>2, <1>3, SubSeqProperties
<1>5. DOMAIN frames' = 1 .. Len(frames) - 1
  BY <1>4, LenProperties
<1> QED
  BY <1>1, <1>4, <1>5

NtripState ==
    [caster : BOOLEAN, thread : {"none", "bind", "announce", "listen", "ended"},
     socket : {"none", "open"}, running : BOOLEAN, stopped : BOOLEAN, pool : BOOLEAN]

LEMMA NtripStoppedIs ==
    ASSUME NEW n \in NtripState
    PROVE  /\ NtripStopped(n) \in NtripState
           /\ NtripStopped(n).socket = "none" /\ ~NtripStopped(n).running
           /\ NtripStopped(n).stopped /\ ~NtripStopped(n).pool
           /\ NtripStopped(n).caster = n.caster /\ NtripStopped(n).thread = n.thread
BY DEF NtripState, NtripStopped

LEMMA ServiceTypeStep == ServiceTypeOK /\ [ServiceNext]_serviceVars => ServiceTypeOK'
<1> SUFFICES ASSUME ServiceTypeOK, [ServiceNext]_serviceVars PROVE ServiceTypeOK'
  OBVIOUS
<1>a. frames \in Seq(Label)
  BY DEF ServiceTypeOK, Label
<1>b. ASSUME NEW p \in Caller, NEW label \in Label, At(p) # "none", Goto(p, label)
      PROVE  /\ frames' \in Seq({"call", "locked", "await", "return"} \cup Cleaning)
             /\ other' \in {"none", "call", "locked", "await", "return", "done"} \cup Cleaning
  BY <1>a, <1>b, CallMoves DEF ServiceTypeOK, Label
<1>c. <<>> \in Seq(Label) /\ <<"call">> \in Seq(Label)
  BY DEF Label
<1>d. ntrip \in NtripState /\ NtripStopped(ntrip) \in NtripState
  <2>1. ntrip \in NtripState
    BY DEF ServiceTypeOK, NtripState
  <2> QED
    BY <2>1, NtripStoppedIs
<1> USE DEF ServiceTypeOK, stopVars, partVars, Loop, MainGoes
<1>1. CASE UNCHANGED serviceVars
  BY <1>1 DEF serviceVars
<1>2. CASE MainStep \/ StartFails
  BY <1>2, <1>c, ZenonT(40)
  DEF MainStep, StartFails, StartForwarder, StartWebManager, StartPush, StartWebThread,
     MakeCaster, StartNtripThread, StartWait, SetRunning, LoopChecks, LoopWaits, MainStops,
     MainExits, Label
<1>3. CASE WebStep
  BY <1>3 DEF WebStep, MakeServer, Serve, ServingEnds
<1>4. CASE NtripStep
  <2>1. ntrip' \in NtripState
    <3>1. CASE Bind /\ ntrip.stopped
      BY <3>1, <1>d, ZenonT(40) DEF Bind, NtripState
    <3>2. CASE Bind /\ ~ntrip.stopped
      <4>1. \/ ntrip' = [ntrip EXCEPT !.thread = "announce", !.socket = "open"]
            \/ ntrip' = [NtripStopped(ntrip) EXCEPT !.thread = "ended"]
        BY <3>2 DEF Bind
      <4> HIDE DEF ServiceTypeOK
      <4> QED
        BY <4>1, <1>d DEF NtripState
    <3>3. CASE Announce
      BY <3>3, <1>d DEF Announce, NtripState
    <3>4. CASE ListenerEnds
      BY <3>4, <1>d DEF ListenerEnds, NtripState
    <3> QED
      BY <1>4, <3>1, <3>2, <3>3, <3>4 DEF NtripStep
  <2> QED
    BY <1>4, <2>1 DEF NtripStep, Bind, Announce, ListenerEnds, NtripState
<1>5. CASE Signal
  BY <1>5, <1>a, SignalPushes, ServiceAssumption DEF Signal, Label
<1>6. CASE RequestShutdown
  <2>1. asked' \in [signals : 0..MaxSignals, request : BOOLEAN]
    BY <1>6 DEF RequestShutdown
  <2>2. other' = "call" /\ UNCHANGED <<main, frames, running, stopVars, partVars>>
    BY <1>6 DEF RequestShutdown
  <2> QED
    BY <2>1, <2>2
<1>7. ASSUME NEW p \in Caller, EnterLock(p) PROVE ServiceTypeOK'
  BY <1>7, <1>b DEF EnterLock, Label
<1>8. ASSUME NEW p \in Caller, Claim(p) PROVE ServiceTypeOK'
  <2>1. started' \in BOOLEAN /\ owner' \in {"nobody"} \cup Caller
    BY <1>8 DEF Claim, StartIsOver
  <2>2. PICK label \in {"accept", "return", "await"} : Goto(p, label)
    BY <1>8 DEF Claim
  <2>3. /\ frames' \in Seq({"call", "locked", "await", "return"} \cup Cleaning)
        /\ other' \in {"none", "call", "locked", "await", "return", "done"} \cup Cleaning
    BY <1>8, <1>b, <2>2 DEF Claim, Label, Cleaning
  <2> QED
    BY <1>8, <2>1, <2>3 DEF Claim
<1>9. ASSUME NEW p \in Caller, AwaitOwner(p) PROVE ServiceTypeOK'
  BY <1>9, <1>b DEF AwaitOwner, Label
<1>10. ASSUME NEW p \in Caller, Return(p) PROVE ServiceTypeOK'
  <2>1. CASE p = "other"
    BY <1>10, <2>1 DEF Return
  <2>2. CASE p # "other"
    <3>1. frames # <<>> /\ frames' = Front(frames)
      BY <1>10, <2>2 DEF Return, At
    <3>2. frames' \in Seq(Label)
      BY <3>1, <1>a, ReturnPops
    <3> QED
      BY <1>10, <2>2, <3>2 DEF Return, Label
  <2> QED
    BY <2>1, <2>2
<1>11. ASSUME NEW p \in Caller,
              \/ StopAccepting(p) \/ StopWebServer(p) \/ StopWebWaits(p) \/ SetEvent(p)
              \/ StopPush(p) \/ StopForwarder(p) \/ StopCaster(p) \/ Finish(p)
       PROVE  ServiceTypeOK'
  <2>1. PICK label \in {"webRequest", "webWait", "event", "push", "forwarder", "caster",
                        "finish", "return"} : Goto(p, label) /\ At(p) # "none"
    BY <1>11 DEF StopAccepting, StopWebServer, StopWebWaits, SetEvent, StopPush,
                 StopForwarder, StopCaster, Finish
  <2>2. /\ frames' \in Seq({"call", "locked", "await", "return"} \cup Cleaning)
        /\ other' \in {"none", "call", "locked", "await", "return", "done"} \cup Cleaning
    BY <1>b, <2>1 DEF Label, Cleaning
  <2>3. ntrip' \in NtripState
    <3>1. CASE StopAccepting(p)
      BY <3>1, <1>d DEF StopAccepting, NtripState
    <3>2. CASE StopCaster(p)
      BY <3>2, <1>d DEF StopCaster
    <3> QED
      BY <1>11, <1>d, <3>1, <3>2 DEF StopWebServer, StopWebWaits, SetEvent, StopPush,
         StopForwarder, Finish
  <2>4. web' \in [manager : BOOLEAN, requested : BOOLEAN,
                  thread : {"none", "run", "made", "serving", "told", "ended"}]
    BY <1>11, ZenonT(40) DEF StopAccepting, StopWebServer, StopWebWaits, SetEvent, StopPush,
                 StopForwarder, StopCaster, Finish
  <2>5. CASE StopAccepting(p)
    <3>1. running' \in BOOLEAN /\ UNCHANGED <<main, asked, stopVars, up, web>>
      BY <2>5 DEF StopAccepting
    <3> QED
      BY <2>2, <2>3, <3>1 DEF NtripState
  <2>6. CASE StopWebServer(p) \/ StopWebWaits(p) \/ SetEvent(p)
    BY <2>2, <2>4, <2>6, ZenonT(40) DEF StopWebServer, StopWebWaits, SetEvent
  <2>7. CASE StopPush(p) \/ StopForwarder(p)
    <3>1. up' \in SUBSET {"forwarder", "push"}
      BY <2>7 DEF StopPush, StopForwarder
    <3>2. UNCHANGED <<main, asked, running, lock, owner, started, event, complete, raised, web, ntrip>>
      BY <2>7 DEF StopPush, StopForwarder
    <3> QED
      BY <2>2, <3>1, <3>2
  <2>8. CASE StopCaster(p) \/ Finish(p)
    BY <2>2, <2>3, <2>8, ZenonT(40) DEF StopCaster, Finish, NtripState
  <2> QED
    BY <1>11, <2>5, <2>6, <2>7, <2>8
<1>12. ASSUME NEW p \in Caller, CleanupRaises(p) PROVE ServiceTypeOK'
  <2>1. After(At(p)) \in Label /\ At(p) # "none"
    BY <1>12 DEF CleanupRaises, After, Guarded, Label, Cleaning
  <2>2. /\ frames' \in Seq({"call", "locked", "await", "return"} \cup Cleaning)
        /\ other' \in {"none", "call", "locked", "await", "return", "done"} \cup Cleaning
    BY <1>12, <1>b, <2>1 DEF CleanupRaises
  <2> QED
    <3>1. raised' \in SUBSET Guarded
      BY <1>12 DEF CleanupRaises
    <3>2. UNCHANGED <<main, asked, running, lock, owner, started, event, complete, partVars>>
      BY <1>12 DEF CleanupRaises
    <3> QED
      BY <2>2, <3>1, <3>2
<1> QED
  BY <1>1, <1>2, <1>3, <1>4, <1>5, <1>6, <1>7, <1>8, <1>9, <1>10, <1>11, <1>12
     DEF ServiceNext, StopStep

(* A call that goes on within the cleanup, or outside of it, changes nothing *)
(* about who cleans up.                                                     *)
LEMMA CleanerStays ==
    ASSUME frames \in Seq(Label), OneCleaner, NEW p \in Caller, NEW label \in Label,
           At(p) # "none", Goto(p, label), At(p) \in Cleaning <=> label \in Cleaning,
           UNCHANGED <<owner, complete, asked>>
    PROVE  OneCleaner'
BY CallMoves, Zenon DEF OneCleaner, AtOneOf

LEMMA PlaceMoves ==
    ASSUME frames \in Seq(Label), NEW p \in Caller, NEW label \in Label,
           At(p) # "none", Goto(p, label), NEW labels, AtOneOf(labels)'
    PROVE  label \in labels \/ AtOneOf(labels)
BY CallMoves, Zenon DEF AtOneOf

(* What is on the stack or beside it, when a call is pushed on it: nothing  *)
(* new but the call.                                                        *)
LEMMA CleanerStep == ServiceTypeOK /\ OneCleaner /\ [ServiceNext]_serviceVars => OneCleaner'
<1> SUFFICES ASSUME ServiceTypeOK, OneCleaner, [ServiceNext]_serviceVars PROVE OneCleaner'
  OBVIOUS
<1>a. frames \in Seq(Label)
  BY DEF ServiceTypeOK, Label
<1>b. {"call", "locked", "await", "return", "none", "done"} \cap Cleaning = {}
  BY DEF Cleaning
<1>1. CASE UNCHANGED <<frames, other, owner, complete, asked>>
  BY <1>1 DEF OneCleaner, AtOneOf
<1>2. ASSUME frames = <<>>, frames' = <<"call">>, UNCHANGED <<other, owner, complete, asked>>
      PROVE  OneCleaner'
  <2>1. DOMAIN frames = {} /\ DOMAIN frames' = {1} /\ frames'[1] = "call"
    BY <1>2
  <2> QED
    BY <1>2, <1>b, <2>1 DEF OneCleaner, AtOneOf
<1>3. CASE MainStep \/ StartFails
  BY <1>1, <1>2, <1>3 DEF MainStep, StartFails, StartForwarder, StartWebManager, StartPush,
     StartWebThread, MakeCaster, StartNtripThread, StartWait, SetRunning, LoopChecks, LoopWaits,
     MainStops, MainExits, MainGoes, stopVars
<1>4. CASE WebStep \/ NtripStep
  BY <1>1, <1>4 DEF WebStep, MakeServer, Serve, ServingEnds, NtripStep, Bind, Announce,
     ListenerEnds, stopVars
<1>5. CASE Signal
  <2>1. /\ frames' = Append(frames, "call") /\ UNCHANGED <<other, owner, complete>>
        /\ asked'.request = asked.request
    BY <1>5 DEF Signal, stopVars, ServiceTypeOK
  <2>2. /\ DOMAIN frames = 1 .. Len(frames) /\ DOMAIN frames' = 1 .. Len(frames) + 1
        /\ Len(frames) \in Nat
        /\ frames'[Len(frames) + 1] \notin Cleaning
        /\ \A i \in DOMAIN frames : frames'[i] = frames[i]
    BY <2>1, <1>a, <1>b, SignalPushes
  <2>3. \A i \in DOMAIN frames' :
           frames'[i] \in Cleaning => i \in DOMAIN frames /\ frames[i] \in Cleaning
    BY <2>2
  <2>4. AtOneOf(Cleaning)' <=> AtOneOf(Cleaning)
    BY <2>1, <2>2, <2>3 DEF AtOneOf
  <2> QED
    BY <2>1, <2>3, <2>4 DEF OneCleaner
<1>6. CASE RequestShutdown
  <2>1. /\ other = "none" /\ other' = "call" /\ asked'.request
        /\ UNCHANGED <<frames, owner, complete>>
    BY <1>6 DEF RequestShutdown, stopVars, ServiceTypeOK, OneCleaner
  <2> QED
    BY <2>1, <1>b DEF OneCleaner, AtOneOf
<1>7. ASSUME NEW p \in Caller, EnterLock(p) \/ AwaitOwner(p) PROVE OneCleaner'
  <2>1. PICK label \in {"locked", "return"} :
           /\ Goto(p, label) /\ At(p) \in {"call", "await"}
           /\ UNCHANGED <<owner, complete, asked>>
    BY <1>7 DEF EnterLock, AwaitOwner, stopVars
  <2> QED
    BY <2>1, <1>a, <1>b, CleanerStays DEF Label
<1>8. ASSUME NEW p \in Caller, Claim(p) PROVE OneCleaner'
  <2>1. CASE owner = "nobody" /\ owner' = p /\ Goto(p, "accept")
    <3>1. complete' = complete /\ asked' = asked /\ ~complete /\ At(p) = "locked"
      BY <1>8, <2>1 DEF Claim, OneCleaner
    <3>2. /\ other \notin Cleaning /\ \A i \in DOMAIN frames : frames[i] \notin Cleaning
          /\ other # "none" => asked.request
      BY <2>1 DEF OneCleaner, AtOneOf
    <3>3. "accept" \in Cleaning /\ "accept" \in Label /\ p # "nobody"
      BY DEF Cleaning, Label, Caller
    <3>4. CASE p = "other"
      <4>1. At(p) = other /\ other' = "accept" /\ frames' = frames
        BY <3>4, <2>1 DEF At, Goto
      <4> QED
        BY <2>1, <3>1, <3>2, <3>3, <3>4, <4>1 DEF OneCleaner, AtOneOf
    <3>5. CASE p = "main"
      <4>1. /\ other' = other
            /\ Len(frames) \in DOMAIN frames /\ DOMAIN frames' = DOMAIN frames
            /\ frames'[Len(frames)] = "accept"
            /\ \A i \in DOMAIN frames : i # Len(frames) => frames'[i] = frames[i]
        BY <1>a, <2>1, <3>1, <3>3, <3>5, CallMoves
      <4> QED
        BY <2>1, <3>1, <3>2, <3>3, <3>5, <4>1 DEF OneCleaner, AtOneOf
    <3> QED
      BY <3>4, <3>5 DEF Caller
  <2>2. CASE UNCHANGED owner /\ (Goto(p, "return") \/ Goto(p, "await"))
    <3>1. At(p) = "locked" /\ UNCHANGED <<owner, complete, asked>>
      BY <1>8, <2>2 DEF Claim
    <3> QED
      BY <2>2, <3>1, <1>a, <1>b, CleanerStays DEF Label
  <2> QED
    BY <1>8, <2>1, <2>2 DEF Claim
<1>9. ASSUME NEW p \in Caller, Return(p) PROVE OneCleaner'
  <2>1. UNCHANGED <<owner, complete, asked>>
    BY <1>9 DEF Return, stopVars
  <2>2. CASE p = "other"
    <3>1. other = "return" /\ other' = "done" /\ frames' = frames
      BY <1>9, <2>2 DEF Return, At
    <3> QED
      BY <2>1, <3>1, <1>b DEF OneCleaner, AtOneOf
  <2>3. CASE p = "main"
    <3>1. frames # <<>> /\ frames' = Front(frames) /\ other' = other
      BY <1>9, <2>3 DEF Return, At
    <3>2. frames[Len(frames)] = "return"
      BY <1>9, <2>3, <3>1 DEF Return, At, Last
    <3>3. /\ DOMAIN frames' = DOMAIN frames \ {Len(frames)}
          /\ \A i \in DOMAIN frames' : frames'[i] = frames[i]
      BY <3>1, <1>a, ReturnPops
    <3>4. AtOneOf(Cleaning)' <=> AtOneOf(Cleaning)
      BY <3>1, <3>2, <3>3, <1>b DEF AtOneOf
    <3> QED
      BY <2>1, <3>1, <3>3, <3>4 DEF OneCleaner
  <2> QED
    BY <2>2, <2>3 DEF Caller
<1>10. ASSUME NEW p \in Caller,
              \/ StopAccepting(p) \/ StopWebServer(p) \/ StopWebWaits(p) \/ SetEvent(p)
              \/ StopPush(p) \/ StopForwarder(p) \/ StopCaster(p) \/ CleanupRaises(p)
       PROVE  OneCleaner'
  <2>1. PICK label \in {"webRequest", "webWait", "event", "push", "forwarder", "caster",
                        "finish"} : Goto(p, label)
    BY <1>10 DEF StopAccepting, StopWebServer, StopWebWaits, SetEvent, StopPush,
                 StopForwarder, StopCaster, CleanupRaises, After, Guarded
  <2>2. At(p) \in {"accept", "webRequest", "webWait", "event", "push", "forwarder", "caster"}
    BY <1>10 DEF StopAccepting, StopWebServer, StopWebWaits, SetEvent, StopPush,
                 StopForwarder, StopCaster, CleanupRaises, Guarded
  <2>3. UNCHANGED <<owner, complete, asked>>
    BY <1>10 DEF StopAccepting, StopWebServer, StopWebWaits, SetEvent, StopPush,
                 StopForwarder, StopCaster, CleanupRaises, stopVars
  <2>4. label \in Label /\ label \in Cleaning /\ At(p) \in Cleaning /\ At(p) # "none"
    BY <2>1, <2>2 DEF Label, Cleaning
  <2> QED
    BY <1>a, <2>1, <2>3, <2>4, CleanerStays
<1>11. ASSUME NEW p \in Caller, Finish(p) PROVE OneCleaner'
  <2>1. /\ At(p) = "finish" /\ complete' /\ Goto(p, "return")
        /\ UNCHANGED <<owner, asked>>
    BY <1>11 DEF Finish
  <2>2. "finish" \in Cleaning /\ "return" \in Label
    BY DEF Cleaning, Label
  <2>3. CASE p = "other"
    <3>1. other = "finish" /\ other' = "return" /\ frames' = frames
      BY <2>1, <2>3 DEF At, Goto
    <3> QED
      BY <2>1, <2>2, <3>1, <1>b DEF OneCleaner, AtOneOf, ServiceTypeOK, Caller
  <2>4. CASE p = "main"
    <3>1. /\ other' = other
          /\ Len(frames) \in DOMAIN frames /\ frames[Len(frames)] = "finish"
          /\ DOMAIN frames' = DOMAIN frames /\ frames'[Len(frames)] = "return"
          /\ \A i \in DOMAIN frames : i # Len(frames) => frames'[i] = frames[i]
      BY <1>a, <2>1, <2>2, <2>4, CallMoves
    <3>2. owner = "main"
      BY <2>2, <3>1 DEF OneCleaner, AtOneOf, ServiceTypeOK, Caller
    <3>3. \A i \in DOMAIN frames' : frames'[i] \notin Cleaning
      BY <2>2, <3>1, <1>b DEF OneCleaner
    <3> QED
      BY <2>1, <3>1, <3>2, <3>3 DEF OneCleaner, AtOneOf
  <2> QED
    BY <2>3, <2>4 DEF Caller
<1> QED
  BY <1>1, <1>3, <1>4, <1>5, <1>6, <1>7, <1>8, <1>9, <1>10, <1>11
     DEF ServiceNext, StopStep, serviceVars, stopVars

LEMMA ServiceStarts == ServiceInit => ServiceIInv
<1> SUFFICES ASSUME ServiceInit PROVE ServiceIInv
  OBVIOUS
<1>1. ServiceTypeOK
  <2>1. web \in [manager : BOOLEAN, requested : BOOLEAN,
                thread : {"none", "run", "made", "serving", "told", "ended"}]
    BY DEF ServiceInit
  <2>2. ntrip \in NtripState
    BY DEF ServiceInit, NtripState
  <2>3. asked \in [signals : 0..MaxSignals, request : BOOLEAN]
    BY ServiceAssumption DEF ServiceInit
  <2>4. /\ main = "forwarder" /\ frames \in Seq({"call", "locked", "await", "return"} \cup Cleaning)
        /\ other = "none" /\ lock = "free" /\ owner = "nobody" /\ raised = {} /\ up = {}
    BY DEF ServiceInit
  <2>5. started \in BOOLEAN /\ running \in BOOLEAN /\ event \in BOOLEAN /\ complete \in BOOLEAN
    BY DEF ServiceInit
  <2> QED
    BY <2>1, <2>2, <2>3, <2>4, <2>5 DEF ServiceTypeOK, NtripState
<1>2. frames = <<>> /\ DOMAIN frames = {}
  BY DEF ServiceInit
<1> QED
  BY <1>1, <1>2 DEF ServiceInit, ServiceIInv, OneCleaner, AtOneOf, StartsInOrder, StartStaysOver,
     StoppedStaysStopped, Cleaning

(* A call that is cleaning up has claimed the shutdown, and not finished.   *)
LEMMA CleanerHasClaimed ==
    ASSUME frames \in Seq(Label), OneCleaner, NEW p \in Caller, At(p) \in Cleaning
    PROVE  owner # "nobody" /\ ~complete
<1>1. "none" \notin Cleaning
  BY DEF Cleaning
<1>2. CASE p = "other"
  BY <1>2 DEF At, OneCleaner, AtOneOf
<1>3. CASE p = "main"
  <2>1. frames # <<>> /\ At(p) = frames[Len(frames)]
    BY <1>1, <1>3 DEF At, Last
  <2>2. Len(frames) \in DOMAIN frames
    BY <2>1, EmptySeq, LenProperties
  <2> QED
    BY <2>1, <2>2 DEF OneCleaner, AtOneOf
<1> QED
  BY <1>2, <1>3 DEF Caller

LEMMA StartOrderStep == ServiceTypeOK /\ OneCleaner /\ StartsInOrder /\ [ServiceNext]_serviceVars => StartsInOrder'
<1> SUFFICES ASSUME ServiceTypeOK, OneCleaner, StartsInOrder, [ServiceNext]_serviceVars PROVE StartsInOrder'
  OBVIOUS
<1>a. frames \in Seq(Label)
  BY DEF ServiceTypeOK, Label
<1>1. CASE UNCHANGED <<main, up, web, ntrip, owner>>
  BY <1>1 DEF StartsInOrder
<1>b. ntrip \in NtripState /\ NtripStopped(ntrip) \in NtripState
  <2>1. ntrip \in NtripState
    BY DEF ServiceTypeOK, NtripState
  <2> QED
    BY <2>1, NtripStoppedIs
<1>c. web \in [manager : BOOLEAN, requested : BOOLEAN,
              thread : {"none", "run", "made", "serving", "told", "ended"}]
  BY DEF ServiceTypeOK
<1> USE DEF MainGoes, StartsInOrder, stopVars, partVars, Loop
<1>2. CASE MainStep \/ StartFails
  <2>1. CASE MakeCaster
    <3>1. /\ ntrip'.caster /\ ntrip'.thread = ntrip.thread /\ ntrip'.socket = ntrip.socket
          /\ ntrip'.running = ntrip.running /\ ntrip'.pool = ntrip.pool
          /\ ntrip'.stopped = ntrip.stopped
      BY <2>1, <1>b DEF MakeCaster, NtripState
    <3> QED
      BY <2>1, <3>1 DEF MakeCaster
  <2>2. CASE StartNtripThread
    <3>1. /\ ntrip'.caster = ntrip.caster /\ ntrip'.thread = "bind"
          /\ ntrip'.stopped = ntrip.stopped
      BY <2>2, <1>b DEF StartNtripThread, NtripState
    <3>2. ntrip.stopped => owner # "nobody"
      BY <2>2 DEF StartNtripThread
    <3> QED
      BY <2>2, <3>1, <3>2 DEF StartNtripThread
  <2>3. CASE StartWebManager
    BY <2>3, <1>c DEF StartWebManager
  <2>4. CASE StartForwarder \/ StartPush \/ StartWait \/ SetRunning \/ LoopChecks \/ LoopWaits
    BY <2>4 DEF StartForwarder, StartPush, StartWait, SetRunning, LoopChecks, LoopWaits
  <2>5. CASE StartWebThread
    BY <2>5, <1>c DEF StartWebThread
  <2>6. CASE StartFails \/ MainStops \/ MainExits
    BY <2>6 DEF StartFails, MainStops, MainExits
  <2> QED
    BY <1>2, <2>1, <2>2, <2>3, <2>4, <2>5, <2>6 DEF MainStep
<1>3. CASE WebStep
  BY <1>3, <1>c DEF WebStep, MakeServer, Serve, ServingEnds
<1>4. CASE NtripStep
  <2>1. UNCHANGED <<main, up, web, owner>>
    BY <1>4 DEF NtripStep, Bind, Announce, ListenerEnds
  <2>3. /\ ntrip'.caster = ntrip.caster /\ ntrip.thread # "none" /\ ntrip'.thread # "none"
        /\ main \notin {"forwarder", "web", "push", "webThread", "caster", "ntrip"}
        /\ ntrip'.stopped =>
              \/ ntrip.stopped /\ ntrip'.thread = ntrip.thread /\ ntrip'.pool = ntrip.pool
              \/ ntrip'.thread = "ended" /\ ~ntrip'.pool
              \/ owner # "nobody"
    <3>1. CASE Announce \/ ListenerEnds
      BY <3>1, <1>b DEF NtripState, Announce, ListenerEnds
    <3>2. CASE Bind /\ ntrip.stopped
      <4>1. owner # "nobody"
        BY <3>2 DEF Bind
      <4>2. ntrip' = [ntrip EXCEPT !.thread = "announce", !.socket = "open"]
            \/ ntrip' = [ntrip EXCEPT !.thread = "ended"]
        BY <3>2 DEF Bind
      <4> QED
        BY <3>2, <4>1, <4>2, <1>b DEF Bind, NtripState
    <3>3. CASE Bind /\ ~ntrip.stopped
      <4>1. \/ ntrip' = [ntrip EXCEPT !.thread = "announce", !.socket = "open"]
            \/ ntrip' = [NtripStopped(ntrip) EXCEPT !.thread = "ended"]
        BY <3>3 DEF Bind
      <4>2. CASE ntrip' = [ntrip EXCEPT !.thread = "announce", !.socket = "open"]
        BY <3>3, <4>2, <1>b DEF NtripState, Bind
      <4>3. CASE ntrip' = [NtripStopped(ntrip) EXCEPT !.thread = "ended"]
        <5>1. ntrip'.thread = "ended" /\ ~ntrip'.pool /\ ntrip'.caster = ntrip.caster
          BY <4>3, <1>b, NtripStoppedIs DEF NtripState
        <5> QED
          BY <3>3, <5>1 DEF Bind
      <4> QED
        BY <4>1, <4>2, <4>3
    <3> QED
      BY <1>4, <3>1, <3>2, <3>3 DEF NtripStep
  <2> QED
    BY <2>1, <2>3
<1>5. ASSUME NEW p \in Caller, Claim(p) PROVE StartsInOrder'
  BY <1>5 DEF Claim, Caller
<1>6. ASSUME NEW p \in Caller, StopAccepting(p) PROVE StartsInOrder'
  BY <1>6, <1>b DEF NtripState, StopAccepting
<1>7. ASSUME NEW p \in Caller, StopWebServer(p) PROVE StartsInOrder'
  BY <1>7, <1>c DEF StopWebServer
<1>8. ASSUME NEW p \in Caller, StopPush(p) \/ StopForwarder(p) PROVE StartsInOrder'
  BY <1>8 DEF StopPush, StopForwarder
<1>9. ASSUME NEW p \in Caller, StopCaster(p) PROVE StartsInOrder'
  <2>1. owner # "nobody"
    BY <1>9, <1>a, CleanerHasClaimed DEF StopCaster, Cleaning
  <2>3. /\ ntrip'.caster = ntrip.caster /\ ntrip'.thread = ntrip.thread
        /\ ntrip'.socket \in {ntrip.socket, "none"}
        /\ ntrip'.running => ntrip.running
        /\ ntrip'.pool => ntrip.pool
    BY <1>9, <1>b, NtripStoppedIs DEF StopCaster
  <2>4. UNCHANGED <<main, up, web, owner>>
    BY <1>9 DEF StopCaster
  <2> QED
    BY <2>1, <2>3, <2>4
<1> QED
  BY <1>1, <1>2, <1>3, <1>4, <1>5, <1>6, <1>7, <1>8, <1>9
     DEF ServiceNext, StopStep, serviceVars, Signal, RequestShutdown, EnterLock, AwaitOwner, Return,
         StopWebWaits, SetEvent, Finish, CleanupRaises

LEMMA OverStep ==
    ServiceTypeOK /\ OneCleaner /\ StartsInOrder /\ StartStaysOver /\ [ServiceNext]_serviceVars => StartStaysOver'
<1> SUFFICES ASSUME ServiceTypeOK, OneCleaner, StartsInOrder, StartStaysOver, [ServiceNext]_serviceVars
             PROVE StartStaysOver'
  OBVIOUS
<1>1. CASE UNCHANGED <<main, ntrip, owner, started>>
  BY <1>1 DEF StartStaysOver
<1> USE DEF MainGoes, StartStaysOver, stopVars, partVars, Loop
<1>2. CASE MainStep \/ StartFails
  BY <1>2 DEF MainStep, StartFails, StartForwarder, StartWebManager, StartPush, StartWebThread,
     MakeCaster, StartNtripThread, StartWait, SetRunning, LoopChecks, LoopWaits, MainStops,
     MainExits
<1>3. CASE WebStep
  BY <1>3 DEF WebStep, MakeServer, Serve, ServingEnds
<1>4. CASE NtripStep
  BY <1>4 DEF NtripStep, Bind, Announce, ListenerEnds, ServiceTypeOK
<1>5. ASSUME NEW p \in Caller, Claim(p) PROVE StartStaysOver'
  BY <1>5 DEF Claim, Caller, StartIsOver, StartsInOrder
<1>6. ASSUME NEW p \in Caller, StopAccepting(p) PROVE StartStaysOver'
  BY <1>6 DEF StopAccepting, ServiceTypeOK
<1>7. ASSUME NEW p \in Caller, StopCaster(p) PROVE StartStaysOver'
  BY <1>7 DEF StopCaster, NtripStopped, ServiceTypeOK
<1> QED
  BY <1>1, <1>2, <1>3, <1>4, <1>5, <1>6, <1>7
     DEF ServiceNext, StopStep, serviceVars, Signal, RequestShutdown, EnterLock, AwaitOwner, Return,
         StopWebServer, StopWebWaits, SetEvent, StopPush, StopForwarder, Finish, CleanupRaises

(* Where a call is counts as one of the places. *)
LEMMA PlaceCounts ==
    ASSUME frames \in Seq(Label), NEW p \in Caller, NEW labels \in SUBSET Cleaning,
           At(p) \in labels
    PROVE  AtOneOf(labels)
<1>1. "none" \notin labels
  BY DEF Cleaning
<1>2. CASE p = "other"
  BY <1>2 DEF At, AtOneOf
<1>3. CASE p = "main"
  <2>1. frames # <<>> /\ At(p) = frames[Len(frames)]
    BY <1>1, <1>3 DEF At, Last
  <2>2. Len(frames) \in DOMAIN frames
    BY <2>1, EmptySeq, LenProperties
  <2> QED
    BY <2>1, <2>2 DEF AtOneOf
<1> QED
  BY <1>2, <1>3 DEF Caller

(* Steps that bring no call into the cleanup, or further along in it. *)
NoCallAdvances == \A labels \in SUBSET Cleaning : AtOneOf(labels)' => AtOneOf(labels)

LEMMA NoCallAdvancesStep ==
    ASSUME frames \in Seq(Label), [ServiceNext]_serviceVars,
           ~ \E p \in Caller : At(p) \in Cleaning /\ (StopStep(p) \/ CleanupRaises(p)),
           ~ \E p \in Caller : Claim(p) /\ owner = "nobody"
    PROVE  NoCallAdvances
<1>b. {"call", "locked", "await", "return", "none", "done"} \cap Cleaning = {}
  BY DEF Cleaning
<1>1. CASE UNCHANGED <<frames, other>>
  BY <1>1 DEF NoCallAdvances, AtOneOf
<1>2. ASSUME frames' = Append(frames, "call"), other' = other PROVE NoCallAdvances
  <2>1. \A i \in DOMAIN frames' :
           frames'[i] \in Cleaning => i \in DOMAIN frames /\ frames[i] = frames'[i]
    BY <1>2, <1>b, SignalPushes
  <2> QED
    BY <1>2, <2>1 DEF NoCallAdvances, AtOneOf
<1>3. CASE RequestShutdown
  BY <1>3, <1>b DEF RequestShutdown, NoCallAdvances, AtOneOf
<1>4. ASSUME NEW p \in Caller, NEW label \in {"locked", "await", "return"}, At(p) # "none",
             Goto(p, label)
      PROVE  NoCallAdvances
  <2>1. label \in Label /\ label \notin Cleaning
    BY <1>b DEF Label
  <2> SUFFICES ASSUME NEW labels \in SUBSET Cleaning, AtOneOf(labels)' PROVE AtOneOf(labels)
    BY DEF NoCallAdvances
  <2> QED
    BY <1>4, <2>1, PlaceMoves
<1>5. ASSUME NEW p \in Caller, Return(p) PROVE NoCallAdvances
  <2>1. CASE p = "other"
    BY <1>5, <2>1, <1>b DEF Return, At, NoCallAdvances, AtOneOf
  <2>2. CASE p # "other"
    <3>1. frames # <<>> /\ frames' = Front(frames) /\ other' = other
      BY <1>5, <2>2 DEF Return, At
    <3>2. \A i \in DOMAIN frames' : i \in DOMAIN frames /\ frames[i] = frames'[i]
      BY <3>1, ReturnPops
    <3> QED
      BY <3>1, <3>2 DEF NoCallAdvances, AtOneOf
  <2> QED
    BY <2>1, <2>2
<1>6. CASE MainStep \/ StartFails
  <2>1. \/ UNCHANGED <<frames, other>>
        \/ frames = <<>> /\ frames' = <<"call">> /\ other' = other
    BY <1>6 DEF MainStep, StartFails, StartForwarder, StartWebManager, StartPush,
       StartWebThread, MakeCaster, StartNtripThread, StartWait, SetRunning, LoopChecks,
       LoopWaits, MainStops, MainExits, MainGoes
  <2>2. ASSUME frames = <<>>, frames' = <<"call">> PROVE frames' = Append(frames, "call")
    BY <2>2
  <2> QED
    BY <2>1, <2>2, <1>1, <1>2
<1>7. CASE WebStep \/ NtripStep
  BY <1>1, <1>7 DEF WebStep, MakeServer, Serve, ServingEnds, NtripStep, Bind, Announce,
     ListenerEnds
<1>8. CASE Signal
  BY <1>2, <1>8 DEF Signal
<1>9. ASSUME NEW p \in Caller, StopStep(p) \/ CleanupRaises(p) PROVE NoCallAdvances
  <2>1. At(p) \notin Cleaning
    BY <1>9
  <2>2. EnterLock(p) \/ Claim(p) \/ AwaitOwner(p) \/ Return(p)
    BY <1>9, <2>1 DEF StopStep, StopAccepting, StopWebServer, StopWebWaits, SetEvent, StopPush,
       StopForwarder, StopCaster, Finish, CleanupRaises, Guarded, Cleaning
  <2>3. ASSUME Claim(p) PROVE At(p) # "none" /\ (Goto(p, "return") \/ Goto(p, "await"))
    BY <2>3 DEF Claim
  <2> QED
    BY <2>2, <2>3, <1>4, <1>5 DEF EnterLock, AwaitOwner
<1> QED
  BY <1>1, <1>3, <1>6, <1>7, <1>8, <1>9 DEF ServiceNext, serviceVars

LEMMA StoppedStep == ServiceIInv /\ [ServiceNext]_serviceVars => StoppedStaysStopped'
<1> SUFFICES ASSUME ServiceIInv, [ServiceNext]_serviceVars, started' PROVE StoppedStaysStopped'
  BY DEF StoppedStaysStopped
<1>a. /\ frames \in Seq(Label) /\ ServiceTypeOK /\ OneCleaner /\ StartsInOrder
      /\ StartStaysOver /\ StoppedStaysStopped
  BY DEF ServiceIInv, ServiceTypeOK, Label
<1>b. /\ AfterAccept \in SUBSET Cleaning /\ AfterWebRequest \in SUBSET Cleaning
      /\ AfterPush \in SUBSET Cleaning /\ AfterForwarder \in SUBSET Cleaning
      /\ {"finish"} \in SUBSET Cleaning
  BY DEF AfterAccept, AfterWebRequest, AfterPush, AfterForwarder, Cleaning
<1>c. ntrip \in NtripState /\ NtripStopped(ntrip) \in NtripState
  <2>1. ntrip \in NtripState
    BY <1>a DEF ServiceTypeOK, NtripState
  <2> QED
    BY <2>1, NtripStoppedIs
<1>d. web \in [manager : BOOLEAN, requested : BOOLEAN,
              thread : {"none", "run", "made", "serving", "told", "ended"}]
  BY <1>a DEF ServiceTypeOK
<1> USE DEF Beyond
<1>1. CASE \E p \in Caller : Claim(p) /\ owner = "nobody"
  <2>1. PICK p \in Caller : Claim(p) /\ owner = "nobody" /\ Goto(p, "accept")
    BY <1>1 DEF Claim, Caller
  <2>2. /\ ~AtOneOf(Cleaning) /\ ~complete /\ ~complete' /\ At(p) = "locked"
        /\ "accept" \in Label
    BY <1>a, <2>1 DEF OneCleaner, Claim, Label, Cleaning
  <2>3. ASSUME NEW labels \in SUBSET Cleaning, "accept" \notin labels
        PROVE  ~Beyond(labels)'
    <3>1. ~AtOneOf(labels)
      BY <2>2, <2>3 DEF AtOneOf
    <3> QED
      BY <1>a, <2>1, <2>2, <2>3, <3>1, PlaceMoves
  <2>4. /\ "accept" \notin AfterAccept /\ "accept" \notin AfterWebRequest
        /\ "accept" \notin AfterPush /\ "accept" \notin AfterForwarder
    BY DEF AfterAccept, AfterWebRequest, AfterPush, AfterForwarder
  <2>5. /\ ~Beyond(AfterAccept)' /\ ~Beyond(AfterWebRequest)' /\ ~Beyond(AfterPush)'
        /\ ~Beyond(AfterForwarder)' /\ ~Beyond({"finish"})'
    BY <1>b, <2>3, <2>4
  <2> HIDE DEF Beyond
  <2> QED
    BY <2>5 DEF StoppedStaysStopped, ListenerStopped, WebStopped, PushStopped,
       ForwarderStopped, PoolStopped
<1>2. CASE /\ ~ \E p \in Caller : Claim(p) /\ owner = "nobody"
           /\ ~ \E p \in Caller : At(p) \in Cleaning /\ (StopStep(p) \/ CleanupRaises(p))
  <2>1. /\ started /\ complete' = complete /\ raised' = raised
        /\ main \in Loop \cup {"finally", "leaving", "exited"}
        /\ ntrip.thread \notin {"bind", "announce"}
    <3>1. started' = started
      <4>1. ASSUME NEW p \in Caller, StopStep(p) PROVE started' = started
        BY <1>2, <4>1 DEF StopStep, EnterLock, Claim, AwaitOwner, Return, StopAccepting,
           StopWebServer, StopWebWaits, SetEvent, StopPush, StopForwarder, StopCaster, Finish,
           stopVars
      <4> QED
        BY <4>1 DEF ServiceNext, MainStep, StartFails, StartForwarder, StartWebManager, StartPush,
           StartWebThread, MakeCaster, StartNtripThread, StartWait, SetRunning, LoopChecks,
           LoopWaits, MainStops, MainExits, WebStep, MakeServer, Serve, ServingEnds, NtripStep,
           Bind, Announce, ListenerEnds, Signal, RequestShutdown, CleanupRaises, stopVars, serviceVars
    <3>2. complete' = complete /\ raised' = raised
      <4>1. ASSUME NEW p \in Caller, StopStep(p) \/ CleanupRaises(p)
            PROVE  complete' = complete /\ raised' = raised
        <5>1. At(p) \notin Cleaning
          BY <1>2, <4>1
        <5> QED
          BY <4>1, <5>1 DEF StopStep, EnterLock, Claim, AwaitOwner, Return, StopAccepting,
             StopWebServer, StopWebWaits, SetEvent, StopPush, StopForwarder, StopCaster, Finish,
             CleanupRaises, Guarded, Cleaning, stopVars
      <4> QED
        BY <4>1 DEF ServiceNext, MainStep, StartFails, StartForwarder, StartWebManager, StartPush,
           StartWebThread, MakeCaster, StartNtripThread, StartWait, SetRunning, LoopChecks,
           LoopWaits, MainStops, MainExits, WebStep, MakeServer, Serve, ServingEnds, NtripStep,
           Bind, Announce, ListenerEnds, Signal, RequestShutdown, stopVars, serviceVars
    <3> QED
      BY <1>a, <3>1, <3>2 DEF StartStaysOver
  <2>2. NoCallAdvances
    BY <1>2, <1>a, NoCallAdvancesStep
  <2>3. ASSUME NEW labels \in SUBSET Cleaning PROVE Beyond(labels)' => Beyond(labels)
    BY <2>1, <2>2 DEF NoCallAdvances
  <2>4. /\ Beyond(AfterAccept)' => Beyond(AfterAccept)
        /\ Beyond(AfterWebRequest)' => Beyond(AfterWebRequest)
        /\ Beyond(AfterPush)' => Beyond(AfterPush)
        /\ Beyond(AfterForwarder)' => Beyond(AfterForwarder)
        /\ Beyond({"finish"})' => Beyond({"finish"})
    BY <1>b, <2>3
  <2> HIDE DEF Beyond
  <2>5. /\ up' = up
        /\ web' = web \/ WebStep
        /\ ntrip' = ntrip \/ ListenerEnds
    <3>1. ASSUME NEW p \in Caller, StopStep(p) \/ CleanupRaises(p)
          PROVE  UNCHANGED <<up, web, ntrip>>
      <4>1. At(p) \notin Cleaning
        BY <1>2, <3>1
      <4> QED
        BY <3>1, <4>1 DEF StopStep, EnterLock, Claim, AwaitOwner, Return, StopAccepting,
           StopWebServer, StopWebWaits, SetEvent, StopPush, StopForwarder, StopCaster, Finish,
           CleanupRaises, Guarded, Cleaning, stopVars, partVars
    <3> QED
      BY <2>1, <3>1 DEF ServiceNext, MainStep, StartFails, StartForwarder, StartWebManager, StartPush,
         StartWebThread, MakeCaster, StartNtripThread, StartWait, SetRunning, LoopChecks,
         LoopWaits, MainStops, MainExits, WebStep, MakeServer, Serve, ServingEnds, NtripStep,
         Bind, Announce, ListenerEnds, Signal, RequestShutdown, stopVars, partVars, serviceVars,
         MainGoes, Loop
  <2>6. ListenerStopped' /\ PoolStopped'
    <3>1. ntrip'.socket = ntrip.socket /\ ntrip'.running = ntrip.running /\ ntrip'.pool = ntrip.pool
      BY <2>5, <1>c DEF ListenerEnds, NtripState
    <3> QED
      BY <1>a, <2>1, <2>4, <3>1 DEF ListenerStopped, PoolStopped, StoppedStaysStopped
  <2>7. WebStopped'
    <3>1. /\ web'.manager = web.manager /\ web'.requested = web.requested
          /\ web'.thread = "serving" => web.thread = "serving" \/ (~web.requested /\ web.thread # "none")
      BY <2>5, <1>d DEF WebStep, MakeServer, Serve, ServingEnds
    <3>2. web.thread # "none" => web.manager
      BY <1>a DEF StartsInOrder
    <3> QED
      BY <1>a, <2>1, <2>4, <3>1, <3>2 DEF WebStopped, StoppedStaysStopped
  <2>8. PushStopped' /\ ForwarderStopped'
    BY <1>a, <2>1, <2>4, <2>5 DEF PushStopped, ForwarderStopped, StoppedStaysStopped
  <2> QED
    BY <2>6, <2>7, <2>8 DEF StoppedStaysStopped
<1>3. ASSUME NEW p \in Caller, At(p) \in Cleaning, StopStep(p) \/ CleanupRaises(p)
      PROVE  StoppedStaysStopped'
  <2>1. started
    BY <1>3 DEF StopStep, EnterLock, Claim, AwaitOwner, Return, StopAccepting, StopWebServer,
       StopWebWaits, SetEvent, StopPush, StopForwarder, StopCaster, Finish, CleanupRaises,
       stopVars, Cleaning
  <2>2. ListenerStopped /\ WebStopped /\ PushStopped /\ ForwarderStopped /\ PoolStopped
    BY <1>a, <2>1 DEF StoppedStaysStopped
  <2>3. ASSUME NEW labels \in SUBSET Cleaning, At(p) \in labels PROVE Beyond(labels)
    BY <1>a, <2>3, PlaceCounts
  <2>4. ASSUME NEW label \in Cleaning, Goto(p, label), complete' = complete,
               NEW labels \in SUBSET Cleaning, label \in labels => At(p) \in labels
        PROVE  Beyond(labels)' => Beyond(labels)
    <3>1. label \in Label /\ At(p) # "none"
      BY <1>3 DEF Label, Cleaning
    <3> QED
      BY <1>a, <2>3, <2>4, <3>1, PlaceMoves
  <2> HIDE DEF Beyond
  <2>5. CASE StopAccepting(p)
    <3>1. /\ At(p) = "accept" /\ Goto(p, "webRequest") /\ UNCHANGED <<complete, raised, up, web>>
          /\ "webRequest" \in Cleaning
      BY <2>5 DEF StopAccepting, stopVars, Cleaning
    <3>2. /\ Beyond(AfterWebRequest)' => Beyond(AfterWebRequest)
          /\ Beyond(AfterPush)' => Beyond(AfterPush)
          /\ Beyond(AfterForwarder)' => Beyond(AfterForwarder)
          /\ Beyond({"finish"})' => Beyond({"finish"})
      BY <1>b, <2>4, <3>1 DEF AfterWebRequest, AfterPush, AfterForwarder
    <3>3. ntrip'.socket = "none" /\ ~ntrip'.running /\ ntrip'.pool = ntrip.pool
      BY <1>a, <1>c, <2>5 DEF StopAccepting, NtripState, StartsInOrder
    <3> QED
      BY <2>2, <3>1, <3>2, <3>3 DEF StoppedStaysStopped, ListenerStopped, WebStopped,
         PushStopped, ForwarderStopped, PoolStopped
  <2>6. CASE StopWebServer(p)
    <3>1. /\ At(p) = "webRequest" /\ UNCHANGED <<complete, raised, up, ntrip>>
      BY <2>6 DEF StopWebServer, stopVars
    <3>2. PICK label \in {"webWait", "event"} : Goto(p, label)
      BY <2>6 DEF StopWebServer
    <3>3. /\ Beyond(AfterAccept)' => Beyond(AfterAccept)
          /\ Beyond(AfterPush)' => Beyond(AfterPush)
          /\ Beyond(AfterForwarder)' => Beyond(AfterForwarder)
          /\ Beyond({"finish"})' => Beyond({"finish"})
      <4>1. label \in Cleaning
        BY DEF Cleaning
      <4> QED
        BY <1>b, <2>4, <3>1, <3>2, <4>1 DEF AfterAccept, AfterPush, AfterForwarder, Cleaning
    <3>4. web'.thread # "serving" /\ (web'.manager => web'.requested)
      BY <1>a, <1>d, <2>6 DEF StopWebServer, StartsInOrder
    <3> QED
      BY <2>2, <3>1, <3>3, <3>4 DEF StoppedStaysStopped, ListenerStopped, WebStopped,
         PushStopped, ForwarderStopped, PoolStopped
  <2>7. CASE StopWebWaits(p) \/ SetEvent(p)
    <3>1. PICK from, label \in {"webWait", "event", "push"} :
             /\ At(p) = from /\ Goto(p, label) /\ from \in {"webWait", "event"}
             /\ label \in {"event", "push"}
             /\ UNCHANGED <<complete, raised, up, web, ntrip>>
      BY <2>7 DEF StopWebWaits, SetEvent, stopVars, partVars
    <3>2. /\ Beyond(AfterAccept)' => Beyond(AfterAccept)
          /\ Beyond(AfterWebRequest)' => Beyond(AfterWebRequest)
          /\ Beyond(AfterPush)' => Beyond(AfterPush)
          /\ Beyond(AfterForwarder)' => Beyond(AfterForwarder)
          /\ Beyond({"finish"})' => Beyond({"finish"})
      <4>1. label \in Cleaning
        BY <3>1 DEF Cleaning
      <4> QED
        BY <1>b, <2>4, <3>1, <4>1 DEF AfterAccept, AfterWebRequest, AfterPush, AfterForwarder,
           Cleaning
    <3> QED
      BY <2>2, <3>1, <3>2 DEF StoppedStaysStopped, ListenerStopped, WebStopped,
         PushStopped, ForwarderStopped, PoolStopped
  <2>8. CASE StopPush(p)
    <3>1. /\ At(p) = "push" /\ Goto(p, "forwarder") /\ UNCHANGED <<complete, raised, web, ntrip>>
          /\ "forwarder" \in Cleaning
      BY <2>8 DEF StopPush, stopVars, Cleaning
    <3>2. /\ Beyond(AfterAccept)' => Beyond(AfterAccept)
          /\ Beyond(AfterWebRequest)' => Beyond(AfterWebRequest)
          /\ Beyond(AfterForwarder)' => Beyond(AfterForwarder)
          /\ Beyond({"finish"})' => Beyond({"finish"})
      BY <1>b, <2>4, <3>1 DEF AfterAccept, AfterWebRequest, AfterForwarder, Cleaning
    <3>3. "push" \notin up' /\ up' \subseteq up
      BY <1>a, <2>8 DEF StopPush, StartsInOrder
    <3> QED
      BY <2>2, <3>1, <3>2, <3>3 DEF StoppedStaysStopped, ListenerStopped, WebStopped,
         PushStopped, ForwarderStopped, PoolStopped
  <2>9. CASE StopForwarder(p)
    <3>1. /\ At(p) = "forwarder" /\ Goto(p, "caster") /\ UNCHANGED <<complete, raised, web, ntrip>>
          /\ "caster" \in Cleaning
      BY <2>9 DEF StopForwarder, stopVars, Cleaning
    <3>2. /\ Beyond(AfterAccept)' => Beyond(AfterAccept)
          /\ Beyond(AfterWebRequest)' => Beyond(AfterWebRequest)
          /\ Beyond(AfterPush)' => Beyond(AfterPush)
          /\ Beyond({"finish"})' => Beyond({"finish"})
      BY <1>b, <2>4, <3>1 DEF AfterAccept, AfterWebRequest, AfterPush, Cleaning
    <3>3. up' = up \ {"forwarder"}
      BY <2>9 DEF StopForwarder
    <3> QED
      BY <2>2, <3>1, <3>2, <3>3 DEF StoppedStaysStopped, ListenerStopped, WebStopped,
         PushStopped, ForwarderStopped, PoolStopped
  <2>10. CASE StopCaster(p)
    <3>1. /\ At(p) = "caster" /\ Goto(p, "finish") /\ UNCHANGED <<complete, raised, up, web>>
          /\ "finish" \in Cleaning
      BY <2>10 DEF StopCaster, stopVars, Cleaning
    <3>2. /\ Beyond(AfterAccept)' => Beyond(AfterAccept)
          /\ Beyond(AfterWebRequest)' => Beyond(AfterWebRequest)
          /\ Beyond(AfterPush)' => Beyond(AfterPush)
          /\ Beyond(AfterForwarder)' => Beyond(AfterForwarder)
      BY <1>b, <2>4, <3>1 DEF AfterAccept, AfterWebRequest, AfterPush, AfterForwarder, Cleaning
    <3>3. /\ ntrip'.socket \in {ntrip.socket, "none"}
          /\ ntrip'.running => ntrip.running
      BY <1>c, <2>10, NtripStoppedIs DEF StopCaster
    <3>4. ~ntrip'.pool
      <4>1. ntrip.thread # "none" => ntrip.caster
        BY <1>a DEF StartsInOrder
      <4>2. ntrip.thread = "none" => ~ntrip.pool
        BY <1>a DEF StartsInOrder
      <4>3. ntrip.stopped => ~ntrip.pool
        BY <1>a, <2>1 DEF StartStaysOver
      <4> QED
        BY <1>c, <2>10, <4>1, <4>2, <4>3, NtripStoppedIs DEF StopCaster
    <3> QED
      BY <2>2, <3>1, <3>2, <3>3, <3>4 DEF StoppedStaysStopped, ListenerStopped, WebStopped,
         PushStopped, ForwarderStopped, PoolStopped
  <2>11. CASE Finish(p)
    <3>1. At(p) = "finish" /\ UNCHANGED <<raised, up, web, ntrip>>
      BY <2>11 DEF Finish, partVars
    <3>2. /\ Beyond(AfterAccept) /\ Beyond(AfterWebRequest) /\ Beyond(AfterPush)
          /\ Beyond(AfterForwarder) /\ Beyond({"finish"})
      BY <1>b, <2>3, <3>1 DEF AfterAccept, AfterWebRequest, AfterPush, AfterForwarder, Cleaning
    <3> QED
      BY <2>2, <3>1, <3>2 DEF StoppedStaysStopped, ListenerStopped, WebStopped,
         PushStopped, ForwarderStopped, PoolStopped
  <2>12. CASE CleanupRaises(p)
    <3>1. /\ At(p) \in Guarded /\ Goto(p, After(At(p))) /\ raised' = raised \cup {At(p)}
          /\ UNCHANGED <<complete, up, web, ntrip>>
      BY <2>12 DEF CleanupRaises, partVars
    <3>2. \/ At(p) = "webRequest" /\ Goto(p, "event")
          \/ At(p) = "push" /\ Goto(p, "forwarder")
          \/ At(p) = "forwarder" /\ Goto(p, "caster")
          \/ At(p) = "caster" /\ Goto(p, "finish")
      BY <3>1 DEF Guarded, After
    <3>3. {"event", "forwarder", "caster", "finish"} \subseteq Cleaning
      BY DEF Cleaning
    <3>4. Beyond(AfterAccept)' => Beyond(AfterAccept)
      BY <1>b, <2>4, <3>1, <3>2, <3>3 DEF AfterAccept, Cleaning
    <3>5. At(p) # "webRequest" => (Beyond(AfterWebRequest)' => Beyond(AfterWebRequest))
      BY <1>b, <2>4, <3>1, <3>2, <3>3 DEF AfterAccept, AfterWebRequest, Cleaning
    <3>6. At(p) # "push" => (Beyond(AfterPush)' => Beyond(AfterPush))
      BY <1>b, <2>4, <3>1, <3>2, <3>3 DEF AfterPush
    <3>7. At(p) # "forwarder" => (Beyond(AfterForwarder)' => Beyond(AfterForwarder))
      BY <1>b, <2>4, <3>1, <3>2, <3>3 DEF AfterForwarder
    <3>8. At(p) # "caster" => (Beyond({"finish"})' => Beyond({"finish"}))
      BY <1>b, <2>4, <3>1, <3>2, <3>3
    <3> QED
      BY <2>2, <3>1, <3>4, <3>5, <3>6, <3>7, <3>8 DEF StoppedStaysStopped, ListenerStopped,
         WebStopped, PushStopped, ForwarderStopped, PoolStopped
  <2>13. ~EnterLock(p) /\ ~Claim(p) /\ ~AwaitOwner(p) /\ ~Return(p)
    BY <1>3 DEF EnterLock, Claim, AwaitOwner, Return, Cleaning
  <2> QED
    BY <1>3, <2>5, <2>6, <2>7, <2>8, <2>9, <2>10, <2>11, <2>12, <2>13 DEF StopStep
<1> QED
  BY <1>1, <1>2, <1>3

----------------------------------------------------------------------------
THEOREM ServiceInvariant == ServiceSpec => []ServiceIInv
<1>1. ServiceInit => ServiceIInv
  BY ServiceStarts
<1>2. ServiceIInv /\ [ServiceNext]_serviceVars => ServiceIInv'
  BY ServiceTypeStep, CleanerStep, StartOrderStep, OverStep, StoppedStep DEF ServiceIInv
<1> QED
  BY <1>1, <1>2, PTL DEF ServiceSpec

(* One call at most is in the cleanup, however signals nest. *)
THEOREM CleansOnce == ServiceSpec => []CleanedOnce
<1>1. ServiceIInv => CleanedOnce
  <2> SUFFICES ASSUME ServiceIInv PROVE CleanedOnce
    OBVIOUS
  <2> DEFINE cleaners == {i \in DOMAIN frames : frames[i] \in Cleaning}
  <2>1. ServiceTypeOK /\ OneCleaner /\ owner \in {"nobody", "main", "other"} /\ complete \in BOOLEAN
    BY DEF ServiceIInv, ServiceTypeOK, Caller
  <2>2. cleaners = {} \/ \E i : cleaners = {i}
    BY <2>1 DEF OneCleaner
  <2>3. Cardinality(cleaners) = (IF cleaners = {} THEN 0 ELSE 1)
    BY <2>2, FS_EmptySet, FS_Singleton
  <2>4. AtOneOf(Cleaning) <=> other \in Cleaning \/ cleaners # {}
    BY DEF AtOneOf
  <2>5. ~(other \in Cleaning /\ cleaners # {})
    BY <2>1 DEF OneCleaner, AtOneOf
  <2>6. complete => other \notin Cleaning /\ cleaners = {}
    BY <2>1, <2>4 DEF OneCleaner
  <2>7. complete \/ cleaners # {} \/ other \in Cleaning \/ owner = "nobody"
    BY <2>1, <2>4 DEF OneCleaner
  <2>8. Cardinality(cleaners) + (IF other \in Cleaning THEN 1 ELSE 0)
           <= (IF complete THEN 0 ELSE 1)
    BY <2>3, <2>5, <2>6
  <2> QED
    BY <2>7, <2>8 DEF CleanedOnce
<1> QED
  BY <1>1, ServiceInvariant, PTL

THEOREM StopsAllButRaisers == ServiceSpec => []OnlyRaisersStayUp
<1>1. ServiceIInv => OnlyRaisersStayUp
  BY DEF ServiceIInv, StoppedStaysStopped, OnlyRaisersStayUp, ListenerStopped, WebStopped, PushStopped,
     ForwarderStopped, PoolStopped, Beyond
<1> QED
  BY <1>1, ServiceInvariant, PTL
=============================================================================
