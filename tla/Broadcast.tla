----------------------------- MODULE Broadcast -----------------------------
(***************************************************************************)
(* The data path of one mount point in src/forwarder.py: the mount buffer, *)
(* a ring numbered from 0, and the broadcast thread that copies it to the  *)
(* registered clients.                                                     *)
(*                                                                         *)
(* A mount buffer is dropped when its source leaves and a new one, numbered *)
(* from 0 again, is made when data comes again; the buffers a mount point  *)
(* has had are its generations 1, 2, ...  An item is known by its number in *)
(* everything the sources uploaded, so generation g holds the items         *)
(* base[g] + 1 .. base[g] + write[g] as far as the ring reaches.           *)
(*                                                                         *)
(* The broadcast thread copies the table of buffers first, then takes       *)
(* client_lock for the mount point and keeps it until all its clients have *)
(* been served: registrations and removals wait meanwhile, uploads do not. *)
(*                                                                         *)
(* Whom add_client removes to keep the limit per user is the subject of    *)
(* DownloadSession; here that is one more RemoveClient.                    *)
(***************************************************************************)
EXTENDS Naturals, Sequences, FiniteSets

CONSTANTS
    Client,     \* download connections
    NoOne,      \* no client
    RingSize,   \* RING_BUFFER_SIZE
    MaxGens,    \* bound: buffers the mount point has had
    MaxItems    \* bound: items uploaded

ASSUME BroadcastAssumption ==
    /\ NoOne \notin Client
    /\ RingSize \in Nat \ {0}
    /\ MaxGens \in Nat /\ MaxItems \in Nat

VARIABLES
    total,     \* items uploaded so far
    gens,      \* buffers made so far
    cur,       \* mount_buffers: the generation in use, 0 for none
    base,      \* items uploaded before a generation began
    write,     \* _write_index of a generation
    phase,     \* of a client: new, read (index taken), pending (registered),
               \* welcomed (response sent), active, gone
    next,      \* next_buffer_index
    joined,    \* total when the client read its index (its connected_at)
    got,       \* items sent to a client
    at,        \* the broadcast thread: idle, snapped, locked, sending
    bgen,      \* the generation of its copy of the table
    todo,      \* clients it has still to serve
    failed,    \* clients whose socket failed (disconnected_clients)
    who,       \* the client it is sending to
    span       \* indices that get_from_index returned for it: from, upto

bufferVars == <<total, gens, cur, base, write>>
clientVars == <<phase, next, joined, got>>
threadVars == <<at, bgen, todo, failed, who, span>>
vars == <<bufferVars, clientVars, threadVars>>

Gen == 1..MaxGens
Registered == {c \in Client : phase[c] \in {"pending", "welcomed", "active"}}
Unlocked == at \in {"idle", "snapped"}

(* The lowest index still in the ring of generation g. *)
Oldest(g) == IF write[g] > RingSize THEN write[g] - RingSize ELSE 0

(* get_from_index: what is in the ring from an index on begins here. *)
From(g, index) == IF index > Oldest(g) THEN index ELSE Oldest(g)

(* The items of generation g with the indices lo .. hi - 1. *)
Items(g, lo, hi) == [i \in 1..(hi - lo) |-> base[g] + lo + i]

Init ==
    /\ total = 0 /\ gens = 0 /\ cur = 0
    /\ base = [g \in Gen |-> 0]
    /\ write = [g \in Gen |-> 0]
    /\ phase = [c \in Client |-> "new"]
    /\ next = [c \in Client |-> 0]
    /\ joined = [c \in Client |-> 0]
    /\ got = [c \in Client |-> <<>>]
    /\ at = "idle" /\ bgen = 0
    /\ todo = {} /\ failed = {} /\ who = NoOne /\ span = [from |-> 0, upto |-> 0]

----------------------------------------------------------------------------
(* The sources' side. *)

CreateBuffer ==
    /\ cur = 0 /\ gens < MaxGens
    /\ gens' = gens + 1 /\ cur' = gens + 1
    /\ base' = [base EXCEPT ![gens + 1] = total]
    /\ UNCHANGED <<total, write, clientVars, threadVars>>

UploadItem ==
    /\ cur # 0 /\ total < MaxItems
    /\ total' = total + 1
    /\ write' = [write EXCEPT ![cur] = @ + 1]
    /\ UNCHANGED <<gens, cur, base, clientVars, threadVars>>

RemoveBuffer ==
    /\ cur # 0
    /\ cur' = 0
    /\ UNCHANGED <<total, gens, base, write, clientVars, threadVars>>

----------------------------------------------------------------------------
(* The download handlers' side. *)

(* add_client reads the write index under buffer_lock ... *)
ReadIndex(c) ==
    /\ phase[c] = "new"
    /\ phase' = [phase EXCEPT ![c] = "read"]
    /\ next' = [next EXCEPT ![c] = IF cur = 0 THEN 0 ELSE write[cur]]
    /\ joined' = [joined EXCEPT ![c] = total]
    /\ UNCHANGED <<got, bufferVars, threadVars>>

(* ... and registers the client under client_lock, or fails: on a closed    *)
(* socket, or when making room took the list of the mount point away.       *)
AddClient(c) ==
    /\ phase[c] = "read" /\ Unlocked
    /\ \/ phase' = [phase EXCEPT ![c] = "pending"]
       \/ phase' = [phase EXCEPT ![c] = "gone"]
    /\ UNCHANGED <<next, joined, got, bufferVars, threadVars>>

(* send_download_success_response. *)
SendResponse(c) ==
    /\ phase[c] = "pending"
    /\ phase' = [phase EXCEPT ![c] = "welcomed"]
    /\ UNCHANGED <<next, joined, got, bufferVars, threadVars>>

ActivateClient(c) ==
    /\ phase[c] = "welcomed" /\ Unlocked
    /\ phase' = [phase EXCEPT ![c] = "active"]
    /\ UNCHANGED <<next, joined, got, bufferVars, threadVars>>

(* remove_client, by the client's own handler, a newer connection of its    *)
(* user or force_disconnect_user.                                           *)
RemoveClient(c) ==
    /\ c \in Registered /\ Unlocked
    /\ phase' = [phase EXCEPT ![c] = "gone"]
    /\ UNCHANGED <<next, joined, got, bufferVars, threadVars>>

(* Mutant: client_lock is not taken. *)
DisconnectMountUnlocked ==
    /\ Registered # {}
    /\ phase' = [c \in Client |-> IF c \in Registered THEN "gone" ELSE phase[c]]
    /\ UNCHANGED <<next, joined, got, bufferVars, threadVars>>

(* The clients' part of force_disconnect_mount; RemoveBuffer is the rest. *)
DisconnectMount ==
    /\ Registered # {} /\ Unlocked
    /\ phase' = [c \in Client |-> IF c \in Registered THEN "gone" ELSE phase[c]]
    /\ UNCHANGED <<next, joined, got, bufferVars, threadVars>>

----------------------------------------------------------------------------
(* The broadcast thread. *)

(* mount_items: the buffer object is held from here on, replaced or not. *)
CopyTable ==
    /\ at = "idle" /\ cur # 0
    /\ at' = "snapped" /\ bgen' = cur
    /\ UNCHANGED <<todo, failed, who, span, bufferVars, clientVars>>

TakeLock ==
    /\ at = "snapped"
    /\ at' = "locked"
    /\ todo' = {c \in Client : phase[c] = "active"}
    /\ UNCHANGED <<bgen, failed, who, span, bufferVars, clientVars>>

(* get_from_index for the next client; one with nothing new is passed over. *)
Fetch(c) ==
    /\ at = "locked" /\ c \in todo
    /\ todo' = todo \ {c}
    /\ IF next[c] < write[bgen]
       THEN /\ at' = "sending" /\ who' = c
            /\ span' = [from |-> From(bgen, next[c]), upto |-> write[bgen]]
       ELSE UNCHANGED <<at, who, span>>
    /\ UNCHANGED <<bgen, failed, bufferVars, clientVars>>

(* The client has what its pass fetched. *)
Sent ==
    /\ at = "sending"
    /\ got' = [got EXCEPT ![who] = @ \o Items(bgen, span.from, span.upto)]
    /\ at' = "locked" /\ who' = NoOne /\ span' = [from |-> 0, upto |-> 0]
    /\ UNCHANGED <<phase, joined, bgen, todo, failed, bufferVars>>

(* Mutant: next_buffer_index is the buffer's write index of this moment. *)
SendSucceedsRereads == Sent /\ next' = [next EXCEPT ![who] = write[bgen]]

(* Mutant: next_buffer_index is one too far. *)
SendSucceedsSkips == Sent /\ next' = [next EXCEPT ![who] = span.upto + 1]

(* Everything was sent: next_buffer_index follows the last item sent. *)
SendSucceeds == Sent /\ next' = [next EXCEPT ![who] = span.upto]

(* sendall raises after some of the items: the client is to be removed. *)
SendFails ==
    /\ at = "sending"
    /\ \E stop \in span.from .. span.upto - 1 :
          got' = [got EXCEPT ![who] = @ \o Items(bgen, span.from, stop)]
    /\ failed' = failed \cup {who}
    /\ at' = "locked" /\ who' = NoOne /\ span' = [from |-> 0, upto |-> 0]
    /\ UNCHANGED <<phase, next, joined, bgen, todo, bufferVars>>

(* The failed clients are removed before client_lock is released. *)
ReleaseLock ==
    /\ at = "locked" /\ todo = {}
    /\ phase' = [c \in Client |-> IF c \in failed THEN "gone" ELSE phase[c]]
    /\ at' = "idle" /\ failed' = {}
    /\ UNCHANGED <<next, joined, got, bgen, todo, who, span, bufferVars>>

BroadcastStep ==
    CopyTable \/ TakeLock \/ (\E c \in Client : Fetch(c))
              \/ SendSucceeds \/ SendFails \/ ReleaseLock

Next ==
    \/ CreateBuffer \/ UploadItem \/ RemoveBuffer
    \/ \E c \in Client : \/ ReadIndex(c) \/ AddClient(c) \/ SendResponse(c)
                        \/ ActivateClient(c) \/ RemoveClient(c)
    \/ DisconnectMount
    \/ BroadcastStep

Spec == Init /\ [][Next]_vars

(* The broadcast loop runs until the service stops. *)
FairSpec == Spec /\ WF_vars(BroadcastStep)
----------------------------------------------------------------------------
TypeOK ==
    /\ total \in Nat /\ gens \in 0..MaxGens /\ cur \in {0, gens}
    /\ base \in [Gen -> Nat] /\ write \in [Gen -> Nat]
    /\ phase \in [Client -> {"new", "read", "pending", "welcomed", "active", "gone"}]
    /\ next \in [Client -> Nat]
    /\ joined \in [Client -> Nat]
    /\ got \in [Client -> Seq(Nat)]
    /\ at \in {"idle", "snapped", "locked", "sending"}
    /\ bgen \in 0..gens
    /\ at # "idle" => bgen # 0
    /\ todo \in SUBSET Client /\ failed \in SUBSET Client
    /\ at = "sending" => who \in Client
    /\ span \in [from : Nat, upto : Nat]

(* When a client is sent more of a buffer, nothing is skipped that is still *)
(* in the ring and was uploaded after what it had.                          *)
NothingSkippedInRing ==
    [][\A c \in Client :
         LET last == IF got[c] = <<>> THEN 0 ELSE got[c][Len(got[c])]
             new == got'[c][Len(got'[c])]
         IN  got'[c] # got[c] /\ last > base[bgen] =>
               \A i \in Oldest(bgen) .. write[bgen] - 1 :
                  LET item == base[bgen] + i + 1 IN
                  last < item /\ item < new =>
                     \E j \in DOMAIN got'[c] : got'[c][j] = item]_vars

(* As long as the buffer is not replaced, an active client that is behind   *)
(* it gets whatever is uploaded, unless it leaves or the ring overtakes it; *)
(* a pass over an older buffer that is under way may still mislead it.      *)
UploadsReachClients ==
    \A c \in Client : \A g \in Gen : \A k \in 1..MaxItems :
        (/\ phase[c] = "active" /\ cur = g /\ next[c] < write[g] /\ k = total
         /\ at = "idle" \/ bgen = g)
        ~> \/ \E j \in DOMAIN got[c] : got[c][j] = k
           \/ phase[c] = "gone" \/ cur # g
           \/ k <= base[g] + Oldest(g)

(* The client's view of all this: StreamDelivery. *)
Delivery == INSTANCE StreamDelivery WITH
    published <- total,
    member <- [c \in Client |->
                 IF phase[c] \in {"new", "read", "pending"} THEN "out"
                 ELSE IF phase[c] = "gone" THEN "left" ELSE "in"],
    received <- got

RefinesDelivery == Delivery!DSpec
=============================================================================
