------------------------------ MODULE GossipKV ------------------------------
(***************************************************************************)
(* The signed key-value store of cmd/go-iroh-gossip-kv: every node keeps a *)
(* two-level map scope -> key -> (value, timestamp), writes only in its    *)
(* own scope, and merges what arrives on a gossip topic.  Gossip is a      *)
(* medium that loses, duplicates and reorders messages, and relays what    *)
(* other members of the topic send, well formed or not.                    *)
(***************************************************************************)
EXTENDS Integers

CONSTANTS
  Node,           \* the members of the swarm; a node's scope is its signing key
  Key,            \* the keys of a scope
  Value,          \* the values written
  MaxTime,        \* bound on the clock readings
  ClockMayRepeat, \* may one clock be read twice at the same nanosecond?
  Absent,         \* no entry for a key; no message waiting to be broadcast
  Garbled         \* a message that decodeUpdate rejects

\* What signingData covers.
Content == [key : Key, timestamp : 0..MaxTime, value : Value]

\* type update; a signature is known by its signer and the data it covers.
Update == [scope : Node, data : Content, sig : [by : Node, over : Content]]

\* type kvValue; Signer is derived from the scope the entry is filed under.
Entry == [value : Value, timestamp : 0..MaxTime]

ASSUME ConstantsAssumption ==
  /\ MaxTime \in Nat
  /\ ClockMayRepeat \in BOOLEAN
  /\ Absent \notin Entry /\ Absent \notin Update
  /\ Garbled \notin Update

VARIABLES
  store,    \* store[n][s][k]: node n's entry for key k of scope s, or Absent
  outbox,   \* outbox[n]: the message put returned and the caller still holds
  topic,    \* the updates broadcast so far; each may arrive any number of times
  signed,   \* history: every update a signer produced
  applied   \* history: applied[n], the updates n's store accepted

vars == <<store, outbox, topic, signed, applied>>

-----------------------------------------------------------------------------

\* signUpdate: an update in the scope of the signer n.
signUpdate(n, d) == [scope |-> n, data |-> d, sig |-> [by |-> n, over |-> d]]

\* Mutants: the signature is not checked; the last arrival wins.
VerifiedNever(u) == TRUE
MergeLastArrival(old, u) ==
  [value |-> u.data.value, timestamp |-> u.data.timestamp]

\* PublicKey.Verify over signingData: the scope's own key signed this content.
Verified(u) == u.sig = [by |-> u.scope, over |-> u.data]

\* kvStore.apply on a decoded and verified update: an entry with the same or a
\* later timestamp stays, anything else is replaced.
Merge(old, u) ==
  IF old # Absent /\ old.timestamp >= u.data.timestamp
    THEN old
    ELSE [value |-> u.data.value, timestamp |-> u.data.timestamp]

\* kvStore.apply: decode, verify, merge.  An error leaves the store alone.
apply(n, m) ==
  IF m # Garbled /\ Verified(m)
    THEN /\ store' = [store EXCEPT ![n][m.scope][m.data.key] = Merge(@, m)]
         /\ applied' = [applied EXCEPT ![n] = @ \cup {m}]
    ELSE UNCHANGED <<store, applied>>

\* time.Now().UnixNano() read by node n for a write: the wall clock may step
\* back, and unless ClockMayRepeat it never shows a time it has shown before.
ClockReads(n, t) ==
  ClockMayRepeat \/ \A u \in signed : u.scope = n => u.data.timestamp # t

Init ==
  /\ store = [n \in Node |-> [s \in Node |-> [k \in Key |-> Absent]]]
  /\ outbox = [n \in Node |-> Absent]
  /\ topic = {}
  /\ signed = {}
  /\ applied = [n \in Node |-> {}]

\* node.put: sign, apply to the own store, hand the message to the caller.
put(n) ==
  \E k \in Key, v \in Value, t \in 0..MaxTime :
    LET u == signUpdate(n, [key |-> k, timestamp |-> t, value |-> v]) IN
    /\ outbox[n] = Absent
    /\ ClockReads(n, t)
    /\ signed' = signed \cup {u}
    /\ apply(n, u)
    /\ outbox' = [outbox EXCEPT ![n] = u]
    /\ UNCHANGED topic

\* sender.Broadcast succeeds.
Broadcast(n) ==
  /\ outbox[n] # Absent
  /\ topic' = topic \cup {outbox[n]}
  /\ outbox' = [outbox EXCEPT ![n] = Absent]
  /\ UNCHANGED <<store, signed, applied>>

\* sender.Broadcast fails: run reports the error and the message is gone.
BroadcastFails(n) ==
  /\ outbox[n] # Absent
  /\ outbox' = [outbox EXCEPT ![n] = Absent]
  /\ UNCHANGED <<store, topic, signed, applied>>

\* What a topic may deliver: a broadcast update, a copy of one whose scope or
\* content differs from what was signed, or something that does not parse.
Edited(u) ==
  {[u EXCEPT !.scope = s] : s \in Node} \cup {[u EXCEPT !.data = d] : d \in Content}
Delivered == topic \cup {Garbled} \cup (UNION {Edited(u) : u \in topic})

\* One call of node.applyEvents: skip what is not a Received event, apply the
\* first one that is, return.  The caller calls it again for the next one.
applyEvents(n) ==
  \E m \in Delivered :
    /\ apply(n, m)
    /\ UNCHANGED <<outbox, topic, signed>>

Next ==
  \E n \in Node : put(n) \/ Broadcast(n) \/ BroadcastFails(n) \/ applyEvents(n)

Spec == Init /\ [][Next]_vars

-----------------------------------------------------------------------------

TypeOK ==
  /\ store \in [Node -> [Node -> [Key -> Entry \cup {Absent}]]]
  /\ outbox \in [Node -> Update \cup {Absent}]
  /\ topic \subseteq Update
  /\ signed \subseteq Update
  /\ applied \in [Node -> SUBSET Update]

\* Each entry of a store is the newest of the updates that store accepted for
\* that scope and key, and a key with no entry never had one: no sequence of
\* repeated, late or rejected deliveries makes apply keep an older value.
StoreIsNewest ==
  \A n, s \in Node, k \in Key :
    LET here == {u \in applied[n] : u.scope = s /\ u.data.key = k} IN
    IF store[n][s][k] = Absent
      THEN here = {}
      ELSE \E u \in here :
             /\ store[n][s][k] = [value |-> u.data.value, timestamp |-> u.data.timestamp]
             /\ \A w \in here : w.data.timestamp <= u.data.timestamp

\* Replicas that accepted the same updates, in whatever order and however
\* often, hold the same store: the comment of kvStore.apply.
OrderIndependent ==
  \A m, n \in Node : applied[m] = applied[n] => store[m] = store[n]

\* Whatever a topic delivers, an entry in a scope was signed by the owner of
\* that scope with that key, value and timestamp.
Authentic ==
  \A n, s \in Node, k \in Key :
    store[n][s][k] # Absent =>
      signUpdate(s, [key |-> k, timestamp |-> store[n][s][k].timestamp,
                     value |-> store[n][s][k].value]) \in signed

\* An entry never disappears and never goes back in time, TestApply's "never
\* go backwards in time", for every interleaving of writes and deliveries.
NeverBackwards ==
  [][\A n, s \in Node, k \in Key :
       store[n][s][k] # Absent =>
         /\ store'[n][s][k] # Absent
         /\ store'[n][s][k].timestamp >= store[n][s][k].timestamp]_vars
=============================================================================
