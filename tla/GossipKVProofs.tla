--------------------------- MODULE GossipKVProofs ---------------------------
(***************************************************************************)
(* What is proved of GossipKV, for any set of nodes, keys and values, any  *)
(* bound on the clock and any behaviour of the topic.                      *)
(***************************************************************************)
EXTENDS GossipKV, TLAPS

\* The entry that merging the update u leaves when nothing newer is there.
EntryOf(u) == [value |-> u.data.value, timestamp |-> u.data.timestamp]

\* What apply does to the store and the history of n, for a message that
\* verifies: the fact the proofs use of apply.
Accepts(n, m) ==
  /\ store' = [store EXCEPT ![n][m.scope][m.data.key] = Merge(@, m)]
  /\ applied' = [applied EXCEPT ![n] = @ \cup {m}]

\* Authentic is not inductive: a topic or an outbox could hold an update that
\* verifies and was never signed.  Signatures strengthens it.
Signatures ==
  /\ \A n \in Node : outbox[n] # Absent => outbox[n] \in signed
  /\ topic \subseteq signed
  /\ \A u \in signed : Verified(u)
  /\ \A n \in Node : applied[n] \subseteq signed

\* One signer never used a timestamp twice.
UniqueTimestamps ==
  \A u, w \in signed :
    u.scope = w.scope /\ u.data.timestamp = w.data.timestamp => u = w

-----------------------------------------------------------------------------

\* An entry is made of an update's value and timestamp, and is never Absent.
LEMMA EntryOfType ==
  ASSUME NEW u \in Update
  PROVE  /\ EntryOf(u) \in Entry
         /\ EntryOf(u) # Absent
         /\ u.scope \in Node
         /\ u.data.key \in Key
         /\ u.data.timestamp \in 0..MaxTime
         /\ u.data.timestamp \in Int
  BY ConstantsAssumption DEF Update, Content, Entry, EntryOf

\* kvStore.apply's merge rule keeps a cell typed, and leaves the newer of the
\* old entry and the update.
LEMMA MergeKeepsNewest ==
  ASSUME NEW u \in Update, NEW old \in Entry \cup {Absent}
  PROVE  /\ Merge(old, u) \in Entry
         /\ Merge(old, u) # Absent
         /\ Merge(old, u) \in {old, EntryOf(u)}
         /\ Merge(old, u).timestamp >= u.data.timestamp
         /\ old # Absent => Merge(old, u).timestamp >= old.timestamp
         /\ Merge(old, u) # EntryOf(u) => old # Absent
<1>1. EntryOf(u) \in Entry /\ EntryOf(u) # Absent /\ u.data.timestamp \in Int
  BY EntryOfType
<1>2. EntryOf(u).timestamp = u.data.timestamp
  BY DEF EntryOf
<1>3. \A e \in Entry : e.timestamp \in Int
  BY ConstantsAssumption DEF Entry
<1>4. CASE old # Absent /\ old.timestamp >= u.data.timestamp
  BY <1>1, <1>3, <1>4, ConstantsAssumption DEF Merge
<1>5. CASE ~(old # Absent /\ old.timestamp >= u.data.timestamp)
  <2>1. Merge(old, u) = EntryOf(u)
    BY <1>5 DEF Merge, EntryOf
  <2>2. QED BY <2>1, <1>1, <1>2, <1>3, <1>5
<1>6. QED BY <1>4, <1>5

\* signUpdate yields an update that verifies.
LEMMA SignedVerifies ==
  ASSUME NEW n \in Node, NEW d \in Content
  PROVE  signUpdate(n, d) \in Update /\ Verified(signUpdate(n, d))
  BY DEF signUpdate, Verified, Update

\* An edited update that still verifies is the update that was signed: its
\* signature binds the scope and the content.
LEMMA EditedIsOriginal ==
  ASSUME NEW u \in Update, Verified(u), NEW m \in Edited(u), Verified(m)
  PROVE  m = u
<1>1. CASE \E s \in Node : m = [u EXCEPT !.scope = s]
  BY <1>1 DEF Verified, Update
<1>2. CASE \E d \in Content : m = [u EXCEPT !.data = d]
  BY <1>2 DEF Verified, Update
<1>3. QED BY <1>1, <1>2 DEF Edited

\* What Delivered may hold is typed.
LEMMA DeliveredType ==
  ASSUME TypeOK, NEW m \in Delivered, m # Garbled
  PROVE  m \in Update
<1>1. CASE m \in topic
  BY <1>1 DEF TypeOK
<1>2. CASE \E u \in topic : m \in Edited(u)
  <2>1. PICK u \in topic : m \in Edited(u)
    BY <1>2
  <2>2. u \in Update
    BY <2>1 DEF TypeOK
  <2>3. CASE \E s \in Node : m = [u EXCEPT !.scope = s]
    BY <2>2, <2>3 DEF Update
  <2>4. CASE \E d \in Content : m = [u EXCEPT !.data = d]
    BY <2>2, <2>4 DEF Update
  <2>5. QED BY <2>1, <2>3, <2>4 DEF Edited
<1>3. QED BY <1>1, <1>2 DEF Delivered

-----------------------------------------------------------------------------

\* What accepting an update leaves behind: one cell of one store merged, one
\* history longer, every other cell and history as it was.
LEMMA AcceptsCells ==
  ASSUME TypeOK, NEW n \in Node, NEW m \in Update, Accepts(n, m)
  PROVE  /\ store' \in [Node -> [Node -> [Key -> Entry \cup {Absent}]]]
         /\ applied' \in [Node -> SUBSET Update]
         /\ \A a, s \in Node, k \in Key :
              store'[a][s][k] =
                IF a = n /\ s = m.scope /\ k = m.data.key
                  THEN Merge(store[a][s][k], m) ELSE store[a][s][k]
         /\ \A a \in Node :
              applied'[a] = IF a = n THEN applied[a] \cup {m} ELSE applied[a]
<1> DEFINE sc == m.scope
           ky == m.data.key
           new == Merge(store[n][sc][ky], m)
<1>1. sc \in Node /\ ky \in Key
  BY EntryOfType
<1>2. store[n][sc][ky] \in Entry \cup {Absent}
  BY <1>1 DEF TypeOK
<1>3. new \in Entry
  BY <1>2, MergeKeepsNewest
<1>4. store' = [store EXCEPT ![n][sc][ky] = new]
  BY DEF Accepts
<1>5. applied' = [applied EXCEPT ![n] = @ \cup {m}]
  BY DEF Accepts
<1>6. applied \in [Node -> SUBSET Update]
  BY DEF TypeOK
<1>7. store \in [Node -> [Node -> [Key -> Entry \cup {Absent}]]]
  BY DEF TypeOK
<1> HIDE DEF sc, ky, new
<1>8. store' \in [Node -> [Node -> [Key -> Entry \cup {Absent}]]]
  BY <1>1, <1>3, <1>4, <1>7
<1>9. applied' \in [Node -> SUBSET Update]
  BY <1>5, <1>6
<1>10. \A a, s \in Node, k \in Key :
         store'[a][s][k] = IF a = n /\ s = sc /\ k = ky THEN new ELSE store[a][s][k]
  BY <1>1, <1>4, <1>7
<1>11. \A a \in Node : applied'[a] = IF a = n THEN applied[a] \cup {m} ELSE applied[a]
  BY <1>5, <1>6
<1>12. QED BY <1>8, <1>9, <1>10, <1>11 DEF sc, ky, new

\* Every step either leaves stores and histories alone or accepts one update
\* at one node: put's own update, or a delivery that decodes and verifies.
LEMMA StepAccepts ==
  ASSUME TypeOK, [Next]_vars
  PROVE  \/ UNCHANGED <<store, applied>>
         \/ \E n \in Node, m \in Update : Accepts(n, m)
<1>1. ASSUME NEW n \in Node, put(n)
      PROVE  \E m \in Update : Accepts(n, m)
  <2>1. PICK k \in Key, v \in Value, t \in 0..MaxTime :
          apply(n, signUpdate(n, [key |-> k, timestamp |-> t, value |-> v]))
    BY <1>1 DEF put
  <2> DEFINE u == signUpdate(n, [key |-> k, timestamp |-> t, value |-> v])
  <2>2. u \in Update /\ Verified(u)
    BY SignedVerifies DEF Content
  <2>3. u # Garbled
    BY <2>2, ConstantsAssumption
  <2>4. QED BY <2>1, <2>2, <2>3 DEF apply, Accepts
<1>2. ASSUME NEW n \in Node, applyEvents(n)
      PROVE  \/ UNCHANGED <<store, applied>>
             \/ \E m \in Update : Accepts(n, m)
  <2>1. PICK m \in Delivered : apply(n, m)
    BY <1>2 DEF applyEvents
  <2>2. CASE m # Garbled /\ Verified(m)
    BY <2>1, <2>2, DeliveredType DEF apply, Accepts
  <2>3. CASE ~(m # Garbled /\ Verified(m))
    BY <2>1, <2>3 DEF apply
  <2>4. QED BY <2>2, <2>3
<1>3. ASSUME NEW n \in Node, Broadcast(n) \/ BroadcastFails(n)
      PROVE  UNCHANGED <<store, applied>>
  BY <1>3 DEF Broadcast, BroadcastFails
<1>4. CASE UNCHANGED vars
  BY <1>4 DEF vars
<1>5. QED BY <1>1, <1>2, <1>3, <1>4 DEF Next

\* A step leaves the three parts that apply does not touch typed.
LEMMA StepMessagesTyped ==
  ASSUME TypeOK, [Next]_vars
  PROVE  /\ outbox' \in [Node -> Update \cup {Absent}]
         /\ topic' \subseteq Update
         /\ signed' \subseteq Update
<1> USE DEF TypeOK
<1>1. ASSUME NEW n \in Node, put(n)
      PROVE  /\ outbox' \in [Node -> Update \cup {Absent}]
             /\ topic' \subseteq Update
             /\ signed' \subseteq Update
  <2>1. PICK k \in Key, v \in Value, t \in 0..MaxTime :
          LET u == signUpdate(n, [key |-> k, timestamp |-> t, value |-> v]) IN
          /\ signed' = signed \cup {u}
          /\ outbox' = [outbox EXCEPT ![n] = u]
          /\ topic' = topic
    BY <1>1 DEF put
  <2>2. signUpdate(n, [key |-> k, timestamp |-> t, value |-> v]) \in Update
    BY SignedVerifies DEF Content
  <2>3. QED BY <2>1, <2>2
<1>2. ASSUME NEW n \in Node, Broadcast(n) \/ BroadcastFails(n) \/ applyEvents(n)
      PROVE  /\ outbox' \in [Node -> Update \cup {Absent}]
             /\ topic' \subseteq Update
             /\ signed' \subseteq Update
  BY <1>2 DEF Broadcast, BroadcastFails, applyEvents
<1>3. CASE UNCHANGED vars
  BY <1>3 DEF vars
<1>4. QED BY <1>1, <1>2, <1>3 DEF Next

\* TypeOK is inductive: whatever put writes and the topic delivers, stores hold
\* entries, and every message and history holds updates.
THEOREM TypeCorrect == Spec => []TypeOK
<1>1. Init => TypeOK
  BY DEF Init, TypeOK
<1>2. TypeOK /\ [Next]_vars => TypeOK'
  <2> SUFFICES ASSUME TypeOK, [Next]_vars PROVE TypeOK'
    OBVIOUS
  <2>1. CASE UNCHANGED <<store, applied>>
    BY <2>1, StepMessagesTyped DEF TypeOK
  <2>2. CASE \E n \in Node, m \in Update : Accepts(n, m)
    BY <2>2, AcceptsCells, StepMessagesTyped DEF TypeOK
  <2>3. QED BY <2>1, <2>2, StepAccepts
<1>3. QED BY <1>1, <1>2, PTL DEF Spec

\* StoreIsNewest, for one cell.
CellIsNewest(n, s, k) ==
  LET here == {u \in applied[n] : u.scope = s /\ u.data.key = k} IN
  IF store[n][s][k] = Absent
    THEN here = {}
    ELSE \E u \in here :
           /\ store[n][s][k] = EntryOf(u)
           /\ \A w \in here : w.data.timestamp <= u.data.timestamp

\* StoreIsNewest, cell by cell.
LEMMA StoreByCell ==
  StoreIsNewest <=> \A n, s \in Node, k \in Key : CellIsNewest(n, s, k)
  BY DEF StoreIsNewest, CellIsNewest, EntryOf

\* Accepting an update keeps a cell the newest of what was accepted for it.
LEMMA CellPreserved ==
  ASSUME TypeOK, NEW n \in Node, NEW m \in Update, Accepts(n, m),
         NEW a \in Node, NEW s \in Node, NEW k \in Key, CellIsNewest(a, s, k)
  PROVE  CellIsNewest(a, s, k)'
<1> DEFINE here == {u \in applied[a] : u.scope = s /\ u.data.key = k}
           hereNow == {u \in applied'[a] : u.scope = s /\ u.data.key = k}
<1>0. applied'[a] = IF a = n THEN applied[a] \cup {m} ELSE applied[a]
  BY AcceptsCells
<1>1. store'[a][s][k] =
        IF a = n /\ s = m.scope /\ k = m.data.key
          THEN Merge(store[a][s][k], m) ELSE store[a][s][k]
  BY AcceptsCells
<1>2. CASE ~(a = n /\ s = m.scope /\ k = m.data.key)
  <2>1. hereNow = here /\ store'[a][s][k] = store[a][s][k]
    BY <1>0, <1>1, <1>2
  <2>2. QED BY <2>1 DEF CellIsNewest
<1>3. CASE a = n /\ s = m.scope /\ k = m.data.key
  <2> DEFINE old == store[a][s][k]
  <2>1. hereNow = here \cup {m} /\ store'[a][s][k] = Merge(old, m)
    BY <1>0, <1>1, <1>3
  <2>2. old \in Entry \cup {Absent}
    BY DEF TypeOK
  <2>3. \A u \in hereNow : u.data.timestamp \in Int
    BY <2>1, EntryOfType DEF TypeOK
  <2>4. Merge(old, m) # Absent
    BY <2>2, MergeKeepsNewest
  <2>5. \E u \in hereNow :
          /\ Merge(old, m) = EntryOf(u)
          /\ \A w \in hereNow : w.data.timestamp <= u.data.timestamp
    <3>1. CASE old = Absent
      <4>1. here = {}
        BY <3>1 DEF CellIsNewest
      <4>2. Merge(old, m) = EntryOf(m)
        BY <3>1 DEF Merge, EntryOf
      <4>3. QED BY <2>1, <2>3, <4>1, <4>2
    <3>2. CASE old # Absent
      <4>1. PICK u \in here :
              /\ old = EntryOf(u)
              /\ \A w \in here : w.data.timestamp <= u.data.timestamp
        BY <3>2 DEF CellIsNewest
      <4>2. old.timestamp = u.data.timestamp
        BY <4>1 DEF EntryOf
      <4>3. CASE u.data.timestamp >= m.data.timestamp
        <5>1. Merge(old, m) = old
          BY <3>2, <4>2, <4>3 DEF Merge
        <5>2. QED BY <2>1, <2>3, <4>1, <4>3, <5>1
      <4>4. CASE ~(u.data.timestamp >= m.data.timestamp)
        <5>1. Merge(old, m) = EntryOf(m)
          BY <4>2, <4>4 DEF Merge, EntryOf
        <5>2. \A w \in hereNow : w.data.timestamp <= m.data.timestamp
          BY <2>1, <2>3, <4>1, <4>4
        <5>3. QED BY <2>1, <5>1, <5>2
      <4>5. QED BY <4>3, <4>4
    <3>3. QED BY <3>1, <3>2
  <2>6. QED BY <2>1, <2>4, <2>5 DEF CellIsNewest, EntryOf
<1>4. QED BY <1>2, <1>3

\* Every cell of every store is the newest update that store accepted for it:
\* the merge rule of kvStore.apply is right for every sequence of deliveries.
THEOREM NewestWins == Spec => []StoreIsNewest
<1>1. Init => StoreIsNewest
  BY DEF Init, StoreIsNewest
<1>2. TypeOK /\ StoreIsNewest /\ [Next]_vars => StoreIsNewest'
  <2> SUFFICES ASSUME TypeOK, StoreIsNewest, [Next]_vars,
                      NEW a \in Node, NEW s \in Node, NEW k \in Key
               PROVE  CellIsNewest(a, s, k)'
    BY DEF StoreIsNewest, CellIsNewest, EntryOf
  <2>1. CellIsNewest(a, s, k)
    BY StoreByCell
  <2>2. CASE UNCHANGED <<store, applied>>
    BY <2>1, <2>2 DEF CellIsNewest
  <2>3. CASE \E n \in Node, m \in Update : Accepts(n, m)
    BY <2>1, <2>3, CellPreserved
  <2>4. QED BY <2>2, <2>3, StepAccepts
<1>3. QED BY <1>1, <1>2, TypeCorrect, PTL DEF Spec

\* An entry never goes back in time and never disappears.
THEOREM NoStepBack == Spec => NeverBackwards
<1>1. TypeOK /\ [Next]_vars =>
        [\A n, s \in Node, k \in Key :
           store[n][s][k] # Absent =>
             /\ store'[n][s][k] # Absent
             /\ store'[n][s][k].timestamp >= store[n][s][k].timestamp]_vars
  <2> SUFFICES ASSUME TypeOK, [Next]_vars,
                      NEW a \in Node, NEW s \in Node, NEW k \in Key,
                      store[a][s][k] # Absent
               PROVE  /\ store'[a][s][k] # Absent
                      /\ store'[a][s][k].timestamp >= store[a][s][k].timestamp
    OBVIOUS
  <2>1. store[a][s][k] \in Entry
    BY DEF TypeOK
  <2>2. store[a][s][k].timestamp \in Int
    BY <2>1, ConstantsAssumption DEF Entry
  <2>3. CASE UNCHANGED <<store, applied>>
    BY <2>2, <2>3
  <2>4. CASE \E n \in Node, m \in Update : Accepts(n, m)
    <3>1. PICK n \in Node, m \in Update : Accepts(n, m)
      BY <2>4
    <3>2. \/ store'[a][s][k] = store[a][s][k]
          \/ store'[a][s][k] = Merge(store[a][s][k], m)
      BY <3>1, AcceptsCells
    <3>3. QED BY <2>1, <2>2, <3>2, MergeKeepsNewest
  <2>5. QED BY <2>3, <2>4, StepAccepts
<1>2. QED BY <1>1, TypeCorrect, PTL DEF Spec, NeverBackwards

-----------------------------------------------------------------------------

\* What a step does to the sets of messages: it signs and accepts a new
\* update, moves a held one to the topic, drops it, or accepts a delivered
\* one, and by EditedIsOriginal what verifies of the deliveries was broadcast.
LEMMA SignaturesInductive ==
  ASSUME TypeOK, Signatures, [Next]_vars
  PROVE  Signatures'
<1>1. ASSUME NEW n \in Node, put(n)
      PROVE  Signatures'
  <2>1. PICK k \in Key, v \in Value, t \in 0..MaxTime :
          LET u == signUpdate(n, [key |-> k, timestamp |-> t, value |-> v]) IN
          /\ signed' = signed \cup {u}
          /\ apply(n, u)
          /\ outbox' = [outbox EXCEPT ![n] = u]
          /\ topic' = topic
    BY <1>1 DEF put
  <2> DEFINE u == signUpdate(n, [key |-> k, timestamp |-> t, value |-> v])
  <2>2. u \in Update /\ Verified(u)
    BY SignedVerifies DEF Content
  <2>3. applied' = [applied EXCEPT ![n] = @ \cup {u}]
    BY <2>1, <2>2, ConstantsAssumption DEF apply
  <2>4. /\ signed' = signed \cup {u}
        /\ outbox' = [outbox EXCEPT ![n] = u]
        /\ topic' = topic
    BY <2>1
  <2> HIDE DEF u
  <2>5. QED BY <2>2, <2>3, <2>4 DEF Signatures, TypeOK
<1>2. ASSUME NEW n \in Node, Broadcast(n) \/ BroadcastFails(n)
      PROVE  Signatures'
  BY <1>2 DEF Broadcast, BroadcastFails, Signatures, TypeOK
<1>3. ASSUME NEW n \in Node, applyEvents(n)
      PROVE  Signatures'
  <2>1. PICK m \in Delivered : apply(n, m) /\ UNCHANGED <<outbox, topic, signed>>
    BY <1>3 DEF applyEvents
  <2>2. CASE m # Garbled /\ Verified(m)
    <3>1. m \in topic
      <4>1. CASE \E u \in topic : m \in Edited(u)
        BY <2>2, <4>1, EditedIsOriginal DEF Signatures, TypeOK
      <4>2. QED BY <2>2, <4>1 DEF Delivered
    <3>2. applied' = [applied EXCEPT ![n] = @ \cup {m}]
      BY <2>1, <2>2 DEF apply
    <3>3. QED BY <2>1, <3>1, <3>2 DEF Signatures, TypeOK
  <2>3. CASE ~(m # Garbled /\ Verified(m))
    BY <2>1, <2>3 DEF apply, Signatures
  <2>4. QED BY <2>2, <2>3
<1>4. CASE UNCHANGED vars
  BY <1>4 DEF vars, Signatures
<1>5. QED BY <1>1, <1>2, <1>3, <1>4 DEF Next

\* Every update in a message or a history was produced by the signer of its
\* scope.
THEOREM OnlySignedTravels == Spec => []Signatures
<1>1. Init => Signatures
  BY DEF Init, Signatures
<1>2. TypeOK /\ Signatures /\ [Next]_vars => Signatures'
  BY SignaturesInductive
<1>3. QED BY <1>1, <1>2, TypeCorrect, PTL DEF Spec

\* No entry appears in a scope that its owner did not sign, whatever the topic
\* delivers.
THEOREM ScopesAreAuthentic == Spec => []Authentic
<1>1. TypeOK /\ StoreIsNewest /\ Signatures => Authentic
  <2> SUFFICES ASSUME TypeOK, StoreIsNewest, Signatures,
                      NEW n \in Node, NEW s \in Node, NEW k \in Key,
                      store[n][s][k] # Absent
               PROVE  signUpdate(s, [key |-> k, timestamp |-> store[n][s][k].timestamp,
                                     value |-> store[n][s][k].value]) \in signed
    BY DEF Authentic
  <2>0. CellIsNewest(n, s, k)
    BY StoreByCell
  <2>1. PICK u \in applied[n] :
          /\ u.scope = s /\ u.data.key = k
          /\ store[n][s][k] = [value |-> u.data.value, timestamp |-> u.data.timestamp]
    BY <2>0 DEF CellIsNewest, EntryOf
  <2>2. u \in signed /\ u \in Update /\ Verified(u)
    BY <2>1 DEF Signatures, TypeOK
  <2>3. u = signUpdate(u.scope, u.data)
    BY <2>2 DEF signUpdate, Verified, Update
  <2>4. u.data = [key |-> k, timestamp |-> store[n][s][k].timestamp,
                  value |-> store[n][s][k].value]
    BY <2>1, <2>2 DEF Update, Content
  <2>5. QED BY <2>1, <2>2, <2>3, <2>4
<1>2. QED BY <1>1, TypeCorrect, NewestWins, OnlySignedTravels, PTL

-----------------------------------------------------------------------------

\* A clock that never repeats a reading gives each update of a scope its own
\* timestamp.
LEMMA UniqueInductive ==
  ASSUME ~ClockMayRepeat, TypeOK, UniqueTimestamps, [Next]_vars
  PROVE  UniqueTimestamps'
<1>1. ASSUME NEW n \in Node, put(n)
      PROVE  UniqueTimestamps'
  <2>1. PICK k \in Key, v \in Value, t \in 0..MaxTime :
          /\ ClockReads(n, t)
          /\ signed' = signed \cup
                {signUpdate(n, [key |-> k, timestamp |-> t, value |-> v])}
    BY <1>1 DEF put
  <2> DEFINE u == signUpdate(n, [key |-> k, timestamp |-> t, value |-> v])
  <2>2. u.scope = n /\ u.data.timestamp = t
    BY DEF signUpdate
  <2>3. \A w \in signed : w.scope = n => w.data.timestamp # t
    BY <2>1 DEF ClockReads
  <2>4. signed' = signed \cup {u}
    BY <2>1
  <2> HIDE DEF u
  <2>5. QED BY <2>2, <2>3, <2>4 DEF UniqueTimestamps
<1>2. ASSUME NEW n \in Node, Broadcast(n) \/ BroadcastFails(n) \/ applyEvents(n)
      PROVE  UniqueTimestamps'
  BY <1>2 DEF Broadcast, BroadcastFails, applyEvents, UniqueTimestamps
<1>3. CASE UNCHANGED vars
  BY <1>3 DEF vars, UniqueTimestamps
<1>4. QED BY <1>1, <1>2, <1>3 DEF Next

\* The comment of kvStore.apply, and the condition under which it holds: when
\* no clock shows the same nanosecond twice, the store is a function of the
\* set of updates accepted, whatever their order and repetition.
THEOREM Converges == ~ClockMayRepeat => (Spec => []OrderIndependent)
<1> SUFFICES ASSUME ~ClockMayRepeat PROVE Spec => []OrderIndependent
  OBVIOUS
<1>1. Init => UniqueTimestamps
  BY DEF Init, UniqueTimestamps
<1>2. TypeOK /\ UniqueTimestamps /\ [Next]_vars => UniqueTimestamps'
  BY UniqueInductive
<1>3. TypeOK /\ StoreIsNewest /\ Signatures /\ UniqueTimestamps => OrderIndependent
  <2> SUFFICES ASSUME TypeOK, StoreIsNewest, Signatures, UniqueTimestamps,
                      NEW m \in Node, NEW n \in Node, applied[m] = applied[n]
               PROVE  store[m] = store[n]
    BY DEF OrderIndependent
  <2>1. ASSUME NEW s \in Node, NEW k \in Key
        PROVE  store[m][s][k] = store[n][s][k]
    <3> DEFINE here == {u \in applied[n] : u.scope = s /\ u.data.key = k}
    <3>0. CellIsNewest(n, s, k) /\ CellIsNewest(m, s, k)
      BY StoreByCell
    <3>1. CASE here = {}
      BY <3>0, <3>1 DEF CellIsNewest
    <3>2. CASE here # {}
      <4>1. PICK u \in here :
              /\ store[n][s][k] = [value |-> u.data.value, timestamp |-> u.data.timestamp]
              /\ \A x \in here : x.data.timestamp <= u.data.timestamp
        BY <3>0, <3>2 DEF CellIsNewest, EntryOf
      <4>2. PICK w \in here :
              /\ store[m][s][k] = [value |-> w.data.value, timestamp |-> w.data.timestamp]
              /\ \A x \in here : x.data.timestamp <= w.data.timestamp
        BY <3>0, <3>2 DEF CellIsNewest, EntryOf
      <4>3. u \in signed /\ w \in signed /\ u \in Update /\ w \in Update
        BY DEF Signatures, TypeOK
      <4>4. u.data.timestamp = w.data.timestamp
        BY <4>1, <4>2, <4>3, EntryOfType
      <4>5. u = w
        BY <4>3, <4>4 DEF UniqueTimestamps
      <4>6. QED BY <4>1, <4>2, <4>5
    <3>3. QED BY <3>1, <3>2
  <2>2. /\ store[m] \in [Node -> [Key -> Entry \cup {Absent}]]
        /\ store[n] \in [Node -> [Key -> Entry \cup {Absent}]]
    BY DEF TypeOK
  <2>3. QED BY <2>1, <2>2
<1>4. QED BY <1>1, <1>2, <1>3, TypeCorrect, NewestWins, OnlySignedTravels, PTL DEF Spec
=============================================================================
