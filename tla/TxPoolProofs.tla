---------------------------- MODULE TxPoolProofs ----------------------------
(***************************************************************************)
(* Proofs about the transaction pool for any set of transactions, any      *)
(* prices and any sequence of calls: the bookkeeping of the two queues is  *)
(* consistent in every state, also half way through a call, so that none   *)
(* of the assertions and `expect's of the pool can fail.                   *)
(***************************************************************************)
EXTENDS TxPool, FiniteSetTheorems, WellFoundedInduction, TLAPS

\* The call in progress: which of its variables are in use.
CallOK ==
    /\ pc # "add" => tx_queue = <<>>
    /\ pc = "idle" => imports = <<>>
    /\ pc # "add" => removed = {}
    /\ pc \in {"prune", "tags", "import"} => pruning
    /\ ~pruning => imports = <<>>

\* A transaction is in the hands of the call at most once.
NoDuplicates ==
    /\ \A i, j \in DOMAIN tx_queue : tx_queue[i] = tx_queue[j] => i = j
    /\ \A i, j \in DOMAIN imports : imports[i] = imports[j] => i = j
    /\ \A i \in DOMAIN tx_queue, j \in DOMAIN imports : tx_queue[i] # imports[j]

\* Only transactions with a predecessor require one.
RequiresPrevious == \A h \in requires : NonceOf[h] > 0

\* `unlocks' of a ready transaction lists only transactions of the next nonce.
UnlocksSuccessors ==
    \A h, g \in Hash : unlocks[h][g] > 0 =>
        h \in ready_tx /\ NonceOf[g] > 0 /\ Previous(g) = Provides(h)

\* A dependent transaction has counted none of its requirements as gone.
DependentOffsets == \A h \in ready_tx \ independent : requires_offset[h] = 0

\* What the queue holds behind the new transaction has a larger nonce.
QueueAscends ==
    pc = "add" =>
        /\ given \in Hash
        /\ is_new_tx => tx_queue = <<given>> /\ removed = {}
        /\ ~is_new_tx => \A i \in DOMAIN tx_queue : NonceOf[tx_queue[i]] > NonceOf[given]
        /\ given \notin removed

IInv ==
    /\ TypeOK
    /\ CallOK
    /\ OnePlace
    /\ NoDuplicates
    /\ RequiresPrevious
    /\ RequiredMarkersExact
    /\ WaitingIsUnprovided
    /\ OneProviderPerMarker
    /\ UnlocksSuccessors
    /\ DependentOffsets
    /\ LinkedOrIndependent
    /\ QueueAscends

-----------------------------------------------------------------------------
(* Markers and sequences *)

\* The first of a queue of hashes is a hash.
LEMMA HeadType == ASSUME NEW q \in Seq(Hash), q # <<>> PROVE Head(q) \in Hash
  OBVIOUS

\* Nonces and prices are numbers.
LEMMA ConstantTypes == \A h \in Hash : NonceOf[h] \in Nat /\ Price[h] \in Nat
  BY TxPoolConstants

\* The marker a transaction provides is a marker; so is the one it requires,
\* which is a different one.
LEMMA MarkerFacts ==
    /\ \A h \in Hash : Provides(h) \in Marker
    /\ \A h \in Hash : NonceOf[h] > 0 => Previous(h) \in Marker /\ Previous(h) # Provides(h)
    /\ \A h, g \in Hash : (NonceOf[g] > 0 /\ Previous(g) = Provides(h)) => NonceOf[g] = NonceOf[h] + 1
  BY TxPoolConstants DEF Marker, Provides, Previous

\* A listing of a set of hashes is a sequence without repetitions.
LEMMA OrderingFacts ==
    ASSUME NEW S \in SUBSET Hash, NEW s \in Orderings(S)
    PROVE  /\ s \in Seq(S) /\ s \in Seq(Hash)
           /\ \A i, j \in DOMAIN s : s[i] = s[j] => i = j
           /\ \A i \in DOMAIN s : s[i] \in S
<1>1. IsFiniteSet(S) /\ Cardinality(S) \in Nat
  BY FS_Subset, FS_CardinalityType, TxPoolConstants
<1>2. s \in [1..Cardinality(S) -> S]
  BY DEF Orderings
<1>3. s \in Seq(S)
  BY <1>1, <1>2
<1>4. s \in Seq(Hash)
  BY <1>1, <1>2
<1>5. DOMAIN s = 1..Cardinality(S)
  BY <1>2
<1> QED BY <1>2, <1>3, <1>4, <1>5 DEF Orderings

\* Appending a listing of new elements keeps a sequence free of repetitions.
LEMMA ConcatDistinct ==
    ASSUME NEW t \in Seq(Hash), NEW s \in Seq(Hash),
           \A i, j \in DOMAIN t : t[i] = t[j] => i = j,
           \A i, j \in DOMAIN s : s[i] = s[j] => i = j,
           \A i \in DOMAIN t, j \in DOMAIN s : t[i] # s[j]
    PROVE  /\ t \o s \in Seq(Hash)
           /\ \A i, j \in DOMAIN (t \o s) : (t \o s)[i] = (t \o s)[j] => i = j
           /\ \A i \in DOMAIN (t \o s) : \/ \E k \in DOMAIN t : (t \o s)[i] = t[k]
                                         \/ \E k \in DOMAIN s : (t \o s)[i] = s[k]
<1> DEFINE c == t \o s
<1>1. /\ c \in Seq(Hash)
      /\ DOMAIN c = 1..(Len(t) + Len(s))
      /\ \A i \in 1..Len(t) : c[i] = t[i]
      /\ \A i \in (Len(t) + 1)..(Len(t) + Len(s)) : c[i] = s[i - Len(t)]
  OBVIOUS
<1>2. /\ DOMAIN t = 1..Len(t) /\ DOMAIN s = 1..Len(s)
      /\ Len(t) \in Nat /\ Len(s) \in Nat
  OBVIOUS
<1>3. \A i \in DOMAIN c : \/ i \in DOMAIN t /\ c[i] = t[i]
                          \/ i - Len(t) \in DOMAIN s /\ c[i] = s[i - Len(t)] /\ i \notin DOMAIN t
  <2> SUFFICES ASSUME NEW i \in DOMAIN c
               PROVE  \/ i \in DOMAIN t /\ c[i] = t[i]
                      \/ i - Len(t) \in DOMAIN s /\ c[i] = s[i - Len(t)] /\ i \notin DOMAIN t
    OBVIOUS
  <2>1. i \in 1..Len(t) \/ i \in (Len(t) + 1)..(Len(t) + Len(s))
    BY <1>1, <1>2
  <2> HIDE DEF c
  <2> QED BY <2>1, <1>1, <1>2
<1>4. \A i, j \in DOMAIN c : c[i] = c[j] => i = j
  <2> SUFFICES ASSUME NEW i \in DOMAIN c, NEW j \in DOMAIN c, c[i] = c[j] PROVE i = j
    OBVIOUS
  <2> HIDE DEF c
  <2>1. i \in Nat /\ j \in Nat
    BY <1>1, <1>2
  <2> QED BY <2>1, <1>2, <1>3
<1> HIDE DEF c
<1>5. /\ c \in Seq(Hash)
      /\ \A i, j \in DOMAIN c : c[i] = c[j] => i = j
      /\ \A i \in DOMAIN c : \/ \E k \in DOMAIN t : c[i] = t[k]
                             \/ \E k \in DOMAIN s : c[i] = s[k]
  BY <1>1, <1>3, <1>4
<1> QED BY <1>5 DEF c

\* So does taking the head off.
LEMMA TailDistinct ==
    ASSUME NEW S, NEW t \in Seq(S), t # <<>>,
           \A i, j \in DOMAIN t : t[i] = t[j] => i = j
    PROVE  /\ Head(t) \in S /\ Tail(t) \in Seq(S)
           /\ \E k \in DOMAIN t : Head(t) = t[k]
           /\ \A i, j \in DOMAIN Tail(t) : Tail(t)[i] = Tail(t)[j] => i = j
           /\ \A i \in DOMAIN Tail(t) : Tail(t)[i] # Head(t)
           /\ \A i \in DOMAIN Tail(t) : \E k \in DOMAIN t : Tail(t)[i] = t[k]
<1>1. /\ Len(t) \in Nat /\ Len(t) > 0 /\ DOMAIN t = 1..Len(t)
      /\ Head(t) = t[1] /\ Tail(t) \in Seq(S)
      /\ DOMAIN Tail(t) = 1..(Len(t) - 1)
      /\ \A i \in 1..(Len(t) - 1) : Tail(t)[i] = t[i + 1]
  OBVIOUS
<1>2. \A i \in DOMAIN Tail(t) : i + 1 \in DOMAIN t /\ i + 1 # 1 /\ 1 \in DOMAIN t
  BY <1>1
<1> QED BY <1>1, <1>2

-----------------------------------------------------------------------------
(* The ready queue *)

ReadyTypes ==
    /\ requires \subseteq Hash
    /\ provided_markers \in [Marker -> HashOrNone]
    /\ ready_tx \subseteq Hash
    /\ unlocks \in [Hash -> [Hash -> Nat]]
    /\ requires_offset \in [Hash -> Nat]
    /\ independent \subseteq ready_tx
    /\ older \subseteq ready_tx \X ready_tx

ReadyInv ==
    /\ ReadyTypes
    /\ RequiresPrevious
    /\ OneProviderPerMarker
    /\ UnlocksSuccessors
    /\ DependentOffsets
    /\ LinkedOrIndependent

\* What is reachable contains its start and everything it unlocks.
LEMMA ReachableFacts ==
    ASSUME ReadyTypes, NEW S
    PROVE  /\ Reachable(S) \subseteq ready_tx
           /\ S \cap ready_tx \subseteq Reachable(S)
           /\ \A h \in Reachable(S), g \in ready_tx : unlocks[h][g] > 0 => g \in Reachable(S)
<1>1. Reachable(S) \subseteq ready_tx /\ S \cap ready_tx \subseteq Reachable(S)
  BY DEF Reachable
<1>2. ASSUME NEW h \in Reachable(S), NEW g \in ready_tx, unlocks[h][g] > 0
      PROVE  g \in Reachable(S)
  <2>1. SUFFICES ASSUME NEW C \in SUBSET ready_tx, S \cap ready_tx \subseteq C, Closed(C)
                 PROVE  g \in C
    BY DEF Reachable
  <2>2. h \in C
    BY <2>1 DEF Reachable
  <2>3. g \in Unlocked(h)
    BY <1>2 DEF Unlocked, ReadyTypes
  <2> QED BY <2>1, <2>2, <2>3 DEF Closed
<1> QED BY <1>1, <1>2

\* Removing transactions with all they unlock leaves the ready queue intact: no
\* provider is lost that a remaining transaction is linked from.
LEMMA RemoveWithMarkersOK ==
    ASSUME ReadyInv, NEW S, RemoveWithMarkers(S),
           requires' \subseteq requires, requires \cap ready_tx' \subseteq requires'
    PROVE  /\ ReadyInv'
           /\ ready_tx' \subseteq ready_tx
           /\ \A m \in Marker : provided_markers[m] = None => provided_markers'[m] = None
<1> DEFINE gone == Reachable(S)
<1>1. /\ gone \subseteq ready_tx
      /\ \A h \in gone, g \in ready_tx : unlocks[h][g] > 0 => g \in gone
  BY ReachableFacts DEF ReadyInv
<1>2. /\ ready_tx' = ready_tx \ gone
      /\ provided_markers' = [k \in Marker |->
               IF \E h \in gone : Provides(h) = k THEN None ELSE provided_markers[k]]
      /\ unlocks' = [h \in Hash |-> IF h \in gone THEN NoUnlocks ELSE unlocks[h]]
      /\ requires_offset' = [h \in Hash |-> IF h \in gone THEN 0 ELSE requires_offset[h]]
      /\ independent' = independent \ gone
      /\ older' = OlderWithout(gone)
  BY DEF RemoveWithMarkers
<1> HIDE DEF gone
<1>3. ReadyTypes'
  <2>1. NoUnlocks \in [Hash -> Nat]
    BY DEF NoUnlocks
  <2> QED BY <1>1, <1>2, <2>1 DEF ReadyTypes, ReadyInv, HashOrNone, OlderWithout
<1>4. \A m \in Marker : provided_markers'[m] = IF provided_markers[m] \in gone THEN None ELSE provided_markers[m]
  BY <1>1, <1>2, TxPoolConstants DEF ReadyInv, ReadyTypes, OneProviderPerMarker
<1>5. RequiresPrevious'
  BY DEF ReadyInv, RequiresPrevious
<1>6. OneProviderPerMarker'
  BY <1>1, <1>2, <1>4, MarkerFacts DEF ReadyInv, ReadyTypes, OneProviderPerMarker
<1>7. UnlocksSuccessors'
  BY <1>1, <1>2 DEF ReadyInv, ReadyTypes, UnlocksSuccessors, NoUnlocks
<1>8. DependentOffsets'
  BY <1>1, <1>2 DEF ReadyInv, ReadyTypes, DependentOffsets
<1>9. LinkedOrIndependent'
  <2> SUFFICES ASSUME NEW h \in ready_tx', h \notin independent'
               PROVE  /\ h \in requires'
                      /\ provided_markers'[Previous(h)] # None
                      /\ unlocks'[provided_markers'[Previous(h)]][h] > 0
    BY DEF LinkedOrIndependent
  <2> DEFINE p == provided_markers[Previous(h)]
  <2>1. /\ h \in ready_tx /\ h \notin independent /\ h \notin gone /\ h \in Hash
        /\ h \in requires /\ p # None /\ unlocks[p][h] > 0 /\ Previous(h) \in Marker
    BY <1>1, <1>2, MarkerFacts DEF ReadyInv, ReadyTypes, LinkedOrIndependent, RequiresPrevious
  <2>2. p \in ready_tx
    BY <2>1 DEF ReadyInv, OneProviderPerMarker
  <2>3. p \notin gone
    BY <1>1, <2>1
  <2>4. provided_markers'[Previous(h)] = p
    BY <1>4, <2>1, <2>3
  <2>5. unlocks'[p] = unlocks[p]
    BY <1>2, <2>2, <2>3 DEF ReadyInv, ReadyTypes
  <2> QED BY <2>1, <2>4, <2>5
<1> QED BY <1>2, <1>3, <1>4, <1>5, <1>6, <1>7, <1>8, <1>9 DEF ReadyInv

\* ReadyTransactions::add_transaction keeps the ready queue intact when the
\* transaction was in neither queue.
LEMMA ReadyAddOK ==
    ASSUME ReadyInv, NEW h \in Hash, h \notin ready_tx, ReadyAdd(h)
    PROVE  /\ ReadyInv'
           /\ ready_tx' \subseteq ready_tx \cup {h}
           /\ \A m \in Marker : m # Provides(h) => provided_markers'[m] = provided_markers[m]
<1> DEFINE old == provided_markers[Provides(h)]
           by == IF h \in requires THEN provided_markers[Previous(h)] ELSE None
<1>1. /\ ready_tx' = (ready_tx \ {old}) \cup {h}
      /\ provided_markers' = [provided_markers EXCEPT ![Provides(h)] = h]
      /\ unlocks' = [g \in Hash |->
               IF g = h THEN IF old = None THEN NoUnlocks ELSE unlocks[old]
               ELSE IF g = old THEN NoUnlocks
               ELSE IF g = by THEN [unlocks[g] EXCEPT ![h] = @ + 1]
               ELSE unlocks[g]]
      /\ requires_offset' = [g \in Hash |->
               IF g = h THEN (IF h \in requires /\ by = None THEN 1 ELSE 0)
               ELSE IF g = old THEN 0 ELSE requires_offset[g]]
      /\ independent' = (independent \ {old}) \cup (IF by = None THEN {h} ELSE {})
      /\ older' = OlderWithout({old}) \cup ((ready_tx \ {old}) \X {h})
      /\ requires' = requires \ {old}
  BY DEF ReadyAdd, UnlocksAfter, IndependentAfter
<1>2. /\ Provides(h) \in Marker
      /\ h \in requires => Previous(h) \in Marker /\ Previous(h) # Provides(h)
  BY MarkerFacts DEF ReadyInv, RequiresPrevious
<1>3. /\ old = None \/ (old \in ready_tx /\ old \in Hash /\ Provides(old) = Provides(h))
      /\ by = None \/ (h \in requires /\ by \in ready_tx /\ by \in Hash /\ Provides(by) = Previous(h))
      /\ old # h /\ by # h
      /\ by = None \/ by # old
  BY <1>2, TxPoolConstants DEF ReadyInv, ReadyTypes, OneProviderPerMarker
<1>4. by = None => (h \in requires => provided_markers[Previous(h)] = None)
  OBVIOUS
<1>5. by # None => by = provided_markers[Previous(h)]
  OBVIOUS
<1>6. \A m \in Marker : provided_markers'[m] = IF m = Provides(h) THEN h ELSE provided_markers[m]
  BY <1>1, <1>2 DEF ReadyInv, ReadyTypes
<1>7. old = provided_markers[Provides(h)]
  OBVIOUS
<1> HIDE DEF old, by
<1>8. ReadyTypes'
  <2>1. NoUnlocks \in [Hash -> Nat]
    BY DEF NoUnlocks
  <2>2. unlocks' \in [Hash -> [Hash -> Nat]]
    BY <1>1, <1>3, <2>1 DEF ReadyInv, ReadyTypes
  <2>3. requires_offset' \in [Hash -> Nat]
    BY <1>1 DEF ReadyInv, ReadyTypes
  <2>4. provided_markers' \in [Marker -> HashOrNone]
    BY <1>1, <1>2 DEF ReadyInv, ReadyTypes, HashOrNone
  <2>5. older' \subseteq ready_tx' \X ready_tx'
    BY <1>1 DEF ReadyInv, ReadyTypes, OlderWithout
  <2> QED BY <1>1, <2>2, <2>3, <2>4, <2>5 DEF ReadyInv, ReadyTypes
<1>9. RequiresPrevious'
  BY <1>1 DEF ReadyInv, RequiresPrevious
<1>10. OneProviderPerMarker'
  BY <1>1, <1>3, <1>6, <1>7, MarkerFacts, TxPoolConstants DEF ReadyInv, ReadyTypes, OneProviderPerMarker
<1>11. UnlocksSuccessors'
  <2> SUFFICES ASSUME NEW k \in Hash, NEW g \in Hash, unlocks'[k][g] > 0
               PROVE  k \in ready_tx' /\ NonceOf[g] > 0 /\ Previous(g) = Provides(k)
    BY DEF UnlocksSuccessors
  <2>0. \A x, y \in Hash : unlocks[x][y] > 0 =>
            x \in ready_tx /\ NonceOf[y] > 0 /\ Previous(y) = Provides(x)
    BY DEF ReadyInv, UnlocksSuccessors
  <2>1. CASE k = h
    BY <2>0, <2>1, <1>1, <1>3 DEF NoUnlocks
  <2>2. CASE k # h /\ k = old
    BY <2>2, <1>1 DEF NoUnlocks
  <2>3. CASE k # h /\ k # old /\ k = by
    <3>1. unlocks'[k] = [unlocks[k] EXCEPT ![h] = @ + 1]
      BY <1>1, <2>3
    <3>2. g # h => unlocks[k][g] > 0
      BY <3>1 DEF ReadyInv, ReadyTypes
    <3>3. h \in requires /\ NonceOf[h] > 0
      BY <1>3, <2>3, TxPoolConstants DEF ReadyInv, RequiresPrevious
    <3> QED BY <3>2, <3>3, <2>0, <2>3, <1>1, <1>3, TxPoolConstants
  <2>4. CASE k # h /\ k # old /\ k # by
    BY <2>0, <2>4, <1>1
  <2> QED BY <2>1, <2>2, <2>3, <2>4
<1>12. DependentOffsets'
  BY <1>1, <1>3 DEF ReadyInv, ReadyTypes, DependentOffsets
<1>13. LinkedOrIndependent'
  <2> SUFFICES ASSUME NEW g \in ready_tx', g \notin independent'
               PROVE  /\ g \in requires'
                      /\ provided_markers'[Previous(g)] # None
                      /\ unlocks'[provided_markers'[Previous(g)]][g] > 0
    BY DEF LinkedOrIndependent
  <2>1. CASE g = h
    <3>1. by # None /\ h \in requires
      BY <2>1, <1>1, <1>3
    <3>2. provided_markers'[Previous(h)] = by
      BY <3>1, <1>2, <1>5, <1>6
    <3>3. unlocks'[by] = [unlocks[by] EXCEPT ![h] = @ + 1]
      BY <3>1, <1>1, <1>3
    <3>4. unlocks'[by][h] > 0
      BY <3>1, <3>3, <1>3 DEF ReadyInv, ReadyTypes
    <3> QED BY <2>1, <3>1, <3>2, <3>4, <1>1, <1>3
  <2>2. CASE g # h
    <3> DEFINE p == provided_markers[Previous(g)]
    <3>1. /\ g \in ready_tx /\ g \notin independent /\ g # old /\ g \in Hash
          /\ g \in requires /\ p # None /\ unlocks[p][g] > 0 /\ Previous(g) \in Marker
      BY <2>2, <1>1, MarkerFacts DEF ReadyInv, ReadyTypes, LinkedOrIndependent, RequiresPrevious
    <3>2. p \in ready_tx /\ p \in Hash /\ Provides(p) = Previous(g)
      BY <3>1 DEF ReadyInv, ReadyTypes, OneProviderPerMarker
    <3>3. g \in requires'
      BY <3>1, <1>1
    <3>4. CASE Previous(g) = Provides(h)
      <4>1. p = old /\ provided_markers'[Previous(g)] = h
        BY <3>1, <3>4, <1>6, <1>7
      <4>2. unlocks'[h] = unlocks[old]
        BY <4>1, <3>1, <1>1
      <4> QED BY <3>1, <3>3, <4>1, <4>2, TxPoolConstants
    <3>5. CASE Previous(g) # Provides(h)
      <4>1. provided_markers'[Previous(g)] = p
        BY <3>1, <3>5, <1>6
      <4>2. p # h /\ p # old
        BY <3>2, <3>5, <1>3, TxPoolConstants
      <4>3. unlocks'[p] = IF p = by THEN [unlocks[p] EXCEPT ![h] = @ + 1] ELSE unlocks[p]
        BY <4>2, <3>2, <1>1
      <4>4. unlocks'[p][g] = unlocks[p][g]
        BY <4>3, <2>2, <3>1, <3>2 DEF ReadyInv, ReadyTypes
      <4> QED BY <3>1, <3>3, <4>1, <4>4
    <3> QED BY <3>4, <3>5
  <2> QED BY <2>1, <2>2
<1> QED BY <1>1, <1>6, <1>8, <1>9, <1>10, <1>11, <1>12, <1>13 DEF ReadyInv

\* Pruning the provider of a marker keeps the ready queue intact: whoever was
\* linked from it is independent afterwards.
LEMMA PruneProviderOK ==
    ASSUME ReadyInv, NEW h \in ready_tx, PruneProvider(h)
    PROVE  /\ ReadyInv'
           /\ ready_tx' \subseteq ready_tx
           /\ \A m \in Marker : provided_markers[m] = None => provided_markers'[m] = None
<1> DEFINE prev == PreviousTx(h)
           freed == Freed(h)
<1>1. /\ provided_markers' = [provided_markers EXCEPT ![Provides(h)] = None]
      /\ ready_tx' = ready_tx \ {h}
      /\ unlocks' = [g \in Hash |->
               IF g = h THEN NoUnlocks ELSE IF g = prev THEN Struck(g, h) ELSE unlocks[g]]
      /\ requires_offset' = [g \in Hash |->
               IF g = h THEN 0
               ELSE IF g \in ready_tx THEN requires_offset[g] + unlocks[h][g] ELSE requires_offset[g]]
      /\ independent' = (independent \ {h}) \cup freed
      /\ older' = OlderWithout({h})
      /\ requires' = requires \ {h}
  BY DEF PruneProvider
<1>2. h \in Hash /\ Provides(h) \in Marker /\ provided_markers[Provides(h)] = h /\ h # None
  BY MarkerFacts, TxPoolConstants DEF ReadyInv, ReadyTypes, OneProviderPerMarker
<1>3. \A m \in Marker : provided_markers'[m] = IF m = Provides(h) THEN None ELSE provided_markers[m]
  BY <1>1, <1>2 DEF ReadyInv, ReadyTypes
<1>4. freed \subseteq ready_tx \ {h}
  BY DEF Freed
<1>5. \A g \in Hash : Struck(g, h) \in [Hash -> Nat]
  BY <1>2 DEF Struck, ReadyInv, ReadyTypes
<1>6. \A g, k \in Hash : k # h => Struck(g, h)[k] = unlocks[g][k]
  BY <1>2 DEF Struck, ReadyInv, ReadyTypes
<1>7. \A g \in Hash : Struck(g, h)[h] > 0 => unlocks[g][h] > 0
  BY <1>2 DEF Struck, ReadyInv, ReadyTypes
<1>8. ASSUME NEW g \in ready_tx, g # h, g \notin independent, unlocks[h][g] > 0
      PROVE  g \in freed
  <2>1. g \in requires /\ requires_offset[g] = 0 /\ g \in Hash
    BY <1>8 DEF ReadyInv, ReadyTypes, LinkedOrIndependent, DependentOffsets
  <2>2. unlocks[h][g] \in Nat /\ unlocks[h][g] >= 1
    BY <1>2, <1>8, <2>1 DEF ReadyInv, ReadyTypes
  <2> QED BY <1>8, <2>1, <2>2 DEF Freed, Unlocked
<1> HIDE DEF prev, freed
<1>9. ReadyTypes'
  <2>1. NoUnlocks \in [Hash -> Nat]
    BY DEF NoUnlocks
  <2>2. unlocks' \in [Hash -> [Hash -> Nat]]
    BY <1>1, <1>5, <2>1 DEF ReadyInv, ReadyTypes
  <2>3. requires_offset' \in [Hash -> Nat]
    BY <1>1, <1>2 DEF ReadyInv, ReadyTypes
  <2>4. provided_markers' \in [Marker -> HashOrNone]
    BY <1>1, <1>2 DEF ReadyInv, ReadyTypes, HashOrNone
  <2>5. older' \subseteq ready_tx' \X ready_tx'
    BY <1>1 DEF ReadyInv, ReadyTypes, OlderWithout
  <2> QED BY <1>1, <1>4, <2>2, <2>3, <2>4, <2>5 DEF ReadyInv, ReadyTypes
<1>10. RequiresPrevious'
  BY <1>1 DEF ReadyInv, RequiresPrevious
<1>11. OneProviderPerMarker'
  BY <1>1, <1>2, <1>3, MarkerFacts DEF ReadyInv, ReadyTypes, OneProviderPerMarker
<1>12. UnlocksSuccessors'
  <2> SUFFICES ASSUME NEW k \in Hash, NEW g \in Hash, unlocks'[k][g] > 0
               PROVE  k \in ready_tx' /\ NonceOf[g] > 0 /\ Previous(g) = Provides(k)
    BY DEF UnlocksSuccessors
  <2>1. k # h
    BY <1>1 DEF NoUnlocks
  <2>2. unlocks[k][g] > 0
    BY <2>1, <1>1, <1>6, <1>7
  <2> QED BY <2>1, <2>2, <1>1 DEF ReadyInv, UnlocksSuccessors
<1>13. ASSUME NEW g \in ready_tx', g \notin independent'
       PROVE  /\ g \in ready_tx /\ g \notin independent /\ g # h /\ g \in Hash
              /\ unlocks[h][g] = 0
  <2>1. g \in ready_tx /\ g \notin independent /\ g # h /\ g \in Hash /\ g \notin freed
    BY <1>1, <1>13 DEF ReadyInv, ReadyTypes
  <2>2. unlocks[h][g] \in Nat
    BY <1>2, <2>1 DEF ReadyInv, ReadyTypes
  <2> QED BY <2>1, <2>2, <1>8
<1>14. DependentOffsets'
  BY <1>1, <1>13 DEF ReadyInv, ReadyTypes, DependentOffsets
<1>15. LinkedOrIndependent'
  <2> SUFFICES ASSUME NEW g \in ready_tx', g \notin independent'
               PROVE  /\ g \in requires'
                      /\ provided_markers'[Previous(g)] # None
                      /\ unlocks'[provided_markers'[Previous(g)]][g] > 0
    BY DEF LinkedOrIndependent
  <2> DEFINE p == provided_markers[Previous(g)]
  <2>1. /\ g \in ready_tx /\ g \notin independent /\ g # h /\ g \in Hash /\ unlocks[h][g] = 0
        /\ g \in requires /\ p # None /\ unlocks[p][g] > 0 /\ Previous(g) \in Marker
    BY <1>13, MarkerFacts DEF ReadyInv, ReadyTypes, LinkedOrIndependent, RequiresPrevious
  <2>2. p # h /\ p \in Hash
    BY <2>1 DEF ReadyInv, ReadyTypes, OneProviderPerMarker
  <2>3. provided_markers'[Previous(g)] = p
    BY <2>1, <2>2, <1>2, <1>3
  <2>4. unlocks'[p][g] = unlocks[p][g]
    BY <2>1, <2>2, <1>1, <1>6
  <2> QED BY <2>1, <2>3, <2>4, <1>1
<1> QED BY <1>1, <1>3, <1>9, <1>10, <1>11, <1>12, <1>14, <1>15 DEF ReadyInv

-----------------------------------------------------------------------------
(* The waiting queue *)

WaitTypes ==
    /\ required_markers \in [Marker -> SUBSET Hash]
    /\ waiting_markers \in [Marker -> HashOrNone]
    /\ waiting_queue \subseteq Hash

WaitInv == WaitTypes /\ RequiredMarkersExact /\ WaitingIsUnprovided

\* A call that leaves the waiting queue alone and provides nothing new keeps it.
LEMMA WaitUnchanged ==
    ASSUME WaitInv, RequiresPrevious, requires \subseteq Hash, UNCHANGED waitVars,
           requires \cap waiting_queue \subseteq requires',
           \A m \in Marker : provided_markers[m] = None => provided_markers'[m] = None
    PROVE  WaitInv'
<1>1. WaitTypes' /\ RequiredMarkersExact'
  BY DEF WaitInv, WaitTypes, RequiredMarkersExact, WaitingIsUnprovided, waitVars
<1>2. WaitingIsUnprovided'
  BY MarkerFacts DEF WaitInv, WaitTypes, WaitingIsUnprovided, RequiresPrevious, waitVars
<1> QED BY <1>1, <1>2 DEF WaitInv

\* mark_and_unlock frees exactly the transactions that wait for the marker; the
\* others wait on, even if the marker is provided from now on.
LEMMA MarkAndUnlockOK ==
    ASSUME WaitInv, RequiresPrevious, requires \subseteq Hash, NEW m \in Marker, MarkAndUnlock(m),
           requires \cap waiting_queue \subseteq requires',
           \A k \in Marker : (k # m /\ provided_markers[k] = None) => provided_markers'[k] = None
    PROVE  /\ WaitInv'
           /\ required_markers[m] \subseteq waiting_queue
           /\ waiting_queue' = waiting_queue \ required_markers[m]
           /\ \A h \in required_markers[m] : NonceOf[h] > 0 /\ Previous(h) = m
<1>1. required_markers[m] = {h \in waiting_queue : h \in requires /\ Previous(h) = m}
  BY DEF WaitInv, RequiredMarkersExact
<1>2. /\ required_markers' = [required_markers EXCEPT ![m] = {}]
      /\ waiting_queue' = waiting_queue \ required_markers[m]
      /\ waiting_markers' = [k \in Marker |->
             IF \E h \in required_markers[m] : Provides(h) = k THEN None ELSE waiting_markers[k]]
  BY DEF MarkAndUnlock
<1>3. WaitTypes'
  BY <1>2 DEF WaitInv, WaitTypes, HashOrNone
<1>4. \A h \in waiting_queue' : /\ h \in waiting_queue /\ h \in requires /\ h \in requires'
                                /\ Previous(h) # m /\ Previous(h) \in Marker
  BY <1>1, <1>2, MarkerFacts DEF WaitInv, WaitTypes, WaitingIsUnprovided, RequiresPrevious
<1>5. WaitingIsUnprovided'
  BY <1>4 DEF WaitInv, WaitingIsUnprovided
<1>6. RequiredMarkersExact'
  <2> SUFFICES ASSUME NEW k \in Marker
               PROVE  required_markers'[k] = {h \in waiting_queue' : h \in requires' /\ Previous(h) = k}
    BY DEF RequiredMarkersExact
  <2>1. CASE k = m
    BY <2>1, <1>2, <1>4 DEF WaitInv, WaitTypes
  <2>2. CASE k # m
    <3>1. required_markers'[k] = {h \in waiting_queue : h \in requires /\ Previous(h) = k}
      BY <2>2, <1>2 DEF WaitInv, WaitTypes, RequiredMarkersExact
    <3> QED BY <3>1, <2>2, <1>1, <1>2, <1>4
  <2> QED BY <2>1, <2>2
<1> QED BY <1>1, <1>2, <1>3, <1>5, <1>6 DEF RequiresPrevious, WaitInv

\* PendingTransactions::remove
LEMMA PendingRemoveOK ==
    ASSUME WaitInv, RequiresPrevious, requires \subseteq Hash, NEW S, PendingRemove(S),
           requires \cap waiting_queue' \subseteq requires',
           \A m \in Marker : provided_markers[m] = None => provided_markers'[m] = None
    PROVE  WaitInv' /\ waiting_queue' \subseteq waiting_queue
<1> DEFINE gone == S \cap waiting_queue
<1>1. /\ waiting_queue' = waiting_queue \ gone
      /\ waiting_markers' = [k \in Marker |->
               IF \E h \in gone : Provides(h) = k THEN None ELSE waiting_markers[k]]
      /\ required_markers' = [k \in Marker |-> required_markers[k] \ gone]
  BY DEF PendingRemove
<1> HIDE DEF gone
<1>2. WaitTypes'
  BY <1>1 DEF WaitInv, WaitTypes, HashOrNone
<1>3. \A h \in waiting_queue' : /\ h \in waiting_queue /\ h \in requires /\ h \in requires'
                                /\ Previous(h) \in Marker /\ h \notin gone
  BY <1>1, MarkerFacts DEF WaitInv, WaitTypes, WaitingIsUnprovided, RequiresPrevious
<1>4. WaitingIsUnprovided'
  BY <1>3 DEF WaitInv, WaitingIsUnprovided
<1>5. RequiredMarkersExact'
  BY <1>1, <1>3 DEF WaitInv, WaitTypes, RequiredMarkersExact
<1> QED BY <1>1, <1>2, <1>4, <1>5 DEF WaitInv

-----------------------------------------------------------------------------
(* The call in progress *)

CallTypes ==
    /\ pc \in {"idle", "add", "prune", "tags", "import"}
    /\ tx_queue \in Seq(Hash) /\ given \in HashOrNone
    /\ is_new_tx \in BOOLEAN /\ failed \in BOOLEAN
    /\ promoted \subseteq Hash /\ removed \subseteq Hash
    /\ pruning \in BOOLEAN
    /\ markers \in Seq(Marker) /\ tags \in Seq(Marker) /\ imports \in Seq(Hash)

CallInv == CallTypes /\ CallOK /\ NoDuplicates /\ QueueAscends

\* The invariant is about the ready queue, the waiting queue, the call in
\* progress, and their being disjoint.
LEMMA Parts == IInv <=> ReadyInv /\ WaitInv /\ CallInv /\ OnePlace
  BY DEF IInv, TypeOK, ReadyInv, ReadyTypes, WaitInv, WaitTypes, CallInv, CallTypes

LEMMA PartsNext ==
    ASSUME ReadyInv', WaitInv', CallInv', OnePlace' PROVE IInv'
  BY DEF IInv, TypeOK, ReadyInv, ReadyTypes, WaitInv, WaitTypes, CallInv, CallTypes

\* Requirements may come and go as long as the ready transactions keep theirs.
LEMMA ReadyUnchanged ==
    ASSUME ReadyInv, UNCHANGED readyVars, requires' \subseteq Hash,
           \A h \in requires' : NonceOf[h] > 0, requires \cap ready_tx \subseteq requires'
    PROVE  ReadyInv'
<1>1. /\ provided_markers' = provided_markers /\ ready_tx' = ready_tx /\ unlocks' = unlocks
      /\ requires_offset' = requires_offset /\ independent' = independent /\ older' = older
  BY DEF readyVars
<1>2. ReadyTypes' /\ RequiresPrevious'
  BY <1>1 DEF ReadyInv, ReadyTypes, RequiresPrevious
<1>3. OneProviderPerMarker' /\ UnlocksSuccessors' /\ DependentOffsets'
  BY <1>1 DEF ReadyInv, OneProviderPerMarker, UnlocksSuccessors, DependentOffsets
<1>4. LinkedOrIndependent'
  BY <1>1 DEF ReadyInv, LinkedOrIndependent
<1> QED BY <1>2, <1>3, <1>4 DEF ReadyInv

\* Between calls nothing is in transit.
LEMMA IdleFacts ==
    ASSUME CallInv, pc = "idle"
    PROVE  tx_queue = <<>> /\ imports = <<>> /\ removed = {} /\ InTransit = {}
  BY DEF CallInv, CallOK, InTransit

\* A call that is one step leaves the loops' variables alone.
LEMMA CallUnchanged ==
    ASSUME CallInv, UNCHANGED <<pc, addVars, pruneVars>>
    PROVE  CallInv' /\ InTransit' = InTransit
  BY DEF addVars, pruneVars, CallInv, CallTypes, CallOK, NoDuplicates, QueueAscends, InTransit

\* Entry of add_ready_transaction, for a transaction that is in nobody's hands.
LEMMA StartAddOK ==
    ASSUME CallInv, NEW h \in Hash, StartAdd(h),
           UNCHANGED <<pruning, markers, tags>>,
           pruning \/ imports' = <<>>, imports' \in Seq(Hash),
           \A i, j \in DOMAIN imports' : imports'[i] = imports'[j] => i = j,
           \A i \in DOMAIN imports' : imports'[i] # h
    PROVE  /\ CallInv'
           /\ InTransit' = {h} \cup {imports'[i] : i \in DOMAIN imports'}
<1>1. /\ pc' = "add" /\ tx_queue' = <<h>> /\ given' = h /\ is_new_tx' = TRUE
      /\ failed' = FALSE /\ promoted' = {} /\ removed' = {}
  BY DEF StartAdd
<1>2. /\ tx_queue' \in Seq(Hash) /\ DOMAIN tx_queue' = {1} /\ tx_queue'[1] = h
  BY <1>1
<1>3. CallTypes'
  BY <1>1, <1>2 DEF CallInv, CallTypes, HashOrNone
<1>4. CallOK' /\ QueueAscends'
  BY <1>1 DEF CallOK, QueueAscends
<1>5. NoDuplicates'
  BY <1>2 DEF NoDuplicates
<1>6. InTransit' = {h} \cup {imports'[i] : i \in DOMAIN imports'}
  BY <1>2 DEF InTransit
<1> QED BY <1>3, <1>4, <1>5, <1>6 DEF CallInv

-----------------------------------------------------------------------------
(* One lemma per operation *)

\* The invariant holds of the empty pool.
LEMMA InitOK == Init => IInv
<1> SUFFICES ASSUME Init PROVE IInv
  OBVIOUS
<1>1. TypeOK
  <2>1. WaitTypes
    BY DEF Init, WaitTypes, HashOrNone
  <2>2. ReadyTypes
    BY DEF Init, ReadyTypes, HashOrNone, NoUnlocks
  <2>3. CallTypes
    <3>1. tx_queue \in Seq(Hash) /\ imports \in Seq(Hash)
      BY DEF Init
    <3>2. markers \in Seq(Marker) /\ tags \in Seq(Marker)
      BY DEF Init
    <3> QED BY <3>1, <3>2 DEF Init, CallTypes, HashOrNone
  <2> QED BY <2>1, <2>2, <2>3 DEF TypeOK, WaitTypes, ReadyTypes, CallTypes
<1>2. CallOK /\ NoDuplicates /\ QueueAscends
  BY DEF Init, CallOK, NoDuplicates, QueueAscends
<1>3. OnePlace
  BY DEF Init, OnePlace, InTransit
<1>4. RequiresPrevious /\ RequiredMarkersExact /\ WaitingIsUnprovided
  BY DEF Init, RequiresPrevious, RequiredMarkersExact, WaitingIsUnprovided
<1>5. OneProviderPerMarker /\ UnlocksSuccessors /\ DependentOffsets /\ LinkedOrIndependent
  BY DEF Init, OneProviderPerMarker, UnlocksSuccessors, DependentOffsets, LinkedOrIndependent, NoUnlocks
<1> QED BY <1>1, <1>2, <1>3, <1>4, <1>5 DEF IInv

LEMMA AddPendingOK ==
    ASSUME IInv, NEW h \in Hash, AddPending(h) PROVE IInv'
<1>1. ReadyInv /\ WaitInv /\ CallInv /\ OnePlace
  BY Parts
<1>2. /\ pc = "idle" /\ h \notin waiting_queue /\ h \notin ready_tx /\ NonceOf[h] > 0
      /\ provided_markers[Previous(h)] = None
      /\ requires' = requires \cup {h}
      /\ required_markers' = [required_markers EXCEPT ![Previous(h)] = @ \cup {h}]
      /\ waiting_markers' = [waiting_markers EXCEPT ![Provides(h)] = h]
      /\ waiting_queue' = waiting_queue \cup {h}
      /\ UNCHANGED <<readyVars, pc, addVars, pruneVars>>
  BY DEF AddPending, Addable, Contains, Missing
<1>3. Previous(h) \in Marker /\ Provides(h) \in Marker
  BY <1>2, MarkerFacts
<1>4. ready_tx' = ready_tx /\ provided_markers' = provided_markers
  BY <1>2 DEF readyVars
<1>5. ReadyInv'
  BY <1>1, <1>2, ReadyUnchanged DEF ReadyInv, ReadyTypes, RequiresPrevious
<1>6. WaitInv'
  <2>1. WaitTypes'
    BY <1>1, <1>2, <1>3 DEF WaitInv, WaitTypes, HashOrNone
  <2>2. WaitingIsUnprovided'
    BY <1>1, <1>2, <1>4 DEF WaitInv, WaitingIsUnprovided
  <2>3. RequiredMarkersExact'
    BY <1>1, <1>2, <1>3 DEF WaitInv, WaitTypes, RequiredMarkersExact, WaitingIsUnprovided
  <2> QED BY <2>1, <2>2, <2>3 DEF WaitInv
<1>7. CallInv' /\ InTransit' = {}
  BY <1>1, <1>2, CallUnchanged, IdleFacts
<1>8. OnePlace'
  BY <1>1, <1>2, <1>4, <1>7 DEF OnePlace
<1> QED BY <1>5, <1>6, <1>7, <1>8, PartsNext

LEMMA AddReadyOK ==
    ASSUME IInv, NEW h \in Hash, NEW needs \in BOOLEAN, AddReady(h, needs) PROVE IInv'
<1>1. ReadyInv /\ WaitInv /\ CallInv /\ OnePlace
  BY Parts
<1>2. /\ pc = "idle" /\ h \notin waiting_queue /\ h \notin ready_tx
      /\ needs => NonceOf[h] > 0
      /\ requires' = IF needs THEN requires \cup {h} ELSE requires
      /\ StartAdd(h)
      /\ UNCHANGED <<readyVars, waitVars, pruneVars>>
  BY DEF AddReady, Addable, Contains
<1>3. /\ ready_tx' = ready_tx /\ provided_markers' = provided_markers
      /\ waiting_queue' = waiting_queue /\ imports' = imports
      /\ UNCHANGED <<pruning, markers, tags>>
  BY <1>2 DEF readyVars, waitVars, pruneVars
<1>4. imports = <<>>
  BY <1>1, <1>2, IdleFacts
<1>5. ReadyInv'
  BY <1>1, <1>2, ReadyUnchanged DEF ReadyInv, ReadyTypes, RequiresPrevious
<1>6. WaitInv'
  BY <1>1, <1>2, <1>3, WaitUnchanged DEF ReadyInv, ReadyTypes
<1>7. CallInv' /\ InTransit' = {h}
  BY <1>1, <1>2, <1>3, <1>4, StartAddOK
<1>8. OnePlace'
  BY <1>1, <1>2, <1>3, <1>7 DEF OnePlace
<1> QED BY <1>5, <1>6, <1>7, <1>8, PartsNext

LEMMA RemoveInvalidOK ==
    ASSUME IInv, NEW S, RemoveInvalid(S) PROVE IInv'
<1>1. ReadyInv /\ WaitInv /\ CallInv /\ OnePlace
  BY Parts
<1>2. /\ pc = "idle" /\ RemoveWithMarkers(S) /\ PendingRemove(S)
      /\ requires' = requires \cap (waiting_queue' \cup ready_tx')
      /\ UNCHANGED <<pc, addVars, pruneVars>>
  BY DEF RemoveInvalid
<1>3. /\ ReadyInv' /\ ready_tx' \subseteq ready_tx
      /\ \A m \in Marker : provided_markers[m] = None => provided_markers'[m] = None
  BY <1>1, <1>2, RemoveWithMarkersOK
<1>4. WaitInv' /\ waiting_queue' \subseteq waiting_queue
  BY <1>1, <1>2, <1>3, PendingRemoveOK DEF ReadyInv, ReadyTypes
<1>5. CallInv' /\ InTransit' = {}
  BY <1>1, <1>2, CallUnchanged, IdleFacts
<1>6. OnePlace'
  BY <1>1, <1>3, <1>4, <1>5 DEF OnePlace
<1> QED BY <1>3, <1>4, <1>5, <1>6, PartsNext

LEMMA DropTransactionOK ==
    ASSUME IInv, NEW h \in Hash, DropTransaction(h) PROVE IInv'
<1>1. ReadyInv /\ WaitInv /\ CallInv /\ OnePlace
  BY Parts
<1>2. /\ pc = "idle" /\ RemoveWithMarkers({h})
      /\ requires' = requires \cap (waiting_queue \cup ready_tx')
      /\ UNCHANGED <<waitVars, pc, addVars, pruneVars>>
  BY DEF DropTransaction
<1>3. /\ ReadyInv' /\ ready_tx' \subseteq ready_tx
      /\ \A m \in Marker : provided_markers[m] = None => provided_markers'[m] = None
  BY <1>1, <1>2, RemoveWithMarkersOK
<1>4. WaitInv' /\ waiting_queue' = waiting_queue
  BY <1>1, <1>2, <1>3, WaitUnchanged DEF ReadyInv, ReadyTypes, waitVars
<1>5. CallInv' /\ InTransit' = {}
  BY <1>1, <1>2, CallUnchanged, IdleFacts
<1>6. OnePlace'
  BY <1>1, <1>3, <1>4, <1>5 DEF OnePlace
<1> QED BY <1>3, <1>4, <1>5, <1>6, PartsNext

LEMMA ClearOK ==
    ASSUME IInv, Clear PROVE IInv'
<1>1. CallInv' /\ InTransit' = {}
  BY Parts, CallUnchanged, IdleFacts DEF Clear
<1>2. ReadyInv'
  <2>1. ReadyTypes' /\ RequiresPrevious' /\ OneProviderPerMarker'
    BY DEF Clear, ReadyTypes, RequiresPrevious, OneProviderPerMarker, HashOrNone, NoUnlocks
  <2>2. UnlocksSuccessors' /\ DependentOffsets' /\ LinkedOrIndependent'
    BY DEF Clear, UnlocksSuccessors, DependentOffsets, LinkedOrIndependent, NoUnlocks
  <2> QED BY <2>1, <2>2 DEF ReadyInv
<1>3. WaitInv'
  BY DEF Clear, WaitInv, WaitTypes, RequiredMarkersExact, WaitingIsUnprovided, HashOrNone
<1>4. OnePlace'
  BY <1>1 DEF Clear, OnePlace
<1> QED BY <1>1, <1>2, <1>3, <1>4, PartsNext

\* One iteration of add_ready_transaction.
LEMMA AddNextOK ==
    ASSUME IInv, AddNext PROVE IInv'
<1> DEFINE h == Head(tx_queue)
           freed == required_markers[Provides(h)]
<1>1. ReadyInv /\ WaitInv /\ CallInv /\ OnePlace
  BY Parts
<1>2. /\ pc = "add" /\ tx_queue # <<>> /\ MarkAndUnlock(Provides(h))
      /\ is_new_tx' = FALSE
      /\ UNCHANGED <<pc, given, pruneVars>>
  BY DEF AddNext
<1>3. \/ /\ ~Underpriced(h) /\ ReadyAdd(h) /\ UNCHANGED failed
         /\ promoted' = IF is_new_tx THEN promoted ELSE promoted \cup {h}
      \/ /\ requires' = requires \ {h} /\ failed' = is_new_tx
         /\ UNCHANGED <<readyVars, promoted, removed>>
  BY DEF AddNext
<1>4. \E s \in Orderings(freed) : tx_queue' = <<>> \/ tx_queue' = Tail(tx_queue) \o s
  BY DEF AddNext
<1>5. /\ h \in Hash /\ Tail(tx_queue) \in Seq(Hash)
      /\ \E k \in DOMAIN tx_queue : h = tx_queue[k]
      /\ \A i, j \in DOMAIN Tail(tx_queue) : Tail(tx_queue)[i] = Tail(tx_queue)[j] => i = j
      /\ \A i \in DOMAIN Tail(tx_queue) : Tail(tx_queue)[i] # h
      /\ \A i \in DOMAIN Tail(tx_queue) : \E k \in DOMAIN tx_queue : Tail(tx_queue)[i] = tx_queue[k]
  BY <1>1, <1>2, TailDistinct DEF CallInv, CallTypes, NoDuplicates
<1>6. h \in InTransit /\ h \notin waiting_queue /\ h \notin ready_tx /\ Provides(h) \in Marker
  BY <1>1, <1>5, MarkerFacts DEF InTransit, OnePlace
<1> HIDE DEF h, freed
<1>7. freed \in SUBSET Hash
  BY <1>1, <1>6 DEF WaitInv, WaitTypes, freed
<1>8. /\ ReadyInv' /\ ready_tx' \subseteq ready_tx \cup {h}
      /\ requires \cap waiting_queue \subseteq requires'
      /\ \A m \in Marker : m # Provides(h) => provided_markers'[m] = provided_markers[m]
  <2>1. CASE ReadyAdd(h)
    <3>1. /\ ReadyInv' /\ ready_tx' \subseteq ready_tx \cup {h}
          /\ \A m \in Marker : m # Provides(h) => provided_markers'[m] = provided_markers[m]
      BY <1>1, <1>5, <1>6, <2>1, ReadyAddOK
    <3>2. provided_markers[Provides(h)] \notin waiting_queue
      BY <1>1, <1>6, TxPoolConstants
      DEF ReadyInv, OneProviderPerMarker, OnePlace, WaitInv, WaitTypes
    <3>3. requires' = requires \ {provided_markers[Provides(h)]}
      BY <2>1 DEF ReadyAdd
    <3> QED BY <3>1, <3>2, <3>3
  <2>2. CASE requires' = requires \ {h} /\ UNCHANGED <<readyVars, promoted, removed>>
    <3>1. ready_tx' = ready_tx /\ provided_markers' = provided_markers /\ UNCHANGED readyVars
      BY <2>2 DEF readyVars
    <3>2. ReadyInv'
      BY <1>1, <1>6, <2>2, <3>1, ReadyUnchanged DEF ReadyInv, ReadyTypes, RequiresPrevious
    <3> QED BY <1>6, <2>2, <3>1, <3>2
  <2> QED BY <1>3, <2>1, <2>2
<1>9. /\ WaitInv' /\ freed \subseteq waiting_queue /\ waiting_queue' = waiting_queue \ freed
      /\ \A g \in freed : NonceOf[g] > 0 /\ Previous(g) = Provides(h)
  BY <1>1, <1>2, <1>6, <1>8, MarkAndUnlockOK DEF ReadyInv, ReadyTypes, h, freed
<1>10. /\ tx_queue' \in Seq(Hash)
       /\ \A i, j \in DOMAIN tx_queue' : tx_queue'[i] = tx_queue'[j] => i = j
       /\ \A i \in DOMAIN tx_queue' : \/ tx_queue'[i] \in freed
                                      \/ /\ tx_queue'[i] # h
                                         /\ \E k \in DOMAIN Tail(tx_queue) : tx_queue'[i] = Tail(tx_queue)[k]
  <2>1. CASE tx_queue' = <<>>
    BY <2>1
  <2>2. ASSUME NEW s \in Orderings(freed), tx_queue' = Tail(tx_queue) \o s
        PROVE  <1>10
    <3>1. /\ s \in Seq(Hash)
          /\ \A i, j \in DOMAIN s : s[i] = s[j] => i = j
          /\ \A i \in DOMAIN s : s[i] \in freed
      BY <1>7, OrderingFacts
    <3>2. \A i \in DOMAIN Tail(tx_queue) : Tail(tx_queue)[i] \in InTransit
      BY <1>5 DEF InTransit
    <3>3. \A i \in DOMAIN Tail(tx_queue), j \in DOMAIN s : Tail(tx_queue)[i] # s[j]
      BY <1>1, <1>9, <3>1, <3>2 DEF OnePlace
    <3> DEFINE t == Tail(tx_queue)
    <3>4. t \in Seq(Hash) /\ \A i, j \in DOMAIN t : t[i] = t[j] => i = j
      BY <1>5
    <3>5. \A i \in DOMAIN t, j \in DOMAIN s : t[i] # s[j]
      BY <3>3
    <3>6. \A i \in DOMAIN t : t[i] # h
      BY <1>5
    <3> HIDE DEF t
    <3>7. /\ t \o s \in Seq(Hash)
          /\ \A i, j \in DOMAIN (t \o s) : (t \o s)[i] = (t \o s)[j] => i = j
          /\ \A i \in DOMAIN (t \o s) : \/ \E k \in DOMAIN t : (t \o s)[i] = t[k]
                                        \/ \E k \in DOMAIN s : (t \o s)[i] = s[k]
      BY <3>1, <3>4, <3>5, ConcatDistinct
    <3>8. tx_queue' = t \o s
      BY <2>2 DEF t
    <3>9. \A i \in DOMAIN tx_queue' : tx_queue'[i] \in freed \/
              (tx_queue'[i] # h /\ \E k \in DOMAIN t : tx_queue'[i] = t[k])
      BY <3>1, <3>6, <3>7, <3>8
    <3> QED BY <3>7, <3>8, <3>9 DEF t
  <2> QED BY <1>4, <2>1, <2>2
<1>11. imports' = imports /\ pruning' = pruning /\ markers' = markers /\ tags' = tags
  BY <1>2 DEF pruneVars
<1>12. ASSUME NEW i \in DOMAIN tx_queue'
       PROVE  \/ tx_queue'[i] \in freed
              \/ tx_queue'[i] # h /\ \E k \in DOMAIN tx_queue : tx_queue'[i] = tx_queue[k]
  BY <1>5, <1>10
<1>13. NoDuplicates'
  <2>1. \A g \in freed, j \in DOMAIN imports : g # imports[j]
    BY <1>1, <1>9 DEF OnePlace, InTransit
  <2>2. /\ \A i, j \in DOMAIN imports : imports[i] = imports[j] => i = j
        /\ \A i \in DOMAIN tx_queue, j \in DOMAIN imports : tx_queue[i] # imports[j]
    BY <1>1 DEF CallInv, NoDuplicates
  <2>3. ASSUME NEW i \in DOMAIN tx_queue', NEW j \in DOMAIN imports
        PROVE  tx_queue'[i] # imports[j]
    BY <1>12, <2>1, <2>2
  <2>4. \A i, j \in DOMAIN tx_queue' : tx_queue'[i] = tx_queue'[j] => i = j
    BY <1>10
  <2> QED BY <1>11, <2>2, <2>3, <2>4 DEF NoDuplicates
<1>14. OnePlace'
  <2>1. \A i \in DOMAIN imports : imports[i] \in InTransit /\ imports[i] # h
    BY <1>1, <1>5 DEF InTransit, CallInv, NoDuplicates
  <2>2. InTransit' \subseteq (InTransit \ {h}) \cup freed
    BY <1>11, <1>12, <2>1 DEF InTransit
  <2> QED BY <1>1, <1>6, <1>8, <1>9, <2>2 DEF OnePlace
<1>15. CallTypes' /\ CallOK'
  <2>1. promoted' \subseteq Hash /\ removed' \subseteq Hash /\ failed' \in BOOLEAN
    <3>1. provided_markers[Provides(h)] \in HashOrNone
      BY <1>1, <1>6 DEF ReadyInv, ReadyTypes
    <3>2. promoted \subseteq Hash /\ removed \subseteq Hash /\ failed \in BOOLEAN /\ is_new_tx \in BOOLEAN
      BY <1>1 DEF CallInv, CallTypes
    <3>3. removed' \subseteq Hash
      <4>1. CASE ReadyAdd(h)
        <5>1. removed' = removed \/ (provided_markers[Provides(h)] # None /\
                                      removed' = removed \cup {provided_markers[Provides(h)]})
          BY <4>1 DEF ReadyAdd
        <5> QED BY <3>1, <3>2, <5>1 DEF HashOrNone
      <4>2. CASE removed' = removed
        BY <3>2, <4>2
      <4> QED BY <1>3, <4>1, <4>2
    <3>4. promoted' \subseteq Hash
      BY <1>3, <1>5, <3>2
    <3>5. failed' \in BOOLEAN
      BY <1>3, <3>2
    <3> QED BY <3>3, <3>4, <3>5
  <2> QED BY <1>1, <1>2, <1>10, <1>11, <2>1 DEF CallInv, CallTypes, CallOK
<1>16. QueueAscends'
  <2>1. given \in Hash /\ given' = given /\ given \notin removed
    BY <1>1, <1>2 DEF CallInv, QueueAscends
  <2>2. NonceOf[h] >= NonceOf[given] /\ (is_new_tx => h = given) /\ (~is_new_tx => NonceOf[h] > NonceOf[given])
    <3>1. NonceOf[h] \in Nat /\ NonceOf[given] \in Nat /\ is_new_tx \in BOOLEAN
      BY <1>1, <1>5, <2>1, ConstantTypes DEF CallInv, CallTypes
    <3>2. CASE is_new_tx
      <4>1. tx_queue = <<given>>
        BY <1>1, <1>2, <3>2 DEF CallInv, QueueAscends
      <4>2. h = given
        BY <4>1 DEF h
      <4> QED BY <3>1, <3>2, <4>2
    <3>3. CASE ~is_new_tx
      <4>1. PICK k \in DOMAIN tx_queue : h = tx_queue[k]
        BY <1>5
      <4>2. NonceOf[h] > NonceOf[given]
        BY <1>1, <1>2, <3>3, <4>1 DEF CallInv, QueueAscends
      <4> QED BY <3>1, <3>3, <4>2
    <3> QED BY <3>2, <3>3
  <2>3. \A g \in freed : NonceOf[g] > NonceOf[given]
    <3>1. \A g \in freed : g \in Hash /\ NonceOf[g] = NonceOf[h] + 1
      BY <1>5, <1>7, <1>9, MarkerFacts
    <3>2. NonceOf[h] \in Nat /\ NonceOf[given] \in Nat
      BY <1>5, <2>1, ConstantTypes
    <3> QED BY <2>2, <3>1, <3>2
  <2>4. \A k \in DOMAIN Tail(tx_queue) : NonceOf[Tail(tx_queue)[k]] > NonceOf[given]
    <3>1. CASE is_new_tx
      <4>1. tx_queue = <<given>>
        BY <1>1, <1>2, <3>1 DEF CallInv, QueueAscends
      <4> QED BY <4>1
    <3>2. CASE ~is_new_tx
      BY <1>1, <1>2, <1>5, <3>2 DEF CallInv, QueueAscends
    <3> QED BY <3>1, <3>2
  <2>5. \A i \in DOMAIN tx_queue' : NonceOf[tx_queue'[i]] > NonceOf[given]
    BY <1>10, <2>3, <2>4
  <2>6. given \notin removed'
    <3>1. CASE removed' = removed
      BY <2>1, <3>1
    <3>2. CASE ReadyAdd(h) /\ removed' # removed
      <4> DEFINE old == provided_markers[Provides(h)]
      <4>1. old # None /\ removed' = removed \cup {old}
        BY <3>2 DEF ReadyAdd
      <4>2. old \in ready_tx /\ Provides(old) = Provides(h) /\ old \in Hash
        BY <1>1, <1>6, <4>1 DEF ReadyInv, ReadyTypes, OneProviderPerMarker
      <4>3. NonceOf[old] = NonceOf[h]
        BY <4>2 DEF Provides
      <4>4. NonceOf[h] \in Nat /\ NonceOf[given] \in Nat
        BY <1>5, <2>1, ConstantTypes
      <4>5. old # given
        <5>1. CASE is_new_tx
          BY <1>6, <2>2, <4>2, <5>1
        <5>2. CASE ~is_new_tx
          <6>1. NonceOf[old] > NonceOf[given]
            BY <2>2, <4>3, <5>2
          <6> QED BY <4>4, <6>1
        <5> QED BY <5>1, <5>2
      <4> QED BY <2>1, <4>1, <4>5
    <3> QED BY <1>3, <3>1, <3>2
  <2> QED BY <1>2, <2>1, <2>5, <2>6 DEF QueueAscends
<1> QED BY <1>8, <1>9, <1>13, <1>14, <1>15, <1>16, PartsNext DEF CallInv

\* The end of add_ready_transaction; the new transaction was not replaced.
LEMMA AddReturnOK ==
    ASSUME IInv, AddReturn PROVE IInv'
<1>1. ReadyInv /\ WaitInv /\ CallInv /\ OnePlace
  BY Parts
<1>2. /\ pc = "add" /\ tx_queue = <<>> /\ tx_queue' = <<>>
      /\ RemoveWithMarkers(IF Cyclic THEN promoted ELSE {})
      /\ requires' = requires \cap (waiting_queue \cup ready_tx' \cup {imports[i] : i \in DOMAIN imports})
      /\ pc' = IF pruning THEN "import" ELSE "idle"
      /\ given' = None /\ is_new_tx' = FALSE /\ failed' = FALSE /\ promoted' = {} /\ removed' = {}
      /\ UNCHANGED waitVars /\ UNCHANGED pruneVars
  BY DEF AddReturn
<1>3. /\ ReadyInv' /\ ready_tx' \subseteq ready_tx
      /\ \A m \in Marker : provided_markers[m] = None => provided_markers'[m] = None
  BY <1>1, <1>2, RemoveWithMarkersOK
<1>4. WaitInv' /\ waiting_queue' = waiting_queue
  BY <1>1, <1>2, <1>3, WaitUnchanged DEF ReadyInv, ReadyTypes, waitVars
<1>5. /\ imports' = imports /\ pruning' = pruning /\ markers' = markers /\ tags' = tags
  BY <1>2 DEF pruneVars
<1>6. CallTypes'
  BY <1>1, <1>2, <1>5 DEF CallInv, CallTypes, HashOrNone
<1>7. CallOK' /\ NoDuplicates' /\ QueueAscends'
  BY <1>1, <1>2, <1>5 DEF CallInv, CallOK, NoDuplicates, QueueAscends
<1>8. InTransit' = InTransit
  BY <1>2, <1>5 DEF InTransit
<1>9. OnePlace'
  BY <1>1, <1>3, <1>4, <1>8 DEF OnePlace
<1> QED BY <1>3, <1>4, <1>6, <1>7, <1>9, PartsNext DEF CallInv

LEMMA PruneMarkersOK ==
    ASSUME IInv, NEW ms \in BlockMarkers, PruneMarkers(ms) PROVE IInv'
<1>1. ReadyInv /\ WaitInv /\ CallInv /\ OnePlace
  BY Parts
<1>2. /\ pc = "idle" /\ pc' = "prune" /\ pruning' = TRUE /\ markers' = ms /\ requires' = requires
      /\ UNCHANGED readyVars /\ UNCHANGED waitVars /\ UNCHANGED addVars
      /\ tags' = tags /\ imports' = imports
  BY DEF PruneMarkers
<1>3. ms \in Seq(Marker)
  <2>1. PICK n \in 1..MaxIncluded : ms \in [1..n -> {Provides(h) : h \in Hash}]
    BY DEF BlockMarkers
  <2>2. ms \in [1..n -> Marker]
    BY <2>1, MarkerFacts
  <2>3. n \in Nat
    BY <2>1, ConstantTypes
  <2> QED BY <2>2, <2>3
<1>4. ReadyInv' /\ ready_tx' = ready_tx /\ provided_markers' = provided_markers
  BY <1>1, <1>2, ReadyUnchanged DEF ReadyInv, ReadyTypes, RequiresPrevious, readyVars
<1>5. WaitInv' /\ waiting_queue' = waiting_queue
  BY <1>1, <1>2, <1>4, WaitUnchanged DEF ReadyInv, ReadyTypes, waitVars
<1>6. /\ tx_queue' = tx_queue /\ given' = given /\ is_new_tx' = is_new_tx /\ failed' = failed
      /\ promoted' = promoted /\ removed' = removed
  BY <1>2 DEF addVars
<1>7. CallTypes'
  BY <1>1, <1>2, <1>3, <1>6 DEF CallInv, CallTypes
<1>8. CallOK' /\ NoDuplicates' /\ QueueAscends'
  BY <1>1, <1>2, <1>6 DEF CallInv, CallOK, NoDuplicates, QueueAscends
<1>9. OnePlace'
  BY <1>1, <1>2, <1>4, <1>5, <1>6 DEF OnePlace, InTransit
<1> QED BY <1>4, <1>5, <1>7, <1>8, <1>9, PartsNext DEF CallInv

LEMMA PruneNextOK ==
    ASSUME IInv, PruneNext PROVE IInv'
<1> DEFINE m == Head(markers)
           freed == required_markers[m]
<1>1. ReadyInv /\ WaitInv /\ CallInv /\ OnePlace
  BY Parts
<1>2. /\ pc = "prune" /\ markers # <<>> /\ MarkAndUnlock(m)
      /\ tags' = <<m>> /\ markers' = Tail(markers) /\ pc' = "tags" /\ requires' = requires
      /\ UNCHANGED readyVars /\ UNCHANGED addVars /\ pruning' = pruning
  BY DEF PruneNext
<1>3. PICK s \in Orderings(freed) : imports' = imports \o s
  BY DEF PruneNext
<1>4. m \in Marker /\ markers' \in Seq(Marker) /\ tags' \in Seq(Marker)
  BY <1>1, <1>2 DEF CallInv, CallTypes
<1> HIDE DEF m, freed
<1>5. freed \in SUBSET Hash
  BY <1>1, <1>4 DEF WaitInv, WaitTypes, freed
<1>6. ReadyInv' /\ ready_tx' = ready_tx /\ provided_markers' = provided_markers
  BY <1>1, <1>2, ReadyUnchanged DEF ReadyInv, ReadyTypes, RequiresPrevious, readyVars
<1>7. WaitInv' /\ freed \subseteq waiting_queue /\ waiting_queue' = waiting_queue \ freed
  BY <1>1, <1>2, <1>4, <1>6, MarkAndUnlockOK DEF ReadyInv, ReadyTypes, freed
<1>8. /\ s \in Seq(Hash)
      /\ \A i, j \in DOMAIN s : s[i] = s[j] => i = j
      /\ \A i \in DOMAIN s : s[i] \in freed
  BY <1>5, OrderingFacts
<1>9. /\ imports \in Seq(Hash)
      /\ \A i, j \in DOMAIN imports : imports[i] = imports[j] => i = j
      /\ \A i \in DOMAIN imports : imports[i] \in InTransit
  BY <1>1 DEF CallInv, CallTypes, NoDuplicates, InTransit
<1>10. \A i \in DOMAIN imports, j \in DOMAIN s : imports[i] # s[j]
  BY <1>1, <1>7, <1>8, <1>9 DEF OnePlace
<1>11. /\ imports' \in Seq(Hash)
       /\ \A i, j \in DOMAIN imports' : imports'[i] = imports'[j] => i = j
       /\ \A i \in DOMAIN imports' : imports'[i] \in InTransit \cup freed
  <2>1. /\ imports \o s \in Seq(Hash)
        /\ \A i, j \in DOMAIN (imports \o s) : (imports \o s)[i] = (imports \o s)[j] => i = j
        /\ \A i \in DOMAIN (imports \o s) : \/ \E k \in DOMAIN imports : (imports \o s)[i] = imports[k]
                                            \/ \E k \in DOMAIN s : (imports \o s)[i] = s[k]
    BY <1>8, <1>9, <1>10, ConcatDistinct
  <2> QED BY <1>3, <1>8, <1>9, <2>1
<1>12. /\ tx_queue' = tx_queue /\ given' = given /\ is_new_tx' = is_new_tx /\ failed' = failed
       /\ promoted' = promoted /\ removed' = removed /\ tx_queue = <<>> /\ pruning
  BY <1>1, <1>2 DEF addVars, CallInv, CallOK
<1>13. CallTypes'
  BY <1>1, <1>2, <1>4, <1>11, <1>12 DEF CallInv, CallTypes
<1>14. CallOK' /\ QueueAscends'
  BY <1>1, <1>2, <1>12 DEF CallInv, CallOK, QueueAscends
<1>15. NoDuplicates'
  BY <1>11, <1>12 DEF NoDuplicates
<1>16. OnePlace'
  <2>1. InTransit' \subseteq InTransit \cup freed
    BY <1>11, <1>12 DEF InTransit
  <2> QED BY <1>1, <1>6, <1>7, <2>1 DEF OnePlace
<1> QED BY <1>6, <1>7, <1>13, <1>14, <1>15, <1>16, PartsNext DEF CallInv

\* One iteration of prune_tags.
LEMMA PruneTagOK ==
    ASSUME IInv, PruneTag PROVE IInv'
<1> DEFINE rest == SubSeq(tags, 1, Len(tags) - 1)
           h == provided_markers[tags[Len(tags)]]
<1>1. ReadyInv /\ WaitInv /\ CallInv /\ OnePlace
  BY Parts
<1>2. /\ pc = "tags" /\ tags # <<>>
      /\ \/ h = None /\ tags' = rest /\ requires' = requires /\ UNCHANGED readyVars
         \/ h # None /\ (tags' = rest \/ (PreviousTx(h) # None /\ tags' = Append(rest, Previous(h)))) /\ PruneProvider(h)
      /\ UNCHANGED waitVars /\ UNCHANGED addVars
      /\ pc' = pc /\ pruning' = pruning /\ markers' = markers /\ imports' = imports
  BY DEF PruneTag, TagsAfter
<1>3. rest \in Seq(Marker) /\ tags[Len(tags)] \in Marker
  BY <1>1, <1>2 DEF CallInv, CallTypes
<1>4. h # None => h \in ready_tx /\ h \in Hash
  BY <1>1, <1>3 DEF ReadyInv, ReadyTypes, OneProviderPerMarker
<1>5. tags' \in Seq(Marker)
  <2>1. CASE tags' = rest
    BY <1>3, <2>1
  <2>2. CASE h # None /\ PreviousTx(h) # None /\ tags' = Append(rest, Previous(h))
    <3>1. Previous(h) \in Marker
      BY <1>1, <1>4, <2>2, MarkerFacts DEF PreviousTx, ReadyInv, RequiresPrevious
    <3> HIDE DEF rest, h
    <3> QED BY <1>3, <2>2, <3>1
  <2> QED BY <1>2, <2>1, <2>2
<1> HIDE DEF rest, h
<1>6. /\ ReadyInv' /\ ready_tx' \subseteq ready_tx
      /\ requires \cap waiting_queue \subseteq requires'
      /\ \A k \in Marker : provided_markers[k] = None => provided_markers'[k] = None
  <2>1. CASE UNCHANGED readyVars /\ requires' = requires
    BY <1>1, <2>1, ReadyUnchanged DEF ReadyInv, ReadyTypes, RequiresPrevious, readyVars
  <2>2. CASE h # None /\ PruneProvider(h)
    <3>1. requires' = requires \ {h}
      BY <2>2 DEF PruneProvider
    <3> QED BY <1>1, <1>4, <2>2, <3>1, PruneProviderOK DEF OnePlace
  <2> QED BY <1>2, <2>1, <2>2
<1>7. WaitInv' /\ waiting_queue' = waiting_queue
  BY <1>1, <1>2, <1>6, WaitUnchanged DEF ReadyInv, ReadyTypes, waitVars
<1>8. /\ tx_queue' = tx_queue /\ given' = given /\ is_new_tx' = is_new_tx /\ failed' = failed
      /\ promoted' = promoted /\ removed' = removed
  BY <1>2 DEF addVars
<1>9. CallInv'
  BY <1>1, <1>2, <1>5, <1>8 DEF CallInv, CallTypes, CallOK, NoDuplicates, QueueAscends
<1>10. OnePlace'
  BY <1>1, <1>2, <1>6, <1>7, <1>8 DEF OnePlace, InTransit
<1> QED BY <1>6, <1>7, <1>9, <1>10, PartsNext

LEMMA PruneTagsReturnOK ==
    ASSUME IInv, PruneTagsReturn PROVE IInv'
<1>1. ReadyInv /\ WaitInv /\ CallInv /\ OnePlace
  BY Parts
<1>2. ReadyInv' /\ WaitInv' /\ OnePlace'
  BY <1>1, ReadyUnchanged, WaitUnchanged
  DEF PruneTagsReturn, ReadyInv, ReadyTypes, RequiresPrevious, readyVars, waitVars, addVars,
      pruneVars, OnePlace, InTransit
<1>3. CallInv'
  BY <1>1 DEF PruneTagsReturn, addVars, pruneVars, CallInv, CallTypes, CallOK, NoDuplicates, QueueAscends
<1> QED BY <1>2, <1>3, PartsNext

LEMMA ImportNextOK ==
    ASSUME IInv, ImportNext PROVE IInv'
<1> DEFINE h == Head(imports)
<1>1. ReadyInv /\ WaitInv /\ CallInv /\ OnePlace
  BY Parts
<1>2. /\ pc = "import" /\ imports # <<>> /\ StartAdd(h) /\ imports' = Tail(imports)
      /\ requires' = requires /\ UNCHANGED readyVars /\ UNCHANGED waitVars
      /\ UNCHANGED <<pruning, markers, tags>> /\ pruning
  BY <1>1 DEF ImportNext, CallInv, CallOK
<1>3. /\ h \in Hash /\ Tail(imports) \in Seq(Hash)
      /\ \E k \in DOMAIN imports : h = imports[k]
      /\ \A i, j \in DOMAIN Tail(imports) : Tail(imports)[i] = Tail(imports)[j] => i = j
      /\ \A i \in DOMAIN Tail(imports) : Tail(imports)[i] # h
      /\ \A i \in DOMAIN Tail(imports) : \E k \in DOMAIN imports : Tail(imports)[i] = imports[k]
  BY <1>1, <1>2, TailDistinct DEF CallInv, CallTypes, NoDuplicates
<1> HIDE DEF h
<1>4. ReadyInv' /\ WaitInv' /\ ready_tx' = ready_tx /\ waiting_queue' = waiting_queue
  BY <1>1, <1>2, ReadyUnchanged, WaitUnchanged DEF ReadyInv, ReadyTypes, RequiresPrevious, readyVars, waitVars
<1>5. CallInv' /\ InTransit' = {h} \cup {imports'[i] : i \in DOMAIN imports'}
  BY <1>1, <1>2, <1>3, StartAddOK
<1>6. InTransit' \subseteq InTransit
  <2>1. h \in InTransit
    BY <1>3 DEF InTransit
  <2>2. \A i \in DOMAIN imports' : imports'[i] \in InTransit
    BY <1>2, <1>3 DEF InTransit
  <2> QED BY <1>5, <2>1, <2>2
<1> QED BY <1>1, <1>4, <1>5, <1>6, PartsNext DEF OnePlace

LEMMA PruneReturnOK ==
    ASSUME IInv, PruneReturn PROVE IInv'
<1>1. ReadyInv /\ WaitInv /\ CallInv /\ OnePlace
  BY Parts
<1>2. ReadyInv' /\ WaitInv' /\ OnePlace'
  BY <1>1, ReadyUnchanged, WaitUnchanged
  DEF PruneReturn, ReadyInv, ReadyTypes, RequiresPrevious, readyVars, waitVars, addVars,
      OnePlace, InTransit
<1>3. CallInv'
  BY <1>1 DEF PruneReturn, addVars, CallInv, CallTypes, CallOK, NoDuplicates, QueueAscends
<1> QED BY <1>2, <1>3, PartsNext

-----------------------------------------------------------------------------
(* Theorems *)

\* Every call of the pool keeps the invariant, step by step.
LEMMA NextOK ==
    ASSUME IInv, [Next]_vars PROVE IInv'
<1>1. CASE \E h \in Hash : AddPending(h)
  BY <1>1, AddPendingOK
<1>2. CASE \E h \in Hash, needs \in BOOLEAN : AddReady(h, needs)
  BY <1>2, AddReadyOK
<1>3. CASE \E ms \in BlockMarkers : PruneMarkers(ms)
  BY <1>3, PruneMarkersOK
<1>4. CASE \E S \in SUBSET Hash : RemoveInvalid(S)
  BY <1>4, RemoveInvalidOK
<1>5. CASE \E a \in Sender : RemoveTransactionsByAddress(a)
  BY <1>5, RemoveInvalidOK DEF RemoveTransactionsByAddress
<1>6. CASE \E h \in Hash : DropTransaction(h)
  BY <1>6, DropTransactionOK
<1>7. CASE Clear
  BY <1>7, ClearOK
<1>8. CASE Step
  BY <1>8, AddNextOK, AddReturnOK, PruneNextOK, PruneTagOK, PruneTagsReturnOK, ImportNextOK,
     PruneReturnOK DEF Step
<1>9. CASE UNCHANGED vars
  <2>1. UNCHANGED readyVars /\ UNCHANGED waitVars /\ requires' = requires
        /\ UNCHANGED <<pc, addVars, pruneVars>>
    BY <1>9 DEF vars
  <2>2. ready_tx' = ready_tx /\ waiting_queue' = waiting_queue /\ provided_markers' = provided_markers
    BY <2>1 DEF readyVars, waitVars
  <2>3. ReadyInv /\ WaitInv /\ CallInv /\ OnePlace
    BY Parts
  <2>4. ReadyInv' /\ WaitInv'
    BY <2>1, <2>2, <2>3, ReadyUnchanged, WaitUnchanged DEF ReadyInv, ReadyTypes, RequiresPrevious
  <2>5. CallInv' /\ OnePlace'
    BY <2>1, <2>2, <2>3, CallUnchanged DEF OnePlace
  <2> QED BY <2>4, <2>5, PartsNext
<1> QED BY <1>1, <1>2, <1>3, <1>4, <1>5, <1>6, <1>7, <1>8, <1>9 DEF Next

\* The inductive invariant holds in every state of the pool.
THEOREM PoolInvariant == Spec => []IInv
  BY InitOK, NextOK, PTL DEF Spec

\* The pool's maps and queues keep their types.
THEOREM PoolTypes == Spec => []TypeOK
<1>1. IInv => TypeOK
  BY DEF IInv
<1> QED BY <1>1, PoolInvariant, PTL

\* `expect("tx is included;")' of mark_and_unlock: required_markers lists exactly
\* the waiting transactions, whatever is promoted, removed or replaced.
THEOREM PoolRequiredMarkers == Spec => []RequiredMarkersExact
<1>1. IInv => RequiredMarkersExact
  BY DEF IInv
<1> QED BY <1>1, PoolInvariant, PTL

\* The assertion of prune_tags and `expect("hash included;")' of add_transaction:
\* provided_markers and ready_tx name each other.
THEOREM PoolProviders == Spec => []OneProviderPerMarker
<1>1. IInv => OneProviderPerMarker
  BY DEF IInv
<1> QED BY <1>1, PoolInvariant, PTL

\* "transaction already included" and "transaction is already added" never fire.
THEOREM PoolOnePlace == Spec => []OnePlace
<1>1. IInv => OnePlace
  BY DEF IInv
<1> QED BY <1>1, PoolInvariant, PTL

\* No transaction is stuck behind a requirement that is already provided.
THEOREM PoolNoneStuck == Spec => []WaitingIsUnprovided
<1>1. IInv => WaitingIsUnprovided
  BY DEF IInv
<1> QED BY <1>1, PoolInvariant, PTL

\* Replacement, removal and pruning keep every ready transaction linked.
THEOREM PoolLinked == Spec => []LinkedOrIndependent
<1>1. IInv => LinkedOrIndependent
  BY DEF IInv
<1> QED BY <1>1, PoolInvariant, PTL

\* The cycle that add_ready_transaction checks for cannot arise: nonces only grow
\* along the queue of promoted transactions.
THEOREM PoolNoCycle == Spec => []NoCycle
<1>1. IInv => NoCycle
  BY DEF IInv, NoCycle, Cyclic, CallOK, QueueAscends
<1> QED BY <1>1, PoolInvariant, PTL

\* A nonempty set of nonces has a smallest one.
LEMMA SmallestNonce ==
    ASSUME NEW T \in SUBSET Nat, T # {}
    PROVE  \E x \in T : \A y \in T : ~(y < x)
<1>1. PICK x \in T : \A y \in T : ~(<<y, x>> \in OpToRel(<, Nat))
  BY WFMin, NatLessThanWellFounded
<1> QED BY <1>1 DEF OpToRel

\* Following `unlocks' from the independent transactions reaches every ready one:
\* a missed one of smallest nonce would be linked from one that is not missed.
LEMMA AllReachable ==
    ASSUME IInv PROVE IteratorYieldsAllReady
<1>1. ReadyInv
  BY Parts
<1>2. SUFFICES ASSUME NEW C \in SUBSET ready_tx, independent \cap ready_tx \subseteq C, Closed(C),
                      ready_tx \ C # {}
               PROVE  FALSE
  BY DEF IteratorYieldsAllReady, Yielded, Reachable
<1> DEFINE T == {NonceOf[g] : g \in ready_tx \ C}
<1>3. T \in SUBSET Nat /\ T # {}
  <2>1. ready_tx \subseteq Hash
    BY <1>1 DEF ReadyInv, ReadyTypes
  <2>2. \A k \in ready_tx \ C : NonceOf[k] \in Nat
    BY <2>1, ConstantTypes
  <2> QED BY <1>2, <2>2
<1>4. PICK g \in ready_tx \ C : \A k \in ready_tx \ C : ~(NonceOf[k] < NonceOf[g])
  <2>1. PICK x \in T : \A y \in T : ~(y < x)
    <3> HIDE DEF T
    <3> QED BY <1>3, SmallestNonce
  <2> QED BY <2>1
<1> DEFINE p == provided_markers[Previous(g)]
<1>5. g \in Hash /\ g \notin independent /\ g \in requires
  BY <1>1, <1>2, <1>4 DEF ReadyInv, ReadyTypes, LinkedOrIndependent
<1>6. NonceOf[g] > 0 /\ Previous(g) \in Marker /\ p # None /\ unlocks[p][g] > 0
  BY <1>1, <1>4, <1>5, MarkerFacts DEF ReadyInv, RequiresPrevious, LinkedOrIndependent
<1>7. p \in ready_tx /\ p \in Hash /\ Provides(p) = Previous(g)
  BY <1>1, <1>6 DEF ReadyInv, ReadyTypes, OneProviderPerMarker
<1>8. NonceOf[g] = NonceOf[p] + 1 /\ NonceOf[p] \in Nat /\ NonceOf[g] \in Nat
  BY <1>5, <1>6, <1>7, MarkerFacts, ConstantTypes
<1>9. p \in C
  <2>1. NonceOf[p] < NonceOf[g]
    <3> HIDE DEF p
    <3> QED BY <1>8
  <2> QED BY <1>4, <1>7, <2>1
<1> QED BY <1>2, <1>4, <1>5, <1>6, <1>9 DEF Closed, Unlocked

\* "Returns an iterator that yields all transactions that are currently ready":
\* no ready transaction is ever cut off from the iterator.
THEOREM PoolIterator == Spec => []IteratorYieldsAllReady
  BY AllReachable, PoolInvariant, PTL

\* Only add_ready_transaction gives a marker a new provider.
LEMMA ReplacementOK ==
    ASSUME IInv, [Next]_vars, NEW m \in Marker,
           provided_markers[m] # None, provided_markers'[m] \notin {None, provided_markers[m]}
    PROVE  Price[provided_markers'[m]] > Price[provided_markers[m]]
<1>1. CASE \E S : RemoveWithMarkers(S)
  BY <1>1 DEF RemoveWithMarkers
<1>2. CASE UNCHANGED readyVars
  BY <1>2 DEF readyVars
<1>3. CASE Clear
  BY <1>3 DEF Clear
<1>4. CASE PruneTag
  <2>1. CASE UNCHANGED readyVars
    BY <2>1 DEF readyVars
  <2>2. CASE PruneProvider(provided_markers[tags[Len(tags)]])
    BY <2>2 DEF PruneProvider, IInv, TypeOK
  <2> QED BY <1>4, <2>1, <2>2 DEF PruneTag
<1>5. CASE AddNext
  <2> DEFINE h == Head(tx_queue)
  <2>1. \/ ~Underpriced(h) /\ ReadyAdd(h)
        \/ UNCHANGED readyVars
    BY <1>5 DEF AddNext
  <2>2. h \in Hash
    <3>1. tx_queue \in Seq(Hash)
      BY DEF IInv, TypeOK
    <3>2. tx_queue # <<>>
      BY <1>5 DEF AddNext
    <3> QED BY <3>1, <3>2, HeadType
  <2> HIDE DEF h
  <2>3. CASE ~Underpriced(h) /\ ReadyAdd(h)
    <3>1. provided_markers' = [provided_markers EXCEPT ![Provides(h)] = h]
      BY <2>3 DEF ReadyAdd
    <3>2. m = Provides(h) /\ provided_markers'[m] = h
      BY <3>1 DEF IInv, TypeOK
    <3>3. provided_markers[m] \in Hash
      BY DEF IInv, TypeOK, HashOrNone
    <3>4. ~(Price[h] <= Price[provided_markers[m]])
      BY <2>3, <3>2 DEF Underpriced
    <3>5. Price[h] \in Nat /\ Price[provided_markers[m]] \in Nat
      BY <2>2, <3>3, ConstantTypes
    <3> QED BY <3>2, <3>4, <3>5
  <2> QED BY <1>2, <2>1, <2>3
<1>6. CASE \E h \in Hash : AddPending(h) \/ \E needs \in BOOLEAN : AddReady(h, needs)
  BY <1>2, <1>6 DEF AddPending, AddReady
<1>7. CASE (\E ms \in BlockMarkers : PruneMarkers(ms)) \/ PruneNext \/ PruneTagsReturn \/ ImportNext \/ PruneReturn
  BY <1>2, <1>7 DEF PruneMarkers, PruneNext, PruneTagsReturn, ImportNext, PruneReturn
<1>8. CASE (\E S \in SUBSET Hash : RemoveInvalid(S)) \/ (\E a \in Sender : RemoveTransactionsByAddress(a))
  BY <1>1, <1>8 DEF RemoveInvalid, RemoveTransactionsByAddress
<1>9. CASE (\E h \in Hash : DropTransaction(h)) \/ AddReturn
  BY <1>1, <1>9 DEF DropTransaction, AddReturn
<1>10. CASE UNCHANGED vars
  BY <1>2, <1>10 DEF vars
<1> QED BY <1>3, <1>4, <1>5, <1>6, <1>7, <1>8, <1>9, <1>10 DEF Next, Step

\* A ready transaction is replaced only by one that offers strictly more.
THEOREM PoolReplacement == Spec => ReplacedByHigherPrice
<1>1. IInv /\ [Next]_vars =>
          [\A m \in Marker :
              (provided_markers[m] # None /\ provided_markers'[m] \notin {None, provided_markers[m]})
                 => Price[provided_markers'[m]] > Price[provided_markers[m]]]_vars
  BY ReplacementOK
<1> QED BY <1>1, PoolInvariant, PTL DEF Spec, ReplacedByHigherPrice

\* `unlocks' stays within an account.
LEMMA SameSender ==
    ASSUME IInv, NEW g \in Hash, NEW k \in Hash, unlocks[g][k] > 0
    PROVE  SenderOf[k] = SenderOf[g]
<1>1. Previous(k) = Provides(g)
  BY DEF IInv, UnlocksSuccessors
<1> QED BY <1>1 DEF Previous, Provides

\* What is reachable from an account's ready transactions is these, since all of
\* them are found through the iterator.
LEMMA RemovesAccountOK ==
    ASSUME IInv, NEW a \in Sender, RemoveTransactionsByAddress(a), NEW h \in Hash
    PROVE  (h \in waiting_queue' \cup ready_tx') <=> (Contains(h) /\ SenderOf[h] # a)
<1> DEFINE S == {g \in waiting_queue \cup Yielded : SenderOf[g] = a}
           C == {g \in ready_tx : SenderOf[g] = a}
<1>1. ReadyInv /\ WaitInv /\ Yielded = ready_tx
  BY Parts, AllReachable DEF IteratorYieldsAllReady
<1>2. ready_tx' = ready_tx \ Reachable(S) /\ waiting_queue' = waiting_queue \ S
  BY DEF RemoveTransactionsByAddress, RemoveInvalid, RemoveWithMarkers, PendingRemove
<1>3. C \subseteq Reachable(S)
  <2>1. C = S \cap ready_tx
    BY <1>1
  <2> HIDE DEF S, C
  <2> QED BY <1>1, <2>1, ReachableFacts DEF ReadyInv
<1>4. Reachable(S) \subseteq C
  <2>1. Closed(C)
    BY <1>1, SameSender DEF Closed, Unlocked, ReadyInv, ReadyTypes
  <2>2. S \cap ready_tx \subseteq C /\ C \in SUBSET ready_tx
    OBVIOUS
  <2> HIDE DEF S, C
  <2> QED BY <2>1, <2>2 DEF Reachable
<1>5. Reachable(S) = C
  BY <1>3, <1>4
<1> QED BY <1>2, <1>5 DEF Contains

\* Removing by sender removes the account's transactions, all of them, and leaves
\* every other account alone.
THEOREM PoolRemovesAccount == Spec => RemovesAccount
<1>1. IInv /\ [Next]_vars =>
          [\A a \in Sender : RemoveTransactionsByAddress(a) =>
              \A h \in Hash : (h \in waiting_queue' \cup ready_tx') <=> (Contains(h) /\ SenderOf[h] # a)]_vars
  BY RemovesAccountOK
<1> QED BY <1>1, PoolInvariant, PTL DEF Spec, RemovesAccount
=============================================================================
