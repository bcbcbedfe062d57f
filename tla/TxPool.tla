------------------------------- MODULE TxPool -------------------------------
(***************************************************************************)
(* The transaction pool of anvil: PoolInner with its ReadyTransactions and *)
(* PendingTransactions (crates/anvil/src/eth/pool).                        *)
(*                                                                         *)
(* Every caller of the pool builds a transaction that provides exactly one *)
(* marker, (sender, nonce), and requires at most one, (sender, nonce - 1). *)
(* So `requires' is one Boolean per pooled transaction, missing_markers of *)
(* a waiting transaction is exactly its requirement, and the loops over    *)
(* `provides' have one iteration.                                          *)
(*                                                                         *)
(* The pool runs under the write lock of Pool::inner.  A call that loops   *)
(* (add_ready_transaction, prune_markers) takes one step per iteration and *)
(* `pc' tells where it is; no other call starts before it is back to       *)
(* "idle".  The order in which a HashSet yields its elements is chosen     *)
(* nondeterministically.                                                   *)
(***************************************************************************)
EXTENDS Naturals, Sequences, FiniteSets

CONSTANTS
    Hash,           \* transaction hashes
    Sender,         \* accounts
    SenderOf,       \* [Hash -> Sender]
    NonceOf,        \* [Hash -> 0..MaxNonce]
    Price,          \* [Hash -> Nat], PoolTransaction::gas_price
    MaxNonce,       \* the largest nonce of a transaction
    MaxIncluded,    \* bound: markers of one prune_markers call
    MaxUnlocks,     \* bound: how often a hash may be listed in one `unlocks'
    None            \* no transaction

ASSUME TxPoolConstants ==
    /\ IsFiniteSet(Hash)
    /\ MaxNonce \in Nat /\ MaxUnlocks \in Nat /\ MaxIncluded \in Nat
    /\ SenderOf \in [Hash -> Sender]
    /\ NonceOf \in [Hash -> 0..MaxNonce]
    /\ Price \in [Hash -> Nat]
    /\ None \notin Hash

Marker == Sender \X (0..MaxNonce)
Provides(h) == <<SenderOf[h], NonceOf[h]>>

\* Mutant: the requirement is not one nonce back.
OwnMarker(h) == <<SenderOf[h], NonceOf[h]>>

\* required_marker and to_marker: what h requires, if anything.
Previous(h) == <<SenderOf[h], NonceOf[h] - 1>>

VARIABLES
    requires,           \* pooled transactions that require Previous(h)
    \* PendingTransactions
    required_markers,   \* [Marker -> SUBSET Hash]
    waiting_markers,    \* [Marker -> Hash \cup {None}]
    waiting_queue,      \* hashes waiting for their marker
    \* ReadyTransactions
    provided_markers,   \* [Marker -> Hash \cup {None}]
    ready_tx,           \* hashes ready for inclusion
    unlocks,            \* [Hash -> [Hash -> Nat]]: occurrences in ReadyTransaction::unlocks
    requires_offset,    \* [Hash -> Nat]
    independent,        \* independent_transactions
    older,              \* pairs of ready transactions, the one with the smaller id first
    \* the call that holds the lock
    pc,                 \* "idle", "add", "prune", "tags" or "import"
    tx_queue,           \* add_ready_transaction: transactions still to add
    given,              \* add_ready_transaction: its argument
    is_new_tx, failed,  \* ... whether the argument is next, and whether it was refused
    promoted, removed,  \* ... AddedTransaction::Ready
    pruning,            \* prune_markers is the call that holds the lock
    markers,            \* ... the markers left
    tags,               \* prune_tags: its `remove' stack
    imports             \* prune_markers: unlocked transactions to add

readyVars == <<provided_markers, ready_tx, unlocks, requires_offset, independent, older>>
waitVars == <<required_markers, waiting_markers, waiting_queue>>
addVars == <<tx_queue, given, is_new_tx, failed, promoted, removed>>
pruneVars == <<pruning, markers, tags, imports>>
vars == <<requires, readyVars, waitVars, pc, addVars, pruneVars>>

NoUnlocks == [h \in Hash |-> 0]

Init ==
    /\ requires = {}
    /\ required_markers = [m \in Marker |-> {}]
    /\ waiting_markers = [m \in Marker |-> None]
    /\ waiting_queue = {}
    /\ provided_markers = [m \in Marker |-> None]
    /\ ready_tx = {}
    /\ unlocks = [h \in Hash |-> NoUnlocks]
    /\ requires_offset = [h \in Hash |-> 0]
    /\ independent = {}
    /\ older = {}
    /\ pc = "idle"
    /\ tx_queue = <<>> /\ given = None /\ is_new_tx = FALSE /\ failed = FALSE
    /\ promoted = {} /\ removed = {}
    /\ pruning = FALSE /\ markers = <<>> /\ tags = <<>> /\ imports = <<>>

-----------------------------------------------------------------------------
(* Helpers *)

\* The sequences that list S once: the orders in which a HashSet may iterate.
Orderings(S) ==
    {s \in [1..Cardinality(S) -> S] : \A i, j \in 1..Cardinality(S) : s[i] = s[j] => i = j}

\* `older' once the transactions of S have gone.
OlderWithout(S) == {p \in older : p[1] \notin S /\ p[2] \notin S}

Unlocked(h) == {g \in Hash : unlocks[h][g] > 0}

\* S and everything reachable from it through `unlocks' among the ready
\* transactions: the smallest such set.
Closed(C) == \A g \in C : Unlocked(g) \cap ready_tx \subseteq C
Reachable(S) ==
    {h \in ready_tx : \A C \in SUBSET ready_tx :
        (S \cap ready_tx \subseteq C /\ Closed(C)) => h \in C}

\* The transactions the ready iterator yields.
Yielded == Reachable(independent)

\* Mutant: the freed transactions stay in the waiting queue.
MarkWithoutUnlock(m) ==
    /\ required_markers' = [required_markers EXCEPT ![m] = {}]
    /\ waiting_markers' = [k \in Marker |->
           IF \E h \in required_markers[m] : Provides(h) = k THEN None ELSE waiting_markers[k]]
    /\ UNCHANGED waiting_queue

\* PendingTransactions::mark_and_unlock for one marker: everyone waiting for it
\* leaves the queue, and the entries for their own markers go too.
MarkAndUnlock(m) ==
    LET freed == required_markers[m]
    IN  /\ required_markers' = [required_markers EXCEPT ![m] = {}]
        /\ waiting_queue' = waiting_queue \ freed
        /\ waiting_markers' = [k \in Marker |->
               IF \E h \in freed : Provides(h) = k THEN None ELSE waiting_markers[k]]

\* Mutant: required_markers keeps the removed hashes.
PendingRemoveKeepsRequired(S) ==
    LET gone == S \cap waiting_queue
    IN  /\ waiting_queue' = waiting_queue \ gone
        /\ waiting_markers' = [k \in Marker |->
               IF \E h \in gone : Provides(h) = k THEN None ELSE waiting_markers[k]]
        /\ UNCHANGED required_markers

\* PendingTransactions::remove
PendingRemove(S) ==
    LET gone == S \cap waiting_queue
    IN  /\ waiting_queue' = waiting_queue \ gone
        /\ waiting_markers' = [k \in Marker |->
               IF \E h \in gone : Provides(h) = k THEN None ELSE waiting_markers[k]]
        /\ required_markers' = [k \in Marker |-> required_markers[k] \ gone]

\* Mutant: only the markers of the given transactions go, not of their dependents.
RemoveKeepsMarkers(S) ==
    LET gone == Reachable(S)
    IN  /\ ready_tx' = ready_tx \ gone
        /\ provided_markers' = [k \in Marker |->
               IF \E h \in S : Provides(h) = k THEN None ELSE provided_markers[k]]
        /\ unlocks' = [h \in Hash |-> IF h \in gone THEN NoUnlocks ELSE unlocks[h]]
        /\ requires_offset' = [h \in Hash |-> IF h \in gone THEN 0 ELSE requires_offset[h]]
        /\ independent' = independent \ gone
        /\ older' = OlderWithout(gone)

\* ReadyTransactions::remove_with_markers without a filter: the transactions
\* and all that they unlock.  The clean-up of the `unlocks' of the transaction
\* that provides a removed one's requirement compares with the provider's own
\* hash and so never finds an entry: those lists keep the removed hashes.
RemoveWithMarkers(S) ==
    LET gone == Reachable(S)
    IN  /\ ready_tx' = ready_tx \ gone
        /\ provided_markers' = [k \in Marker |->
               IF \E h \in gone : Provides(h) = k THEN None ELSE provided_markers[k]]
        /\ unlocks' = [h \in Hash |-> IF h \in gone THEN NoUnlocks ELSE unlocks[h]]
        /\ requires_offset' = [h \in Hash |-> IF h \in gone THEN 0 ELSE requires_offset[h]]
        /\ independent' = independent \ gone
        /\ older' = OlderWithout(gone)

-----------------------------------------------------------------------------
(* PoolInner::add_transaction and add_ready_transaction *)

Contains(h) == h \in waiting_queue \/ h \in ready_tx

\* Mutant: a provided requirement is missing all the same.
MissingAnyway(h, needs) == needs

\* PendingPoolTransaction::new: is the required marker still to come?
Missing(h, needs) == needs /\ provided_markers[Previous(h)] = None

\* `needs' says whether the caller's required_marker returned Previous(h).
Addable(h, needs) ==
    /\ pc = "idle"
    /\ ~Contains(h)
    /\ needs => NonceOf[h] > 0
    /\ \A g \in ready_tx : unlocks[g][h] < MaxUnlocks

\* A transaction with its requirement missing waits, unless it would stand in
\* for a waiting one that offers more.  The one it stands in for stays queued.
AddPending(h) ==
    LET replace == waiting_markers[Provides(h)]
    IN  /\ Addable(h, TRUE)
        /\ Missing(h, TRUE)
        /\ replace \in waiting_queue => Price[h] >= Price[replace]
        /\ requires' = requires \cup {h}
        /\ required_markers' = [required_markers EXCEPT ![Previous(h)] = @ \cup {h}]
        /\ waiting_markers' = [waiting_markers EXCEPT ![Provides(h)] = h]
        /\ waiting_queue' = waiting_queue \cup {h}
        /\ UNCHANGED <<readyVars, pc, addVars, pruneVars>>

\* Entry of add_ready_transaction
StartAdd(h) ==
    /\ pc' = "add"
    /\ tx_queue' = <<h>>
    /\ given' = h
    /\ is_new_tx' = TRUE
    /\ failed' = FALSE
    /\ promoted' = {}
    /\ removed' = {}

AddReady(h, needs) ==
    /\ Addable(h, needs)
    /\ ~Missing(h, needs)
    /\ requires' = IF needs THEN requires \cup {h} ELSE requires
    /\ StartAdd(h)
    /\ UNCHANGED <<readyVars, waitVars, pruneVars>>

\* Mutant: an equal offer replaces.
UnderpricedIfLess(h) ==
    LET old == provided_markers[Provides(h)]
    IN  old # None /\ Price[h] < Price[old]

\* ReadyTransactions::replaced_transactions refuses a price that is not higher.
Underpriced(h) ==
    LET old == provided_markers[Provides(h)]
    IN  old # None /\ Price[h] <= Price[old]

\* Mutant: the replaced transaction stays in the independent set.
IndependentKeepsOld(h, old, by) == independent \cup (IF by = None THEN {h} ELSE {})

\* Mutant: a transaction is independent although its requirement is in the pool.
IndependentAlways(h, old, by) == (independent \ {old}) \cup {h}

\* The transaction is independent unless `by' provides what it requires.
IndependentAfter(h, old, by) == (independent \ {old}) \cup (IF by = None THEN {h} ELSE {})

\* Mutant: the replacement does not take over `unlocks'.
UnlocksForgotten(h, old, by) ==
    [g \in Hash |-> IF g \in {h, old} THEN NoUnlocks
                    ELSE IF g = by THEN [unlocks[g] EXCEPT ![h] = @ + 1] ELSE unlocks[g]]

\* The replaced transaction hands its `unlocks' to h, and `by' unlocks h.
UnlocksAfter(h, old, by) ==
    [g \in Hash |-> IF g = h THEN IF old = None THEN NoUnlocks ELSE unlocks[old]
                    ELSE IF g = old THEN NoUnlocks
                    ELSE IF g = by THEN [unlocks[g] EXCEPT ![h] = @ + 1] ELSE unlocks[g]]

\* ReadyTransactions::add_transaction when it succeeds: the old provider of the
\* marker, if any, goes.
ReadyAdd(h) ==
    LET old == provided_markers[Provides(h)]
        by == IF h \in requires THEN provided_markers[Previous(h)] ELSE None
    IN  /\ ready_tx' = (ready_tx \ {old}) \cup {h}
        /\ provided_markers' = [provided_markers EXCEPT ![Provides(h)] = h]
        /\ unlocks' = UnlocksAfter(h, old, by)
        /\ requires_offset' = [g \in Hash |->
               IF g = h THEN (IF h \in requires /\ by = None THEN 1 ELSE 0)
               ELSE IF g = old THEN 0 ELSE requires_offset[g]]
        /\ independent' = IndependentAfter(h, old, by)
        /\ older' = OlderWithout({old}) \cup ((ready_tx \ {old}) \X {h})
        /\ requires' = requires \ {old}
        /\ removed' = IF old = None THEN removed ELSE removed \cup {old}

\* One iteration of the loop: what the transaction unlocks joins the queue
\* before the transaction is added itself.
AddNext ==
    LET h == Head(tx_queue)
    IN  /\ pc = "add"
        /\ tx_queue # <<>>
        /\ MarkAndUnlock(Provides(h))
        /\ \/ /\ ~Underpriced(h)
              /\ ReadyAdd(h)
              /\ promoted' = IF is_new_tx THEN promoted ELSE promoted \cup {h}
              /\ \E s \in Orderings(required_markers[Provides(h)]) : tx_queue' = Tail(tx_queue) \o s
              /\ UNCHANGED failed
           \/ /\ Underpriced(h)
              /\ requires' = requires \ {h}
              /\ failed' = is_new_tx
              /\ \E s \in Orderings(required_markers[Provides(h)]) :
                    tx_queue' = IF is_new_tx THEN <<>> ELSE Tail(tx_queue) \o s
              /\ UNCHANGED <<readyVars, promoted, removed>>
        /\ is_new_tx' = FALSE
        /\ UNCHANGED <<pc, given, pruneVars>>

\* The loop is done.  If a promoted transaction pushed the new one out, the
\* promoted ones are cleared again and the call fails.
Cyclic == ~failed /\ given \in removed

AddReturn ==
    /\ pc = "add"
    /\ tx_queue = <<>>
    /\ RemoveWithMarkers(IF Cyclic THEN promoted ELSE {})
    /\ requires' = requires \cap (waiting_queue \cup ready_tx' \cup {imports[i] : i \in DOMAIN imports})
    /\ pc' = IF pruning THEN "import" ELSE "idle"
    /\ given' = None /\ is_new_tx' = FALSE /\ failed' = FALSE
    /\ promoted' = {} /\ removed' = {}
    /\ UNCHANGED <<waitVars, tx_queue, pruneVars>>

-----------------------------------------------------------------------------
(* PoolInner::prune_markers and ReadyTransactions::prune_tags *)

PruneMarkers(ms) ==
    /\ pc = "idle"
    /\ pc' = "prune"
    /\ pruning' = TRUE
    /\ markers' = ms
    /\ UNCHANGED <<requires, readyVars, waitVars, addVars, tags, imports>>

PruneNext ==
    LET m == Head(markers)
    IN  /\ pc = "prune"
        /\ markers # <<>>
        /\ MarkAndUnlock(m)
        /\ \E s \in Orderings(required_markers[m]) : imports' = imports \o s
        /\ tags' = <<m>>
        /\ markers' = Tail(markers)
        /\ pc' = "tags"
        /\ UNCHANGED <<requires, readyVars, addVars, pruning>>

\* The ready transaction that provides the requirement of h.
PreviousTx(h) == IF h \in requires THEN provided_markers[Previous(h)] ELSE None

\* `unlocks' of the previous transaction with one entry for h struck out.
Struck(prev, h) ==
    IF unlocks[prev][h] > 0 THEN [unlocks[prev] EXCEPT ![h] = @ - 1] ELSE unlocks[prev]

\* Mutant: a transaction is freed one requirement too late.
FreedTooLate(h) ==
    LET needed(g) == IF g \in requires THEN 1 ELSE 0
    IN  {g \in (Unlocked(h) \cap ready_tx) \ {h} :
            requires_offset[g] <= needed(g) /\ needed(g) < requires_offset[g] + unlocks[h][g]}

\* The ready transactions that h unlocks last: each entry in `unlocks' counts one
\* requirement as gone.
Freed(h) ==
    LET needed(g) == IF g \in requires THEN 1 ELSE 0
    IN  {g \in (Unlocked(h) \cap ready_tx) \ {h} :
            requires_offset[g] < needed(g) /\ needed(g) <= requires_offset[g] + unlocks[h][g]}

\* The provider h of a pruned marker leaves the ready queue.
PruneProvider(h) ==
    LET prev == PreviousTx(h)
    IN  /\ provided_markers' = [provided_markers EXCEPT ![Provides(h)] = None]
        /\ ready_tx' = ready_tx \ {h}
        /\ unlocks' = [g \in Hash |->
               IF g = h THEN NoUnlocks ELSE IF g = prev THEN Struck(g, h) ELSE unlocks[g]]
        /\ requires_offset' = [g \in Hash |->
               IF g = h THEN 0
               ELSE IF g \in ready_tx THEN requires_offset[g] + unlocks[h][g] ELSE requires_offset[g]]
        /\ independent' = (independent \ {h}) \cup Freed(h)
        /\ older' = OlderWithout({h})
        /\ requires' = requires \ {h}

\* Mutant: a transaction is pruned with its marker left on the stack.
TagsPeek(h) == tags

\* `remove' after an iteration: the transaction before the pruned one is pruned next
\* if it is left unlocking nothing.
TagsAfter(h) ==
    LET rest == SubSeq(tags, 1, Len(tags) - 1)
        prev == PreviousTx(h)
    IN  IF h # None /\ prev # None /\ Struck(prev, h) = NoUnlocks THEN Append(rest, Previous(h)) ELSE rest

\* One iteration of prune_tags
PruneTag ==
    LET h == provided_markers[tags[Len(tags)]]
    IN  /\ pc = "tags"
        /\ tags # <<>>
        /\ tags' = TagsAfter(h)
        /\ \/ /\ h = None
              /\ UNCHANGED <<requires, readyVars>>
           \/ /\ h # None
              /\ PruneProvider(h)
        /\ UNCHANGED <<waitVars, pc, addVars, pruning, markers, imports>>

PruneTagsReturn ==
    /\ pc = "tags"
    /\ tags = <<>>
    /\ pc' = IF markers = <<>> THEN "import" ELSE "prune"
    /\ UNCHANGED <<requires, readyVars, waitVars, addVars, pruneVars>>

ImportNext ==
    /\ pc = "import"
    /\ imports # <<>>
    /\ StartAdd(Head(imports))
    /\ imports' = Tail(imports)
    /\ UNCHANGED <<requires, readyVars, waitVars, pruning, markers, tags>>

PruneReturn ==
    /\ pc = "import"
    /\ imports = <<>>
    /\ pc' = "idle"
    /\ pruning' = FALSE
    /\ UNCHANGED <<requires, readyVars, waitVars, addVars, markers, tags, imports>>

-----------------------------------------------------------------------------
(* Removal *)

\* remove_invalid: the hashes with all that depends on the ready ones, and the
\* waiting ones among them.
RemoveInvalid(S) ==
    /\ pc = "idle"
    /\ RemoveWithMarkers(S)
    /\ PendingRemove(S)
    /\ requires' = requires \cap (waiting_queue' \cup ready_tx')
    /\ UNCHANGED <<pc, addVars, pruneVars>>

\* Mutant: the waiting transactions of the account are overlooked.
RemoveReadyByAddress(a) == RemoveInvalid({h \in Yielded : SenderOf[h] = a})

\* remove_transactions_by_address finds the ready ones through the iterator.
RemoveTransactionsByAddress(a) ==
    RemoveInvalid({h \in waiting_queue \cup Yielded : SenderOf[h] = a})

\* drop_transaction looks at the ready transactions only.
DropTransaction(h) ==
    /\ pc = "idle"
    /\ RemoveWithMarkers({h})
    /\ requires' = requires \cap (waiting_queue \cup ready_tx')
    /\ UNCHANGED <<waitVars, pc, addVars, pruneVars>>

Clear ==
    /\ pc = "idle"
    /\ requires' = {}
    /\ required_markers' = [m \in Marker |-> {}]
    /\ waiting_markers' = [m \in Marker |-> None]
    /\ waiting_queue' = {}
    /\ provided_markers' = [m \in Marker |-> None]
    /\ ready_tx' = {}
    /\ unlocks' = [h \in Hash |-> NoUnlocks]
    /\ requires_offset' = [h \in Hash |-> 0]
    /\ independent' = {}
    /\ older' = {}
    /\ UNCHANGED <<pc, addVars, pruneVars>>

-----------------------------------------------------------------------------
\* The steps of the call that holds the lock.
Step ==
    \/ AddNext
    \/ AddReturn
    \/ PruneNext
    \/ PruneTag
    \/ PruneTagsReturn
    \/ ImportNext
    \/ PruneReturn

\* The markers of the transactions of a block, in the block's order.
BlockMarkers == UNION {[1..n -> {Provides(h) : h \in Hash}] : n \in 1..MaxIncluded}

Next ==
    \/ \E h \in Hash : AddPending(h)
    \/ \E h \in Hash, needs \in BOOLEAN : AddReady(h, needs)
    \/ \E ms \in BlockMarkers : PruneMarkers(ms)
    \/ \E S \in SUBSET Hash : RemoveInvalid(S)
    \/ \E a \in Sender : RemoveTransactionsByAddress(a)
    \/ \E h \in Hash : DropTransaction(h)
    \/ Clear
    \/ Step

Spec == Init /\ [][Next]_vars

\* The thread that holds the lock runs on.
FairSpec == Spec /\ WF_vars(Step)

-----------------------------------------------------------------------------
(* Properties *)

HashOrNone == Hash \cup {None}
InTransit == {tx_queue[i] : i \in DOMAIN tx_queue} \cup {imports[i] : i \in DOMAIN imports}

\* Types of the two queues and of the call in progress.
TypeOK ==
    /\ requires \subseteq Hash
    /\ required_markers \in [Marker -> SUBSET Hash]
    /\ waiting_markers \in [Marker -> HashOrNone]
    /\ waiting_queue \subseteq Hash
    /\ provided_markers \in [Marker -> HashOrNone]
    /\ ready_tx \subseteq Hash
    /\ unlocks \in [Hash -> [Hash -> Nat]]
    /\ requires_offset \in [Hash -> Nat]
    /\ independent \subseteq ready_tx
    /\ older \subseteq ready_tx \X ready_tx
    /\ pc \in {"idle", "add", "prune", "tags", "import"}
    /\ tx_queue \in Seq(Hash) /\ given \in HashOrNone
    /\ is_new_tx \in BOOLEAN /\ failed \in BOOLEAN
    /\ promoted \subseteq Hash /\ removed \subseteq Hash
    /\ pruning \in BOOLEAN
    /\ markers \in Seq(Marker) /\ tags \in Seq(Marker) /\ imports \in Seq(Hash)

\* mark_and_unlock: `waiting_queue.get_mut(&hash).expect("tx is included;")'.
\* required_markers lists for each marker exactly the waiting transactions that
\* require it, through promotions, removals and replacements.
RequiredMarkersExact ==
    \A m \in Marker : required_markers[m] = {h \in waiting_queue : h \in requires /\ Previous(h) = m}

\* prune_tags: "The pool contains exactly one transaction providing given tag";
\* add_transaction: `ready.get_mut(other).expect("hash included;")'.
\* provided_markers and ready_tx name each other.
OneProviderPerMarker ==
    /\ \A h \in ready_tx : provided_markers[Provides(h)] = h
    /\ \A m \in Marker : provided_markers[m] # None =>
          provided_markers[m] \in ready_tx /\ Provides(provided_markers[m]) = m

\* The assertions "transaction already included" and "transaction is already
\* added": a transaction is in one place only, waiting, ready, or in the hands
\* of the call that moves it.
OnePlace ==
    /\ waiting_queue \cap ready_tx = {}
    /\ InTransit \cap (waiting_queue \cup ready_tx) = {}

\* Nothing waits for a marker that a ready transaction provides: whatever was
\* added, replaced, dropped or pruned, no transaction is stuck behind one that
\* is already ready.
WaitingIsUnprovided ==
    \A h \in waiting_queue : h \in requires /\ provided_markers[Previous(h)] = None

\* ready_transactions: "yields all transactions that are currently ready".  The
\* iterator starts from the independent transactions and follows `unlocks';
\* replacing, dropping and pruning never cut a ready transaction off from it.
IteratorYieldsAllReady == Yielded = ready_tx

\* A ready transaction that is not independent is linked from the transaction
\* that provides what it requires.
LinkedOrIndependent ==
    \A h \in ready_tx \ independent :
        /\ h \in requires
        /\ provided_markers[Previous(h)] # None
        /\ unlocks[provided_markers[Previous(h)]][h] > 0

\* A replacement of a ready transaction, new or promoted, offers strictly more.
ReplacedByHigherPrice ==
    [][\A m \in Marker :
          (provided_markers[m] # None /\ provided_markers'[m] \notin {None, provided_markers[m]})
             => Price[provided_markers'[m]] > Price[provided_markers[m]]]_vars

\* "Remove transactions by sender": all of them, waiting or ready, and none of
\* another account's, although the ready ones are found through the iterator and
\* everything they unlock is removed too.
RemovesAccount ==
    [][\A a \in Sender : RemoveTransactionsByAddress(a) =>
          \A h \in Hash : (h \in waiting_queue' \cup ready_tx') <=> (Contains(h) /\ SenderOf[h] # a)]_vars

\* add_ready_transaction guards against a cycle in which a promoted transaction
\* replaces the new one; nonces only grow along the queue, so there is none.
NoCycle == ~Cyclic

\* The loops end: whoever takes the lock gives it back.
LockReleased == (pc # "idle") ~> (pc = "idle")
=============================================================================
