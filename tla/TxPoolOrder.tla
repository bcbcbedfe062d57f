---------------------------- MODULE TxPoolOrder -----------------------------
(***************************************************************************)
(* The iterator over the ready transactions, step by step: it holds a copy *)
(* of the pool and a set of transactions whose predecessors it has passed, *)
(* and yields the best of them until none is left.                         *)
(***************************************************************************)
EXTENDS TxPool

CONSTANT Order      \* TransactionOrder: "fees" or "fifo"

ASSUME OrderAssumption == Order \in {"fees", "fifo"}

\* TransactionOrder::priority
Priority(h) == IF Order = "fees" THEN Price[h] ELSE 0

\* Ord of PoolTransactionRef: the higher priority first, then the smaller id.
Ahead(g, h) == Priority(g) > Priority(h) \/ (Priority(g) = Priority(h) /\ <<g, h>> \in older)

\* Mutant: what is unlocked replaces the rest of the set.
IteratorForgetsRest(it) ==
    LET best == CHOOSE h \in it.independent : \A g \in it.independent \ {h} : Ahead(h, g)
    IN  [independent |-> Unlocked(best) \cap ready_tx,
         yielded |-> Append(it.yielded, best)]

\* TransactionsIterator::next.  A transaction requires one marker at most, so one
\* that is unlocked has its requirements satisfied and goes to the set at once.
IteratorNext(it) ==
    LET best == CHOOSE h \in it.independent : \A g \in it.independent \ {h} : Ahead(h, g)
    IN  [independent |-> (it.independent \ {best}) \cup (Unlocked(best) \cap ready_tx),
         yielded |-> Append(it.yielded, best)]

\* Bound: how many transactions an iteration may yield.
MaxYielded == 2 * Cardinality(Hash)

\* What pool.ready_transactions() yields, in order.
ready_transactions ==
    LET it[n \in 0..MaxYielded] ==
            IF n = 0 THEN [independent |-> independent, yielded |-> <<>>]
            ELSE IF it[n - 1].independent = {} THEN it[n - 1] ELSE IteratorNext(it[n - 1])
    IN  it[MaxYielded].yielded

-----------------------------------------------------------------------------
(* Properties *)

\* "Returns an iterator that yields all transactions that are currently ready":
\* the iteration, run to its end, yields the transactions that are reachable
\* from the independent ones, and these are all the ready ones.
IterationIsComplete ==
    /\ {ready_transactions[i] : i \in DOMAIN ready_transactions} = Yielded
    /\ Yielded = ready_tx

\* A ready transaction comes after the one it requires if that was there first,
\* however much more it pays.
PredecessorFirst ==
    \A h \in ready_tx \cap requires :
        LET p == provided_markers[Previous(h)]
        IN  (p # None /\ <<p, h>> \in older) =>
                \E i, j \in DOMAIN ready_transactions :
                    /\ ready_transactions[i] = p
                    /\ ready_transactions[j] = h
                    /\ i < j /\ \A k \in 1..(j - 1) : ready_transactions[k] # h

\* txpool_status: "Returns the number of tx that are ready", counted by the
\* iterator: each ready transaction counts once.
StatusCountsReady == Len(ready_transactions) = Cardinality(ready_tx)

\* PendingTransactions: "mapping of the markers of a transaction to the hash of
\* the transaction": each waiting transaction's marker leads to a waiting one.
WaitingMarkerTracked ==
    \A h \in waiting_queue : waiting_markers[Provides(h)] # None
=============================================================================
