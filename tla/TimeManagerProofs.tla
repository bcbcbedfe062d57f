-------------------------- MODULE TimeManagerProofs -------------------------
(***************************************************************************)
(* Timestamps of blocks never go back, for clocks of any width and any     *)
(* number of RPC calls interleaved with the thread that mines.             *)
(***************************************************************************)
EXTENDS TimeManager, TLAPS

\* What next_timestamp knows of the block before: what it read is that block's
\* timestamp, and what it computed is not less, unless a reset came in between.
Ordered ==
    ~moved =>
        /\ last_timestamp = block
        /\ pc \in {"exact", "interval", "offset"} => last = block
        /\ (pc \in {"take", "store", "last"} /\ block < MaxU64) => next >= block

IInv == TypeOK /\ Ordered

\* A cast to u64 gives a u64 and changes nothing that is one already.
LEMMA AsU64Facts ==
    ASSUME NEW n \in Int
    PROVE  AsU64(n) \in U64 /\ (n \in U64 => AsU64(n) = n)
  BY TimeConstants DEF AsU64, U64

\* The check of compute_next_timestamp.
LEMMA ClampedFacts ==
    ASSUME last \in U64, NEW t \in U64
    PROVE  /\ Clamped(t) \in U64
           /\ last < MaxU64 => Clamped(t) >= last
<1>1. last + 1 \in Int /\ last \in Int /\ t \in Int /\ MaxU64 \in Nat
  BY TimeConstants DEF U64
<1>2. AsU64(last + 1) \in U64 /\ (last + 1 \in U64 => AsU64(last + 1) = last + 1)
  BY <1>1, AsU64Facts
<1>3. last < MaxU64 => last + 1 \in U64
  BY <1>1 DEF U64
<1> QED BY <1>1, <1>2, <1>3 DEF Clamped

LEMMA SaturatingAddType ==
    ASSUME NEW t \in U64, NEW n \in U64 PROVE SaturatingAdd(t, n) \in U64
  BY TimeConstants DEF SaturatingAdd, U64

\* The initial clock.
LEMMA InitOK == Init => IInv
<1> SUFFICES ASSUME Init PROVE IInv
  OBVIOUS
<1>1. MaxU64 \in Nat /\ Times \subseteq U64 /\ U64 \subseteq Nat
  BY TimeConstants DEF U64
<1>2. last_timestamp \in U64 /\ 0 \in U64
  BY <1>1 DEF Init, U64
<1>3. offset \in Int
  BY <1>1, <1>2 DEF Init
<1>4. TypeOK
  <2>1. resetting \in [at : {"idle", "offset", "exact"}, offset : Int]
    BY DEF Init, NotResetting
  <2>2. exact \in BOOLEAN /\ moved \in BOOLEAN
    BY DEF Init
  <2>3. pc \in {"idle", "exact", "interval", "offset", "take", "store", "last"}
    BY DEF Init
  <2>4. /\ next_exact_timestamp \in Optional /\ interval \in Optional
        /\ setting \in Optional /\ promised \in Optional
    BY DEF Init, Optional
  <2>5. clock \in Nat /\ current \in Nat /\ last \in U64 /\ next \in U64 /\ block \in U64
    BY <1>2 DEF Init
  <2> QED BY <1>2, <1>3, <2>1, <2>2, <2>3, <2>4, <2>5 DEF TypeOK
<1>5. Ordered
  BY DEF Init, Ordered
<1> QED BY <1>4, <1>5 DEF IInv

\* The thread that mines.
LEMMA MineOK == ASSUME IInv, Mine PROVE IInv'
<1> USE DEF IInv
<1>1. U64 \subseteq Nat /\ MaxU64 \in Nat /\ 0 \in U64 /\ None \notin Int
  BY TimeConstants DEF U64
<1>2. CASE ReadLast
  BY <1>1, <1>2 DEF ReadLast, TypeOK, Ordered, fields, history
<1>3. CASE ReadExact
  <2>1. CASE next_exact_timestamp # None
    <3>1. next_exact_timestamp \in U64 /\ next' = Clamped(next_exact_timestamp) /\ pc' = "take" /\ exact' = TRUE
      BY <1>3, <2>1 DEF ReadExact, TypeOK, Optional
    <3>2. next' \in U64 /\ (last < MaxU64 => next' >= last)
      BY <3>1, ClampedFacts DEF TypeOK
    <3> QED BY <1>1, <1>3, <3>1, <3>2 DEF ReadExact, TypeOK, Ordered, fields, history
  <2>2. CASE next_exact_timestamp = None
    BY <1>1, <1>3, <2>2 DEF ReadExact, TypeOK, Ordered, fields, history
  <2> QED BY <2>1, <2>2
<1>4. CASE ReadInterval
  <2>1. CASE interval # None
    <3>1. interval \in U64 /\ next' = Clamped(SaturatingAdd(last, interval)) /\ pc' = "take"
      BY <1>4, <2>1 DEF ReadInterval, TypeOK, Optional
    <3>2. next' \in U64 /\ (last < MaxU64 => next' >= last)
      BY <3>1, ClampedFacts, SaturatingAddType DEF TypeOK
    <3> QED BY <1>1, <1>4, <3>1, <3>2 DEF ReadInterval, TypeOK, Ordered, fields, history
  <2>2. CASE interval = None
    BY <1>1, <1>4, <2>2 DEF ReadInterval, TypeOK, Ordered, fields, history
  <2> QED BY <2>1, <2>2
<1>5. CASE ReadOffset
  <2>1. current + offset \in Int /\ next' = Clamped(AsU64(current + offset)) /\ pc' = "take"
    BY <1>5 DEF ReadOffset, TypeOK
  <2>2. next' \in U64 /\ (last < MaxU64 => next' >= last)
    BY <2>1, ClampedFacts, AsU64Facts DEF TypeOK
  <2> QED BY <1>1, <1>5, <2>1, <2>2 DEF ReadOffset, TypeOK, Ordered, fields, history
<1>6. CASE TakeExact
  BY <1>1, <1>6 DEF TakeExact, TypeOK, Ordered, Optional, history
<1>7. CASE WriteOffset
  BY <1>1, <1>7 DEF WriteOffset, TypeOK, Ordered, history
<1>8. CASE WriteLast
  BY <1>1, <1>8 DEF WriteLast, TypeOK, Ordered, Optional
<1> QED BY <1>2, <1>3, <1>4, <1>5, <1>6, <1>7, <1>8 DEF Mine

\* The handlers of the RPC calls.
LEMMA HandleOK == ASSUME IInv, Handle PROVE IInv'
<1> USE DEF IInv
<1>1. U64 \subseteq Nat /\ MaxU64 \in Nat /\ Times \subseteq U64 /\ Steps \subseteq U64
  BY TimeConstants DEF U64
<1>2. CASE \E t \in Times : CheckNextBlockTimestamp(t)
  BY <1>1, <1>2 DEF CheckNextBlockTimestamp, TypeOK, Ordered, Optional, fields, locals, history
<1>3. CASE SetNextBlockTimestamp
  BY <1>1, <1>3 DEF SetNextBlockTimestamp, TypeOK, Ordered, Optional, locals
<1>4. CASE \E n \in Steps : IncreaseTime(n)
  BY <1>1, <1>4 DEF IncreaseTime, TypeOK, Ordered, locals, history
<1>5. CASE \E n \in Steps : SetBlockTimestampInterval(n)
  BY <1>1, <1>5 DEF SetBlockTimestampInterval, TypeOK, Ordered, Optional, locals, history
<1>6. CASE RemoveBlockTimestampInterval
  BY <1>6 DEF RemoveBlockTimestampInterval, TypeOK, Ordered, Optional, locals, history
<1>7. CASE \E t \in Times : ResetLast(t)
  <2>1. PICK t \in Times : ResetLast(t)
    BY <1>7
  <2>2. t - clock \in Int /\ t \in U64
    BY <1>1 DEF TypeOK
  <2> QED BY <2>1, <2>2 DEF ResetLast, TypeOK, Ordered, Optional, locals
<1>8. CASE ResetOffset
  BY <1>8 DEF ResetOffset, TypeOK, Ordered, locals, history
<1>9. CASE ResetExact
  BY <1>9 DEF ResetExact, TypeOK, Ordered, Optional, locals, NotResetting
<1> QED BY <1>2, <1>3, <1>4, <1>5, <1>6, <1>7, <1>8, <1>9 DEF Handle

LEMMA NextOK == ASSUME IInv, [Next]_vars PROVE IInv'
<1>1. CASE Tick
  BY <1>1 DEF Tick, IInv, TypeOK, Ordered, fields, locals, history
<1>2. CASE UNCHANGED vars
  BY <1>2 DEF vars, IInv, TypeOK, Ordered, fields, locals, history
<1> QED BY <1>1, <1>2, MineOK, HandleOK DEF Next

\* The inductive invariant holds in every state.
THEOREM ClockInvariant == Spec => []IInv
  BY InitOK, NextOK, PTL DEF Spec

\* Timestamps are u64 in every interleaving.
THEOREM ClockTypes == Spec => []TypeOK
<1>1. IInv => TypeOK
  BY DEF IInv
<1> QED BY <1>1, ClockInvariant, PTL

\* A block is never older than the one before it, up to the largest u64.
THEOREM ClockNeverBack == Spec => NeverBack
<1>1. IInv => [(WriteLast /\ ~moved /\ block < MaxU64) => block' >= block]_vars
  BY DEF IInv, Ordered, WriteLast
<1> QED BY <1>1, ClockInvariant, PTL DEF NeverBack
=============================================================================
