----------------------------- MODULE TimeManager ----------------------------
(***************************************************************************)
(* The block clock of anvil (crates/anvil/src/eth/backend/time.rs).  Its   *)
(* four fields have a lock each, which a method takes and gives back field *)
(* by field.  The thread that mines a block runs next_timestamp; there is  *)
(* one at a time, since do_mine_block holds the mining lock.  The handlers *)
(* of the RPC calls run beside it: one set_next_block_timestamp and one    *)
(* reset may be under way while the block is mined.                        *)
(***************************************************************************)
EXTENDS Integers

CONSTANTS
    MaxU64,     \* the largest u64, a small number here
    MaxClock,   \* bound: seconds the wall clock advances
    MaxOffset,  \* bound: the offset that increase_time may reach
    Times,      \* timestamps asked for
    Steps,      \* seconds of increase_time and of the interval
    None        \* Option::None

ASSUME TimeConstants ==
    /\ MaxU64 \in Nat /\ MaxClock \in 0..MaxU64 /\ MaxOffset \in Int
    /\ Times \subseteq 0..MaxU64 /\ Times # {}
    /\ Steps \subseteq 0..MaxU64
    /\ None \notin Int

U64 == 0..MaxU64
Optional == U64 \cup {None}

VARIABLES
    clock,                  \* duration_since_unix_epoch
    offset, last_timestamp, next_exact_timestamp, interval,
    \* the thread in next_timestamp
    pc,                     \* the field it is about to touch, or "idle"
    current, last, next,    \* its locals
    exact,                  \* update_offset
    \* the handlers
    setting,                \* set_next_block_timestamp: a value that passed the check
    resetting,              \* reset: the field that is next, with the new offset
    \* history
    block,                  \* the timestamp of the latest block
    moved,                  \* a reset has moved last_timestamp since that block
    promised                \* a timestamp set for the next block and not used yet

fields == <<offset, last_timestamp, next_exact_timestamp, interval>>
locals == <<pc, current, last, next, exact>>
history == <<block, moved, promised>>
vars == <<clock, fields, locals, setting, resetting, history>>

NotResetting == [at |-> "idle", offset |-> 0]

\* TimeManager::new
Init ==
    /\ clock = 0
    /\ last_timestamp \in Times
    /\ offset = last_timestamp - clock
    /\ next_exact_timestamp = None
    /\ interval = None
    /\ pc = "idle" /\ current = 0 /\ last = 0 /\ next = 0 /\ exact = FALSE
    /\ setting = None
    /\ resetting = NotResetting
    /\ block = last_timestamp /\ moved = FALSE /\ promised = None

Tick ==
    /\ clock < MaxClock
    /\ clock' = clock + 1
    /\ UNCHANGED <<fields, locals, setting, resetting, history>>

-----------------------------------------------------------------------------
(* next_timestamp, with compute_next_timestamp *)

\* Mutant: an addition that does not saturate.
PlainAdd(t, n) == t + n

\* saturating_add and the cast of an i128 to u64
SaturatingAdd(t, n) == IF t + n > MaxU64 THEN MaxU64 ELSE t + n
AsU64(n) == n % (MaxU64 + 1)

\* Mutant: no check against the last timestamp.
Unclamped(t) == t

\* A timestamp before the last one becomes the last one plus one; the release
\* build adds without an overflow check.
Clamped(t) == IF t < last THEN AsU64(last + 1) ELSE t

ReadLast ==
    /\ pc = "idle"
    /\ current' = clock
    /\ last' = last_timestamp
    /\ pc' = "exact"
    /\ UNCHANGED <<clock, fields, next, exact, setting, resetting, history>>

ReadExact ==
    /\ pc = "exact"
    /\ \/ /\ next_exact_timestamp # None
          /\ next' = Clamped(next_exact_timestamp)
          /\ exact' = TRUE
          /\ pc' = "take"
       \/ /\ next_exact_timestamp = None
          /\ pc' = "interval"
          /\ UNCHANGED <<next, exact>>
    /\ UNCHANGED <<clock, fields, current, last, setting, resetting, history>>

ReadInterval ==
    /\ pc = "interval"
    /\ \/ /\ interval # None
          /\ next' = Clamped(SaturatingAdd(last, interval))
          /\ pc' = "take"
       \/ /\ interval = None
          /\ pc' = "offset"
          /\ UNCHANGED next
    /\ UNCHANGED <<clock, fields, current, last, exact, setting, resetting, history>>

ReadOffset ==
    /\ pc = "offset"
    /\ next' = Clamped(AsU64(current + offset))
    /\ pc' = "take"
    /\ UNCHANGED <<clock, fields, current, last, exact, setting, resetting, history>>

TakeExact ==
    /\ pc = "take"
    /\ next_exact_timestamp' = None
    /\ pc' = IF exact THEN "store" ELSE "last"
    /\ UNCHANGED <<clock, offset, last_timestamp, interval, current, last, next, exact,
                   setting, resetting, history>>

WriteOffset ==
    /\ pc = "store"
    /\ offset' = next - current
    /\ pc' = "last"
    /\ UNCHANGED <<clock, last_timestamp, next_exact_timestamp, interval, current, last, next,
                   exact, setting, resetting, history>>

WriteLast ==
    /\ pc = "last"
    /\ last_timestamp' = next
    /\ pc' = "idle" /\ current' = 0 /\ last' = 0 /\ next' = 0 /\ exact' = FALSE
    /\ block' = next
    /\ moved' = FALSE
    /\ promised' = IF promised = next THEN None ELSE promised
    /\ UNCHANGED <<clock, offset, next_exact_timestamp, interval, setting, resetting>>

-----------------------------------------------------------------------------
(* The handlers *)

\* set_next_block_timestamp: the check, then the write.
CheckNextBlockTimestamp(t) ==
    /\ setting = None
    /\ t >= last_timestamp
    /\ setting' = t
    /\ UNCHANGED <<clock, fields, locals, resetting, history>>

SetNextBlockTimestamp ==
    /\ setting # None
    /\ next_exact_timestamp' = setting
    /\ setting' = None
    /\ promised' = setting
    /\ UNCHANGED <<clock, offset, last_timestamp, interval, locals, resetting, block, moved>>

IncreaseTime(n) ==
    /\ offset + n <= MaxOffset
    /\ offset' = offset + n
    /\ UNCHANGED <<clock, last_timestamp, next_exact_timestamp, interval, locals, setting,
                   resetting, history>>

SetBlockTimestampInterval(n) ==
    /\ interval' = n
    /\ UNCHANGED <<clock, offset, last_timestamp, next_exact_timestamp, locals, setting,
                   resetting, history>>

RemoveBlockTimestampInterval ==
    /\ interval' = None
    /\ UNCHANGED <<clock, offset, last_timestamp, next_exact_timestamp, locals, setting,
                   resetting, history>>

\* reset, called by evm_setTime, a rollback, a revert or a fork reset
ResetLast(t) ==
    /\ resetting.at = "idle"
    /\ last_timestamp' = t
    /\ resetting' = [at |-> "offset", offset |-> t - clock]
    /\ moved' = TRUE
    /\ promised' = None
    /\ UNCHANGED <<clock, offset, next_exact_timestamp, interval, locals, setting, block>>

ResetOffset ==
    /\ resetting.at = "offset"
    /\ offset' = resetting.offset
    /\ resetting' = [at |-> "exact", offset |-> 0]
    /\ UNCHANGED <<clock, last_timestamp, next_exact_timestamp, interval, locals, setting, history>>

ResetExact ==
    /\ resetting.at = "exact"
    /\ next_exact_timestamp' = None
    /\ resetting' = NotResetting
    /\ promised' = None
    /\ UNCHANGED <<clock, offset, last_timestamp, interval, locals, setting, block, moved>>

-----------------------------------------------------------------------------
Mine ==
    \/ ReadLast
    \/ ReadExact
    \/ ReadInterval
    \/ ReadOffset
    \/ TakeExact
    \/ WriteOffset
    \/ WriteLast

Handle ==
    \/ \E t \in Times : CheckNextBlockTimestamp(t)
    \/ SetNextBlockTimestamp
    \/ \E n \in Steps : IncreaseTime(n)
    \/ \E n \in Steps : SetBlockTimestampInterval(n)
    \/ RemoveBlockTimestampInterval
    \/ \E t \in Times : ResetLast(t)
    \/ ResetOffset
    \/ ResetExact

Next == Tick \/ Mine \/ Handle

Spec == Init /\ [][Next]_vars

-----------------------------------------------------------------------------
(* Properties *)

\* The fields and the locals of next_timestamp keep their types: a timestamp is
\* a u64 whatever the offset does.
TypeOK ==
    /\ clock \in Nat /\ offset \in Int
    /\ last_timestamp \in U64 /\ block \in U64
    /\ next_exact_timestamp \in Optional /\ interval \in Optional
    /\ setting \in Optional /\ promised \in Optional
    /\ pc \in {"idle", "exact", "interval", "offset", "take", "store", "last"}
    /\ current \in Nat /\ last \in U64 /\ next \in U64
    /\ exact \in BOOLEAN /\ moved \in BOOLEAN
    /\ resetting \in [at : {"idle", "offset", "exact"}, offset : Int]

\* compute_next_timestamp: "Ensures that the timestamp is always increasing".
\* Unless time was reset in between, a block is never older than the one before
\* it, whichever way the handlers interleave with the thread that mines and even
\* if the offset takes the clock out of the range of a u64.  The largest u64 is
\* the one timestamp that has no successor: the release build wraps to zero.
NeverBack == [][(WriteLast /\ ~moved /\ block < MaxU64) => block' >= block]_vars

\* set_next_block_timestamp: "Fails if it's before (or at the same time) the last
\* timestamp": no block carries the timestamp of the one before because it was
\* set to.
ExactIncreases == [][(WriteLast /\ ~moved /\ exact) => block' > block]_vars

\* set_next_block_timestamp: "Sets the exact timestamp to use in the next block".
\* A timestamp that was accepted stays set until a block uses it or time is reset.
ExactKept ==
    (promised # None /\ ~moved) =>
        \/ next_exact_timestamp = promised
        \/ exact /\ next = promised
=============================================================================
