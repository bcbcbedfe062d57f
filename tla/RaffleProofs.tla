---------------------------- MODULE RaffleProofs ----------------------------
(***************************************************************************)
(* Proofs about the raffle for any set of players, any fee and interval.   *)
(***************************************************************************)
EXTENDS Raffle, TLAPS

FrameType ==
    [open : {TRUE}, winner : Players, players : Seq(Players),
     lastTimeStamp : Nat, recentWinner : Players \cup {NoOne},
     raffleState : {"OPEN", "CALCULATING"}, balance : Nat, requests : Nat]

\* What a revert restores is itself a good state: without this the invariants
\* are not inductive, since PayoutFails copies the frame back into storage.
FrameOK ==
    frame.open =>
        /\ frame \in FrameType
        /\ frame.lastTimeStamp <= now
        /\ frame.balance >= EntranceFee * Len(frame.players)
        /\ frame.players = <<>> => frame.balance = 0

\* The inductive invariant.
IInv ==
    /\ TypeOK
    /\ frame = Idle \/ frame \in FrameType
    /\ FrameOK
    /\ PotCoversFees
    /\ NoStrandedPot
    /\ DrawPending

\* One more entrant who pays at least the fee keeps the pot covered.
LEMMA EntryCovered ==
    ASSUME NEW n \in Nat, NEW b \in Nat, NEW v \in Nat, NEW fee \in Nat,
           b >= fee * n, v >= fee
    PROVE  b + v >= fee * (n + 1)
<1>1. fee * (n + 1) = fee * n + fee
  OBVIOUS
<1>2. fee * n \in Nat
  OBVIOUS
<1> QED BY <1>1, <1>2

LEMMA InitIInv == Init => IInv
<1> SUFFICES ASSUME Init PROVE IInv
  OBVIOUS
<1> USE RaffleConstants DEF Init
<1>1. Len(s_players) = 0 /\ EntranceFee * 0 = 0
  OBVIOUS
<1>2. TypeOK
  BY DEF TypeOK
<1>3. ~frame.open
  BY DEF Idle
<1> QED BY <1>1, <1>2, <1>3 DEF IInv, FrameOK, PotCoversFees, NoStrandedPot, DrawPending

LEMMA StepIInv == IInv /\ [Next]_vars => IInv'
<1> SUFFICES ASSUME IInv, [Next]_vars PROVE IInv'
  OBVIOUS
<1> USE RaffleConstants
<1> USE DEF IInv
<1>1. ASSUME NEW p \in Players, NEW value \in Values, EnterRaffle(p, value)
      PROVE  IInv'
  <2> USE <1>1 DEF EnterRaffle
  <2>1. TypeOK'
    BY DEF TypeOK
  <2>2. s_players' # <<>> /\ Len(s_players') = Len(s_players) + 1
    BY DEF TypeOK
  <2>3. PotCoversFees'
    BY <2>2, EntryCovered DEF TypeOK, PotCoversFees
  <2>4. DrawPending'
    BY DEF DrawPending
  <2> QED BY <2>1, <2>2, <2>3, <2>4 DEF FrameOK, NoStrandedPot
<1>2. ASSUME NEW p \in Players, PickWinner(p)
      PROVE  IInv'
  BY <1>2 DEF PickWinner, TypeOK, FrameOK, PotCoversFees, NoStrandedPot, DrawPending
<1>3. ASSUME NEW i \in 1..Len(s_players), FulfillRandomWords(i)
      PROVE  IInv'
  <2> USE <1>3 DEF FulfillRandomWords
  <2>1. s_players[i] \in Players /\ requests - 1 \in Nat
    BY DEF TypeOK
  <2>2. TypeOK'
    BY <2>1 DEF TypeOK
  <2>3. frame' \in FrameType
    BY <2>1 DEF FrameType, Snapshot, TypeOK
  <2>4. FrameOK'
    BY <2>3 DEF FrameOK, Snapshot, TypeOK, PotCoversFees, NoStrandedPot
  <2>5. Len(s_players') = 0 /\ EntranceFee * 0 = 0
    OBVIOUS
  <2> QED BY <2>2, <2>3, <2>4, <2>5 DEF PotCoversFees, NoStrandedPot, DrawPending
<1>4. ASSUME FulfillWithoutPlayers
      PROVE  IInv'
  BY <1>4 DEF FulfillWithoutPlayers, contractVars, TypeOK, FrameOK, PotCoversFees,
              NoStrandedPot, DrawPending
<1>5. ASSUME PayoutReturns
      PROVE  IInv'
  BY <1>5 DEF PayoutReturns, contractVars, TypeOK, FrameOK, Idle, PotCoversFees,
              NoStrandedPot, DrawPending
<1>6. ASSUME PayoutFails
      PROVE  IInv'
  <2> USE <1>6 DEF PayoutFails
  <2>1. frame \in FrameType
    BY DEF FrameOK
  <2>2. TypeOK'
    BY <2>1 DEF TypeOK, FrameOK, FrameType
  <2>3. ~frame'.open
    BY DEF Idle
  <2>4. Rejecting # {}
    OBVIOUS
  <2> QED BY <2>2, <2>3, <2>4 DEF FrameOK, PotCoversFees, NoStrandedPot, DrawPending
<1>7. ASSUME Tick
      PROVE  IInv'
  BY <1>7 DEF Tick, contractVars, TypeOK, FrameOK, PotCoversFees, NoStrandedPot, DrawPending
<1>8. ASSUME UNCHANGED vars
      PROVE  IInv'
  BY <1>8 DEF vars, contractVars, TypeOK, FrameOK, PotCoversFees, NoStrandedPot, DrawPending
<1> QED BY <1>1, <1>2, <1>3, <1>4, <1>5, <1>6, <1>7, <1>8 DEF Next

\* The types of the raffle's storage hold in every reachable state.
THEOREM RaffleTypes == Spec => []TypeOK
<1>1. IInv => TypeOK
  BY DEF IInv
<1> QED BY <1>1, InitIInv, StepIInv, PTL DEF Spec

\* However calls, failed payouts and re-entered calls interleave, the pot covers
\* the fee of every entrant and is empty when nobody is entered.
THEOREM RafflePot == Spec => [](PotCoversFees /\ NoStrandedPot)
<1>1. IInv => PotCoversFees /\ NoStrandedPot
  BY DEF IInv
<1> QED BY <1>1, InitIInv, StepIInv, PTL DEF Spec

\* With winners that accept the pot, players in a round under calculation always
\* have a randomness request in flight.
THEOREM RaffleDrawPending == Spec => []DrawPending
<1>1. IInv => DrawPending
  BY DEF IInv
<1> QED BY <1>1, InitIInv, StepIInv, PTL DEF Spec
=============================================================================
