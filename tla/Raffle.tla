------------------------------- MODULE Raffle -------------------------------
(***************************************************************************)
(* The lottery contract Raffle.sol together with its environment: players, *)
(* the clock and the VRF coordinator that answers randomness requests.     *)
(*                                                                         *)
(* A transaction is atomic except for one point: fulfillRandomWords ends   *)
(* with an external call that hands control to the winner, who may call    *)
(* back into the contract before the call returns.  The callback is        *)
(* therefore two actions, FulfillRandomWords up to the call and            *)
(* PayoutReturns / PayoutFails after it, with `frame' holding what a       *)
(* revert restores.  While a frame is open only the winner runs.           *)
(***************************************************************************)
EXTENDS Naturals, Sequences

CONSTANTS
    Players,        \* addresses that call the contract
    Rejecting,      \* the players whose receive function reverts
    EntranceFee,    \* i_entranceFee
    Interval,       \* i_interval
    Values,         \* the amounts of ether a call may carry
    MaxTime,        \* bound: the clock stops here
    MaxPlayers,     \* bound: length of s_players
    MaxRequests,    \* bound: randomness requests in flight
    NoOne           \* address(0)

ASSUME RaffleConstants ==
    /\ Rejecting \subseteq Players
    /\ EntranceFee \in Nat /\ Interval \in Nat
    /\ Values \subseteq Nat
    /\ MaxTime \in Nat /\ MaxPlayers \in Nat /\ MaxRequests \in Nat
    /\ NoOne \notin Players

VARIABLES
    s_players, s_lastTimeStamp, s_recentWinner, s_raffleState,
    balance,        \* address(this).balance
    now,            \* block.timestamp
    requests,       \* requestRandomWords calls the coordinator has not answered
    frame           \* what the open payout call restores if it reverts

contractVars == <<s_players, s_lastTimeStamp, s_recentWinner, s_raffleState, balance>>
vars == <<contractVars, now, requests, frame>>

Idle == [open |-> FALSE]
Snapshot(winner, left) ==
    [open |-> TRUE, winner |-> winner, players |-> s_players,
     lastTimeStamp |-> s_lastTimeStamp, recentWinner |-> s_recentWinner,
     raffleState |-> s_raffleState, balance |-> balance, requests |-> left]

Init ==
    /\ s_players = <<>>
    /\ s_lastTimeStamp = 0
    /\ s_recentWinner = NoOne
    /\ s_raffleState = "OPEN"
    /\ balance = 0
    /\ now = 0
    /\ requests = 0
    /\ frame = Idle

-----------------------------------------------------------------------------
\* Who may call into the contract now: anyone between transactions, only the
\* winner while the payout call is open.
MayCall(p) == frame.open => p = frame.winner

\* Deviations: what the operations below would do with a plausible slip.  Each
\* is refuted by a property; no specification uses them.
EnterRaffleUnpriced(p, value) ==       \* without the entrance fee check
    /\ MayCall(p)
    /\ Len(s_players) < MaxPlayers
    /\ s_raffleState = "OPEN"
    /\ s_players' = Append(s_players, p)
    /\ balance' = balance + value
    /\ UNCHANGED <<s_lastTimeStamp, s_recentWinner, s_raffleState, now, requests, frame>>

EnterRaffleAnytime(p, value) ==        \* without the RaffleState.OPEN check
    /\ MayCall(p)
    /\ Len(s_players) < MaxPlayers
    /\ value >= EntranceFee
    /\ s_players' = Append(s_players, p)
    /\ balance' = balance + value
    /\ UNCHANGED <<s_lastTimeStamp, s_recentWinner, s_raffleState, now, requests, frame>>

EnterRaffle(p, value) ==
    /\ MayCall(p)
    /\ Len(s_players) < MaxPlayers
    /\ value >= EntranceFee
    /\ s_raffleState = "OPEN"
    /\ s_players' = Append(s_players, p)
    /\ balance' = balance + value
    /\ UNCHANGED <<s_lastTimeStamp, s_recentWinner, s_raffleState, now, requests, frame>>

PickWinner(p) ==
    /\ MayCall(p)
    /\ requests < MaxRequests
    /\ now - s_lastTimeStamp >= Interval
    /\ s_raffleState' = "CALCULATING"
    /\ requests' = requests + 1
    /\ UNCHANGED <<s_players, s_lastTimeStamp, s_recentWinner, balance, now, frame>>

FulfillStaysClosed(i) ==               \* s_raffleState is not reset
    /\ ~frame.open
    /\ requests > 0
    /\ i \in 1..Len(s_players)
    /\ requests' = requests - 1
    /\ frame' = Snapshot(s_players[i], requests - 1)
    /\ s_recentWinner' = s_players[i]
    /\ s_players' = <<>>
    /\ s_lastTimeStamp' = now
    /\ balance' = 0
    /\ UNCHANGED <<s_raffleState, now>>

FulfillSchedulesNext(i) ==             \* s_lastTimeStamp holds the next deadline
    /\ ~frame.open
    /\ requests > 0
    /\ i \in 1..Len(s_players)
    /\ requests' = requests - 1
    /\ frame' = Snapshot(s_players[i], requests - 1)
    /\ s_recentWinner' = s_players[i]
    /\ s_raffleState' = "OPEN"
    /\ s_players' = <<>>
    /\ s_lastTimeStamp' = now + Interval
    /\ balance' = 0
    /\ UNCHANGED now

\* The coordinator delivers a random word; `i' is the index it selects.  The
\* request is consumed whatever becomes of the callback.
FulfillRandomWords(i) ==
    /\ ~frame.open
    /\ requests > 0
    /\ i \in 1..Len(s_players)
    /\ requests' = requests - 1
    /\ frame' = Snapshot(s_players[i], requests - 1)
    /\ s_recentWinner' = s_players[i]
    /\ s_raffleState' = "OPEN"
    /\ s_players' = <<>>
    /\ s_lastTimeStamp' = now
    /\ balance' = 0
    /\ UNCHANGED now

\* randomWords[0] % 0 panics: the callback reverts and only the request is gone.
FulfillWithoutPlayers ==
    /\ ~frame.open
    /\ requests > 0
    /\ Len(s_players) = 0
    /\ requests' = requests - 1
    /\ UNCHANGED <<contractVars, now, frame>>

PayoutReturnsThenClears ==             \* s_players is reset after the call
    /\ frame.open
    /\ frame.winner \notin Rejecting
    /\ frame' = Idle
    /\ s_players' = <<>>
    /\ UNCHANGED <<s_lastTimeStamp, s_recentWinner, s_raffleState, balance, now, requests>>

PayoutReturns ==
    /\ frame.open
    /\ frame.winner \notin Rejecting
    /\ frame' = Idle
    /\ UNCHANGED <<contractVars, now, requests>>

PayoutFails ==
    /\ frame.open
    /\ frame.winner \in Rejecting
    /\ s_players' = frame.players
    /\ s_lastTimeStamp' = frame.lastTimeStamp
    /\ s_recentWinner' = frame.recentWinner
    /\ s_raffleState' = frame.raffleState
    /\ balance' = frame.balance
    /\ requests' = frame.requests
    /\ frame' = Idle
    /\ UNCHANGED now

Tick ==
    /\ ~frame.open
    /\ now < MaxTime
    /\ now' = now + 1
    /\ UNCHANGED <<contractVars, requests, frame>>

Next ==
    \/ \E p \in Players, value \in Values : EnterRaffle(p, value)
    \/ \E p \in Players : PickWinner(p)
    \/ \E i \in 1..Len(s_players) : FulfillRandomWords(i)
    \/ FulfillWithoutPlayers
    \/ PayoutReturns
    \/ PayoutFails
    \/ Tick

Spec == Init /\ [][Next]_vars

\* The coordinator answers every request and a call eventually returns.
Fairness ==
    /\ WF_vars(\E i \in 1..Len(s_players) : FulfillRandomWords(i))
    /\ WF_vars(FulfillWithoutPlayers)
    /\ WF_vars(PayoutReturns \/ PayoutFails)

FairSpec == Spec /\ Fairness

-----------------------------------------------------------------------------
\* Types of the contract's storage and of the environment.
TypeOK ==
    /\ s_players \in Seq(Players)
    /\ s_lastTimeStamp \in Nat /\ now \in Nat /\ s_lastTimeStamp <= now
    /\ s_recentWinner \in Players \cup {NoOne}
    /\ s_raffleState \in {"OPEN", "CALCULATING"}
    /\ balance \in Nat
    /\ requests \in Nat

\* enterRaffle takes the fee of every entrant and fulfillRandomWords clears the
\* list before it pays: the pot covers the fee of everyone in s_players, also
\* for those the winner enters while the payout call is still open.
PotCoversFees == balance >= EntranceFee * Len(s_players)

\* fulfillRandomWords empties s_players before the payout call, so that no
\* ether is ever held for nobody: an empty list means an empty pot.
NoStrandedPot == s_players = <<>> => balance = 0

\* A round under calculation with players still has an answer coming, unless a
\* winner refused the pot: pickWinner can be called again and again, but no
\* sequence of answers uses up the requests while the players wait.
DrawPending ==
    (Rejecting = {} /\ s_raffleState = "CALCULATING" /\ s_players # <<>>) => requests > 0

\* "The duration of the lottery in seconds" (i_interval): a draw that succeeds
\* ends a round that was open for at least the interval.
RoundLastsInterval ==
    [][(~frame.open /\ frame'.open) => now - s_lastTimeStamp >= Interval]_vars

\* pickWinner: "Use random number to pick a player": a raffle that starts
\* calculating ends the round with a winner and is open again.
DrawCompletes == (s_raffleState = "CALCULATING") ~> (s_raffleState = "OPEN")

\* The same for a round that has players who accept the pot.
DrawWithPlayersCompletes ==
    (Rejecting = {} /\ s_raffleState = "CALCULATING" /\ s_players # <<>>)
        ~> (s_raffleState = "OPEN" /\ s_recentWinner \in Players)
=============================================================================
