----------------------------- MODULE CostGuard -----------------------------
(***************************************************************************)
(* The daily LLM budget: the ledger of app/services/cost_guard.py and the  *)
(* way LLMService.generate_full (app/services/llm_service.py) reserves,    *)
(* settles, releases or keeps a reserve around each call to the provider,  *)
(* with concurrent attempts, cancellation by the stage cap, a failing      *)
(* database and midnight.                                                  *)
(*                                                                         *)
(* Money is counted in parts of a micro-dollar, Sub parts each: prices are *)
(* fractional, the ledger is an integer number of micro-dollars, and the   *)
(* three roundings (up on reserve, half-even on settle and release) must   *)
(* not lose a paid cent.                                                   *)
(***************************************************************************)
EXTENDS Integers, FiniteSets

CONSTANTS
  Calls,       \* concurrent attempts (agents, workers, retries)
  Worst,       \* worst-case costs of a prompt, in parts, all positive
  Sub,         \* parts per micro-dollar
  Limit,       \* the daily limit in micro-dollars
  MaxDay,      \* bound on the number of days
  MaxEnded     \* bound on the attempts that end within a day

ASSUME CostAssumption ==
  /\ Worst \subseteq Nat \ {0}
  /\ Sub \in Nat \ {0}
  /\ Limit \in Nat
  /\ MaxDay \in Nat \ {0}
  /\ MaxEnded \in Nat

VARIABLES
  day,      \* the current UTC day
  ledger,   \* llm_spend_ledger: micro-dollars by day
  call,     \* each attempt: where it is, its verdict and what it was billed
  open,     \* history: reserves of attempts in flight, micro-dollars by day
  paid,     \* history: parts billed to ended attempts, by day of the reserve
  kept,     \* history: reserves deliberately left in the ledger, micro-dollars
  ended     \* history: attempts that ended, by day of the reserve

vars == <<day, ledger, call, open, paid, kept, ended>>

Days == 1 .. MaxDay

Idle == [pc |-> "idle", day |-> 1, worst |-> 0, actual |-> 0]

Call == [pc : {"idle", "reserved", "answered", "limited"}, day : Days,
         worst : Worst \cup {0}, actual : Nat]

-----------------------------------------------------------------------------
(* Arithmetic of the ledger. *)

\* max(1, ceil(cost)), in micro-dollars.
MicroUp(parts) == IF parts = 0 THEN 1 ELSE (parts + Sub - 1) \div Sub

\* int(round(x)): to the nearest, ties to even.
RoundHalfEven(parts) ==
  LET q == parts \div Sub
      r == parts % Sub
  IN  IF 2 * r < Sub \/ (2 * r = Sub /\ q % 2 = 0) THEN q ELSE q + 1

\* GREATEST(spent + delta, 0).
Clamped(n) == IF n < 0 THEN 0 ELSE n

\* Mutant: the refund goes to the current day.
RefundedToday(d, micro) == [ledger EXCEPT ![day] = Clamped(ledger[day] - micro)]

\* _apply_delta with a negative delta, on the day the reserve was taken.
Refunded(d, micro) == [ledger EXCEPT ![d] = Clamped(ledger[d] - micro)]

Charged(d, micro) == [ledger EXCEPT ![d] = ledger[d] + micro]

\* Mutant: the conditional UPDATE tests the old sum.
FitsBefore(d, micro) == micro <= Limit /\ ledger[d] <= Limit

\* The condition of _reserve_atomic, for the first row of the day and for the
\* conditional UPDATE.
Fits(d, micro) == micro <= Limit /\ ledger[d] + micro <= Limit

\* settle: the reserve becomes the actual cost.
Settled(c) ==
  Refunded(call[c].day, RoundHalfEven(call[c].worst - call[c].actual))

-----------------------------------------------------------------------------
(* One attempt of generate_full. *)

\* The attempt is over and the provider billed `bill' for it.
Ends(c, bill) ==
  /\ call' = [call EXCEPT ![c] = Idle]
  /\ open' = [open EXCEPT ![call[c].day] = @ - MicroUp(call[c].worst)]
  /\ paid' = [paid EXCEPT ![call[c].day] = @ + bill]
  /\ ended' = [ended EXCEPT ![call[c].day] = @ + 1]

\* Mutant: every failed attempt is taken for a free one.
ReleasesReserve(c) ==
  /\ ledger' = Refunded(call[c].day, RoundHalfEven(call[c].worst))
  /\ UNCHANGED kept

\* The full reserve stays in the ledger.
KeepsReserve(c) ==
  /\ kept' = [kept EXCEPT ![call[c].day] = @ + MicroUp(call[c].worst)]
  /\ UNCHANGED ledger

\* reserve: charged before the call, on the current day.
Reserve(c, w) ==
  /\ call[c].pc = "idle"
  /\ Fits(day, MicroUp(w))
  /\ ledger' = Charged(day, MicroUp(w))
  /\ open' = [open EXCEPT ![day] = @ + MicroUp(w)]
  /\ call' = [call EXCEPT ![c] = [pc |-> "reserved", day |-> day,
                                  worst |-> w, actual |-> 0]]
  /\ UNCHANGED <<day, paid, kept, ended>>

\* The charge is committed and the call not made: the stage cap cancelled behind
\* the shield, or the acknowledgement of the commit was lost
\* (budget_state_unknown).
ReserveStays(c, w) ==
  /\ call[c].pc = "idle"
  /\ Fits(day, MicroUp(w))
  /\ ledger' = Charged(day, MicroUp(w))
  /\ kept' = [kept EXCEPT ![day] = @ + MicroUp(w)]
  /\ UNCHANGED <<day, call, open, paid, ended>>

\* The provider answers with text and usage.
Answer(c, a) ==
  /\ call[c].pc = "reserved"
  /\ call' = [call EXCEPT ![c].pc = "answered", ![c].actual = a]
  /\ UNCHANGED <<day, ledger, open, paid, kept, ended>>

\* Timeout, cancellation, an answer without text or another error before the
\* settlement: the provider may have billed it, the reserve stays.
RequestFails(c, a) ==
  /\ call[c].pc = "reserved"
  /\ KeepsReserve(c)
  /\ Ends(c, a)
  /\ UNCHANGED day

\* 429: refused before processing, nothing is billed.
RateLimited(c) ==
  /\ call[c].pc = "reserved"
  /\ call' = [call EXCEPT ![c].pc = "limited"]
  /\ UNCHANGED <<day, ledger, open, paid, kept, ended>>

\* A cancellation that arrives while the settling thread runs does not stop it.
Settle(c) ==
  /\ call[c].pc = "answered"
  /\ ledger' = Settled(c)
  /\ Ends(c, call[c].actual)
  /\ UNCHANGED <<day, kept>>

\* The ledger is unavailable, or the cancellation reaches the settling thread
\* before it starts: the reserve stays.
SettleFails(c) ==
  /\ call[c].pc = "answered"
  /\ KeepsReserve(c)
  /\ Ends(c, call[c].actual)
  /\ UNCHANGED day

\* release after a 429.
Release(c) ==
  /\ call[c].pc = "limited"
  /\ ledger' = Refunded(call[c].day, RoundHalfEven(call[c].worst))
  /\ Ends(c, 0)
  /\ UNCHANGED <<day, kept>>

ReleaseFails(c) ==
  /\ call[c].pc = "limited"
  /\ KeepsReserve(c)
  /\ Ends(c, 0)
  /\ UNCHANGED day

\* The worker dies: the reserve stays in the ledger.  A cancellation
\* during a failing release ends the same way.
Crash(c, a) ==
  /\ call[c].pc # "idle"
  /\ kept' = [kept EXCEPT ![call[c].day] = @ + MicroUp(call[c].worst)]
  /\ Ends(c, IF call[c].pc = "reserved" THEN a ELSE call[c].actual)
  /\ UNCHANGED <<day, ledger>>

Midnight ==
  /\ day < MaxDay
  /\ day' = day + 1
  /\ UNCHANGED <<ledger, call, open, paid, kept, ended>>

Init ==
  /\ day = 1
  /\ ledger = [d \in Days |-> 0]
  /\ call = [c \in Calls |-> Idle]
  /\ open = [d \in Days |-> 0]
  /\ paid = [d \in Days |-> 0]
  /\ kept = [d \in Days |-> 0]
  /\ ended = [d \in Days |-> 0]

\* MaxEnded bounds how many attempts a behaviour starts on one day.
Starts(c) ==
  /\ ended[day] < MaxEnded
  /\ \E w \in Worst : Reserve(c, w) \/ ReserveStays(c, w)

\* estimate_worst_case_usd is an upper bound of the bill: bytes bound the input
\* tokens and max_tokens bounds the output.
Bills(c) == 0 .. call[c].worst

Next ==
  \/ \E c \in Calls :
       \/ Starts(c)
       \/ \E a \in Bills(c) :
            Answer(c, a) \/ RequestFails(c, a) \/ Crash(c, a)
       \/ RateLimited(c) \/ Settle(c) \/ SettleFails(c)
       \/ Release(c) \/ ReleaseFails(c)
  \/ Midnight

Spec == Init /\ [][Next]_vars

-----------------------------------------------------------------------------
TypeOK ==
  /\ day \in Days
  /\ ledger \in [Days -> Nat]
  /\ call \in [Calls -> Call]
  /\ open \in [Days -> Int]
  /\ paid \in [Days -> Nat]
  /\ kept \in [Days -> Nat]
  /\ ended \in [Days -> Nat]

\* The sum of the day never passes the limit, whatever races for the rest of
\* the budget and however attempts end after midnight.
CeilingHolds == \A d \in Days : ledger[d] <= Limit

\* The ledger holds the reserves of the attempts in flight and, up to half a
\* micro-dollar per ended attempt, all that the provider billed: no rounding,
\* refund, crash or lost acknowledgement makes paid money disappear from the
\* budget of its day.
PaidIsCovered ==
  \A d \in Days :
    2 * paid[d] + 2 * Sub * open[d] <= 2 * Sub * ledger[d] + Sub * ended[d]

\* The micro-dollars that attempts in flight hold of a day, one by one.
OpenUnits(d) ==
  UNION {{c} \X (1 .. MicroUp(call[c].worst)) :
           c \in {x \in Calls : call[x].pc # "idle" /\ call[x].day = d}}

\* The converse: all that is charged to a day is billed, in flight or kept on
\* purpose, up to three halves of a micro-dollar per attempt.  An unused
\* reserve always comes back, to its own day.
LedgerExplained ==
  \A d \in Days :
    /\ open[d] = Cardinality(OpenUnits(d))
    /\ 2 * Sub * ledger[d] <= 2 * paid[d] + 2 * Sub * (open[d] + kept[d])
                              + 3 * Sub * ended[d]

=============================================================================
