-------------------------- MODULE CostGuardProofs --------------------------
(***************************************************************************)
(* Proofs about CostGuard, for any set of concurrent attempts, any prices, *)
(* any resolution of a micro-dollar and any limit: the ceiling of the day  *)
(* holds, the ledger always covers what the provider billed, and what it   *)
(* holds beyond that is in flight, kept on purpose or lost to rounding.    *)
(***************************************************************************)
EXTENDS CostGuard, FiniteSetTheorems, TLAPS

\* Division with remainder by the number of parts of a micro-dollar.
LEMMA DivMod ==
  ASSUME NEW x \in Int
  PROVE  /\ x \div Sub \in Int
         /\ x % Sub \in 0 .. Sub - 1
         /\ x = Sub * (x \div Sub) + (x % Sub)
  BY CostAssumption

\* reserve charges at least one micro-dollar and at least the worst case.
LEMMA MicroUpCovers ==
  ASSUME NEW p \in Nat
  PROVE  /\ MicroUp(p) \in Nat
         /\ p <= Sub * MicroUp(p)
<1> DEFINE x == p + Sub - 1
           q == x \div Sub
<1>1. Sub \in Nat /\ Sub > 0
  BY CostAssumption
<1>2. x \in Int /\ q \in Int /\ x % Sub \in 0 .. Sub - 1 /\ x = Sub * q + (x % Sub)
  BY <1>1, DivMod
<1>3. p <= Sub * q
  BY <1>1, <1>2
<1>4. q >= 0
  <2>1. SUFFICES ASSUME q <= -1 PROVE FALSE
    BY <1>2
  <2>2. Sub * q <= -Sub
    BY <1>1, <1>2, <2>1
  <2>3. QED
    BY <1>1, <1>3, <2>2
<1>5. CASE p = 0
  BY <1>1, <1>5 DEF MicroUp
<1>6. CASE p # 0
  BY <1>2, <1>3, <1>4, <1>6 DEF MicroUp
<1>7. QED
  BY <1>5, <1>6

\* settle and release give back at most half a micro-dollar too much.
LEMMA RoundingBound ==
  ASSUME NEW p \in Nat
  PROVE  /\ RoundHalfEven(p) \in Nat
         /\ 2 * (Sub * RoundHalfEven(p)) <= 2 * p + Sub
<1> DEFINE q == p \div Sub
           r == p % Sub
<1>1. Sub \in Nat /\ Sub > 0
  BY CostAssumption
<1>2. q \in Int /\ r \in 0 .. Sub - 1 /\ p = Sub * q + r
  <2>1. p \in Int
    OBVIOUS
  <2>2. QED
    BY <2>1, DivMod
<1>3. q >= 0
  <2>1. SUFFICES ASSUME q <= -1 PROVE FALSE
    BY <1>2
  <2>2. Sub * q <= -Sub
    BY <1>1, <1>2, <2>1
  <2>3. QED
    BY <1>1, <1>2, <2>2
<1>4. CASE 2 * r < Sub \/ (2 * r = Sub /\ q % 2 = 0)
  <2>1. RoundHalfEven(p) = q
    BY <1>4 DEF RoundHalfEven
  <2>2. QED
    BY <1>1, <1>2, <1>3, <2>1
<1>5. CASE ~(2 * r < Sub \/ (2 * r = Sub /\ q % 2 = 0))
  <2>1. RoundHalfEven(p) = q + 1
    BY <1>5 DEF RoundHalfEven
  <2>2. 2 * r >= Sub
    BY <1>1, <1>2, <1>5
  <2>3. Sub * (q + 1) = Sub * q + Sub
    BY <1>1, <1>2
  <2>4. 2 * (Sub * (q + 1)) <= 2 * p + Sub
    BY <1>1, <1>2, <2>2, <2>3
  <2>5. QED
    BY <1>2, <1>3, <2>1, <2>4
<1>6. QED
  BY <1>4, <1>5

\* The balance of one day after an attempt ended: a charge of m micro-dollars
\* leaves the open reserves, r of them leave the ledger and a parts were billed.
LEMMA BalanceKept ==
  ASSUME NEW P \in Int, NEW O \in Int, NEW L \in Int, NEW E \in Int,
         NEW m \in Int, NEW w \in Int, NEW a \in Int, NEW r \in Int,
         NEW N \in Int,
         2 * P + 2 * Sub * O <= 2 * Sub * L + Sub * E,
         w <= Sub * m,
         2 * (Sub * r) <= 2 * (w - a) + Sub,
         N >= L - r
  PROVE  2 * (P + a) + 2 * Sub * (O - m) <= 2 * Sub * N + Sub * (E + 1)
<1>1. Sub \in Nat /\ Sub > 0
  BY CostAssumption
<1>2. Sub * (O - m) = Sub * O - Sub * m
  BY <1>1
<1>3. Sub * (E + 1) = Sub * E + Sub
  BY <1>1
<1>4. Sub * (L - r) = Sub * L - Sub * r
  BY <1>1
<1>5. Sub * N >= Sub * (L - r)
  BY <1>1
<1>6. /\ 2 * Sub * (O - m) = 2 * (Sub * (O - m))
      /\ 2 * Sub * N = 2 * (Sub * N)
      /\ 2 * Sub * O = 2 * (Sub * O)
      /\ 2 * Sub * L = 2 * (Sub * L)
  BY <1>1
<1>7. QED
  BY <1>1, <1>2, <1>3, <1>4, <1>5, <1>6

-----------------------------------------------------------------------------
\* An attempt is never billed more than the worst case it reserved.
CallBounds == \A c \in Calls : call[c].actual <= call[c].worst

\* The inductive invariant.
CostInv == TypeOK /\ CallBounds /\ CeilingHolds /\ PaidIsCovered

\* What the end of an attempt touches, besides kept.
EndedOK ==
  /\ call' \in [Calls -> Call]
  /\ ledger' \in [Days -> Nat]
  /\ open' \in [Days -> Int]
  /\ paid' \in [Days -> Nat]
  /\ ended' \in [Days -> Nat]
  /\ CallBounds'
  /\ CeilingHolds'
  /\ PaidIsCovered'

LEMMA IdleOK == Idle \in Call /\ Idle.actual <= Idle.worst
  BY CostAssumption DEF Idle, Call, Days

LEMMA CallFields ==
  ASSUME TypeOK, NEW c \in Calls
  PROVE  /\ call[c] \in Call
         /\ call[c].day \in Days
         /\ call[c].worst \in Nat
         /\ call[c].actual \in Nat
<1>1. call[c] \in Call
  BY DEF TypeOK
<1>2. call[c].day \in Days /\ call[c].worst \in Worst \cup {0} /\ call[c].actual \in Nat
  BY <1>1 DEF Call
<1>3. Worst \cup {0} \subseteq Nat
  BY CostAssumption
<1>4. QED
  BY <1>1, <1>2, <1>3

\* However an attempt ends, refunding at most the rounded difference between
\* its reserve and its bill keeps the invariant.
LEMMA EndKeeps ==
  ASSUME CostInv, NEW c \in Calls,
         NEW bill \in Nat, bill <= call[c].worst,
         NEW r \in Nat, 2 * (Sub * r) <= 2 * (call[c].worst - bill) + Sub,
         Ends(c, bill), ledger' = Refunded(call[c].day, r)
  PROVE  EndedOK
<1> DEFINE d == call[c].day
           w == call[c].worst
           m == MicroUp(w)
<1> USE DEF CostInv
<1>1. call[c] \in Call /\ d \in Days /\ w \in Nat
  BY CallFields
<1>2. m \in Nat /\ w <= Sub * m
  BY <1>1, MicroUpCovers
<1>3. call' = [call EXCEPT ![c] = Idle]
  BY DEF Ends
<1>4. open' = [open EXCEPT ![d] = open[d] - m]
  BY DEF Ends, TypeOK
<1>5. paid' = [paid EXCEPT ![d] = paid[d] + bill]
  BY DEF Ends, TypeOK
<1>6. ended' = [ended EXCEPT ![d] = ended[d] + 1]
  BY DEF Ends, TypeOK
<1>7. ledger' = [ledger EXCEPT ![d] = Clamped(ledger[d] - r)]
  BY DEF Refunded
<1>8. /\ Clamped(ledger[d] - r) \in Nat
      /\ Clamped(ledger[d] - r) <= ledger[d]
      /\ Clamped(ledger[d] - r) >= ledger[d] - r
  BY <1>1 DEF TypeOK, Clamped
<1> HIDE DEF d, w, m
<1>9. call' \in [Calls -> Call] /\ CallBounds'
  BY <1>3, IdleOK DEF TypeOK, CallBounds
<1>10. /\ ledger' \in [Days -> Nat] /\ open' \in [Days -> Int]
       /\ paid' \in [Days -> Nat] /\ ended' \in [Days -> Nat]
  BY <1>1, <1>2, <1>4, <1>5, <1>6, <1>7, <1>8 DEF TypeOK
<1>11. CeilingHolds'
  <2>1. Limit \in Nat
    BY CostAssumption
  <2>2. QED
    BY <1>1, <1>7, <1>8, <2>1 DEF CeilingHolds, TypeOK
<1>12. PaidIsCovered'
  <2>1. SUFFICES ASSUME NEW e \in Days
                 PROVE  2 * paid'[e] + 2 * Sub * open'[e]
                          <= 2 * Sub * ledger'[e] + Sub * ended'[e]
    BY DEF PaidIsCovered
  <2>2. CASE e = d
    <3>1. 2 * paid[d] + 2 * Sub * open[d] <= 2 * Sub * ledger[d] + Sub * ended[d]
      BY <1>1 DEF PaidIsCovered
    <3>2. paid[d] \in Int /\ open[d] \in Int /\ ledger[d] \in Int /\ ended[d] \in Int
      BY <1>1 DEF TypeOK
    <3>3. 2 * (Sub * r) <= 2 * (w - bill) + Sub
      BY DEF w
    <3>4. /\ m \in Int /\ w \in Int /\ bill \in Int /\ r \in Int
          /\ Clamped(ledger[d] - r) \in Int
      BY <1>1, <1>2, <1>8
    <3>5. 2 * (paid[d] + bill) + 2 * Sub * (open[d] - m)
            <= 2 * Sub * Clamped(ledger[d] - r) + Sub * (ended[d] + 1)
      BY <1>2, <1>8, <3>1, <3>2, <3>3, <3>4, BalanceKept
    <3>6. /\ paid'[d] = paid[d] + bill /\ open'[d] = open[d] - m
          /\ ledger'[d] = Clamped(ledger[d] - r) /\ ended'[d] = ended[d] + 1
      BY <1>1, <1>4, <1>5, <1>6, <1>7 DEF TypeOK
    <3>7. QED
      BY <2>2, <3>5, <3>6
  <2>3. CASE e # d
    <3>1. /\ paid'[e] = paid[e] /\ open'[e] = open[e]
          /\ ledger'[e] = ledger[e] /\ ended'[e] = ended[e]
      BY <1>4, <1>5, <1>6, <1>7, <2>3 DEF TypeOK
    <3>2. QED
      BY <3>1 DEF PaidIsCovered
  <2>4. QED
    BY <2>2, <2>3
<1>13. QED
  BY <1>9, <1>10, <1>11, <1>12 DEF EndedOK

\* The same when the reserve stays in the ledger.
LEMMA EndKeepsReserve ==
  ASSUME CostInv, NEW c \in Calls,
         NEW bill \in Nat, bill <= call[c].worst,
         Ends(c, bill), ledger' = ledger
  PROVE  EndedOK
<1>1. call[c].day \in Days /\ call[c].worst \in Nat
  BY CallFields DEF CostInv
<1>2. ledger = Refunded(call[c].day, 0)
  BY <1>1 DEF CostInv, TypeOK, Refunded, Clamped
<1>3. 2 * (Sub * 0) <= 2 * (call[c].worst - bill) + Sub
  BY <1>1, CostAssumption
<1>4. QED
  BY <1>2, <1>3, EndKeeps, 0 \in Nat

\* reserve: the sum stays below the limit because the condition is part of the
\* UPDATE, and the balance because the charge is at least the open reserve.
LEMMA ChargeKeeps ==
  ASSUME CostInv, NEW w \in Worst, Fits(day, MicroUp(w)),
         ledger' = Charged(day, MicroUp(w)),
         open' = open \/ open' = [open EXCEPT ![day] = @ + MicroUp(w)],
         UNCHANGED <<paid, ended>>
  PROVE  /\ ledger' \in [Days -> Nat]
         /\ open' \in [Days -> Int]
         /\ CeilingHolds'
         /\ PaidIsCovered'
<1> DEFINE m == MicroUp(w)
<1> USE DEF CostInv
<1>1. w \in Nat /\ Limit \in Nat /\ Sub \in Nat /\ day \in Days
  BY CostAssumption DEF TypeOK
<1>2. m \in Nat
  BY <1>1, MicroUpCovers
<1>3. ledger[day] + m <= Limit
  BY DEF Fits
<1>4. ledger' = [ledger EXCEPT ![day] = ledger[day] + m]
  BY DEF Charged
<1>5. open' = open \/ open' = [open EXCEPT ![day] = open[day] + m]
  BY DEF TypeOK
<1> HIDE DEF m
<1>6. ledger' \in [Days -> Nat] /\ open' \in [Days -> Int]
  BY <1>1, <1>2, <1>4, <1>5 DEF TypeOK
<1>7. CeilingHolds'
  BY <1>1, <1>2, <1>3, <1>4 DEF CeilingHolds, TypeOK
<1>8. PaidIsCovered'
  <2>1. SUFFICES ASSUME NEW e \in Days
                 PROVE  2 * paid[e] + 2 * Sub * open'[e]
                          <= 2 * Sub * ledger'[e] + Sub * ended[e]
    BY DEF PaidIsCovered
  <2>2. 2 * paid[e] + 2 * Sub * open[e] <= 2 * Sub * ledger[e] + Sub * ended[e]
    BY DEF PaidIsCovered
  <2>3. /\ paid[e] \in Int /\ open[e] \in Int /\ ledger[e] \in Int
        /\ ended[e] \in Int /\ open'[e] \in Int /\ ledger'[e] \in Int
    BY <1>6 DEF TypeOK
  <2>4. open'[e] - open[e] <= ledger'[e] - ledger[e]
    BY <1>1, <1>2, <1>4, <1>5, <2>3 DEF TypeOK
  <2>5. Sub * (open'[e] - open[e]) <= Sub * (ledger'[e] - ledger[e])
    BY <1>1, <2>3, <2>4
  <2>6. /\ Sub * (open'[e] - open[e]) = Sub * open'[e] - Sub * open[e]
        /\ Sub * (ledger'[e] - ledger[e]) = Sub * ledger'[e] - Sub * ledger[e]
    BY <1>1, <2>3
  <2>7. QED
    BY <1>1, <2>2, <2>3, <2>5, <2>6
<1>9. QED
  BY <1>6, <1>7, <1>8

LEMMA InitInv == Init => CostInv
<1> SUFFICES ASSUME Init PROVE CostInv
  OBVIOUS
<1>1. Limit \in Nat /\ Sub \in Nat /\ 1 \in Days
  BY CostAssumption DEF Days
<1>2. TypeOK
  BY <1>1, IdleOK DEF Init, TypeOK
<1>3. CallBounds
  BY IdleOK DEF Init, CallBounds
<1>4. CeilingHolds /\ PaidIsCovered
  BY <1>1 DEF Init, CeilingHolds, PaidIsCovered
<1>5. QED
  BY <1>2, <1>3, <1>4 DEF CostInv

LEMMA NextInv == CostInv /\ [Next]_vars => CostInv'
<1> SUFFICES ASSUME CostInv, [Next]_vars PROVE CostInv'
  OBVIOUS
<1> USE DEF CostInv
<1>1. ASSUME NEW c \in Calls, NEW w \in Worst, Reserve(c, w)
      PROVE  CostInv'
  <2>1. ledger' \in [Days -> Nat] /\ open' \in [Days -> Int] /\ CeilingHolds' /\ PaidIsCovered'
    BY <1>1, ChargeKeeps DEF Reserve
  <2>2. /\ call' = [call EXCEPT ![c] = [pc |-> "reserved", day |-> day,
                                        worst |-> w, actual |-> 0]]
        /\ day' = day /\ paid' = paid /\ kept' = kept /\ ended' = ended
    BY <1>1 DEF Reserve
  <2>3. [pc |-> "reserved", day |-> day, worst |-> w, actual |-> 0] \in Call
    BY DEF TypeOK, Call
  <2>4. w \in Nat
    BY CostAssumption
  <2>5. call' \in [Calls -> Call] /\ CallBounds'
    BY <2>2, <2>3, <2>4 DEF TypeOK, CallBounds
  <2>6. TypeOK'
    BY <2>1, <2>2, <2>5 DEF TypeOK
  <2>7. QED
    BY <2>1, <2>5, <2>6
<1>2. ASSUME NEW c \in Calls, NEW w \in Worst, ReserveStays(c, w)
      PROVE  CostInv'
  <2>1. /\ Fits(day, MicroUp(w)) /\ ledger' = Charged(day, MicroUp(w))
        /\ kept' = [kept EXCEPT ![day] = kept[day] + MicroUp(w)]
        /\ day' = day /\ call' = call /\ open' = open /\ paid' = paid
        /\ ended' = ended
    BY <1>2 DEF ReserveStays, TypeOK
  <2>2. ledger' \in [Days -> Nat] /\ open' \in [Days -> Int] /\ CeilingHolds' /\ PaidIsCovered'
    BY <2>1, ChargeKeeps
  <2>3. w \in Nat /\ MicroUp(w) \in Nat
    BY CostAssumption, MicroUpCovers
  <2>4. kept' \in [Days -> Nat]
    BY <2>1, <2>3 DEF TypeOK
  <2>5. TypeOK' /\ CallBounds'
    BY <2>1, <2>2, <2>4 DEF TypeOK, CallBounds
  <2>6. QED
    BY <2>2, <2>5
<1>3. ASSUME NEW c \in Calls, NEW a \in Bills(c), Answer(c, a)
      PROVE  CostInv'
  <2>1. /\ call' = [call EXCEPT ![c] = [call[c] EXCEPT !.pc = "answered", !.actual = a]]
        /\ UNCHANGED <<day, ledger, open, paid, kept, ended>>
    BY <1>3 DEF Answer, TypeOK
  <2>2. /\ call[c] \in Call /\ call[c].worst \in Nat
        /\ a \in Nat /\ a <= call[c].worst
    BY CallFields DEF Bills
  <2>3. /\ [call[c] EXCEPT !.pc = "answered", !.actual = a] \in Call
        /\ [call[c] EXCEPT !.pc = "answered", !.actual = a].actual = a
        /\ [call[c] EXCEPT !.pc = "answered", !.actual = a].worst = call[c].worst
    BY <2>2 DEF Call
  <2>4. call' \in [Calls -> Call] /\ CallBounds'
    BY <2>1, <2>2, <2>3 DEF TypeOK, CallBounds
  <2>5. QED
    BY <2>1, <2>4 DEF TypeOK, CeilingHolds, PaidIsCovered
<1>4. ASSUME NEW c \in Calls, RateLimited(c)
      PROVE  CostInv'
  <2>1. /\ call' = [call EXCEPT ![c] = [call[c] EXCEPT !.pc = "limited"]]
        /\ UNCHANGED <<day, ledger, open, paid, kept, ended>>
    BY <1>4 DEF RateLimited, TypeOK
  <2>2. call[c] \in Call
    BY CallFields
  <2>3. /\ [call[c] EXCEPT !.pc = "limited"] \in Call
        /\ [call[c] EXCEPT !.pc = "limited"].actual = call[c].actual
        /\ [call[c] EXCEPT !.pc = "limited"].worst = call[c].worst
    BY <2>2 DEF Call
  <2>4. call' \in [Calls -> Call] /\ CallBounds'
    BY <2>1, <2>3 DEF TypeOK, CallBounds
  <2>5. QED
    BY <2>1, <2>4 DEF TypeOK, CeilingHolds, PaidIsCovered
<1>5. ASSUME NEW c \in Calls, EndedOK,
             day' = day,
             kept' = kept \/ kept' = [kept EXCEPT ![call[c].day] = @ + MicroUp(call[c].worst)]
      PROVE  CostInv'
  <2>1. /\ call[c].worst \in Nat /\ call[c].actual \in Nat /\ call[c].day \in Days
        /\ MicroUp(call[c].worst) \in Nat
    BY CallFields, MicroUpCovers
  <2>2. kept' \in [Days -> Nat]
    BY <1>5, <2>1 DEF TypeOK
  <2>3. QED
    BY <1>5, <2>2 DEF EndedOK, TypeOK
<1>6. ASSUME NEW c \in Calls, NEW a \in Bills(c),
             RequestFails(c, a) \/ Crash(c, a)
      PROVE  CostInv'
  <2>1. /\ call[c].worst \in Nat /\ call[c].actual \in Nat
        /\ a \in Nat /\ a <= call[c].worst /\ call[c].actual <= call[c].worst
    BY CallFields DEF Bills, CallBounds
  <2>2. ledger' = ledger /\ (Ends(c, a) \/ Ends(c, call[c].actual))
    BY <1>6 DEF RequestFails, Crash, KeepsReserve
  <2>3. EndedOK
    BY <2>1, <2>2, EndKeepsReserve
  <2>4. QED
    BY <1>5, <1>6, <2>3 DEF RequestFails, Crash, KeepsReserve
<1>7. ASSUME NEW c \in Calls, SettleFails(c) \/ ReleaseFails(c)
      PROVE  CostInv'
  <2>1. /\ call[c].worst \in Nat /\ call[c].actual \in Nat
        /\ call[c].actual <= call[c].worst /\ 0 <= call[c].worst
    BY CallFields DEF CallBounds
  <2>2. ledger' = ledger /\ (Ends(c, 0) \/ Ends(c, call[c].actual))
    BY <1>7 DEF SettleFails, ReleaseFails, KeepsReserve
  <2>3. EndedOK
    BY <2>1, <2>2, EndKeepsReserve, 0 \in Nat
  <2>4. QED
    BY <1>5, <1>7, <2>3 DEF SettleFails, ReleaseFails, KeepsReserve
<1>8. ASSUME NEW c \in Calls, Settle(c)
      PROVE  CostInv'
  <2> DEFINE r == RoundHalfEven(call[c].worst - call[c].actual)
  <2>1. /\ call[c].worst \in Nat /\ call[c].actual \in Nat
        /\ call[c].actual <= call[c].worst
    BY CallFields DEF CallBounds
  <2>2. call[c].worst - call[c].actual \in Nat
    BY <2>1
  <2>3. r \in Nat /\ 2 * (Sub * r) <= 2 * (call[c].worst - call[c].actual) + Sub
    BY <2>2, RoundingBound
  <2>4. ledger' = Refunded(call[c].day, r) /\ Ends(c, call[c].actual)
    BY <1>8 DEF Settle, Settled
  <2> HIDE DEF r
  <2>5. EndedOK
    BY <2>1, <2>3, <2>4, EndKeeps
  <2>6. QED
    BY <1>5, <1>8, <2>5 DEF Settle
<1>9. ASSUME NEW c \in Calls, Release(c)
      PROVE  CostInv'
  <2> DEFINE r == RoundHalfEven(call[c].worst)
  <2>1. call[c].worst \in Nat /\ 0 <= call[c].worst
    BY CallFields
  <2>2. r \in Nat /\ 2 * (Sub * r) <= 2 * call[c].worst + Sub
    BY <2>1, RoundingBound
  <2>3. ledger' = Refunded(call[c].day, r) /\ Ends(c, 0)
    BY <1>9 DEF Release
  <2> HIDE DEF r
  <2>4. 2 * (Sub * r) <= 2 * (call[c].worst - 0) + Sub
    BY <2>1, <2>2
  <2>5. EndedOK
    BY <2>1, <2>2, <2>3, <2>4, EndKeeps, 0 \in Nat
  <2>6. QED
    BY <1>5, <1>9, <2>5 DEF Release
<1>10. CASE Midnight
  <2>1. day' \in Days
    BY <1>10, CostAssumption DEF Midnight, TypeOK, Days
  <2>2. UNCHANGED <<ledger, call, open, paid, kept, ended>>
    BY <1>10 DEF Midnight
  <2>3. QED
    BY <2>1, <2>2 DEF TypeOK, CallBounds, CeilingHolds, PaidIsCovered
<1>11. CASE UNCHANGED vars
  BY <1>11 DEF vars, TypeOK, CallBounds, CeilingHolds, PaidIsCovered
<1>12. QED
  BY <1>1, <1>2, <1>3, <1>4, <1>6, <1>7, <1>8, <1>9, <1>10, <1>11 DEF Next, Starts

\* The invariant holds in every reachable state.
THEOREM CostInvariance == Spec => []CostInv
<1>1. QED
  BY InitInv, NextInv, PTL DEF Spec

\* For any number of concurrent attempts, the spend recorded for a day never
\* passes the daily limit: _reserve_atomic tests and charges in one statement
\* and every later correction of an attempt only lowers the sum.
THEOREM Ceiling == Spec => []CeilingHolds
<1>1. CostInv => CeilingHolds
  BY DEF CostInv
<1>2. QED
  BY CostInvariance, <1>1, PTL

\* For any prices and any rounding of them, the ledger of a day covers the open
\* reserves and what the provider billed, less at most half a micro-dollar per
\* attempt.
THEOREM PaidCovered == Spec => []PaidIsCovered
<1>1. CostInv => PaidIsCovered
  BY DEF CostInv
<1>2. QED
  BY CostInvariance, <1>1, PTL

-----------------------------------------------------------------------------
(***************************************************************************)
(* LedgerExplained.  The reserves in flight are counted unit by unit: an     *)
(* attempt holds a block of pairs, blocks of different attempts are disjoint *)
(* and each is added and taken away as a whole.                              *)
(***************************************************************************)

Block(c, n) == {c} \X (1 .. n)

\* OpenUnits for a given state of the attempts.
UnitsOf(f, d) ==
  UNION {{c} \X (1 .. MicroUp(f[c].worst)) :
           c \in {x \in Calls : f[x].pc # "idle" /\ f[x].day = d}}

LEMMA BlockSize ==
  ASSUME NEW c, NEW n \in Nat
  PROVE  IsFiniteSet(Block(c, n)) /\ Cardinality(Block(c, n)) = n
<1>1. IsFiniteSet({c}) /\ Cardinality({c}) = 1
  BY FS_Singleton
<1>2. IsFiniteSet(1 .. n) /\ Cardinality(1 .. n) = n
  BY FS_Interval
<1>3. IsFiniteSet({c} \X (1 .. n))
      /\ Cardinality({c} \X (1 .. n)) = Cardinality({c}) * Cardinality(1 .. n)
  BY <1>1, <1>2, FS_Product, Zenon
<1>4. Cardinality({c}) * Cardinality(1 .. n) = n
  BY <1>1, <1>2
<1> QED BY <1>3, <1>4 DEF Block

LEMMA UnitOfSomebody ==
  ASSUME NEW f, NEW d, NEW x
  PROVE  x \in UnitsOf(f, d) <=>
           \E c \in Calls : /\ f[c].pc # "idle" /\ f[c].day = d
                            /\ x \in Block(c, MicroUp(f[c].worst))
  BY DEF UnitsOf, Block

LEMMA BlocksDisjoint ==
  ASSUME NEW b, NEW c, NEW n, NEW m, NEW x, x \in Block(b, n), x \in Block(c, m)
  PROVE  b = c
  BY DEF Block

\* An attempt starts: its block is new.
AttemptStarts(f, c, r, g) ==
  /\ f \in [Calls -> Call] /\ c \in Calls /\ f[c].pc = "idle"
  /\ r.pc # "idle" /\ g = [f EXCEPT ![c] = r]

LEMMA UnitsStart ==
  ASSUME NEW f, NEW c, NEW r, NEW g, AttemptStarts(f, c, r, g), NEW d, NEW n
  PROVE  /\ UnitsOf(f, d) \cap Block(c, n) = {}
         /\ r.day = d => UnitsOf(g, d) = UnitsOf(f, d) \cup Block(c, MicroUp(r.worst))
         /\ r.day # d => UnitsOf(g, d) = UnitsOf(f, d)
<1>0. c \in Calls /\ f[c].pc = "idle" /\ r.pc # "idle"
  BY DEF AttemptStarts
<1>1. g[c] = r /\ \A b \in Calls \ {c} : g[b] = f[b]
  BY DEF AttemptStarts
<1>2. UnitsOf(f, d) \cap Block(c, n) = {}
  BY <1>0, UnitOfSomebody, BlocksDisjoint
<1>3. ASSUME NEW x
      PROVE  x \in UnitsOf(g, d) <=>
               x \in UnitsOf(f, d) \/ (r.day = d /\ x \in Block(c, MicroUp(r.worst)))
  <2>1. x \in UnitsOf(g, d) <=>
          \E b \in Calls : /\ g[b].pc # "idle" /\ g[b].day = d
                           /\ x \in Block(b, MicroUp(g[b].worst))
    BY DEF UnitsOf, Block
  <2>2. x \in UnitsOf(f, d) <=>
          \E b \in Calls : /\ f[b].pc # "idle" /\ f[b].day = d
                           /\ x \in Block(b, MicroUp(f[b].worst))
    BY DEF UnitsOf, Block
  <2> QED BY <1>0, <1>1, <2>1, <2>2
<1>4. r.day = d => UnitsOf(g, d) = UnitsOf(f, d) \cup Block(c, MicroUp(r.worst))
  BY <1>3
<1>5. r.day # d => UnitsOf(g, d) = UnitsOf(f, d)
  BY <1>3
<1> QED BY <1>2, <1>4, <1>5

\* An attempt ends: its block goes.
AttemptEnds(f, c, g) ==
  /\ f \in [Calls -> Call] /\ c \in Calls /\ f[c].pc # "idle"
  /\ g = [f EXCEPT ![c] = Idle]

LEMMA UnitsEnd ==
  ASSUME NEW f, NEW c, NEW g, AttemptEnds(f, c, g), NEW d
  PROVE  /\ f[c].day = d => /\ UnitsOf(g, d) = UnitsOf(f, d) \ Block(c, MicroUp(f[c].worst))
                            /\ Block(c, MicroUp(f[c].worst)) \subseteq UnitsOf(f, d)
         /\ f[c].day # d => UnitsOf(g, d) = UnitsOf(f, d)
<1>0. f \in [Calls -> Call] /\ c \in Calls /\ f[c].pc # "idle" /\ g = [f EXCEPT ![c] = Idle]
  BY DEF AttemptEnds
<1>1. g[c].pc = "idle" /\ \A b \in Calls \ {c} : g[b] = f[b]
  BY <1>0 DEF Idle
<1>2. ASSUME NEW x, f[c].day = d
      PROVE  x \in UnitsOf(g, d) <=>
               x \in UnitsOf(f, d) /\ x \notin Block(c, MicroUp(f[c].worst))
  <2>1. x \in UnitsOf(g, d) <=>
          \E b \in Calls : /\ g[b].pc # "idle" /\ g[b].day = d
                           /\ x \in Block(b, MicroUp(g[b].worst))
    BY DEF UnitsOf, Block
  <2>2. x \in UnitsOf(f, d) <=>
          \E b \in Calls : /\ f[b].pc # "idle" /\ f[b].day = d
                           /\ x \in Block(b, MicroUp(f[b].worst))
    BY DEF UnitsOf, Block
  <2>3. \A b \in Calls \ {c} : x \in Block(b, MicroUp(f[b].worst)) =>
                                   x \notin Block(c, MicroUp(f[c].worst))
    BY BlocksDisjoint
  <2> QED BY <1>0, <1>1, <1>2, <2>1, <2>2, <2>3
<1>3. ASSUME NEW x, f[c].day # d
      PROVE  x \in UnitsOf(g, d) <=> x \in UnitsOf(f, d)
  <2>1. x \in UnitsOf(g, d) <=>
          \E b \in Calls : /\ g[b].pc # "idle" /\ g[b].day = d
                           /\ x \in Block(b, MicroUp(g[b].worst))
    BY DEF UnitsOf, Block
  <2>2. x \in UnitsOf(f, d) <=>
          \E b \in Calls : /\ f[b].pc # "idle" /\ f[b].day = d
                           /\ x \in Block(b, MicroUp(f[b].worst))
    BY DEF UnitsOf, Block
  <2> QED BY <1>0, <1>1, <1>3, <2>1, <2>2
<1>4. f[c].day = d => UnitsOf(g, d) = UnitsOf(f, d) \ Block(c, MicroUp(f[c].worst))
  BY <1>2
<1>5. f[c].day = d => Block(c, MicroUp(f[c].worst)) \subseteq UnitsOf(f, d)
  BY <1>0, UnitOfSomebody
<1>6. f[c].day # d => UnitsOf(g, d) = UnitsOf(f, d)
  BY <1>3
<1> QED BY <1>4, <1>5, <1>6

\* An answer or a refusal leaves the reserve where it is.
AttemptMoves(f, c, r, g) ==
  /\ f \in [Calls -> Call] /\ c \in Calls /\ f[c].pc # "idle"
  /\ r.pc # "idle" /\ r.day = f[c].day /\ r.worst = f[c].worst
  /\ g = [f EXCEPT ![c] = r]

LEMMA UnitsStay ==
  ASSUME NEW f, NEW c, NEW r, NEW g, AttemptMoves(f, c, r, g), NEW d
  PROVE  UnitsOf(g, d) = UnitsOf(f, d)
<1>0. /\ c \in Calls /\ f[c].pc # "idle"
      /\ r.pc # "idle" /\ r.day = f[c].day /\ r.worst = f[c].worst
  BY DEF AttemptMoves
<1>1. g[c] = r /\ \A b \in Calls \ {c} : g[b] = f[b]
  BY DEF AttemptMoves
<1>2. ASSUME NEW x
      PROVE  x \in UnitsOf(g, d) <=> x \in UnitsOf(f, d)
  <2>1. x \in UnitsOf(g, d) <=>
          \E b \in Calls : /\ g[b].pc # "idle" /\ g[b].day = d
                           /\ x \in Block(b, MicroUp(g[b].worst))
    BY DEF UnitsOf, Block
  <2>2. x \in UnitsOf(f, d) <=>
          \E b \in Calls : /\ f[b].pc # "idle" /\ f[b].day = d
                           /\ x \in Block(b, MicroUp(f[b].worst))
    BY DEF UnitsOf, Block
  <2> QED BY <1>0, <1>1, <2>1, <2>2
<1> QED BY <1>2

\* reserve charges less than a micro-dollar too much.
LEMMA MicroUpTight ==
  ASSUME NEW p \in Nat
  PROVE  Sub * MicroUp(p) <= p + Sub
<1> DEFINE x == p + Sub - 1
           q == x \div Sub
<1>1. Sub \in Nat /\ Sub > 0
  BY CostAssumption
<1>2. x \in Int /\ q \in Int /\ x % Sub \in 0 .. Sub - 1 /\ x = Sub * q + (x % Sub)
  BY <1>1, DivMod
<1>3. Sub * q <= p + Sub
  BY <1>1, <1>2
<1>4. CASE p = 0
  BY <1>1, <1>4 DEF MicroUp
<1>5. CASE p # 0
  BY <1>3, <1>5 DEF MicroUp
<1> QED BY <1>4, <1>5

\* settle and release give back at most half a micro-dollar too little.
LEMMA RoundingTight ==
  ASSUME NEW p \in Nat
  PROVE  2 * (Sub * RoundHalfEven(p)) >= 2 * p - Sub
<1> DEFINE q == p \div Sub
           r == p % Sub
<1>1. Sub \in Nat /\ Sub > 0
  BY CostAssumption
<1>2. q \in Int /\ r \in 0 .. Sub - 1 /\ p = Sub * q + r
  <2>1. p \in Int
    OBVIOUS
  <2>2. QED
    BY <2>1, DivMod
<1>4. CASE 2 * r < Sub \/ (2 * r = Sub /\ q % 2 = 0)
  <2>1. RoundHalfEven(p) = q
    BY <1>4 DEF RoundHalfEven
  <2>2. 2 * r <= Sub
    BY <1>1, <1>2, <1>4
  <2>3. QED
    BY <1>1, <1>2, <2>1, <2>2
<1>5. CASE ~(2 * r < Sub \/ (2 * r = Sub /\ q % 2 = 0))
  <2>1. RoundHalfEven(p) = q + 1
    BY <1>5 DEF RoundHalfEven
  <2>3. Sub * (q + 1) = Sub * q + Sub
    BY <1>1, <1>2
  <2>4. 2 * (Sub * (q + 1)) >= 2 * p - Sub
    BY <1>1, <1>2, <2>3
  <2>5. QED
    BY <2>1, <2>4
<1>6. QED
  BY <1>4, <1>5

(* The ledger of one day after an attempt ended: k of its m micro-dollars were
   kept, r were given back, a parts were billed. *)
LEMMA ExplainedKept ==
  ASSUME NEW P \in Nat, NEW O \in Int, NEW K \in Nat, NEW L \in Nat, NEW E \in Nat,
         NEW m \in Int, NEW w \in Int, NEW a \in Nat, NEW r \in Int, NEW N \in Int,
         O - m >= 0,
         2 * Sub * L <= 2 * P + 2 * Sub * (O + K) + 3 * Sub * E,
         Sub * m <= w + Sub,
         2 * (Sub * r) >= 2 * (w - a) - Sub,
         N = Clamped(L - r)
  PROVE  2 * Sub * N <= 2 * (P + a) + 2 * Sub * (O - m + K) + 3 * Sub * (E + 1)
<1>1. Sub \in Nat /\ Sub > 0
  BY CostAssumption
<1>2. Sub * (O - m + K) = Sub * O - Sub * m + Sub * K /\ Sub * (O + K) = Sub * O + Sub * K
  BY <1>1
<1>3. Sub * (E + 1) = Sub * E + Sub /\ Sub * E >= 0
  BY <1>1
<1>4. Sub * (L - r) = Sub * L - Sub * r
  BY <1>1
<1>5. Sub * (O - m + K) >= 0
  <2>1. O - m + K \in Nat
    OBVIOUS
  <2> QED BY <1>1, <2>1
<1>6. /\ 2 * Sub * (O - m + K) = 2 * (Sub * (O - m + K))
      /\ 2 * Sub * N = 2 * (Sub * N)
      /\ 2 * Sub * (O + K) = 2 * (Sub * (O + K))
      /\ 2 * Sub * L = 2 * (Sub * L)
      /\ 3 * Sub * E = 3 * (Sub * E)
      /\ 3 * Sub * (E + 1) = 3 * (Sub * (E + 1))
  BY <1>1
<1>7. CASE N = L - r
  BY <1>1, <1>2, <1>3, <1>4, <1>6, <1>7
<1>8. CASE N = 0
  BY <1>1, <1>3, <1>5, <1>6, <1>8
<1>9. QED
  BY <1>7, <1>8 DEF Clamped

\* The same when all of the reserve stays.
LEMMA ExplainedStays ==
  ASSUME NEW P \in Nat, NEW O \in Int, NEW K \in Nat, NEW L \in Nat, NEW E \in Nat,
         NEW m \in Int, NEW a \in Nat,
         2 * Sub * L <= 2 * P + 2 * Sub * (O + K) + 3 * Sub * E
  PROVE  2 * Sub * L <= 2 * (P + a) + 2 * Sub * (O - m + (K + m)) + 3 * Sub * (E + 1)
<1>1. Sub \in Nat /\ Sub > 0
  BY CostAssumption
<1>2. O - m + (K + m) = O + K
  OBVIOUS
<1>3. 3 * Sub * (E + 1) = 3 * Sub * E + 3 * Sub
  BY <1>1
<1> QED BY <1>1, <1>2, <1>3

FiniteUnits == \A d \in Days : IsFiniteSet(OpenUnits(d))

SpentInv == FiniteUnits /\ LedgerExplained

LEMMA OpenIsUnits ==
  ASSUME NEW d
  PROVE  OpenUnits(d) = UnitsOf(call, d) /\ OpenUnits(d)' = UnitsOf(call', d)
  BY DEF OpenUnits, UnitsOf

\* The end of an attempt, counted.
LEMMA UnitsLeft ==
  ASSUME NEW f, NEW c, NEW g, AttemptEnds(f, c, g), NEW d, f[c].day = d,
         NEW m \in Nat, m = MicroUp(f[c].worst), IsFiniteSet(UnitsOf(f, d))
  PROVE  /\ IsFiniteSet(UnitsOf(g, d))
         /\ Cardinality(UnitsOf(f, d)) \in Nat
         /\ Cardinality(UnitsOf(g, d)) = Cardinality(UnitsOf(f, d)) - m
         /\ m <= Cardinality(UnitsOf(f, d))
<1>1. UnitsOf(g, d) = UnitsOf(f, d) \ Block(c, m) /\ Block(c, m) \subseteq UnitsOf(f, d)
  BY UnitsEnd
<1>2. IsFiniteSet(Block(c, m)) /\ Cardinality(Block(c, m)) = m
  BY BlockSize
<1>3. PICK U : U = UnitsOf(f, d)
  OBVIOUS
<1>4. PICK B : B = Block(c, m)
  OBVIOUS
<1>5. U \cap B = B
  BY <1>1, <1>3, <1>4
<1>6. IsFiniteSet(U \ B) /\ Cardinality(U \ B) = Cardinality(U) - Cardinality(U \cap B)
  BY <1>3, FS_Difference
<1>7. Cardinality(B) <= Cardinality(U)
  BY <1>1, <1>3, <1>4, FS_Subset
<1>8. Cardinality(U) \in Nat
  BY <1>3, FS_CardinalityType
<1> QED BY <1>1, <1>2, <1>3, <1>4, <1>5, <1>6, <1>7, <1>8

\* The same for the variables, day by day.
LEMMA EndUnits ==
  ASSUME CostInv, SpentInv, NEW c \in Calls, call[c].pc # "idle", NEW bill, Ends(c, bill)
  PROVE  /\ FiniteUnits'
         /\ \A e \in Days : open'[e] = Cardinality(OpenUnits(e)')
         /\ open[call[c].day] - MicroUp(call[c].worst) >= 0
<1>0. PICK d : d = call[c].day
  OBVIOUS
<1>m. PICK m : m = MicroUp(call[c].worst)
  OBVIOUS
<1>f. PICK f : f = call
  OBVIOUS
<1>g. PICK g : g = call'
  OBVIOUS
<1>1. f \in [Calls -> Call] /\ d \in Days /\ m \in Nat /\ open \in [Days -> Int]
  BY <1>0, <1>m, <1>f, CallFields, MicroUpCovers DEF CostInv, TypeOK
<1>2. g = [f EXCEPT ![c] = Idle] /\ open' = [open EXCEPT ![d] = open[d] - m]
  BY <1>0, <1>m, <1>f, <1>g, <1>1 DEF Ends
<1>3. AttemptEnds(f, c, g) /\ f[c].day = d /\ m = MicroUp(f[c].worst)
  BY <1>0, <1>m, <1>f, <1>1, <1>2 DEF AttemptEnds
<1>4. ASSUME NEW e \in Days
      PROVE  IsFiniteSet(UnitsOf(f, e)) /\ open[e] = Cardinality(UnitsOf(f, e))
  BY <1>f, OpenIsUnits DEF SpentInv, FiniteUnits, LedgerExplained
<1>5. /\ IsFiniteSet(UnitsOf(g, d)) /\ Cardinality(UnitsOf(f, d)) \in Nat
      /\ Cardinality(UnitsOf(g, d)) = Cardinality(UnitsOf(f, d)) - m
      /\ m <= Cardinality(UnitsOf(f, d))
  BY <1>1, <1>3, <1>4, UnitsLeft
<1>6. ASSUME NEW e \in Days, e # d
      PROVE  UnitsOf(g, e) = UnitsOf(f, e)
  BY <1>3, <1>6, UnitsEnd
<1>7. ASSUME NEW e \in Days
      PROVE  IsFiniteSet(UnitsOf(g, e)) /\ open'[e] = Cardinality(UnitsOf(g, e))
  <2>1. CASE e = d
    BY <1>1, <1>2, <1>4, <1>5, <2>1
  <2>2. CASE e # d
    <3>1. open'[e] = open[e]
      BY <1>1, <1>2, <2>2
    <3> QED BY <1>4, <1>6, <2>2, <3>1
  <2> QED BY <2>1, <2>2
<1>8. open[d] - m >= 0
  BY <1>1, <1>4, <1>5
<1>9. ASSUME NEW e \in Days
      PROVE  IsFiniteSet(OpenUnits(e)') /\ open'[e] = Cardinality(OpenUnits(e)')
  <2>1. OpenUnits(e)' = UnitsOf(g, e)
    BY <1>g, OpenIsUnits
  <2> QED BY <1>7, <2>1
<1> QED BY <1>0, <1>m, <1>8, <1>9 DEF FiniteUnits

\* However an attempt ends: its reserve is given back up to rounding, or kept.
LEMMA EndExplains ==
  ASSUME CostInv, SpentInv, NEW c \in Calls, call[c].pc # "idle",
         NEW bill \in Nat, Ends(c, bill),
         \/ /\ kept' = kept
            /\ \E r \in Nat : /\ ledger' = Refunded(call[c].day, r)
                              /\ 2 * (Sub * r) >= 2 * (call[c].worst - bill) - Sub
         \/ /\ ledger' = ledger
            /\ kept' = [kept EXCEPT ![call[c].day] = @ + MicroUp(call[c].worst)]
  PROVE  SpentInv'
<1> DEFINE d == call[c].day
           w == call[c].worst
           m == MicroUp(w)
<1>1. d \in Days /\ w \in Nat /\ m \in Nat /\ Sub * m <= w + Sub
  BY CallFields, MicroUpCovers, MicroUpTight DEF CostInv
<1>t. /\ ledger \in [Days -> Nat] /\ open \in [Days -> Int] /\ paid \in [Days -> Nat]
      /\ kept \in [Days -> Nat] /\ ended \in [Days -> Nat]
  BY DEF CostInv, TypeOK
<1>2. /\ FiniteUnits' /\ \A e \in Days : open'[e] = Cardinality(OpenUnits(e)')
      /\ open[d] - m >= 0
  BY EndUnits
<1>3. /\ open' = [open EXCEPT ![d] = open[d] - m]
      /\ paid' = [paid EXCEPT ![d] = paid[d] + bill]
      /\ ended' = [ended EXCEPT ![d] = ended[d] + 1]
  BY <1>1, <1>t DEF Ends
<1>4. 2 * Sub * ledger[d] <= 2 * paid[d] + 2 * Sub * (open[d] + kept[d]) + 3 * Sub * ended[d]
  BY <1>1 DEF SpentInv, LedgerExplained
<1>5. 2 * Sub * ledger'[d] <= 2 * paid'[d] + 2 * Sub * (open'[d] + kept'[d]) + 3 * Sub * ended'[d]
  <2> HIDE DEF d, w, m
  <2>0. open'[d] = open[d] - m /\ paid'[d] = paid[d] + bill /\ ended'[d] = ended[d] + 1
    BY <1>1, <1>3, <1>t
  <2>1. CASE ledger' = ledger /\ kept' = [kept EXCEPT ![d] = kept[d] + m]
    <3>1. kept'[d] = kept[d] + m
      BY <1>1, <1>t, <2>1
    <3>2. 2 * Sub * ledger[d] <= 2 * (paid[d] + bill) + 2 * Sub * (open[d] - m + (kept[d] + m))
                                 + 3 * Sub * (ended[d] + 1)
      <4>1. paid[d] \in Nat /\ open[d] \in Int /\ kept[d] \in Nat /\ ledger[d] \in Nat
            /\ ended[d] \in Nat /\ m \in Int
        BY <1>1, <1>t
      <4> QED BY <1>4, <4>1, ExplainedStays
    <3> QED BY <2>0, <2>1, <3>1, <3>2
  <2>2. CASE /\ kept' = kept
             /\ \E r \in Nat : /\ ledger' = Refunded(d, r)
                               /\ 2 * (Sub * r) >= 2 * (w - bill) - Sub
    <3>1. PICK r \in Nat : ledger' = Refunded(d, r) /\ 2 * (Sub * r) >= 2 * (w - bill) - Sub
      BY <2>2
    <3>2. PICK n : n = Clamped(ledger[d] - r)
      OBVIOUS
    <3>3. ledger'[d] = n /\ n \in Int
      BY <1>1, <1>t, <3>1, <3>2 DEF Refunded, Clamped
    <3>4. 2 * Sub * n <= 2 * (paid[d] + bill) + 2 * Sub * (open[d] - m + kept[d])
                         + 3 * Sub * (ended[d] + 1)
      <4>1. paid[d] \in Nat /\ open[d] \in Int /\ kept[d] \in Nat /\ ledger[d] \in Nat
            /\ ended[d] \in Nat /\ m \in Int /\ w \in Int /\ r \in Int
        BY <1>1, <1>t
      <4>2. open[d] - m >= 0
        BY <1>2 DEF d, w, m
      <4> QED BY <1>1, <1>4, <3>1, <3>2, <3>3, <4>1, <4>2, ExplainedKept
    <3> QED BY <2>0, <2>2, <3>3, <3>4
  <2>3. kept[d] \in Nat
    BY <1>1, <1>t
  <2> QED BY <1>1, <1>t, <2>1, <2>2 DEF d, w, m
<1>6. ASSUME NEW e \in Days, e # d
      PROVE  2 * Sub * ledger'[e] <= 2 * paid'[e] + 2 * Sub * (open'[e] + kept'[e]) + 3 * Sub * ended'[e]
  <2> HIDE DEF d, w, m
  <2>1. paid'[e] = paid[e] /\ open'[e] = open[e] /\ ended'[e] = ended[e]
    BY <1>3, <1>6, <1>t
  <2>2. ledger'[e] = ledger[e] /\ kept'[e] = kept[e]
    BY <1>6, <1>t DEF Refunded, d
  <2> QED BY <2>1, <2>2 DEF SpentInv, LedgerExplained
<1> HIDE DEF d, w, m
<1> QED BY <1>2, <1>5, <1>6 DEF SpentInv, LedgerExplained

\* A charge that is explained by a reserve in flight or kept.
LEMMA ChargeExplained ==
  ASSUME NEW P \in Nat, NEW O \in Int, NEW K \in Int, NEW L \in Nat, NEW E \in Nat,
         NEW m \in Int, NEW R \in Int, R = O + K + m,
         2 * Sub * L <= 2 * P + 2 * Sub * (O + K) + 3 * Sub * E
  PROVE  2 * Sub * (L + m) <= 2 * P + 2 * Sub * R + 3 * Sub * E
<1>1. Sub \in Nat
  BY CostAssumption
<1>2. 2 * Sub * (L + m) = 2 * Sub * L + 2 * Sub * m
  BY <1>1
<1>3. 2 * Sub * R = 2 * Sub * (O + K) + 2 * Sub * m
  BY <1>1
<1>4. /\ 2 * Sub * L \in Int /\ 2 * Sub * m \in Int /\ 2 * Sub * (O + K) \in Int
      /\ 3 * Sub * E \in Int
  BY <1>1
<1> QED BY <1>2, <1>3, <1>4

\* reserve: one more block, and as many micro-dollars more in open.
LEMMA StartUnits ==
  ASSUME CostInv, SpentInv, NEW c \in Calls, NEW w \in Worst, Reserve(c, w)
  PROVE  FiniteUnits' /\ \A e \in Days : open'[e] = Cardinality(OpenUnits(e)')
<1>0. PICK d : d = day
  OBVIOUS
<1>m. PICK m : m = MicroUp(w)
  OBVIOUS
<1>f. PICK f : f = call
  OBVIOUS
<1>g. PICK g : g = call'
  OBVIOUS
<1>r. PICK r : r = [pc |-> "reserved", day |-> d, worst |-> w, actual |-> 0]
  OBVIOUS
<1>w. w \in Nat
  BY CostAssumption
<1>1. f \in [Calls -> Call] /\ d \in Days /\ m \in Nat /\ open \in [Days -> Int]
  BY <1>0, <1>m, <1>f, <1>w, MicroUpCovers DEF CostInv, TypeOK
<1>2. g = [f EXCEPT ![c] = r] /\ open' = [open EXCEPT ![d] = open[d] + m]
  BY <1>0, <1>m, <1>f, <1>g, <1>r, <1>1 DEF Reserve
<1>3. AttemptStarts(f, c, r, g) /\ r.day = d /\ m = MicroUp(r.worst)
  BY <1>f, <1>m, <1>r, <1>1, <1>2 DEF AttemptStarts, Reserve
<1>4. ASSUME NEW e \in Days
      PROVE  IsFiniteSet(UnitsOf(f, e)) /\ open[e] = Cardinality(UnitsOf(f, e))
  BY <1>f, OpenIsUnits DEF SpentInv, FiniteUnits, LedgerExplained
<1>5. /\ UnitsOf(f, d) \cap Block(c, m) = {}
      /\ UnitsOf(g, d) = UnitsOf(f, d) \cup Block(c, m)
  BY <1>3, UnitsStart
<1>6. ASSUME NEW e \in Days, e # d
      PROVE  UnitsOf(g, e) = UnitsOf(f, e)
  BY <1>3, <1>6, UnitsStart
<1>7. IsFiniteSet(UnitsOf(g, d)) /\ Cardinality(UnitsOf(g, d)) = open[d] + m
  <2>1. PICK U : U = UnitsOf(f, d)
    OBVIOUS
  <2>2. PICK B : B = Block(c, m)
    OBVIOUS
  <2>3. IsFiniteSet(B) /\ Cardinality(B) = m
    BY <1>1, <2>2, BlockSize
  <2>4. IsFiniteSet(U) /\ Cardinality(U) = open[d]
    BY <1>1, <1>4, <2>1
  <2>5. U \cap B = {} /\ UnitsOf(g, d) = U \cup B
    BY <1>5, <2>1, <2>2
  <2>6. /\ IsFiniteSet(U \cup B)
        /\ Cardinality(U \cup B) = Cardinality(U) + Cardinality(B) - Cardinality(U \cap B)
    BY <2>3, <2>4, FS_Union
  <2>7. Cardinality(U \cap B) = 0
    BY <2>5, FS_EmptySet
  <2>8. open[d] \in Int
    BY <1>1
  <2> QED BY <1>1, <2>3, <2>4, <2>5, <2>6, <2>7, <2>8
<1>8. ASSUME NEW e \in Days
      PROVE  IsFiniteSet(UnitsOf(g, e)) /\ open'[e] = Cardinality(UnitsOf(g, e))
  <2>1. CASE e = d
    BY <1>1, <1>2, <1>7, <2>1
  <2>2. CASE e # d
    <3>1. open'[e] = open[e]
      BY <1>1, <1>2, <2>2
    <3> QED BY <1>4, <1>6, <2>2, <3>1
  <2> QED BY <2>1, <2>2
<1>9. ASSUME NEW e \in Days
      PROVE  IsFiniteSet(OpenUnits(e)') /\ open'[e] = Cardinality(OpenUnits(e)')
  <2>1. OpenUnits(e)' = UnitsOf(g, e)
    BY <1>g, OpenIsUnits
  <2> QED BY <1>8, <2>1
<1> QED BY <1>9 DEF FiniteUnits

\* A charge at the start of an attempt, in flight or left behind.
LEMMA ChargeExplains ==
  ASSUME CostInv, SpentInv, NEW c \in Calls, NEW w \in Worst,
         Reserve(c, w) \/ ReserveStays(c, w)
  PROVE  SpentInv'
<1>0. PICK d : d = day
  OBVIOUS
<1>m. PICK m : m = MicroUp(w)
  OBVIOUS
<1>w. w \in Nat
  BY CostAssumption
<1>t. /\ ledger \in [Days -> Nat] /\ open \in [Days -> Int] /\ paid \in [Days -> Nat]
      /\ kept \in [Days -> Nat] /\ ended \in [Days -> Nat] /\ d \in Days /\ m \in Nat
  BY <1>0, <1>m, <1>w, MicroUpCovers DEF CostInv, TypeOK
<1>1. FiniteUnits' /\ \A e \in Days : open'[e] = Cardinality(OpenUnits(e)')
  <2>1. CASE Reserve(c, w)
    BY <2>1, StartUnits
  <2>2. CASE ReserveStays(c, w)
    <3>1. call' = call /\ open' = open
      BY <2>2 DEF ReserveStays
    <3>2. \A e \in Days : OpenUnits(e)' = OpenUnits(e)
      BY <3>1 DEF OpenUnits
    <3> QED BY <3>1, <3>2 DEF SpentInv, FiniteUnits, LedgerExplained
  <2> QED BY <2>1, <2>2
<1>2. /\ ledger' = [ledger EXCEPT ![d] = ledger[d] + m] /\ paid' = paid /\ ended' = ended
      /\ \/ open' = [open EXCEPT ![d] = open[d] + m] /\ kept' = kept
         \/ open' = open /\ kept' = [kept EXCEPT ![d] = kept[d] + m]
  BY <1>0, <1>m, <1>t DEF Reserve, ReserveStays, Charged
<1>3. ASSUME NEW e \in Days
      PROVE  2 * Sub * ledger[e] <= 2 * paid[e] + 2 * Sub * (open[e] + kept[e]) + 3 * Sub * ended[e]
  BY DEF SpentInv, LedgerExplained
<1>4. 2 * Sub * ledger'[d] <= 2 * paid'[d] + 2 * Sub * (open'[d] + kept'[d]) + 3 * Sub * ended'[d]
  <2>1. /\ paid[d] \in Nat /\ open[d] \in Int /\ kept[d] \in Int /\ ledger[d] \in Nat
        /\ ended[d] \in Nat /\ m \in Int
    BY <1>t
  <2>2. PICK R \in Int : R = open[d] + kept[d] + m
    BY <2>1
  <2>3. open'[d] + kept'[d] = R
    BY <1>2, <1>t, <2>1, <2>2
  <2>4. 2 * Sub * (ledger[d] + m) <= 2 * paid[d] + 2 * Sub * R + 3 * Sub * ended[d]
    BY <1>3, <1>t, <2>1, <2>2, ChargeExplained
  <2>5. ledger'[d] = ledger[d] + m /\ paid' = paid /\ ended' = ended
    BY <1>2, <1>t
  <2> QED BY <2>3, <2>4, <2>5
<1>5. ASSUME NEW e \in Days, e # d
      PROVE  2 * Sub * ledger'[e] <= 2 * paid'[e] + 2 * Sub * (open'[e] + kept'[e]) + 3 * Sub * ended'[e]
  <2>1. paid'[e] = paid[e] /\ open'[e] = open[e] /\ ended'[e] = ended[e]
        /\ ledger'[e] = ledger[e] /\ kept'[e] = kept[e]
    BY <1>2, <1>5, <1>t
  <2> QED BY <1>3, <2>1
<1> QED BY <1>1, <1>4, <1>5 DEF SpentInv, LedgerExplained

\* Steps that leave every reserve as it was.
LEMMA UnmovedExplains ==
  ASSUME SpentInv, UNCHANGED <<ledger, open, paid, kept, ended>>,
         \A e \in Days : OpenUnits(e)' = OpenUnits(e)
  PROVE  SpentInv'
  BY DEF SpentInv, FiniteUnits, LedgerExplained

LEMMA MoveExplains ==
  ASSUME CostInv, SpentInv, NEW c \in Calls, NEW a,
         Answer(c, a) \/ RateLimited(c)
  PROVE  SpentInv'
<1>1. PICK f : f = call
  OBVIOUS
<1>2. PICK g : g = call'
  OBVIOUS
<1>3. f \in [Calls -> Call] /\ f[c] \in Call /\ f[c].pc = "reserved"
  BY <1>1, CallFields DEF Answer, RateLimited, CostInv, TypeOK
<1>4. PICK r : /\ r.pc # "idle" /\ r.day = f[c].day /\ r.worst = f[c].worst
               /\ g = [f EXCEPT ![c] = r]
  <2>1. CASE Answer(c, a)
    <3>1. PICK r : r = [f[c] EXCEPT !.pc = "answered", !.actual = a]
      OBVIOUS
    <3>2. r.pc = "answered" /\ r.day = f[c].day /\ r.worst = f[c].worst
      BY <1>3, <3>1 DEF Call
    <3>3. g = [f EXCEPT ![c] = r]
      BY <1>1, <1>2, <1>3, <2>1, <3>1 DEF Answer
    <3> QED BY <3>2, <3>3
  <2>2. CASE RateLimited(c)
    <3>1. PICK r : r = [f[c] EXCEPT !.pc = "limited"]
      OBVIOUS
    <3>2. r.pc = "limited" /\ r.day = f[c].day /\ r.worst = f[c].worst
      BY <1>3, <3>1 DEF Call
    <3>3. g = [f EXCEPT ![c] = r]
      BY <1>1, <1>2, <1>3, <2>2, <3>1 DEF RateLimited
    <3> QED BY <3>2, <3>3
  <2> QED BY <2>1, <2>2
<1>5. AttemptMoves(f, c, r, g)
  BY <1>3, <1>4 DEF AttemptMoves
<1>6. ASSUME NEW e \in Days
      PROVE  OpenUnits(e)' = OpenUnits(e)
  <2>1. UnitsOf(g, e) = UnitsOf(f, e)
    BY <1>5, UnitsStay
  <2> QED BY <1>1, <1>2, <2>1, OpenIsUnits
<1>7. UNCHANGED <<ledger, open, paid, kept, ended>>
  BY DEF Answer, RateLimited
<1> QED BY <1>6, <1>7, UnmovedExplains

LEMMA SpentInit == Init => SpentInv
<1> SUFFICES ASSUME Init PROVE SpentInv
  OBVIOUS
<1>1. ASSUME NEW d \in Days
      PROVE  OpenUnits(d) = {}
  BY DEF Init, Idle, OpenUnits
<1>2. IsFiniteSet({}) /\ Cardinality({}) = 0
  BY FS_EmptySet
<1>3. Sub \in Nat
  BY CostAssumption
<1>4. ASSUME NEW d \in Days
      PROVE  /\ ledger[d] = 0 /\ open[d] = 0 /\ paid[d] = 0 /\ kept[d] = 0 /\ ended[d] = 0
  BY DEF Init
<1>5. ASSUME NEW d \in Days
      PROVE  2 * Sub * ledger[d] <= 2 * paid[d] + 2 * Sub * (open[d] + kept[d]) + 3 * Sub * ended[d]
  BY <1>3, <1>4
<1> QED BY <1>1, <1>2, <1>4, <1>5 DEF SpentInv, FiniteUnits, LedgerExplained

LEMMA SpentStep == CostInv /\ SpentInv /\ [Next]_vars => SpentInv'
<1> SUFFICES ASSUME CostInv, SpentInv, [Next]_vars PROVE SpentInv'
  OBVIOUS
<1>1. ASSUME NEW c \in Calls, Starts(c)
      PROVE  SpentInv'
  BY <1>1, ChargeExplains DEF Starts
<1>2. ASSUME NEW c \in Calls, NEW a \in Bills(c), Answer(c, a)
      PROVE  SpentInv'
  BY <1>2, MoveExplains
<1>3. ASSUME NEW c \in Calls, RateLimited(c)
      PROVE  SpentInv'
  BY <1>3, MoveExplains
<1>4. ASSUME NEW c \in Calls, NEW a \in Bills(c), RequestFails(c, a) \/ Crash(c, a)
      PROVE  SpentInv'
  <2>1. a \in Nat /\ call[c].actual \in Nat /\ call[c].pc # "idle"
    BY <1>4, CallFields DEF Bills, CostInv, RequestFails, Crash
  <2>2. /\ Ends(c, a) \/ Ends(c, call[c].actual)
        /\ ledger' = ledger
        /\ kept' = [kept EXCEPT ![call[c].day] = @ + MicroUp(call[c].worst)]
    BY <1>4 DEF RequestFails, Crash, KeepsReserve
  <2> QED BY <2>1, <2>2, EndExplains
<1>5. ASSUME NEW c \in Calls, SettleFails(c) \/ ReleaseFails(c)
      PROVE  SpentInv'
  <2>1. 0 \in Nat /\ call[c].actual \in Nat /\ call[c].pc # "idle"
    BY <1>5, CallFields DEF CostInv, SettleFails, ReleaseFails
  <2>2. /\ Ends(c, 0) \/ Ends(c, call[c].actual)
        /\ ledger' = ledger
        /\ kept' = [kept EXCEPT ![call[c].day] = @ + MicroUp(call[c].worst)]
    BY <1>5 DEF SettleFails, ReleaseFails, KeepsReserve
  <2> QED BY <2>1, <2>2, EndExplains
<1>6. ASSUME NEW c \in Calls, Settle(c)
      PROVE  SpentInv'
  <2>1. /\ call[c].worst \in Nat /\ call[c].actual \in Nat
        /\ call[c].actual <= call[c].worst /\ call[c].pc # "idle"
    BY <1>6, CallFields DEF CallBounds, CostInv, Settle
  <2>2. PICK r : r = RoundHalfEven(call[c].worst - call[c].actual)
    OBVIOUS
  <2>3. call[c].worst - call[c].actual \in Nat
    BY <2>1
  <2>4. r \in Nat /\ 2 * (Sub * r) >= 2 * (call[c].worst - call[c].actual) - Sub
    BY <2>2, <2>3, RoundingBound, RoundingTight
  <2>5. ledger' = Refunded(call[c].day, r) /\ Ends(c, call[c].actual) /\ kept' = kept
    BY <1>6, <2>2 DEF Settle, Settled
  <2> QED BY <2>1, <2>4, <2>5, EndExplains
<1>7. ASSUME NEW c \in Calls, Release(c)
      PROVE  SpentInv'
  <2>1. call[c].worst \in Nat /\ call[c].pc # "idle"
    BY <1>7, CallFields DEF CostInv, Release
  <2>2. PICK r : r = RoundHalfEven(call[c].worst)
    OBVIOUS
  <2>3. r \in Nat /\ 2 * (Sub * r) >= 2 * call[c].worst - Sub
    BY <2>1, <2>2, RoundingBound, RoundingTight
  <2>4. ledger' = Refunded(call[c].day, r) /\ Ends(c, 0) /\ kept' = kept
    BY <1>7, <2>2 DEF Release
  <2>5. 2 * (Sub * r) >= 2 * (call[c].worst - 0) - Sub /\ 0 \in Nat
    BY <2>1, <2>3
  <2> QED BY <2>1, <2>3, <2>4, <2>5, EndExplains
<1>8. CASE Midnight \/ UNCHANGED vars
  <2>1. call' = call /\ UNCHANGED <<ledger, open, paid, kept, ended>>
    BY <1>8 DEF Midnight, vars
  <2>2. \A e \in Days : OpenUnits(e)' = OpenUnits(e)
    BY <2>1 DEF OpenUnits
  <2> QED BY <2>1, <2>2, UnmovedExplains
<1> QED BY <1>1, <1>2, <1>3, <1>4, <1>5, <1>6, <1>7, <1>8 DEF Next

\* For any prices and any concurrency, all that the ledger charges to a day is
\* billed, held by an attempt in flight, or was kept on purpose after a timeout,
\* a crash or a failing database, up to three halves of a micro-dollar for every
\* attempt: settle and release give unused budget back, to the day it came from.
THEOREM LedgerIsExplained == Spec => []LedgerExplained
<1>1. SpentInv => LedgerExplained
  BY DEF SpentInv
<1> QED BY CostInvariance, SpentInit, SpentStep, <1>1, PTL DEF Spec

=============================================================================
