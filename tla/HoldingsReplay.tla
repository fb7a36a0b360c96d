---------------------------- MODULE HoldingsReplay ----------------------------
(***************************************************************************)
(* The average-cost pool of one security, replayed over the journal in date  *)
(* order (holdings/engine.rs, replay_pools).  Each transaction is read as a   *)
(* move between accounts, a split, a run of buys and sells, or a return of    *)
(* capital, by what else it moves.                                           *)
(*                                                                           *)
(* Shares and money are integers: a basis is rounded to whole units where the *)
(* code rounds it to its own decimals.                                       *)
(***************************************************************************)
EXTENDS Adding, SequencesExt

CONSTANTS
    Brokers,             \* the accounts in scope that can hold the security
    Quantities,          \* what a leg may move, signed and not 0
    UnitCosts,           \* cost annotations in the base commodity
    Bare, Foreign,       \* a leg without one; one with no rate to the base
    MaxTxns              \* bound of a run: transactions of the journal

ASSUME HoldingsAssumption ==
    /\ Quantities \subseteq Int \ {0} /\ UnitCosts \subseteq Nat
    /\ {Bare, Foreign} \cap Nat = {} /\ Bare # Foreign /\ MaxTxns \in Nat
    /\ IsFiniteSet(Brokers)

VARIABLES
    pool,      \* the security's pool (SymbolPool)
    tally,     \* broker -> its own net shares (per_account)
    txns       \* the number of transactions replayed, which is also the date

holdingsVars == <<pool, tally, txns>>

Costs == UnitCosts \cup {Bare, Foreign}
Legs == [broker : Brokers, qty : Quantities, cost : Costs]

\* What takes up the shares that a transaction's legs in scope do not: cash, an
\* income or expense account, an equity account, an account out of scope.
Counters == {"cash", "income", "equity", "outside"}

Unopened == [shares |-> 0, basis |-> 0, taint |-> "none", negative |-> FALSE,
             blamed |-> {}, opened |-> 0, splitAway |-> FALSE]

HoldingsInit ==
    /\ pool = Unopened
    /\ tally = [b \in Brokers |-> 0]
    /\ txns = 0

Net(legs) == AddUp([i \in DOMAIN legs |-> legs[i].qty])
NetOf(broker, legs) ==
    AddUp([i \in DOMAIN legs |-> IF legs[i].broker = broker THEN legs[i].qty ELSE 0])
Costed(legs) == \E i \in DOMAIN legs : legs[i].cost # Bare
Sides(legs) == {legs[i].qty > 0 : i \in DOMAIN legs}

\* div_round_half_even, for a non-negative quotient.
HalfEven(a, b) ==
    LET q == a \div b
        twice == 2 * (a % b)
    IN IF twice > b \/ (twice = b /\ q % 2 = 1) THEN q + 1 ELSE q

\* reduce_basis: what average cost leaves after a sell.
ReduceBasis(basis, after, before) == HalfEven(basis * after, before)

\* cost_in_base and signed_cost_in_base, of an annotation that has a rate.
Convertible(leg) == leg.cost \notin {Bare, Foreign}
Value(leg) == leg.qty * leg.cost

\* is_pure_transfer: nothing is re-costed on the way in, or the costs cancel.
IsPureTransfer(legs) ==
    \/ \A i \in DOMAIN legs : legs[i].qty > 0 => legs[i].cost = Bare
    \/ (\A i \in DOMAIN legs : Convertible(legs[i])) /\ AddUp([i \in DOMAIN legs |-> Value(legs[i])]) = 0

\* is_redenomination: shares of a position that is open change in number, and
\* nothing else moves: the legs have both signs, or equity takes them up.
IsRedenomination(legs, counter) ==
    /\ pool.shares > 0 /\ Net(legs) # 0 /\ ~Costed(legs)
    /\ counter \in {"equity", "outside"}
    /\ Sides(legs) = {TRUE, FALSE} \/ counter = "equity"

\* taint_with: the first cause stays.
Tainted(p, reason) == IF p.taint = "none" THEN [p EXCEPT !.taint = reason] ELSE p

WentNegative(p) == IF p.shares >= 0 THEN p
                   ELSE Tainted([p EXCEPT !.negative = TRUE], "negative")

\* Wrong: every opening of a position is taken for a clean one.
ReopenAlways(p) == IF p.shares = 0 THEN [p EXCEPT !.taint = "none", !.blamed = {}] ELSE p

\* A position that is opened anew from a clean close sheds its taint.
Reopen(p) ==
    IF p.shares = 0 /\ ~p.negative THEN [p EXCEPT !.taint = "none", !.blamed = {}] ELSE p

\* A buy: its cost joins the basis, or taints it.
Bought(p, leg, day) ==
    LET dated == IF p.shares <= 0 THEN [p EXCEPT !.opened = day] ELSE p
        opened == Reopen(dated)
        blamed == [opened EXCEPT !.blamed = @ \cup {day}]
    IN CASE Convertible(leg) -> [opened EXCEPT !.basis = @ + Value(leg)]
         [] leg.cost = Bare -> Tainted(blamed, "costless")
         [] leg.cost = Foreign -> Tainted(blamed, "unconvertible")

\* A sell takes its share of the basis, and all of it when nothing is left.
Sold(p, leg) ==
    LET after == p.shares + leg.qty
    IN IF p.shares <= 0 THEN p
       ELSE [p EXCEPT !.basis = IF after >= 0 THEN ReduceBasis(@, after, p.shares) ELSE 0]

AfterLeg(p, leg, day) ==
    LET moved == IF leg.qty > 0 THEN Bought(p, leg, day) ELSE Sold(p, leg)
    IN WentNegative([moved EXCEPT !.shares = @ + leg.qty, !.splitAway = FALSE])

AfterLegs(p, legs, day) ==
    LET run[i \in 0 .. Len(legs)] == IF i = 0 THEN p ELSE AfterLeg(run[i - 1], legs[i], day)
    IN run[Len(legs)]

\* A transaction with legs in the security.  The tally of each account moves with
\* its legs whatever the transaction is read as.
Replayed(legs, counter, day) ==
    CASE Net(legs) = 0 /\ IsPureTransfer(legs) -> pool
      [] IsRedenomination(legs, counter) ->
           WentNegative([pool EXCEPT !.shares = @ + Net(legs),
                                     !.splitAway = (pool.shares + Net(legs) = 0)])
      [] OTHER -> AfterLegs(pool, legs, day)

Trade(legs, counter) ==
    /\ txns < MaxTxns
    /\ Net(legs) # 0 \/ counter = "cash"
    /\ Costed(legs) => counter = "cash"
    /\ txns' = txns + 1
    /\ pool' = Replayed(legs, counter, txns + 1)
    /\ tally' = [b \in Brokers |-> tally[b] + NetOf(b, legs)]

\* Cash leaves an account that holds this security alone, and none of it moves:
\* capital is returned, and what exceeds the basis is a gain.
ReturnCapital(amount) ==
    /\ txns < MaxTxns /\ pool # Unopened
    /\ txns' = txns + 1
    /\ pool' = [pool EXCEPT !.basis = IF @ < amount THEN 0 ELSE @ - amount]
    /\ UNCHANGED tally

Journals == {<<leg>> : leg \in Legs} \cup (Legs \X Legs)

HoldingsNext ==
    \/ \E legs \in Journals, counter \in Counters : Trade(legs, counter)
    \/ \E amount \in UnitCosts : ReturnCapital(amount)

-----------------------------------------------------------------------------
(* Properties.                                                               *)

\* replay_pools, on re-opening a position: "reduce_basis already drove the basis to
\* zero on the closing sell, so the lot cost added just below is the whole of it".
ClosedHasNoBasis == pool.shares = 0 /\ pool.taint = "none" => pool.basis = 0

\* The pool agrees with the accounts it stands for, whatever each transaction was
\* read as: its shares are theirs, a held position has the date it was opened, a
\* pool that was ever oversold never again claims to know its basis, a row is
\* blamed only for a basis that is not known, and (as the code stands, of
\* positions that were sold and not split away) nothing is left of the basis of
\* what was sold.
PoolIsConsistent ==
    /\ LET order == SetToSeq(Brokers)
       IN pool.shares = AddUp([i \in DOMAIN order |-> tally[order[i]]])
    /\ pool.shares > 0 => pool.opened \in 1 .. txns
    /\ pool.shares < 0 => pool.negative
    /\ pool.negative \/ pool.blamed # {} => pool.taint # "none"
    /\ pool.splitAway \/ ClosedHasNoBasis

=============================================================================
