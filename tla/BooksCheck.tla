------------------------------ MODULE BooksCheck ------------------------------
(***************************************************************************)
(* What the parser makes of the amounts of a transaction and what it reports  *)
(* of them: the amount of an elided posting is inferred, each transaction is  *)
(* asked to balance (parse.rs), and the balance assertions are evaluated over  *)
(* the whole journal in date order (assertions.rs).  A journal grows by a      *)
(* posting at a time; the reports are functions of it.                        *)
(*                                                                           *)
(* A quantity is a mantissa and a number of decimal places (decimal.rs).      *)
(***************************************************************************)
EXTENDS Adding, SequencesExt

CONSTANTS
    Commodities,
    Kept,               \* the commodities of the journal's lines: a bound of a run
    Groups,             \* "real" and "balanced" postings each balance
    Amounts,            \* what can be written for a posting, see Amount
    Elided,             \* a posting without an amount
    Accounts,
    Within,             \* account -> itself and the accounts below it
    Steps, Days,        \* what a posting moves; effective dates
    Assertions, NoAssertion,
    MaxPostings, MaxLines  \* bounds of a run: of a transaction, of a journal

\* A quantity; a cost, "@" or "@@" or none; and an amount.  "written" is the
\* precision of its style: that of the amount as written, or of the D directive
\* that a bare number takes its style from.
Dec == [m : Int, p : Nat]
Price == [kind : {"none", "@", "@@"}, com : Commodities, dec : Dec]
Amount == [com : Commodities, dec : Dec, written : Nat, price : Price]
Assertion == [com : Commodities, balance : Int, inclusive : BOOLEAN, total : BOOLEAN]

ASSUME BooksAssumption ==
    /\ IsFiniteSet(Commodities) /\ Kept \subseteq Commodities
    /\ Amounts \subseteq Amount /\ Elided \notin Amounts
    /\ Assertions \subseteq Assertion /\ NoAssertion \notin Assertions
    /\ Within \in [Accounts -> SUBSET Accounts] /\ \A a \in Accounts : a \in Within[a]
    /\ IsFiniteSet(Accounts) /\ Steps \subseteq Int /\ Days \subseteq Nat
    /\ MaxPostings \in Nat /\ MaxLines \in Nat

VARIABLES
    txn,       \* the postings of one transaction
    books      \* the postings of a journal, with their assertions

booksVars == <<txn, books>>

-----------------------------------------------------------------------------
(* One transaction.                                                          *)

\* The n-th power of ten.
Ten(n) ==
    LET power[i \in 0 .. n] == IF i = 0 THEN 1 ELSE 10 * power[i - 1]
    IN power[n]

\* Dec::add and the comparison with zero are exact, at the wider scale.
Rescaled(d, p) == d.m * Ten(p - d.p)
Wider(p, q) == IF p >= q THEN p ELSE q
Plus(d, e) == LET p == Wider(d.p, e.p) IN [m |-> Rescaled(d, p) + Rescaled(e, p), p |-> p]

\* Dec::normalized: trailing zeros stripped.
Normalized(d) ==
    LET few == CHOOSE q \in 0 .. d.p : /\ d.m % Ten(d.p - q) = 0
                                       /\ \A r \in 0 .. d.p : d.m % Ten(d.p - r) = 0 => q <= r
    IN [m |-> d.m \div Ten(d.p - few), p |-> few]

Magnitude(d) == [d EXCEPT !.m = IF @ < 0 THEN -@ ELSE @]
Negated(d) == [d EXCEPT !.m = -@]

\* Amount::at_cost: a unit price is multiplied out, a total one takes the sign.
AtCost(a) ==
    CASE a.price.kind = "none" -> [com |-> a.com, dec |-> a.dec]
      [] a.price.kind = "@" ->
           [com |-> a.price.com,
            dec |-> Normalized([m |-> a.dec.m * a.price.dec.m, p |-> a.dec.p + a.price.dec.p])]
      [] a.price.kind = "@@" ->
           LET size == Magnitude(Normalized(a.price.dec))
           IN [com |-> a.price.com, dec |-> IF a.dec.m < 0 THEN Negated(size) ELSE size]

\* cost_contribution: what an amount adds to its group, as inference sees it.
Contribution(a) == AtCost(a)

\* A group's postings, by place in the transaction: those with an amount and
\* those without, of which there may be one.
Valued(g) == {i \in DOMAIN txn : txn[i].group = g /\ txn[i].amount # Elided}
Elisions(g) == {i \in DOMAIN txn : txn[i].group = g /\ txn[i].amount = Elided}
Readable(g) == \A i, j \in Elisions(g) : i = j

\* The sum, in order, of what some postings come to in a commodity.
Zero == [m |-> 0, p |-> 0]
Total(values, c) ==
    LET sum[i \in 0 .. Len(txn)] ==
          IF i = 0 THEN Zero
          ELSE IF i \in DOMAIN values /\ values[i].com = c THEN Plus(sum[i - 1], values[i].dec)
          ELSE sum[i - 1]
    IN sum[Len(txn)]

\* group_sums: what the written amounts come to.
WrittenValues(g) == [i \in Valued(g) |-> Contribution(txn[i].amount)]

\* finalize_posting: the elided posting takes the negated sum of every commodity.
Inferred(g) ==
    [c \in {WrittenValues(g)[i].com : i \in Valued(g)} |-> Negated(Total(WrittenValues(g), c))]

\* Residual::tolerance_precision: the widest precision of the amounts written in
\* the commodity, or, when it has only costs, of those.
Tolerance(g, c) ==
    LET in == {i \in Valued(g) : AtCost(txn[i].amount).com = c}
        bare == {i \in in : txn[i].amount.price.kind = "none"}
        places == IF bare # {} THEN {txn[i].amount.written : i \in bare}
                  ELSE {txn[i].amount.price.dec.p : i \in in}
    IN IF places = {} THEN 0 ELSE CHOOSE p \in places : \A q \in places : q <= p

\* looks_zero: beyond that precision, half a unit of it counts as nothing.
LooksZero(d, precision) ==
    IF d.p <= precision THEN d.m = 0
    ELSE Magnitude(d).m <= 5 * Ten(d.p - precision - 1)

\* group_residual, of one group after inference: what a commodity comes to.
LeftOver(g, c) ==
    LET sum == Total([i \in Valued(g) |-> AtCost(txn[i].amount)], c)
    IN IF Elisions(g) # {} /\ c \in DOMAIN Inferred(g) THEN Plus(sum, Inferred(g)[c]) ELSE sum

\* unbalanced_where: the commodities with something left over.
Residue(g) == {c \in Commodities : ~LooksZero(LeftOver(g, c), Tolerance(g, c))}

\* Wrong: whatever more than one commodity leaves over is taken for a conversion.
OneIsReported(g) == Cardinality(Residue(g)) = 1

\* Its verdict: with none left over the group balances, and two are an implicit
\* conversion; one, or three and more, are reported.
Reported(g) == Cardinality(Residue(g)) \notin {0, 2}

-----------------------------------------------------------------------------
(* Balance assertions.                                                       *)

\* Wrong: the sort does not keep the order of reading.
NotStable(i, j) == books[i].day < books[j].day \/ (books[i].day = books[j].day /\ i >= j)

\* The order of evaluation: by effective date, and as read within a date.
Before(i, j) == books[i].day < books[j].day \/ (books[i].day = books[j].day /\ i <= j)

Evaluation ==
    CHOOSE e \in [DOMAIN books -> DOMAIN books] :
        /\ IsInjective(e)
        /\ \A k, l \in DOMAIN books : k < l => Before(e[k], e[l])

\* One account's running balance keeps the commodities that came to nothing.
Untouched == [held |-> {}, qty |-> [c \in Commodities |-> 0]]
Posted(bal, line) == [held |-> bal.held \cup {line.com}, qty |-> [bal.qty EXCEPT ![line.com] = @ + line.qty]]

\* The running balances after the first k evaluated postings.
Running ==
    LET run[k \in 0 .. Len(books)] ==
          IF k = 0 THEN [a \in Accounts |-> Untouched]
          ELSE LET line == books[Evaluation[k]]
               IN [run[k - 1] EXCEPT ![line.account] = Posted(@, line)]
    IN run

\* inclusive_balance, or the account's own.
Covered(a, inclusive) == IF inclusive THEN Within[a] ELSE {a}
Subject(balances, a, inclusive, c) ==
    LET order == SetToSeq(Covered(a, inclusive))
    IN AddUp([n \in DOMAIN order |-> balances[order[n]].qty[c]])

\* check_one: the commodity the assertion names, and for the total forms each other one that
\* the account itself ever held.
FailedCommodities(balances, line) ==
    LET said == line.assertion
        of(c) == Subject(balances, line.account, said.inclusive, c)
    IN {c \in Commodities :
          \/ c = said.com /\ of(c) # said.balance
          \/ c # said.com /\ said.total /\ c \in balances[line.account].held /\ of(c) # 0}

\* check_balance_assertions: the assertions that fail, by posting and commodity.
Failures ==
    LET running == Running
        checked == {k \in DOMAIN books : books[Evaluation[k]].assertion # NoAssertion}
    IN UNION {{<<Evaluation[k], c>> : c \in FailedCommodities(running[k], books[Evaluation[k]])} :
                k \in checked}

-----------------------------------------------------------------------------
BooksInit == txn = <<>> /\ books = <<>>

\* A transaction and a journal are written posting by posting.
WriteAmount(group, amount) ==
    /\ Len(txn) < MaxPostings
    /\ txn' = Append(txn, [group |-> group, amount |-> amount])
    /\ UNCHANGED books

WriteLine(account, com, qty, day, assertion) ==
    /\ Len(books) < MaxLines
    /\ books' = Append(books, [account |-> account, com |-> com, qty |-> qty, day |-> day,
                               assertion |-> assertion])
    /\ UNCHANGED txn

BooksNext ==
    \/ \E group \in Groups, amount \in Amounts \cup {Elided} : WriteAmount(group, amount)
    \/ \E account \in Accounts, com \in Kept, qty \in Steps, day \in Days,
          assertion \in Assertions \cup {NoAssertion} :
         WriteLine(account, com, qty, day, assertion)

-----------------------------------------------------------------------------
(* Properties.                                                               *)

\* The groups that have a posting.
InUse == {txn[i].group : i \in DOMAIN txn}

\* Whatever is elided, priced or unpriced, what is inferred balances the group
\* ("sums to zero by construction either way"): nothing is left over, not even the
\* two commodities that would pass for a conversion, and nothing is reported.
InferredBalances ==
    \A g \in InUse :
        Readable(g) /\ Elisions(g) # {} => Residue(g) = {} /\ ~Reported(g)

\* What the amounts, added up exactly, leave over; and what of it hledger accepts:
\* nothing, or two commodities, of which one is converted to the other.
ExactlyLeft(g) == {c \in Commodities : Total(WrittenValues(g), c).m # 0}
Acceptable(left) == left = {} \/ \E c, d \in left : c # d /\ left = {c, d}

\* A group is reported exactly when what its amounts leave over is not acceptable,
\* and the report names the commodities left over.
JudgedExactly(g) ==
    Residue(g) = ExactlyLeft(g) /\ (Reported(g) <=> ~Acceptable(ExactlyLeft(g)))

\* looks_zero: "Every discrepancy at a precision a human typed still falls through
\* to the exact test", the tolerance being for a price that was multiplied out.
DiscrepanciesShow ==
    \A g \in InUse :
        Elisions(g) = {} /\ (\A i \in Valued(g) : txn[i].amount.price.kind # "@")
            => JudgedExactly(g)

\* As the code stands, of groups where every amount is bare and has the precision
\* it was written with: what is left over counts, however small, and only the two
\* commodities of a conversion are let pass.
BareDiscrepanciesShow ==
    \A g \in InUse :
        Elisions(g) = {} /\ (\A i \in Valued(g) : /\ txn[i].amount.price.kind = "none"
                                                   /\ txn[i].amount.written = txn[i].amount.dec.p)
            => JudgedExactly(g)

\* The verdict on a transaction (unbalanced_where): an elided posting balances its
\* group whatever is priced in it, and a group of bare amounts is let pass when it
\* sums to zero or leaves the two sides of a conversion, at no tolerance, and is
\* reported otherwise.
BalanceIsJudgedRight == InferredBalances /\ BareDiscrepanciesShow

\* The assertions that fail are those that are false of the books up to their day,
\* wherever in the files the postings of other days are.
FailuresAreFalseOfTheBooks ==
    LET upTo(i) == {j \in DOMAIN books : books[j].day < books[i].day
                                        \/ (books[j].day = books[i].day /\ j <= i)}
        of(i, c) == AddUp([j \in DOMAIN books |->
                        IF /\ j \in upTo(i) /\ books[j].com = c
                           /\ books[j].account \in Covered(books[i].account, books[i].assertion.inclusive)
                        THEN books[j].qty ELSE 0])
        met(i) == {books[j].com : j \in {k \in upTo(i) : books[k].account = books[i].account}}
    IN Failures = {ic \in (DOMAIN books) \X Commodities :
          LET i == ic[1]
              c == ic[2]
          IN /\ books[i].assertion # NoAssertion
             /\ IF c = books[i].assertion.com THEN of(i, c) # books[i].assertion.balance
                ELSE books[i].assertion.total /\ c \in met(i) /\ of(i, c) # 0}

=============================================================================
