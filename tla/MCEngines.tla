------------------------------ MODULE MCEngines ------------------------------
(***************************************************************************)
(* The engines of the reports, the caches before them, the review run and     *)
(* the calls of other programs, for TLC.  They share no state: a behaviour is *)
(* about one of them, chosen at the start.                                   *)
(***************************************************************************)
EXTENDS SidecarCache, SideCache, HoldingsReplay, BooksCheck,
        ReviewRun, ToolRun

CONSTANTS Subjects,        \* the engines of a run
          usd, eur, jpy, top, sub
VARIABLE subject

\* The security: two units, and one sold or bought on its own.
TheQuantities == {-2, -1, 1}

\* A transaction: amounts, in as many commodities as postings, whose sums come out even, short by two places or by
\* three; one shown narrower than it was typed; prices that multiply out to more
\* places than any amount has.
Dollars(m, p) == [m |-> m, p |-> p]
NoPrice == [kind |-> "none", com |-> usd, dec |-> Dollars(0, 0)]
Plain == {[com |-> c, dec |-> q, written |-> q.p, price |-> NoPrice] :
              c \in {usd, eur, jpy}, q \in {Dollars(5, 0), Dollars(-500, 2), Dollars(-5004, 3)}}
Styled == {[com |-> usd, dec |-> Dollars(5004, 3), written |-> 2, price |-> NoPrice]}
Priced == {[com |-> eur, dec |-> q, written |-> q.p,
            price |-> [kind |-> k, com |-> usd, dec |-> r]] :
             q \in {Dollars(5, 0), Dollars(-500, 2)}, k \in {"@", "@@"},
             r \in {Dollars(10001, 4), Dollars(5004, 3)}}
TheAmounts == Plain \cup Styled \cup Priced

\* The books: an account and the one below it.  Assertions name one of the two
\* commodities, on a posting of either: the other is its mirror image.
TheWithin == [a \in {top, sub} |-> IF a = top THEN {top, sub} ELSE {sub}]
TheAssertions == [com : {usd}, balance : {1}, inclusive : BOOLEAN, total : BOOLEAN]
TheSteps == {-1, 1}

engineVars == <<sidecarVars, sidesVars, holdingsVars, booksVars, reviewVars,
                toolVars, subject>>

EngineInit ==
    /\ subject \in Subjects
    /\ SidecarInit /\ SidesInit /\ HoldingsInit /\ BooksInit
    /\ ReviewInit /\ ToolInit
    /\ subject # "tool" => call = CHOOSE c \in Calls : Sensible(c)
    /\ subject # "sidecar" => /\ sidecar = [l \in Ledgers |-> Empty]
                              /\ ledger = CHOOSE l \in Ledgers : TRUE

EngineNext ==
    /\ UNCHANGED subject
    /\ \/ subject = "sidecar" /\ SidecarNext
          /\ UNCHANGED <<sidesVars, holdingsVars, booksVars, reviewVars, toolVars>>
       \/ subject = "sides" /\ SidesNext
          /\ UNCHANGED <<sidecarVars, holdingsVars, booksVars, reviewVars, toolVars>>
       \/ subject = "holdings" /\ HoldingsNext
          /\ UNCHANGED <<sidecarVars, sidesVars, booksVars, reviewVars, toolVars>>
       \/ subject = "transaction" /\ BooksNext /\ books' = books
          /\ UNCHANGED <<sidecarVars, sidesVars, holdingsVars, reviewVars, toolVars>>
       \/ subject = "books" /\ BooksNext /\ txn' = txn
          /\ UNCHANGED <<sidecarVars, sidesVars, holdingsVars, reviewVars, toolVars>>
       \/ subject = "review" /\ ReviewNext
          /\ UNCHANGED <<sidecarVars, sidesVars, holdingsVars, booksVars, toolVars>>
       \/ subject = "tool" /\ ToolNext
          /\ UNCHANGED <<sidecarVars, sidesVars, holdingsVars, booksVars, reviewVars>>

EngineSpec == EngineInit /\ [][EngineNext]_engineVars

=============================================================================
