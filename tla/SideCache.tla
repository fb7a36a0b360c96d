------------------------------- MODULE SideCache -------------------------------
(***************************************************************************)
(* The real sides of a projection that a snapshot keeps                      *)
(* (projection_cache.rs).  A handler looks its key up under the mutex, builds *)
(* the side outside it on a miss, and looks again before it inserts.  A side  *)
(* is a value computed from the snapshot and its key, so the model keeps the  *)
(* keys.                                                                     *)
(***************************************************************************)
EXTENDS Naturals, SequencesExt

CONSTANTS
    Builders,            \* handler threads
    Keys, NoKey,         \* cutoff, interval, lookback and valuation
    SIDES                \* how many are kept

ASSUME SidesAssumption == SIDES \in Nat \ {0} /\ NoKey \notin Keys

VARIABLES
    sides,               \* the keys of the sides held, most recently used last
    building,            \* handler -> the key whose side it builds, or NoKey
    recent               \* every key ever used, in the order of its last use

sidesVars == <<sides, building, recent>>

SidesInit ==
    /\ sides = <<>> /\ recent = <<>>
    /\ building = [b \in Builders |-> NoKey]

\* position, remove and push.
Moved(list, key) == Append(RemoveFirst(list, key), key)

\* touch: a hit becomes the most recently used; ...
Hit(b, key) ==
    /\ building[b] = NoKey /\ key \in Range(sides)
    /\ sides' = Moved(sides, key) /\ recent' = Moved(recent, key)
    /\ UNCHANGED building

\* ... a miss is built without the mutex, ...
Miss(b, key) ==
    /\ building[b] = NoKey /\ key \notin Range(sides)
    /\ building' = [building EXCEPT ![b] = key]
    /\ UNCHANGED <<sides, recent>>

\* ... which can fail, and nothing is kept.
BuildFails(b) ==
    /\ building[b] # NoKey
    /\ building' = [building EXCEPT ![b] = NoKey]
    /\ UNCHANGED <<sides, recent>>

\* Wrong: nobody looks again.
InsertedBlindly(key) == Append(IF Len(sides) = SIDES THEN Tail(sides) ELSE sides, key)

\* A side somebody else inserted meanwhile is used; otherwise the least recently
\* used one makes room.
Inserted(key) ==
    IF key \in Range(sides) THEN Moved(sides, key)
    ELSE Append(IF Len(sides) = SIDES THEN Tail(sides) ELSE sides, key)

Insert(b) ==
    /\ building[b] # NoKey
    /\ sides' = Inserted(building[b]) /\ recent' = Moved(recent, building[b])
    /\ building' = [building EXCEPT ![b] = NoKey]

SidesNext ==
    \E b \in Builders :
        \/ BuildFails(b) \/ Insert(b)
        \/ \E key \in Keys : Hit(b, key) \/ Miss(b, key)

-----------------------------------------------------------------------------
\* However misses race, the cache is the SIDES most recently used sides, each of
\* them once.
KeepsTheMostRecent ==
    sides = SubSeq(recent, IF Len(recent) > SIDES THEN Len(recent) - SIDES + 1 ELSE 1, Len(recent))

=============================================================================
