------------------------------- MODULE ConfFile -------------------------------
(***************************************************************************)
(* The hledger.conf in force: which file that is, the reading of it a        *)
(* snapshot carries, the settings route that reads it fresh and republishes  *)
(* (GET), and the one that writes it (PUT).  conf_api.rs, lib.rs (conf,      *)
(* refresh_conf, republish_with_conf), hledger_conf.rs (locate_conf_for).    *)
(*                                                                           *)
(* A file is found by looking in the journal's directory, then in the user's *)
(* own.  It is read afresh for each purpose, so a request looks several times *)
(* at a file that other programs write.  A text is whether it says `--auto`,  *)
(* and everything else in it.                                                *)
(***************************************************************************)
EXTENDS Naturals, Sequences

CONSTANTS
    Screens,             \* settings screens: each has at most one request
    Journals, Home,      \* the config file beside each journal; the user's own
    Rests, NewRest, Empty,     \* what else a file says: what a new one says, nothing
    Others,              \* the config files other programs write
    None,                \* no such file; no such request
    MaxPuts, MaxConfOthers     \* bounds of a run: saves; what others do

ConfFiles == Journals \cup {Home}
ConfTexts == [auto : BOOLEAN, rest : Rests]

ASSUME ConfAssumption ==
    /\ Home \notin Journals /\ Journals # {} /\ {NewRest, Empty} \subseteq Rests
    /\ Others \subseteq ConfFiles
    /\ None \notin ConfFiles \cup ConfTexts \cup Screens
    /\ {MaxPuts, MaxConfOthers} \subseteq Nat

VARIABLES
    conf,      \* config file -> its text, or None
    opened,    \* the journal the editor is bound to
    snaps,     \* the snapshots published, the last of them in force: its journal,
               \* whether `--auto` was found in force when it was made, and its
               \* reading of the config file, once made
    settings,  \* screen -> the revision it shows: a text, or None for no file
    call,      \* screen -> the request it is in
    confLock,  \* import_writes
    used       \* counters, for the bounds

confVars == <<conf, opened, snaps, settings, call, confLock, used>>

\* A reading of the config file in force: where it is, and its text.
ConfReading == [at : ConfFiles \cup {None}, text : ConfTexts \cup {None}]
NotRead == [at |-> None, text |-> None]     \* no file; also: nothing read yet
NoCall == [at |-> "idle", of |-> 1, read |-> NotRead, target |-> None,
           auto |-> FALSE, next |-> None]

Snap == [journal : Journals, auto : BOOLEAN, known : BOOLEAN, conf : ConfReading]
CallState ==
    [at : {"idle", "get", "fresh", "got", "published", "put", "locked", "read", "write",
           "written", "reread"},
     of : Nat \ {0}, read : ConfReading, target : ConfTexts \cup {None},
     auto : BOOLEAN, next : ConfTexts \cup {None}]

ConfTypeOK ==
    /\ conf \in [ConfFiles -> ConfTexts \cup {None}]
    /\ opened \in Journals
    /\ snaps \in Seq(Snap) /\ Len(snaps) > 0
    /\ settings \in [Screens -> ConfTexts \cup {None}]
    /\ call \in [Screens -> CallState]
    /\ \A s \in Screens : call[s].of <= Len(snaps)
    /\ confLock \in Screens \cup {None}
    /\ used \in [puts : 0 .. MaxPuts, others : 0 .. MaxConfOthers]

\* locate_conf_for, nearest first: the file of the journal's directory, then the
\* user's own.
Located(j) == IF conf[j] # None THEN j ELSE IF conf[Home] # None THEN Home ELSE None

\* ConfState::read.
ReadingFor(j) ==
    [at |-> Located(j), text |-> IF Located(j) = None THEN None ELSE conf[Located(j)]]

\* auto_setting, which from_journal calls on a reading of its own.
AutoFor(j) == Located(j) # None /\ conf[Located(j)].auto

\* The snapshot in force; the journal a request that captured one reads for.
InForce == Len(snaps)
JournalOf(s) == snaps[call[s].of].journal

\* A snapshot of journal j, as from_journal makes it, and one that comes with its
\* reading, as republish_with_conf makes it.
Made(j) == [journal |-> j, auto |-> AutoFor(j), known |-> FALSE, conf |-> NotRead]
MadeWith(j, reading) == [Made(j) EXCEPT !.known = TRUE, !.conf = reading]

\* A snapshot is given its reading once (get_or_init).
Filled(n, reading) ==
    IF snaps[n].known THEN snaps
    ELSE [snaps EXCEPT ![n] = [@ EXCEPT !.known = TRUE, !.conf = reading]]

ConfInit ==
    /\ conf \in [ConfFiles -> {None, [auto |-> FALSE, rest |-> NewRest]}]
    /\ opened \in Journals
    /\ snaps = <<Made(opened)>>
    /\ settings = [s \in Screens |-> None]
    /\ call = [s \in Screens |-> NoCall]
    /\ confLock = None
    /\ used = [puts |-> 0, others |-> 0]

-----------------------------------------------------------------------------
(* Everybody else.                                                           *)

\* Another program writes a config file, or removes it.
ConfChanges(f) ==
    /\ used.others < MaxConfOthers
    /\ \E t \in ConfTexts \cup {None} : t # conf[f] /\ conf' = [conf EXCEPT ![f] = t]
    /\ used' = [used EXCEPT !.others = @ + 1]
    /\ UNCHANGED <<opened, snaps, settings, call, confLock>>

\* File>Open of another journal (AppState models its steps), and an edit's or the
\* watcher's publish of the one that is open.
OpenJournal(j) ==
    /\ used.others < MaxConfOthers /\ j # opened
    /\ opened' = j
    /\ snaps' = Append(snaps, Made(j))
    /\ used' = [used EXCEPT !.others = @ + 1]
    /\ UNCHANGED <<conf, settings, call, confLock>>

JournalPublished ==
    /\ used.others < MaxConfOthers
    /\ snaps' = Append(snaps, Made(opened))
    /\ used' = [used EXCEPT !.others = @ + 1]
    /\ UNCHANGED <<conf, opened, settings, call, confLock>>

\* AppState::conf: a report asks for the settings, and the first reads them.
ReportAsks ==
    /\ ~snaps[InForce].known
    /\ snaps' = Filled(InForce, ReadingFor(snaps[InForce].journal))
    /\ UNCHANGED <<conf, opened, settings, call, confLock, used>>

-----------------------------------------------------------------------------
(* GET: refresh_conf, then the body.                                         *)

\* The request takes the snapshot of this moment,
GetBegins(s) ==
    /\ call[s].at = "idle"
    /\ call' = [call EXCEPT ![s] = [@ EXCEPT !.at = "get", !.of = InForce]]
    /\ UNCHANGED <<conf, opened, snaps, settings, confLock, used>>

\* ... reads the file for its journal,
GetReads(s) ==
    /\ call[s].at = "get"
    /\ call' = [call EXCEPT ![s] = [@ EXCEPT !.at = "fresh", !.read = ReadingFor(JournalOf(s))]]
    /\ UNCHANGED <<conf, opened, snaps, settings, confLock, used>>

\* Wrong: what the snapshot holds is taken for what is there.
GetTrustsTheSnapshot(s) ==
    /\ call[s].at = "fresh"
    /\ snaps' = Filled(call[s].of, call[s].read)
    /\ call' = [call EXCEPT ![s] = [@ EXCEPT !.at = "got"]]
    /\ UNCHANGED <<conf, opened, settings, confLock, used>>

\* ... and compares it with what that snapshot holds, be it in force still or
\* not: if it holds another reading, the editor's journal is published with the
\* fresh one; if it holds none, it is given the fresh one.
GetPublishes(s) ==
    LET held == snaps[call[s].of]
        stale == held.known /\ held.conf # call[s].read
    IN /\ call[s].at = "fresh"
       /\ snaps' = IF stale THEN Append(snaps, MadeWith(opened, call[s].read))
                   ELSE Filled(call[s].of, call[s].read)
       /\ call' = [call EXCEPT ![s] = [@ EXCEPT !.at = IF stale THEN "published" ELSE "got"]]
       /\ UNCHANGED <<conf, opened, settings, confLock, used>>

\* The screen shows the revision of what the snapshot holds now: the one the
\* request took, or after a republish whichever is in force.
GetAnswers(s) ==
    LET n == IF call[s].at = "published" THEN InForce ELSE call[s].of
    IN /\ call[s].at \in {"got", "published"}
       /\ snaps' = Filled(n, ReadingFor(snaps[n].journal))
       /\ settings' = [settings EXCEPT ![s] = snaps'[n].conf.text]
       /\ call' = [call EXCEPT ![s] = NoCall]
       /\ UNCHANGED <<conf, opened, confLock, used>>

-----------------------------------------------------------------------------
(* PUT: run_put under import_writes.                                         *)

PutBegins(s, auto) ==
    /\ call[s].at = "idle" /\ used.puts < MaxPuts
    /\ call' = [call EXCEPT ![s] = [@ EXCEPT !.at = "put", !.auto = auto]]
    /\ used' = [used EXCEPT !.puts = @ + 1]
    /\ UNCHANGED <<conf, opened, snaps, settings, confLock>>

PutLocks(s) ==
    /\ call[s].at = "put" /\ confLock = None
    /\ confLock' = s
    /\ call' = [call EXCEPT ![s] = [@ EXCEPT !.at = "locked", !.of = InForce]]
    /\ UNCHANGED <<conf, opened, snaps, settings, used>>

\* A request that is refused or changes nothing ends here; the screen keeps what
\* it shows.
PutEnds(s) ==
    /\ call' = [call EXCEPT ![s] = NoCall]
    /\ confLock' = None

\* The first reading: its revision is the one the screen must echo, its text the
\* one that is changed.
PutReads(s) ==
    LET reading == ReadingFor(JournalOf(s))
    IN /\ call[s].at = "locked"
       /\ IF reading.text = settings[s]
          THEN /\ call' = [call EXCEPT ![s] = [@ EXCEPT !.at = "read", !.read = reading]]
               /\ UNCHANGED confLock
          ELSE PutEnds(s)
       /\ UNCHANGED <<conf, opened, snaps, settings, used>>

\* Where the write would land: the file found, or a new one beside the journal.
TargetOf(s) == IF call[s].read.at = None THEN JournalOf(s) ELSE call[s].read.at

\* target: the second reading, pinned, whose bytes the replace will insist on.  The
\* text changed is still the first reading's: nothing, if there was no file.  A
\* file that was found and is gone is refused.
PutTargets(s) ==
    LET now == conf[TargetOf(s)]
        shown == call[s].read.text
        base == IF now = None THEN [auto |-> FALSE, rest |-> NewRest]
                ELSE IF shown = None THEN [auto |-> FALSE, rest |-> Empty] ELSE shown
        next == [base EXCEPT !.auto = call[s].auto]
    IN /\ call[s].at = "read"
       /\ IF (now = None => shown = None) /\ next # base
          THEN /\ call' = [call EXCEPT ![s] = [@ EXCEPT !.at = "write", !.target = now,
                                       !.next = next]]
               /\ UNCHANGED confLock
          ELSE PutEnds(s)
       /\ UNCHANGED <<conf, opened, snaps, settings, used>>

\* Wrong: the write is not conditional on the second reading.
PutWritesBlindly(s) ==
    /\ call[s].at = "write"
    /\ conf' = [conf EXCEPT ![TargetOf(s)] = call[s].next]
    /\ call' = [call EXCEPT ![s] = [@ EXCEPT !.at = "written"]]
    /\ UNCHANGED <<opened, snaps, settings, confLock, used>>

\* Vault::replace, or create_new: the file is still what the second reading saw.
PutWrites(s) ==
    /\ call[s].at = "write"
    /\ IF conf[TargetOf(s)] = call[s].target
       THEN /\ conf' = [conf EXCEPT ![TargetOf(s)] = call[s].next]
            /\ call' = [call EXCEPT ![s] = [@ EXCEPT !.at = "written"]]
            /\ UNCHANGED confLock
       ELSE PutEnds(s) /\ UNCHANGED conf
    /\ UNCHANGED <<opened, snaps, settings, used>>

\* The file is read once more; if it is not what was written, the reading keeps
\* its place and takes the text written.
PutRereads(s) ==
    /\ call[s].at = "written"
    /\ call' = [call EXCEPT ![s] = [@ EXCEPT !.at = "reread",
         !.read = [ReadingFor(JournalOf(s)) EXCEPT !.text = call[s].next]]]
    /\ UNCHANGED <<conf, opened, snaps, settings, confLock, used>>

\* republish_with_conf, and the answer.
PutAnswers(s) ==
    /\ call[s].at = "reread"
    /\ snaps' = Append(snaps, MadeWith(opened, call[s].read))
    /\ settings' = [settings EXCEPT ![s] = call[s].next]
    /\ PutEnds(s)
    /\ UNCHANGED <<conf, opened, used>>

GetSteps(s) == GetReads(s) \/ GetPublishes(s) \/ GetAnswers(s)
PutSteps(s) == \/ PutLocks(s) \/ PutReads(s) \/ PutTargets(s) \/ PutWrites(s)
               \/ PutRereads(s) \/ PutAnswers(s)

ConfNext ==
    \/ \E f \in Others : ConfChanges(f)
    \/ \E j \in Journals : OpenJournal(j)
    \/ JournalPublished \/ ReportAsks
    \/ \E s \in Screens : GetBegins(s) \/ GetSteps(s) \/ PutSteps(s)
    \/ \E s \in Screens, auto \in BOOLEAN : PutBegins(s, auto)

\* Requests run to their end.  The settings screen asks again: it re-reads when the
\* generation changes and when it is opened, and what a screen nobody opens again
\* would show is nobody's concern.
ConfFairness ==
    \A s \in Screens :
        /\ WF_confVars(GetBegins(s)) /\ WF_confVars(GetSteps(s))
        /\ WF_confVars(PutSteps(s)) /\ SF_confVars(PutLocks(s))

ConfSpec == ConfInit /\ [][ConfNext]_confVars /\ ConfFairness

-----------------------------------------------------------------------------
(* Properties.                                                               *)

Saved(s) == call[s].at = "write" /\ call'[s].at = "written"

\* What a save puts in the place of a text is that text with the setting changed:
\* nothing another program wrote is lost (conf_api: it "changed on disk since this
\* page read it, so nothing was written").
KeepsTheRest(s) ==
    LET f == TargetOf(s)
    IN conf[f] # None => conf[f] = settings[s] /\ conf'[f].rest = conf[f].rest

NothingIsOverwritten == [][\A s \in Screens : Saved(s) => KeepsTheRest(s)]_confVars

\* As the code stands: what is lost can only be what was written between the two
\* readings of one save.
SaveLosesOnlyTheGap ==
    [][\A s \in Screens : Saved(s) /\ call[s].target = call[s].read.text
                            => KeepsTheRest(s)]_confVars

\* Once the files and the journal stay as they are, the reports come to use the
\* config file of the journal they report on, whatever stale readings were
\* published on the way (refresh_conf: "so every report sees it").
ConfCatchesUp ==
    <>[](LET now == snaps[InForce] IN now.known /\ now.conf = ReadingFor(now.journal))

\* ... and `--auto`, which each snapshot reads for itself, with it.
AutoCatchesUp ==
    <>[](LET now == snaps[InForce] IN now.auto = AutoFor(now.journal))

=============================================================================
