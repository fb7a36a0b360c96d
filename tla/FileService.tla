------------------------------ MODULE FileService ------------------------------
(***************************************************************************)
(* What a conditional write promises its callers, whoever else writes the    *)
(* file and whenever the power fails: a replacement either leaves the file   *)
(* alone or puts a whole text there at once, and it does so only after a     *)
(* moment of the same call at which the file said what the caller last knew  *)
(* of it.  (Between that moment and the replacement another program may      *)
(* still write: the promise is no stronger.)  A file that is created is half *)
(* written for a while, and for good if it can be neither finished nor       *)
(* removed.  PinnedReplace implements this.                                  *)
(***************************************************************************)
EXTENDS Naturals

CONSTANTS
    Texts, Writers, Kinds,
    Gone, Link, Torn,   \* no file; no regular one; one half written
    None                \* no request; nothing known

VARIABLES
    file,      \* what the name leads to: a text, Gone, Link or Torn
    kept,      \* what a power failure may make of it
    known,     \* writer -> the text it last read or wrote
    request,   \* writer -> the write it is asked for
    checked,   \* the writers that saw the file say what they knew of it
    making,    \* the writers whose new file is not finished
    outside, crashes   \* how often other programs wrote, and the power failed

calls == <<known, request, checked, making>>
world == <<outside, crashes>>
vars == <<file, kept, calls, world>>

Init ==
    /\ file \in Texts /\ kept = {file}
    /\ known = [w \in Writers |-> None] /\ request = [w \in Writers |-> None]
    /\ checked = {} /\ making = {}
    /\ outside = 0 /\ crashes = 0

\* The file system forgets what it replaced in its own time.
Keeps(more) == file' \in kept' /\ kept' \subseteq kept \cup more

Asked(w, kinds) == request[w] # None /\ request[w].kind \in kinds

Read(w) ==
    /\ request[w] = None /\ file \in Texts
    /\ known' = [known EXCEPT ![w] = file]
    /\ UNCHANGED <<file, kept, request, checked, making, world>>

Ask(w, kind, bytes) ==
    /\ request[w] = None
    /\ kind = "replace" => known[w] # None
    /\ request' = [request EXCEPT ![w] = [kind |-> kind, bytes |-> bytes]]
    /\ UNCHANGED <<file, kept, known, checked, making, world>>

Check(w) ==
    /\ Asked(w, {"replace"}) /\ file = known[w]
    /\ checked' = checked \cup {w}
    /\ UNCHANGED <<file, kept, known, request, making, world>>

\* Done: the caller knows what it put there.
Ends(w) ==
    /\ known' = [known EXCEPT ![w] = request[w].bytes]
    /\ request' = [request EXCEPT ![w] = None]

\* Those who had checked may see it change, and then have not.
Replace(w) ==
    /\ Asked(w, {"replace", "atomic"})
    /\ Asked(w, {"replace"}) => w \in checked
    /\ file' = request[w].bytes /\ Keeps({file'})
    /\ Ends(w)
    /\ checked' \subseteq checked \ {w} /\ UNCHANGED <<making, world>>

\* Refused, or failed: the file is left alone.
Refuse(w) ==
    /\ request[w] # None /\ w \notin making
    /\ request' = [request EXCEPT ![w] = None] /\ checked' = checked \ {w}
    /\ UNCHANGED <<file, kept, known, making, world>>

Make(w) ==
    /\ Asked(w, {"create"}) /\ w \notin making /\ file = Gone
    /\ file' = Torn /\ Keeps({Torn})
    /\ making' = making \cup {w}
    /\ UNCHANGED <<known, request, checked, world>>

\* The text goes into the file that was made, which may have lost its name.
Fill(w) ==
    /\ w \in making
    /\ file' \in {file, request[w].bytes} /\ Keeps({request[w].bytes, Torn})
    /\ UNCHANGED <<calls, world>>

Complete(w) ==
    /\ w \in making /\ making' = making \ {w}
    /\ Ends(w)
    /\ Keeps({}) /\ UNCHANGED <<file, checked, world>>

\* A file that could not be finished is removed.
Undo(w) ==
    /\ w \in making /\ making' = making \ {w}
    /\ file' = Gone /\ Keeps({Gone})
    /\ request' = [request EXCEPT ![w] = None]
    /\ checked' \subseteq checked /\ UNCHANGED <<known, world>>

\* And where that fails too, it stays as it is.
Abandon(w) ==
    /\ w \in making /\ making' = making \ {w}
    /\ request' = [request EXCEPT ![w] = None]
    /\ UNCHANGED <<file, kept, known, checked, world>>

\* Another program, and the file system.
Elsewhere ==
    /\ file' \in Texts \cup {Gone, Link} /\ Keeps({file'})
    /\ outside' = outside + 1 /\ checked' \subseteq checked
    /\ UNCHANGED <<known, request, making, crashes>>

Settle ==
    /\ Keeps({}) /\ UNCHANGED <<file, calls, world>>

Crash ==
    /\ file' \in kept /\ kept' = {file'}
    /\ known' = [w \in Writers |-> None] /\ request' = [w \in Writers |-> None]
    /\ checked' = {} /\ making' = {}
    /\ crashes' = crashes + 1 /\ UNCHANGED outside

Next ==
    \/ \E w \in Writers :
         \/ Read(w) \/ \E kind \in Kinds, bytes \in Texts : Ask(w, kind, bytes)
         \/ Check(w) \/ Replace(w) \/ Refuse(w)
         \/ Make(w) \/ Fill(w) \/ Complete(w) \/ Undo(w) \/ Abandon(w)
    \/ Elsewhere \/ Settle \/ Crash

Spec == Init /\ [][Next]_vars
=============================================================================
