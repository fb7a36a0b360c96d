------------------------------- MODULE ToolRun -------------------------------
(* One call of another program: hledger (hledger.rs, Invocation::run) or a     *)
(* workbook worker (workbook_sandbox.rs, run_worker).  The server writes the   *)
(* child's input on a thread, drains its output on others, and polls for its   *)
(* exit until a deadline.  Pipes are bounded, a tool may leave a process       *)
(* behind that holds its pipes, and either may never end.  hledger's threads   *)
(* are abandoned at the deadline, the worker's are scoped and joined.          *)
EXTENDS Naturals

CONSTANTS Sizes,        \* how much a program may be fed or may write
          PipeSize,     \* what a pipe holds
          MaxOutput     \* what a worker may answer

ASSUME ToolAssumption ==
    Sizes \subseteq Nat /\ PipeSize \in Nat \ {0} /\ MaxOutput \in Nat

VARIABLES call,         \* what is run: its kind and what it is going to do
          caller,       \* where the calling thread stands
          answer,       \* what the call returned
          child,        \* the process
          heir,         \* a process of the child's own holds its pipes
          feed,         \* input the writing thread still has to write
          stdin,        \* bytes in the child's input pipe
          left,         \* output the child has still to write, by stream
          pipe,         \* bytes in its output pipes
          drained,      \* bytes the draining threads have read
          drain,        \* the draining threads
          late          \* the deadline has passed

toolVars == <<call, caller, answer, child, heir, feed, stdin, left, pipe,
              drained, drain, late>>

Streams == {"out", "err"}

Calls == [kind : {"tool", "worker"}, input : Sizes, reads : BOOLEAN,
          out : Sizes, err : Sizes, fails : BOOLEAN, hangs : BOOLEAN,
          forks : BOOLEAN]

\* A worker is this program itself: it reads its input, its stderr is /dev/null
\* and it starts no process.
Sensible(c) ==
    c.kind = "worker" => c.reads /\ c.err = 0 /\ ~c.forks

ToolInit ==
    /\ call \in {c \in Calls : Sensible(c)}
    /\ caller = "spawning" /\ answer = "none"
    /\ child = "none" /\ heir = FALSE
    /\ feed = call.input /\ stdin = 0
    /\ left = [s \in Streams |-> IF s = "out" THEN call.out ELSE call.err]
    /\ pipe = [s \in Streams |-> 0]
    /\ drained = [s \in Streams |-> 0]
    /\ drain = [s \in Streams |-> "none"]
    /\ late = FALSE

Return(a) == caller' = "returned" /\ answer' = a

Deadline ==
    /\ ~late
    /\ late' = TRUE
    /\ UNCHANGED <<call, caller, answer, child, heir, feed, stdin, left, pipe,
                   drained, drain>>

-----------------------------------------------------------------------------
(* The child and what it leaves behind. *)

PipesHeld == child = "running" \/ heir

\* Until its input is read it writes nothing: hledger -f- and the worker alike.
HasRead == call.reads => feed = 0 /\ stdin = 0

ChildReads ==
    /\ child = "running" /\ call.reads /\ stdin > 0
    /\ stdin' = stdin - 1
    /\ UNCHANGED <<call, caller, answer, child, heir, feed, left, pipe,
                   drained, drain, late>>

ChildWrites(s) ==
    /\ child = "running" /\ HasRead
    /\ left[s] > 0 /\ pipe[s] < PipeSize /\ drain[s] # "dropped"
    /\ left' = [left EXCEPT ![s] = @ - 1]
    /\ pipe' = [pipe EXCEPT ![s] = @ + 1]
    /\ UNCHANGED <<call, caller, answer, child, heir, feed, stdin, drained,
                   drain, late>>

\* A write to a pipe nobody reads fails.
ChildIsCutOff(s) ==
    /\ child = "running" /\ HasRead /\ left[s] > 0 /\ drain[s] = "dropped"
    /\ child' = "failed"
    /\ UNCHANGED <<call, caller, answer, heir, feed, stdin, left, pipe,
                   drained, drain, late>>

ChildForks ==
    /\ child = "running" /\ call.forks /\ ~heir
    /\ heir' = TRUE
    /\ UNCHANGED <<call, caller, answer, child, feed, stdin, left, pipe,
                   drained, drain, late>>

ChildExits ==
    /\ child = "running" /\ HasRead /\ ~call.hangs
    /\ \A s \in Streams : left[s] = 0
    /\ child' = IF call.fails THEN "failed" ELSE "exited"
    /\ UNCHANGED <<call, caller, answer, heir, feed, stdin, left, pipe,
                   drained, drain, late>>

HeirEnds ==
    /\ heir /\ child # "running"
    /\ heir' = FALSE
    /\ UNCHANGED <<call, caller, answer, child, feed, stdin, left, pipe,
                   drained, drain, late>>

-----------------------------------------------------------------------------
(* The server's threads. *)

\* write_all of the input.  When nobody holds the other end it fails, and the
\* failure is dropped.
WriterWrites ==
    /\ child # "none" /\ feed > 0
    /\ \/ PipesHeld /\ stdin < PipeSize /\ feed' = feed - 1 /\ stdin' = stdin + 1
       \/ ~PipesHeld /\ feed' = 0 /\ UNCHANGED stdin
    /\ UNCHANGED <<call, caller, answer, child, heir, left, pipe, drained,
                   drain, late>>

\* A worker's answer is read up to one byte past its limit, then the pipe is
\* dropped.
Enough(s) == call.kind = "worker" /\ drained[s] > MaxOutput

DrainReads(s) ==
    /\ drain[s] = "reading" /\ pipe[s] > 0 /\ ~Enough(s)
    /\ pipe' = [pipe EXCEPT ![s] = @ - 1]
    /\ drained' = [drained EXCEPT ![s] = @ + 1]
    /\ UNCHANGED <<call, caller, answer, child, heir, feed, stdin, left, drain,
                   late>>

\* The end of the stream is seen once the last process holding it is gone.
DrainEnds(s) ==
    /\ drain[s] = "reading"
    /\ \/ Enough(s) /\ drain' = [drain EXCEPT ![s] = "dropped"]
       \/ ~Enough(s) /\ pipe[s] = 0 /\ ~PipesHeld
          /\ drain' = [drain EXCEPT ![s] = "sent"]
    /\ UNCHANGED <<call, caller, answer, child, heir, feed, stdin, left, pipe,
                   drained, late>>

-----------------------------------------------------------------------------
(* The calling thread. *)

\* Wrong: The streams are read once the child has been waited for.
SpawnUndrained ==
    /\ caller = "spawning"
    /\ caller' = "waiting" /\ child' = "running"
    /\ UNCHANGED <<call, answer, heir, feed, stdin, left, pipe, drained, drain,
                   late>>

Spawn ==
    /\ caller = "spawning"
    /\ caller' = "waiting" /\ child' = "running"
    /\ drain' = [s \in Streams |-> "reading"]
    /\ UNCHANGED <<call, answer, heir, feed, stdin, left, pipe, drained, late>>

\* The program is not there, or another process still holds it open for writing
\* when spawn_retrying_while_busy gives up.
SpawnFails ==
    /\ caller = "spawning"
    /\ Return("unrunnable")
    /\ UNCHANGED <<call, child, heir, feed, stdin, left, pipe, drained, drain,
                   late>>

WaitSeesExit ==
    /\ caller = "waiting" /\ child \in {"exited", "failed"}
    /\ caller' = IF call.kind = "tool" THEN "out" ELSE "joining"
    /\ UNCHANGED <<call, answer, child, heir, feed, stdin, left, pipe, drained,
                   drain, late>>

\* The child is killed and reaped, what it started is not.
WaitTimesOut ==
    /\ caller = "waiting" /\ child = "running" /\ late
    /\ child' = "killed"
    /\ IF call.kind = "tool"
       THEN Return("timed out")
       ELSE caller' = "joining" /\ UNCHANGED answer
    /\ UNCHANGED <<call, heir, feed, stdin, left, pipe, drained, drain, late>>

\* Wrong: What has been drained when the child is gone is taken for all of it.
CollectAtExit(s) ==
    /\ caller = s
    /\ IF s = "out" THEN caller' = "err" /\ UNCHANGED answer ELSE Return("ok")
    /\ UNCHANGED <<call, child, heir, feed, stdin, left, pipe, drained, drain,
                   late>>

Collect(s) ==
    /\ caller = s /\ drain[s] = "sent"
    /\ IF s = "out" THEN caller' = "err" /\ UNCHANGED answer ELSE Return("ok")
    /\ UNCHANGED <<call, child, heir, feed, stdin, left, pipe, drained, drain,
                   late>>

\* Wrong: The draining thread is joined.
CollectJoins(s) == FALSE /\ UNCHANGED toolVars

\* COLLECT_GRACE is far longer than the reading of what a pipe holds: only a
\* process that still holds the pipe lets it run out.
CollectTimesOut(s) ==
    /\ caller = s /\ drain[s] # "sent" /\ heir /\ late
    /\ Return("timed out")
    /\ UNCHANGED <<call, child, heir, feed, stdin, left, pipe, drained, drain,
                   late>>

\* The scope joins the writer and the reader, then the outcome is read off.
Join ==
    /\ caller = "joining"
    /\ feed = 0 /\ drain["out"] \in {"sent", "dropped"}
    /\ Return(CASE child = "killed" -> "timed out"
                [] child # "killed" /\ drained["out"] > MaxOutput -> "too large"
                [] child = "failed" /\ drained["out"] <= MaxOutput -> "crashed"
                [] child = "exited" /\ drained["out"] <= MaxOutput -> "ok")
    /\ UNCHANGED <<call, child, heir, feed, stdin, left, pipe, drained, drain,
                   late>>

Ended ==
    /\ caller = "returned" /\ child # "running" /\ ~heir
    /\ UNCHANGED toolVars

CallerMoves ==
    \/ SpawnFails \/ Spawn \/ WaitSeesExit \/ WaitTimesOut \/ Join
    \/ \E s \in Streams : Collect(s) \/ CollectTimesOut(s)

ServerMoves ==
    \/ CallerMoves \/ WriterWrites
    \/ \E s \in Streams : DrainReads(s) \/ DrainEnds(s)

ChildMoves ==
    \/ ChildReads \/ ChildForks \/ ChildExits
    \/ \E s \in Streams : ChildWrites(s) \/ ChildIsCutOff(s)

ToolNext == ServerMoves \/ ChildMoves \/ HeirEnds \/ Deadline \/ Ended

-----------------------------------------------------------------------------
ToolTypeOK ==
    /\ call \in Calls /\ late \in BOOLEAN /\ heir \in BOOLEAN
    /\ caller \in {"spawning", "waiting", "out", "err", "joining", "returned"}
    /\ answer \in {"none", "ok", "unrunnable", "timed out", "too large", "crashed"}
    /\ child \in {"none", "running", "exited", "failed", "killed"}
    /\ feed \in Nat /\ stdin \in 0..PipeSize
    /\ pipe \in [Streams -> 0..PipeSize]
    /\ left \in [Streams -> Nat] /\ drained \in [Streams -> Nat]
    /\ drain \in [Streams -> {"none", "reading", "sent", "dropped"}]

\* Past its deadline a call waits for nothing but the server's own threads: a
\* program that never ends is killed, and a process it leaves behind holding its
\* pipes does not hold the caller (hledger.rs, "Why those threads are DETACHED").
NothingHoldsTheCaller ==
    late /\ caller # "returned" => ENABLED <<ServerMoves>>_toolVars

\* A call answers with all the program wrote on the streams it answers with,
\* and a worker never with more than its limit: a partial journal would be
\* previewed and imported as if it were the whole one.
AnswersAreWhole ==
    answer = "ok" =>
        /\ drained["out"] = call.out
        /\ call.kind = "tool" => drained["err"] = call.err
        /\ call.kind = "worker" => call.out <= MaxOutput

\* The program is at a standstill that only the deadline can end, though it is
\* not one that hangs.
Stuck ==
    /\ child = "running" /\ ~call.hangs
    /\ ~ENABLED <<ChildMoves \/ ServerMoves>>_toolVars

\* A program that would end is never left at a standstill: not by an output
\* larger than its pipe, not by an input larger than the pipe that it does not
\* read, not by a stream nobody drains ("the obvious wait()-then-read()
\* deadlocks on exactly the payload this module was built for").
NeverStuck == ~Stuck

=============================================================================
