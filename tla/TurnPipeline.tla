---------------------------- MODULE TurnPipeline ----------------------------
(***************************************************************************)
(* One turn of core/loop.py taken apart at its LLM calls and commits, with   *)
(* everything it meets: the request that waits for it under loop_lock        *)
(* (interfaces/api_runtime.py), presence events, the maintenance worker,     *)
(* reflection, the closing of a loop, and a restart.  A cancelled plain request gives the lock back while its thread   *)
(* goes on; `overlap' remembers that another thread, or another loop, started *)
(* meanwhile.                                                                *)
(* What a state or a text is like is MoodPolicy's matter: here a state is the *)
(* number of the snapshot that holds it, a text the number of its turn.      *)
(***************************************************************************)
EXTENDS Integers, Sequences, FiniteSets, FiniteSetsExt

CONSTANTS MaxTurns,   \* turns and presence events per behaviour
          Weights,    \* how many significant events a text may carry
          Window,     \* entries short-term memory keeps
          Threshold,  \* unreflected episodes that start a reflection
          Budget      \* failures, cancellations, rebuilds, resets, restarts per behaviour

ASSUME TurnAssumption ==
    /\ MaxTurns \in Nat \ {0} /\ Window \in Nat \ {0} /\ Threshold \in Nat \ {0}
    /\ Budget \in Nat /\ Weights \subseteq Nat

Turns == 1..MaxTurns

VARIABLES
  disk,    \* the session's rows: snapshots, episodes, summaries, log
  loop,    \* the InteractionLoop the application uses
  thread,  \* turn -> its executor thread in run_turn or handle_system_event
  lock,    \* loop_lock: 0, or the turn whose request or dispatch holds it
  task,    \* turn -> its maintenance task
  closing, \* _rebuild_loop: idle, or the futures it waits for
  used,    \* faults so far (a bound only)
  seen     \* history, for the properties only: an overlap of turns, turns the log
           \* misses, and the resets' snapshots no loop has started from
vars == <<disk, loop, thread, lock, task, closing, used, seen>>

NoThread == [kind |-> "none", at |-> "none", gen |-> 0, base |-> 0, snap |-> 0,
             left |-> 0, sum |-> 0, mine |-> {}]
Ended == {"done", "failed", "lost"}
Runs(t) == thread[t].at \notin Ended \cup {"none"}

\* A snapshot remembers the one it was computed from (0: the initial state), one that a
\* reset wrote itself; an episode its reflection.
Init ==
    /\ disk = [snaps |-> <<>>, episodes |-> <<>>, summaries |-> <<>>, log |-> <<>>]
    /\ loop = [gen |-> 1, cur |-> 0, short |-> <<>>, futures |-> {}]
    /\ thread = [t \in Turns |-> NoThread]
    /\ lock = 0
    /\ task = [t \in Turns |-> "none"]
    /\ closing = [on |-> FALSE, futures |-> {}]
    /\ used = 0
    /\ seen = [overlap |-> FALSE, gaps |-> {}, unread |-> {}]

Fault == used < Budget /\ used' = used + 1
Goto(t, place) == thread' = [thread EXCEPT ![t].at = place]

-----------------------------------------------------------------------------
(* Short-term memory and what a restart finds                               *)

\* Bug: the deque has no maximal length.
KeepAll(entries) == entries
Keep(entries) == IF Len(entries) <= Window THEN entries
                 ELSE SubSeq(entries, Len(entries) - Window + 1, Len(entries))
\* A loop that was replaced keeps its own memory; only the current one is in `loop'.
Remember(t, role) ==
    loop' = IF thread[t].gen = loop.gen
            THEN [loop EXCEPT !.short = Keep(Append(@, <<role, t>>))] ELSE loop

\* A row holds what was said in its turn and what was answered.
Entries(log) == [k \in 1..2 * Len(log) |->
                    <<IF k % 2 = 1 THEN "user" ELSE "entity", log[(k + 1) \div 2]>>]

\* Bug: the newest rows are replayed newest first.
HydrateBackwards(log) ==
    LET recent == Keep(log)
    IN Keep(Entries([i \in 1..Len(recent) |-> recent[Len(recent) + 1 - i]]))
Hydrate(log) == Keep(Entries(Keep(log)))

NewLoop == [gen |-> loop.gen + 1, cur |-> Len(disk.snaps), short |-> Hydrate(disk.log),
            futures |-> {}]

-----------------------------------------------------------------------------
(* Requests and the dispatcher                                              *)

Starts == {t \in Turns : thread[t].at = "none" /\ \A s \in Turns : s < t => thread[s].at # "none"}

LockFree == lock = 0 /\ ~closing.on

Begin(t, kind, weight) ==
    /\ thread' = [thread EXCEPT ![t] = [NoThread EXCEPT
                     !.kind = kind, !.at = "hear", !.gen = loop.gen, !.left = weight]]
    /\ seen' = [seen EXCEPT !.overlap = @ \/ \E s \in Turns : s # t /\ Runs(s)]

\* A turn with its significant events, asked for by a plain or a progressive request.
Ask(t) ==
    /\ LockFree /\ t \in Starts
    /\ \E weight \in Weights : Begin(t, "turn", weight)
    /\ lock' = t
    /\ UNCHANGED <<disk, loop, task, closing, used>>

\* Bug: the dispatcher does not take the lock before it hands the event to the loop.
DispatchUnlocked(t) ==
    /\ ~closing.on /\ t \in Starts
    /\ thread' = [thread EXCEPT ![t] = [NoThread EXCEPT
                     !.kind = "event", !.at = "hear", !.gen = loop.gen]]
    /\ UNCHANGED <<disk, loop, lock, task, closing, used, seen>>
Dispatch(t) ==
    /\ LockFree /\ t \in Starts
    /\ Begin(t, "event", 0)
    /\ lock' = t
    /\ UNCHANGED <<disk, loop, task, closing, used>>

\* Bug: the request goes on only when its turn has a reply.
FinishOnReply(t) ==
    /\ lock = t /\ thread[t].at \in {"done", "lost"} /\ ~closing.on
    /\ lock' = 0
    /\ UNCHANGED <<disk, loop, thread, task, closing, used, seen>>
\* A request and the dispatcher give the lock back when their thread has ended, normally
\* or with an exception.
Finish(t) ==
    /\ lock = t /\ thread[t].at \in Ended /\ ~closing.on
    /\ lock' = 0
    /\ UNCHANGED <<disk, loop, thread, task, closing, used, seen>>

\* The client hangs up.  A plain request leaves the lock at once and its thread goes on; a
\* progressive one waits for the thread in any case, so for it nothing changes here.
Cancel(t) ==
    /\ Fault /\ lock = t /\ Runs(t) /\ thread[t].kind = "turn"
    /\ lock' = 0
    /\ UNCHANGED <<disk, loop, thread, task, closing, seen>>

\* The developer resets the state: a snapshot of the initial state becomes the newest of
\* the session, and the loop, which goes on from what it holds, is not told.
ResetState ==
    /\ LockFree /\ Fault
    /\ disk' = [disk EXCEPT !.snaps = Append(@, Len(@) + 1)]
    /\ seen' = [seen EXCEPT !.unread = @ \cup {Len(disk.snaps) + 1}]
    /\ UNCHANGED <<loop, thread, lock, task, closing>>

-----------------------------------------------------------------------------
(* The thread                                                               *)

Stop(t, how) ==
    /\ thread' = [thread EXCEPT ![t] = [NoThread EXCEPT
                     !.kind = thread[t].kind, !.at = how, !.gen = thread[t].gen]]
    /\ seen' = IF how = "failed" /\ thread[t].kind # "event"
               THEN [seen EXCEPT !.gaps = @ \cup {t}] ELSE seen

\* A read or write that raises (a locked or full database) ends the turn where it stands.
Raise(t) ==
    /\ Fault /\ thread[t].at \in {"user", "save", "reply", "influence"}
    /\ Stop(t, "failed")
    /\ UNCHANGED <<disk, loop, lock, task, closing>>

\* Parse, apply events and decay from the state the loop holds now; plan the first unit.
Hear(t) ==
    /\ thread[t].at = "hear"
    /\ thread' = [thread EXCEPT ![t].base = loop.cur,
                                ![t].at = IF thread[t].kind = "event" THEN "save" ELSE "user"]
    /\ UNCHANGED <<disk, loop, lock, task, closing, used, seen>>

AddUser(t) ==
    /\ thread[t].at = "user"
    /\ Remember(t, "user") /\ Goto(t, "save")
    /\ UNCHANGED <<disk, lock, task, closing, used, seen>>

SaveSnapshot(t) ==
    /\ thread[t].at = "save"
    /\ disk' = [disk EXCEPT !.snaps = Append(@, thread[t].base)]
    /\ thread' = [thread EXCEPT ![t].snap = Len(disk.snaps) + 1, ![t].at = "adopt"]
    /\ UNCHANGED <<loop, lock, task, closing, used, seen>>

Adopt(t) ==
    /\ thread[t].at = "adopt"
    /\ loop' = IF thread[t].gen = loop.gen THEN [loop EXCEPT !.cur = thread[t].snap] ELSE loop
    /\ IF thread[t].kind = "event" THEN Stop(t, "done")
       ELSE /\ thread' = [thread EXCEPT ![t].at = "episodes", ![t].base = 0, ![t].snap = 0]
            /\ UNCHANGED seen
    /\ UNCHANGED <<disk, lock, task, closing, used>>

\* Each significant event is stored, or its failure is logged and the turn goes on.
StoreEpisode(t) ==
    /\ thread[t].at = "episodes"
    /\ IF thread[t].left = 0 THEN Goto(t, "reply") /\ UNCHANGED <<disk, used>>
       ELSE /\ thread' = [thread EXCEPT ![t].left = @ - 1]
            /\ \/ disk' = [disk EXCEPT !.episodes = Append(@, 0)] /\ UNCHANGED used
               \/ Fault /\ UNCHANGED disk
    /\ UNCHANGED <<loop, lock, task, closing, seen>>

\* Policy, retrieval and the reply, which is remembered and its row written; a row that cannot be written is logged
\* and the turn goes on without a turn id.
Reply(t) ==
    /\ thread[t].at = "reply"
    /\ Remember(t, "entity")
    /\ thread' = [thread EXCEPT ![t].at = "influence", ![t].left = 0]
    /\ \/ disk' = [disk EXCEPT !.log = Append(@, t)] /\ UNCHANGED <<used, seen>>
       \/ Fault /\ seen' = [seen EXCEPT !.gaps = @ \cup {t}] /\ UNCHANGED disk
    /\ UNCHANGED <<lock, task, closing>>

\* log_influence, then the maintenance task: queued, or run in place by a loop whose
\* executor is gone, or refused by one that is just being shut down.
Enqueue(t) ==
    /\ thread[t].at = "influence"
    /\ \/ /\ thread[t].gen = loop.gen
          /\ task' = [task EXCEPT ![t] = "queued"]
          /\ loop' = [loop EXCEPT !.futures =
                        {s \in @ : task[s] = "queued"} \cup {t}]
          /\ Goto(t, "reflect") /\ UNCHANGED seen
       \/ /\ thread[t].gen # loop.gen
          /\ task' = [task EXCEPT ![t] = "done"] /\ UNCHANGED loop
          /\ Goto(t, "reflect") /\ UNCHANGED seen
       \/ closing.on /\ Stop(t, "failed") /\ UNCHANGED <<task, loop>>
    /\ UNCHANGED <<disk, lock, closing, used>>

Unreflected == {i \in 1..Len(disk.episodes) : disk.episodes[i] = 0}

\* The LLM compresses what is unreflected now, or fails and leaves it for a later turn.
Reflect(t) ==
    /\ thread[t].at = "reflect"
    /\ \/ /\ Cardinality(Unreflected) >= Threshold
          /\ thread' = [thread EXCEPT ![t].mine = Unreflected, ![t].at = "summarise"]
          /\ UNCHANGED <<seen, used>>
       \/ /\ \/ Cardinality(Unreflected) < Threshold /\ UNCHANGED used
             \/ Cardinality(Unreflected) >= Threshold /\ Fault
          /\ Stop(t, "done")
    /\ UNCHANGED <<disk, loop, lock, task, closing>>

\* The summary is stored, or its failure is logged and ends the reflection.
Summarise(t) ==
    /\ thread[t].at = "summarise"
    /\ \/ /\ disk' = [disk EXCEPT !.summaries = Append(@, thread[t].mine)]
          /\ thread' = [thread EXCEPT ![t].sum = Len(disk.summaries) + 1, ![t].at = "mark"]
          /\ UNCHANGED <<seen, used>>
       \/ Fault /\ Stop(t, "done") /\ UNCHANGED disk
    /\ UNCHANGED <<loop, lock, task, closing>>

\* Bug: what is unreflected is read again for the marking.
ToMarkReread(t) == Unreflected
ToMark(t) == thread[t].mine
\* The source events are marked in their order, one commit at a time; a failure is logged and ends it.
MarkReflected(t) ==
    /\ thread[t].at = "mark"
    /\ \/ /\ ToMark(t) # {}
          /\ disk' = [disk EXCEPT !.episodes[Min(ToMark(t))] = thread[t].sum]
          /\ thread' = [thread EXCEPT ![t].mine = ToMark(t) \ {Min(ToMark(t))}]
          /\ UNCHANGED <<seen, used>>
       \/ ToMark(t) = {} /\ Stop(t, "done") /\ UNCHANGED <<disk, used>>
       \/ ToMark(t) # {} /\ Fault /\ Stop(t, "done") /\ UNCHANGED disk
    /\ UNCHANGED <<loop, lock, task, closing>>

-----------------------------------------------------------------------------
(* The maintenance worker, closing a loop, and a restart                    *)

\* The single worker takes the oldest task; its end is what others can tell.
Work(t) ==
    /\ task[t] = "queued" /\ \A s \in Turns : s < t => task[s] # "queued"
    /\ \/ task' = [task EXCEPT ![t] = "done"] /\ UNCHANGED used
       \/ Fault /\ task' = [task EXCEPT ![t] = "failed"]
    /\ UNCHANGED <<disk, loop, thread, lock, closing, seen>>

\* _rebuild_loop closes the old loop first, in the event loop's own thread: nothing the
\* event loop does happens until the futures it took have ended.
Close ==
    /\ LockFree /\ Fault
    /\ closing' = [on |-> TRUE, futures |-> loop.futures]
    /\ loop' = [loop EXCEPT !.futures = {}]
    /\ UNCHANGED <<disk, thread, lock, task, seen>>

\* Bug: the loop is closed without waiting for its background tasks.
CanRebuildAtOnce == closing.on
CanRebuild == closing.on /\ \A t \in Turns : task[t] # "queued"
\* The executor is drained too (shutdown waits), then the new loop reads the session.
Rebuild ==
    /\ CanRebuild /\ \A t \in closing.futures : task[t] # "failed"
    /\ loop' = NewLoop /\ closing' = [on |-> FALSE, futures |-> {}]
    /\ seen' = [seen EXCEPT !.overlap = @ \/ \E t \in Turns : Runs(t),
                            !.unread  = @ \ {Len(disk.snaps)}]
    /\ UNCHANGED <<disk, thread, lock, task, used>>
\* A failed task makes close raise: the old loop stays, its executor still open.
RebuildRaises ==
    /\ closing.on /\ \E t \in closing.futures : task[t] = "failed"
    /\ \A t \in closing.futures : task[t] # "queued"
    /\ closing' = [on |-> FALSE, futures |-> {}]
    /\ UNCHANGED <<disk, loop, thread, lock, task, used, seen>>

Restart ==
    /\ Fault
    /\ loop' = NewLoop
    /\ thread' = [t \in Turns |-> IF Runs(t) THEN [thread[t] EXCEPT !.at = "lost"] ELSE thread[t]]
    /\ task' = [t \in Turns |-> IF task[t] = "queued" THEN "lost" ELSE task[t]]
    /\ lock' = 0 /\ closing' = [on |-> FALSE, futures |-> {}]
    /\ seen' = [seen EXCEPT !.unread = @ \ {Len(disk.snaps)}]
    /\ UNCHANGED disk

-----------------------------------------------------------------------------
(* The system                                                               *)

Thread(t) == \/ Hear(t) \/ AddUser(t) \/ SaveSnapshot(t) \/ Adopt(t)
             \/ StoreEpisode(t) \/ Reply(t) \/ Enqueue(t)
             \/ Reflect(t) \/ Summarise(t) \/ MarkReflected(t) \/ Raise(t)

\* What the process does of itself, and what happens to it.
Runtime == \E t \in Turns : Thread(t) \/ Finish(t) \/ Work(t)
Rebuilding == Rebuild \/ RebuildRaises
Outside == (\E t \in Turns : Ask(t) \/ Dispatch(t) \/ Cancel(t))
           \/ ResetState \/ Close \/ Restart
Next == Runtime \/ Rebuilding \/ Outside

\* Threads, the worker and the event loop go on while any of them can (LLM calls have
\* timeouts); nothing is assumed of which of them is first.
Fairness == WF_vars(Runtime \/ Rebuilding)
Spec == Init /\ [][Next]_vars /\ Fairness

-----------------------------------------------------------------------------
(* Properties                                                               *)

\* Rows refer to rows that exist, short-term memory keeps to its window, and the lock is
\* held by a request whose thread was started by this process.
TurnTypeOK ==
    /\ \A i \in 1..Len(disk.snaps) : disk.snaps[i] \in 0..Len(disk.snaps)
    /\ \A i \in 1..Len(disk.episodes) : disk.episodes[i] \in 0..Len(disk.summaries)
    /\ loop.cur \in 0..Len(disk.snaps) /\ Len(loop.short) <= Window
    /\ lock # 0 => thread[lock].at \notin {"none", "lost"}
    /\ \A t \in Turns : task[t] \in {"none", "queued", "done", "failed", "lost"}

\* The state is continuous: as long as no cancelled turn overlapped another, every snapshot
\* was computed from the one before it, and between turns the loop holds the newest one.
\* A reset's snapshot is left out until a loop starts from it: the running loop goes on
\* past it, so that a reset shows only after a rebuild or a restart that finds it newest.
Continues(base, snap) ==
    base < snap /\ base \notin seen.unread /\ base + 1 .. snap - 1 \subseteq seen.unread
StateIsContinuous ==
    ~seen.overlap =>
        /\ \A i \in 1..Len(disk.snaps) : disk.snaps[i] = i \/ Continues(disk.snaps[i], i)
        /\ (\A t \in Turns : ~Runs(t)) => Continues(loop.cur, Len(disk.snaps) + 1)

\* The dialogue window is continuous: between turns it is what a restart reads from the
\* log, unless it still holds a turn that failed or whose row could not be written.
WindowIsContinuous ==
    (~seen.overlap /\ (\A t \in Turns : ~Runs(t))
        /\ \A i \in 1..Len(loop.short) : loop.short[i][2] \notin seen.gaps)
    => loop.short = Hydrate(disk.log)

\* An episode is marked as reflected only by a summary that was made from it, also when
\* two reflections overlap and whatever fails between their commits.
ReflectedIsSummarised ==
    \A i \in 1..Len(disk.episodes) :
        disk.episodes[i] # 0 => i \in disk.summaries[disk.episodes[i]]

\* No maintenance of a replaced loop is left behind to write beside the new one.
NoOrphanMaintenance ==
    \A t \in Turns : task[t] = "queued" => thread[t].gen = loop.gen

\* Every request and every presence event gives the lock back, whatever fails in its turn.
LockComesBack == lock # 0 ~> lock = 0
=============================================================================
