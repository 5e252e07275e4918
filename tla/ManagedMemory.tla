--------------------------- MODULE ManagedMemory ---------------------------
(***************************************************************************)
(* Managed memory (memory/managed.py): an operation is first proposed and  *)
(* then committed.  Three threads write: the maintenance worker on a       *)
(* connection of its own, the turn's thread and the developer's requests   *)
(* on the application's connection, which the two share; rejecting opens a *)
(* third connection.                                                       *)
(*                                                                         *)
(* SQLite admits one writer.  Python begins a transaction at the first     *)
(* write of a connection and ends it at commit() or when the connection    *)
(* is closed: `tx' is the open transaction, with the tables as its         *)
(* connection sees them.  A writer that waits too long for another fails.  *)
(*                                                                         *)
(* What a memory says, and how a search ranks it, is left out; so are the  *)
(* visitors, for a worker's task carries its own and a loop is replaced    *)
(* only when its tasks have ended.                                         *)
(***************************************************************************)
EXTENDS Naturals, Sequences, FiniteSets, FiniteSetsExt, SequencesExt

CONSTANTS Drafts,        \* the operations that may be proposed: [op, target]
          Manual,        \* those a developer may order directly
          MaxBatch,      \* bound: proposals of one reply
          MaxProposals,  \* bound: proposals in all
          MaxTurns,      \* bound: turns in all
          MaxRequests    \* bound: requests of the developer, restarts included

\* The valid operations; a "touch" is an update that changes nothing.
Ops == {"add", "update", "touch", "supersede", "archive", "restore"}

ASSUME MemoryAssumption ==
    /\ Drafts \cup Manual \subseteq [op : Ops, target : Nat]
    /\ {MaxBatch, MaxProposals, MaxTurns, MaxRequests} \subseteq Nat

VARIABLES db,      \* the committed tables: memories, proposals, operation and influence log
          tx,      \* the open write transaction: its connection and its view
          turn,    \* the turn's thread: "idle", "recalled" or "written", and what it recalls
          queue,   \* maintenance tasks that wait for the worker
          job,     \* what the worker ("task") and the developer ("route") are at
          left,    \* turns and requests left (a bound only)
          seen     \* history, for the properties only

vars == <<db, tx, turn, queue, job, left, seen>>

Workers == {"task", "route"}
Conn(w) == IF w = "task" THEN "task" ELSE "app"

Idle == [at |-> "idle", ids |-> {}, todo |-> {}, orders |-> <<>>]

\* One memory has been there before.
Init ==
    /\ db = [mem |-> <<[status |-> "active", replaces |-> 0]>>, prop |-> <<>>, log |-> <<>>,
             infl |-> {}]
    /\ tx = [on |-> "none", view |-> db]
    /\ turn = [at |-> "idle", recalled |-> {}] /\ queue = 0
    /\ job = [w \in Workers |-> Idle]
    /\ left = [turns |-> MaxTurns, requests |-> MaxRequests]
    /\ seen = [raced |-> {}, handled |-> {}]

-----------------------------------------------------------------------------
(* Connections *)

View(c) == IF tx.on = c THEN tx.view ELSE db
CanWrite(c) == tx.on \in {"none", c}
Write(c, tables) == tx' = [on |-> c, view |-> tables] /\ UNCHANGED db

CommitOn(c) ==
    /\ db' = View(c)
    /\ tx' = IF tx.on = c THEN [on |-> "none", view |-> tx.view] ELSE tx

\* Bug: what a closed connection has written is still what readers get.
CloseKeepsView(c) ==
    /\ tx' = IF tx.on = c THEN [on |-> "none", view |-> tx.view] ELSE tx
    /\ UNCHANGED db

\* Closing a connection rolls its transaction back.
Close(c) ==
    /\ tx' = IF tx.on = c THEN [on |-> "none", view |-> db] ELSE tx
    /\ UNCHANGED db

-----------------------------------------------------------------------------
(* Proposing *)

Batches == SeqOf(Drafts, MaxBatch)

Proposed(tables, batch) ==
    [tables EXCEPT !.prop = @ \o [i \in DOMAIN batch |->
        [op |-> batch[i].op, target |-> batch[i].target, status |-> "pending",
         batch |-> Len(tables.prop) + 1]]]

\* The proposals of one reply are inserted and committed; their ids are kept.
Propose(w, batch) ==
    LET tables == View(Conn(w)) IN
    /\ CanWrite(Conn(w))
    /\ Len(tables.prop) + Len(batch) <= MaxProposals
    /\ db' = Proposed(tables, batch)
    /\ tx' = [on |-> "none", view |-> db']
    /\ job' = [job EXCEPT ![w] = IF w = "route" \/ batch = <<>> THEN Idle
                 ELSE [Idle EXCEPT !.at = "load",
                                   !.ids = Len(tables.prop) + 1 .. Len(tables.prop) + Len(batch)]]

-----------------------------------------------------------------------------
(* Committing *)

\* Bug: the proposals are fetched by their ids alone.
WaitingAny(tables, ids) == ids \cap DOMAIN tables.prop
Waiting(tables, ids) == {i \in ids \cap DOMAIN tables.prop : tables.prop[i].status = "pending"}

Item(tables, i) == [id |-> i, op |-> tables.prop[i].op, target |-> tables.prop[i].target]

\* What a thread has read as pending, and what an open transaction has changed.
Other(w) == IF w = "task" THEN "route" ELSE "task"
Holds(w) == IF job[w].at \in {"apply", "succeed", "mark", "reject"} THEN job[w].ids ELSE {}
Unsettled == IF tx.on = "none" THEN {}
             ELSE {i \in DOMAIN db.prop : tx.view.prop[i].status # db.prop[i].status}

\* The pending proposals among the ids are read, without a transaction.
Load(w) ==
    LET tables == View(Conn(w)) IN
    /\ job[w].at = "load"
    /\ job' = [job EXCEPT ![w].at = "apply", ![w].todo = Waiting(tables, job[w].ids)]
    /\ seen' = [seen EXCEPT !.raced = @ \cup (Waiting(tables, job[w].ids) \cap (Holds(Other(w)) \cup Unsettled))]
    /\ UNCHANGED <<db, tx, turn, queue, left>>

\* The proposals by their numbers, then what was ordered directly.
More(w) == job[w].todo # {} \/ job[w].orders # <<>>
Now(w) == IF job[w].todo # {} THEN Item(View(Conn(w)), Min(job[w].todo))
          ELSE [id |-> 0, op |-> Head(job[w].orders).op, target |-> Head(job[w].orders).target]
Done(w) ==
    IF job[w].todo # {} THEN [job EXCEPT ![w].at = "apply", ![w].todo = @ \ {Min(@)}]
    ELSE [job EXCEPT ![w].at = "apply", ![w].orders = Tail(@)]

\* An operation on a memory that is not named, or does not exist.
Nameless(w) == Now(w).op # "add" /\ Now(w).target = 0
Missing(w) == Now(w).op # "add" /\ Now(w).target \notin {0} \cup DOMAIN View(Conn(w)).mem
Applies(w) == job[w].at = "apply" /\ More(w) /\ ~Nameless(w) /\ ~Missing(w)

\* A restore of what is neither archived nor hidden, and an update of nothing,
\* succeed without a trace.
Traceless(w) ==
    \/ Now(w).op = "touch"
    \/ Now(w).op = "restore" /\ View(Conn(w)).mem[Now(w).target].status # "archived"

Marked(tables, id) == IF id = 0 THEN tables ELSE [tables EXCEPT !.prop[id].status = "committed"]

Status == [supersede |-> "superseded", archive |-> "archived", restore |-> "active"]

Logged(tables, op, m, id) == [tables EXCEPT !.log = Append(@, [op |-> op, mem |-> m, prop |-> id])]
Added(tables, replaces, id) ==
    Logged([tables EXCEPT !.mem = Append(@, [status |-> "active", replaces |-> replaces])],
           "add", Len(tables.mem) + 1, id)

Effect(tables, item) ==
    CASE item.op = "add" -> Added(tables, 0, item.id)
      [] item.op = "update" -> Logged(tables, "update", item.target, item.id)
      [] OTHER -> Logged([tables EXCEPT !.mem[item.target].status = Status[item.op]],
                         item.op, item.target, item.id)

\* Bug: the proposal is marked before it is carried out to the end.
ApplyMarked(w) ==
    LET c == Conn(w) IN
    /\ Applies(w) /\ ~Traceless(w) /\ CanWrite(c)
    /\ Write(c, Marked(Effect(View(c), Now(w)), Now(w).id))
    /\ job' = [job EXCEPT ![w].at = IF Now(w).op = "supersede" THEN "succeed" ELSE "mark"]
    /\ UNCHANGED <<turn, queue, left, seen>>

\* _commit_one up to the successor of a superseded memory, whose text is
\* embedded first: a request to another service, inside the transaction.
Apply(w) ==
    LET c == Conn(w) IN
    /\ Applies(w) /\ ~Traceless(w) /\ CanWrite(c)
    /\ Write(c, Effect(View(c), Now(w)))
    /\ job' = [job EXCEPT ![w].at = IF Now(w).op = "supersede" THEN "succeed" ELSE "mark"]
    /\ UNCHANGED <<turn, queue, left, seen>>

Succeed(w) ==
    LET c == Conn(w) IN
    /\ job[w].at = "succeed" /\ CanWrite(c)
    /\ Write(c, Added(View(c), Now(w).target, 0))
    /\ job' = [job EXCEPT ![w].at = "mark"]
    /\ UNCHANGED <<turn, queue, left, seen>>

ApplyTraceless(w) ==
    /\ Applies(w) /\ Traceless(w)
    /\ job' = [job EXCEPT ![w].at = "mark"]
    /\ UNCHANGED <<db, tx, turn, queue, left, seen>>

\* A proposal that names no memory stays pending.
Skip(w) ==
    /\ job[w].at = "apply" /\ More(w) /\ Nameless(w)
    /\ job' = Done(w)
    /\ UNCHANGED <<db, tx, turn, queue, left, seen>>

\* Bug: every proposal is committed by itself.
MarkAndCommit(w) ==
    LET c == Conn(w) IN
    /\ job[w].at = "mark" /\ CanWrite(c)
    /\ db' = Marked(View(c), Now(w).id)
    /\ tx' = [on |-> "none", view |-> db']
    /\ job' = Done(w)
    /\ UNCHANGED <<turn, queue, left, seen>>

Mark(w) ==
    LET c == Conn(w) IN
    /\ job[w].at = "mark"
    /\ IF Now(w).id = 0 THEN UNCHANGED <<db, tx>>
       ELSE CanWrite(c) /\ Write(c, Marked(View(c), Now(w).id))
    /\ job' = Done(w)
    /\ UNCHANGED <<turn, queue, left, seen>>

Commit(w) ==
    /\ job[w].at = "apply" /\ ~More(w)
    /\ CommitOn(Conn(w))
    /\ job' = [job EXCEPT ![w] = Idle]
    /\ UNCHANGED <<turn, queue, left, seen>>

Blocked(w) ==
    /\ ~CanWrite(Conn(w))
    /\ \/ job[w].at \in {"propose", "succeed"}
       \/ job[w].at = "mark" /\ Now(w).id # 0
       \/ Applies(w) /\ ~Traceless(w)

\* Bug: only a task that succeeds closes its connection.
FailKeepsOpen(w) ==
    /\ \/ Blocked(w)
       \/ job[w].at = "apply" /\ More(w) /\ Missing(w)
    /\ job' = [job EXCEPT ![w] = Idle]
    /\ UNCHANGED <<db, tx, turn, queue, left, seen>>

\* Bug: the application's connection is rolled back as well, under the turn.
FailRollsBack(w) ==
    /\ \/ Blocked(w)
       \/ job[w].at = "apply" /\ More(w) /\ Missing(w)
    /\ Close(Conn(w))
    /\ job' = [job EXCEPT ![w] = Idle]
    /\ UNCHANGED <<turn, queue, left, seen>>

\* No such memory, or the database stays locked.  The worker's connection is
\* closed; the application's goes on, with whatever was written so far.
Fail(w) ==
    /\ \/ Blocked(w)
       \/ job[w].at = "apply" /\ More(w) /\ Missing(w)
    /\ IF w = "task" THEN Close("task") ELSE UNCHANGED <<db, tx>>
    /\ job' = [job EXCEPT ![w] = Idle]
    /\ UNCHANGED <<turn, queue, left, seen>>

Committing(w) ==
    Load(w) \/ Apply(w) \/ Succeed(w) \/ ApplyTraceless(w) \/ Skip(w) \/ Mark(w) \/ Commit(w)

-----------------------------------------------------------------------------
(* The turn *)

\* The search that previews the influence, on the application's connection: the
\* active memories, those included that nobody has committed yet.  A search that
\* finds fewer gives the properties less to look at.
Candidates(tables) == {m \in DOMAIN tables.mem : tables.mem[m].status = "active"}

Recall ==
    /\ turn.at = "idle" /\ left.turns > 0
    /\ turn' = [at |-> "recalled", recalled |-> Candidates(View("app"))]
    /\ left' = [left EXCEPT !.turns = @ - 1]
    /\ UNCHANGED <<db, tx, queue, job, seen>>

LogInfluence ==
    /\ turn.at = "recalled" /\ CanWrite("app")
    /\ Write("app", [View("app") EXCEPT !.infl = @ \cup turn.recalled])
    /\ turn' = [turn EXCEPT !.at = "written"]
    /\ UNCHANGED <<queue, job, left, seen>>

\* The database has stayed locked.
TurnFails ==
    /\ turn.at = "recalled" /\ ~CanWrite("app")
    /\ turn' = [at |-> "idle", recalled |-> {}]
    /\ UNCHANGED <<db, tx, queue, job, left, seen>>

\* The proposal a thread has carried out but not yet marked.
Half(w) == IF job[w].at \in {"succeed", "mark"} THEN {Now(w).id} \ {0} ELSE {}

\* Its commit is also one of what a request has written to the same connection.
TurnCommits ==
    /\ turn.at = "written"
    /\ CommitOn("app")
    /\ turn' = [at |-> "idle", recalled |-> {}] /\ queue' = queue + 1
    /\ seen' = [seen EXCEPT !.raced = @ \cup Half("route")]
    /\ UNCHANGED <<job, left>>

-----------------------------------------------------------------------------
(* The worker *)

StartTask ==
    /\ queue > 0 /\ job["task"].at = "idle"
    /\ queue' = queue - 1
    /\ job' = [job EXCEPT !["task"].at = "propose"]
    /\ UNCHANGED <<db, tx, turn, left, seen>>

TaskProposes ==
    /\ job["task"].at = "propose"
    /\ \E batch \in Batches : Propose("task", batch)
    /\ UNCHANGED <<turn, queue, left, seen>>

-----------------------------------------------------------------------------
(* The developer *)

Request ==
    /\ job["route"].at = "idle" /\ left.requests > 0
    /\ left' = [left EXCEPT !.requests = @ - 1]

RouteProposes ==
    /\ Request
    /\ \E batch \in Batches : batch # <<>> /\ Propose("route", batch)
    /\ UNCHANGED <<turn, queue, seen>>

\* Proposals by their ids, and an operation given in the request.
RouteCommits ==
    /\ Request
    /\ \E ids \in SUBSET DOMAIN db.prop, orders \in SeqOf(Manual, 1) :
          /\ ids # {} \/ orders # <<>>
          /\ job' = [job EXCEPT !["route"] =
                [at |-> "load", ids |-> ids, todo |-> {}, orders |-> orders]]
          /\ seen' = [seen EXCEPT !.handled = @ \cup ids]
    /\ UNCHANGED <<db, tx, turn, queue>>

\* The status is read on a new connection ...
RouteRejects ==
    /\ Request
    /\ \E i \in DOMAIN db.prop :
          /\ db.prop[i].status = "pending"
          /\ job' = [job EXCEPT !["route"] = [Idle EXCEPT !.at = "reject", !.ids = {i}]]
          /\ seen' = [handled |-> seen.handled \cup {i},
                      raced |-> seen.raced \cup ({i} \cap (Holds("task") \cup Unsettled))]
    /\ UNCHANGED <<db, tx, turn, queue>>

\* ... and written when no other transaction is open any more.
Reject ==
    /\ job["route"].at = "reject" /\ CanWrite("own")
    /\ \E i \in job["route"].ids : db' = [db EXCEPT !.prop[i].status = "rejected"]
    /\ tx' = [on |-> "none", view |-> db']
    /\ job' = [job EXCEPT !["route"] = Idle]
    /\ UNCHANGED <<turn, queue, left, seen>>

RejectFails ==
    /\ job["route"].at = "reject" /\ ~CanWrite("own")
    /\ job' = [job EXCEPT !["route"] = Idle]
    /\ UNCHANGED <<db, tx, turn, queue, left, seen>>

\* The process is started again.
Restart ==
    /\ left.requests > 0 /\ left' = [left EXCEPT !.requests = @ - 1]
    /\ tx' = [on |-> "none", view |-> db] /\ UNCHANGED db
    /\ turn' = [at |-> "idle", recalled |-> {}] /\ queue' = 0
    /\ job' = [w \in Workers |-> Idle]
    /\ UNCHANGED seen

-----------------------------------------------------------------------------
Task == StartTask \/ TaskProposes \/ Committing("task") \/ Fail("task")
Route == RouteProposes \/ RouteCommits \/ RouteRejects \/ Reject \/ RejectFails
         \/ Committing("route") \/ Fail("route")

Next == Recall \/ LogInfluence \/ TurnFails \/ TurnCommits \/ Task \/ Route \/ Restart

Spec == Init /\ [][Next]_vars

\* The worker runs on; turns and requests may stop coming.
FairSpec == Spec /\ WF_vars(Task)
-----------------------------------------------------------------------------
(* Properties *)

Tables == [mem : Seq([status : {"active", "superseded", "archived"}, replaces : Nat]),
           prop : Seq([op : Ops, target : Nat, batch : Nat,
                       status : {"pending", "committed", "rejected"}]),
           log : Seq([op : Ops, mem : Nat, prop : Nat]), infl : SUBSET Nat]

\* Type correctness; without a transaction there is one view, and what a
\* transaction has seen is never older than what is committed.
MemoryTypeOK ==
    /\ db \in Tables /\ tx.view \in Tables /\ tx.on \in {"none", "app", "task"}
    /\ turn.at \in {"idle", "recalled", "written"} /\ queue \in 0 .. MaxTurns
    /\ \A w \in Workers :
          job[w].at \in {"idle", "propose", "load", "apply", "succeed", "mark", "reject"}
    /\ seen.raced \cup seen.handled \subseteq DOMAIN db.prop
    /\ IF tx.on = "none" THEN tx.view = db
       ELSE IsPrefix(db.log, tx.view.log) /\ Len(db.mem) <= Len(tx.view.mem)

Times(i) == Cardinality({k \in DOMAIN db.log : db.log[k].prop = i})

\* A proposal that the tables call committed has left its trace in the operation
\* log, and a superseded memory its successor: the mark never outlives the effect,
\* whoever commits the connection and whatever fails or restarts in between.
CommittedIsApplied ==
    \A i \in DOMAIN db.prop :
        db.prop[i].status = "committed" /\ db.prop[i].op \in {"add", "update", "supersede", "archive"} =>
            /\ Times(i) > 0
            /\ db.prop[i].op = "supersede" =>
                  \E m \in DOMAIN db.mem : db.mem[m].replaces = db.prop[i].target

\* A proposal is carried out at most once, and not at all when it ends as rejected;
\* excepted are those that two had read as pending at once, and those of a request
\* whose commit the turn's commit has cut in two.
DecidedOnce ==
    \A i \in DOMAIN db.prop \ seen.raced :
        Times(i) <= IF db.prop[i].status = "rejected" THEN 0 ELSE 1

\* The worker commits the proposals of one reply all together or not at all, as
\* far as the developer lets them be.
ReplyIsCommittedAtOnce ==
    \A i, j \in DOMAIN db.prop \ seen.handled :
        db.prop[i].batch = db.prop[j].batch
        /\ (\A k \in {i, j} : db.prop[k].op = "add" \/ db.prop[k].target # 0)
            => db.prop[i].status = db.prop[j].status

\* The influence log names memories only, though a turn recalls what is not yet
\* committed and a restart may undo it.
InfluenceHasItsMemories == db.infl \subseteq DOMAIN db.mem

\* A task ends and does not keep the database locked.
TaskEnds == job["task"].at # "idle" ~> job["task"].at = "idle" /\ tx.on # "task"
=============================================================================
