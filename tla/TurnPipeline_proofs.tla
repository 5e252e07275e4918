------------------------ MODULE TurnPipeline_proofs ------------------------
(***************************************************************************)
(* Proofs about TurnPipeline.                                              *)
(*                                                                         *)
(* The records that the actions rewrite field by field come first, then    *)
(* one lemma per action that says what it does (HearDoes, SaveDoes, ...)   *)
(* in terms of those fields; Moves says what all steps of a thread have in *)
(* common.  The parts of the inductive invariant build on each other:      *)
(*                                                                         *)
(*   OwnInv       loop_lock is held for a thread of this process, and the  *)
(*                limit of short-term memory holds                         *)
(*   SnapsInv     snapshots refer to snapshots that exist                  *)
(*   EpisodesInv  a thread marks the episodes its summary was made from    *)
(*   AloneInv     while no cancelled turn overlaps another, one thread     *)
(*                runs, in the current loop                                *)
(*   ChainInv     then disk, loop and thread continue one chain of states, *)
(*                past the snapshots of resets that no loop started from   *)
(*   WindowInv    then short-term memory follows the log                   *)
(*                                                                         *)
(* A turn that fails has put words into short-term memory that the log     *)
(* will never have (a gap).  Follows says what is left to rely on: behind  *)
(* the last gap the window ends like the log, with the words of the turn   *)
(* under way behind it, and it is shorter than its size only while it has  *)
(* a gap or the log is short.  HydrateIsKeep relates this to a restart,    *)
(* which reads a window of rows.                                           *)
(***************************************************************************)
EXTENDS TurnPipeline, TLAPS, SequenceTheorems, WellFoundedInduction

Places == {"none", "hear", "user", "save", "adopt", "episodes", "reply", "influence",
           "reflect", "summarise", "mark", "done", "failed", "lost"}
Threads == [kind : {"none", "turn", "event"}, at : Places, gen : Nat, base : Nat, snap : Nat,
            left : Nat, sum : Nat, mine : SUBSET Nat]
Said == {"user", "entity"} \X Turns
Disks == [snaps : Seq(Nat), episodes : Seq(Nat), summaries : Seq(SUBSET Nat), log : Seq(Turns)]
Loops == [gen : Nat, cur : Nat, short : Seq(Said), futures : SUBSET Turns]
Seens == [overlap : BOOLEAN, gaps : SUBSET Turns, unread : SUBSET Nat]

TypeInv ==
    /\ disk \in Disks /\ loop \in Loops /\ thread \in [Turns -> Threads]
    /\ lock \in Turns \cup {0}
    /\ task \in [Turns -> {"none", "queued", "done", "failed", "lost"}]
    /\ closing \in [on : BOOLEAN, futures : SUBSET Turns]
    /\ used \in Nat /\ seen \in Seens

-----------------------------------------------------------------------------
(* Records *)

LEMMA DiskIs ==
    ASSUME NEW d \in Disks
    PROVE  /\ d.snaps \in Seq(Nat) /\ d.episodes \in Seq(Nat)
           /\ d.summaries \in Seq(SUBSET Nat) /\ d.log \in Seq(Turns)
           /\ Len(d.snaps) \in Nat /\ Len(d.episodes) \in Nat
           /\ Len(d.summaries) \in Nat /\ Len(d.log) \in Nat
  BY DEF Disks

\* A table of the disk is replaced by another one.
LEMMA SnapsReplaced ==
    ASSUME NEW d \in Disks, NEW x \in Seq(Nat)
    PROVE  LET e == [d EXCEPT !.snaps = x] IN
           /\ e \in Disks /\ e.snaps = x /\ e.episodes = d.episodes
           /\ e.summaries = d.summaries /\ e.log = d.log
  BY DEF Disks

LEMMA EpisodesReplaced ==
    ASSUME NEW d \in Disks, NEW x \in Seq(Nat)
    PROVE  LET e == [d EXCEPT !.episodes = x] IN
           /\ e \in Disks /\ e.snaps = d.snaps /\ e.episodes = x
           /\ e.summaries = d.summaries /\ e.log = d.log
  BY DEF Disks

LEMMA SummariesReplaced ==
    ASSUME NEW d \in Disks, NEW x \in Seq(SUBSET Nat)
    PROVE  LET e == [d EXCEPT !.summaries = x] IN
           /\ e \in Disks /\ e.snaps = d.snaps /\ e.episodes = d.episodes
           /\ e.summaries = x /\ e.log = d.log
  BY DEF Disks

LEMMA LogReplaced ==
    ASSUME NEW d \in Disks, NEW x \in Seq(Turns)
    PROVE  LET e == [d EXCEPT !.log = x] IN
           /\ e \in Disks /\ e.snaps = d.snaps /\ e.episodes = d.episodes
           /\ e.summaries = d.summaries /\ e.log = x
  BY DEF Disks

LEMMA LoopIs ==
    ASSUME NEW l \in Loops
    PROVE  /\ l.gen \in Nat /\ l.cur \in Nat /\ l.short \in Seq(Said) /\ l.futures \subseteq Turns
           /\ Len(l.short) \in Nat
  BY DEF Loops

LEMMA ShortReplaced ==
    ASSUME NEW l \in Loops, NEW x \in Seq(Said)
    PROVE  LET e == [l EXCEPT !.short = x] IN
           /\ e \in Loops /\ e.gen = l.gen /\ e.cur = l.cur /\ e.short = x
  BY DEF Loops

LEMMA CurReplaced ==
    ASSUME NEW l \in Loops, NEW x \in Nat
    PROVE  LET e == [l EXCEPT !.cur = x] IN
           /\ e \in Loops /\ e.gen = l.gen /\ e.cur = x /\ e.short = l.short
  BY DEF Loops

LEMMA FuturesReplaced ==
    ASSUME NEW l \in Loops, NEW x \in SUBSET Turns
    PROVE  LET e == [l EXCEPT !.futures = x] IN
           /\ e \in Loops /\ e.gen = l.gen /\ e.cur = l.cur /\ e.short = l.short
  BY DEF Loops

LEMMA SeenReplaced ==
    ASSUME NEW h \in Seens
    PROVE  /\ h.overlap \in BOOLEAN /\ h.gaps \subseteq Turns /\ h.unread \subseteq Nat
           /\ \A x \in BOOLEAN : LET e == [h EXCEPT !.overlap = x] IN
                 e \in Seens /\ e.gaps = h.gaps /\ e.overlap = x /\ e.unread = h.unread
           /\ \A x \in SUBSET Turns : LET e == [h EXCEPT !.gaps = x] IN
                 e \in Seens /\ e.gaps = x /\ e.overlap = h.overlap /\ e.unread = h.unread
           /\ \A x \in SUBSET Nat : LET e == [h EXCEPT !.unread = x] IN
                 e \in Seens /\ e.gaps = h.gaps /\ e.overlap = h.overlap /\ e.unread = x
  BY DEF Seens

LEMMA ThreadIs ==
    ASSUME NEW r \in Threads
    PROVE  /\ r.at \in Places /\ r.gen \in Nat /\ r.base \in Nat /\ r.snap \in Nat
           /\ r.left \in Nat /\ r.sum \in Nat /\ r.mine \in SUBSET Nat
           /\ r.kind \in {"none", "turn", "event"}
  BY DEF Threads

LEMMA NoThreadIs ==
    /\ NoThread \in Threads /\ NoThread.mine = {} /\ NoThread.base = 0 /\ NoThread.snap = 0
    /\ NoThread.sum = 0
  BY DEF NoThread, Threads, Places

Started(k, a, g, w) == [NoThread EXCEPT !.kind = k, !.at = a, !.gen = g, !.left = w]
Stopped(k, a, g) == [NoThread EXCEPT !.kind = k, !.at = a, !.gen = g]

LEMMA StartedIs ==
    ASSUME NEW k \in {"none", "turn", "event"}, NEW a \in Places, NEW g \in Nat, NEW w \in Nat
    PROVE  LET r == Started(k, a, g, w) IN
           /\ r \in Threads /\ r.at = a /\ r.gen = g /\ r.mine = {} /\ r.kind = k
           /\ r.base = 0 /\ r.snap = 0
  BY NoThreadIs DEF Started, Threads

LEMMA StoppedIs ==
    ASSUME NEW k \in {"none", "turn", "event"}, NEW a \in Places, NEW g \in Nat
    PROVE  LET r == Stopped(k, a, g) IN
           /\ r \in Threads /\ r.at = a /\ r.gen = g /\ r.mine = {} /\ r.kind = k
           /\ r.base = 0 /\ r.snap = 0
  BY NoThreadIs DEF Stopped, Threads

\* Only thread t changes.
Only(t) ==
    thread' \in [Turns -> Threads] /\ \A s \in Turns : s # t => thread'[s] = thread[s]

LEMMA Become ==
    ASSUME thread \in [Turns -> Threads], NEW t \in Turns, NEW r \in Threads,
           thread' = [thread EXCEPT ![t] = r]
    PROVE  Only(t) /\ thread'[t] = r
  BY DEF Only

\* Thread t goes to another place and nothing else is new of it.
Goes(t, place) ==
    /\ Only(t) /\ thread'[t].at = place /\ thread'[t].gen = thread[t].gen
    /\ thread'[t].kind = thread[t].kind
    /\ thread'[t].base = thread[t].base /\ thread'[t].snap = thread[t].snap
    /\ thread'[t].sum = thread[t].sum /\ thread'[t].mine = thread[t].mine

LEMMA GotoDoes ==
    ASSUME TypeInv, NEW t \in Turns, NEW place \in Places, Goto(t, place)
    PROVE  Goes(t, place)
<1> DEFINE r == [thread[t] EXCEPT !.at = place]
<1>1. r \in Threads /\ r.at = place /\ r.gen = thread[t].gen /\ r.kind = thread[t].kind
      /\ r.base = thread[t].base /\ r.snap = thread[t].snap
      /\ r.sum = thread[t].sum /\ r.mine = thread[t].mine
  BY DEF TypeInv, Threads
<1>2. thread' = [thread EXCEPT ![t] = r]
  BY DEF Goto
<1> HIDE DEF r
<1> QED BY <1>1, <1>2, Become DEF TypeInv, Goes

\* A thread that ends forgets what it was at; a turn that fails leaves a gap.
Ends(t, how) ==
    /\ Only(t) /\ thread'[t].at = how /\ thread'[t].gen = thread[t].gen
    /\ thread'[t].kind = thread[t].kind
    /\ thread'[t].mine = {} /\ thread'[t].base = 0 /\ thread'[t].snap = 0
    /\ seen' \in Seens /\ seen'.overlap = seen.overlap /\ seen'.unread = seen.unread
    /\ seen'.gaps = IF how = "failed" /\ thread[t].kind # "event"
                    THEN seen.gaps \cup {t} ELSE seen.gaps

LEMMA StopDoes ==
    ASSUME TypeInv, NEW t \in Turns, NEW how \in {"done", "failed"}, Stop(t, how)
    PROVE  Ends(t, how)
<1> DEFINE r == Stopped(thread[t].kind, how, thread[t].gen)
<1>1. thread[t] \in Threads
  BY DEF TypeInv
<1>2. r \in Threads /\ r.at = how /\ r.gen = thread[t].gen /\ r.kind = thread[t].kind
      /\ r.mine = {} /\ r.base = 0 /\ r.snap = 0
  <2>1. how \in Places /\ thread[t].kind \in {"none", "turn", "event"} /\ thread[t].gen \in Nat
    BY <1>1, ThreadIs DEF Places
  <2> QED BY <2>1, StoppedIs
<1>3. thread' = [thread EXCEPT ![t] = r]
  BY DEF Stop, Stopped
<1> HIDE DEF r
<1>4. Only(t) /\ thread'[t] = r
  BY <1>2, <1>3, Become DEF TypeInv
<1>5. seen' \in Seens /\ seen'.overlap = seen.overlap /\ seen'.unread = seen.unread
      /\ seen'.gaps = IF how = "failed" /\ thread[t].kind # "event"
                      THEN seen.gaps \cup {t} ELSE seen.gaps
  <2>1. seen \in Seens /\ seen.gaps \cup {t} \in SUBSET Turns
    BY SeenReplaced DEF TypeInv
  <2>2. CASE how = "failed" /\ thread[t].kind # "event"
    <3>1. seen' = [seen EXCEPT !.gaps = seen.gaps \cup {t}]
      BY <2>2 DEF Stop
    <3> QED BY <2>1, <2>2, <3>1, SeenReplaced
  <2>3. CASE ~(how = "failed" /\ thread[t].kind # "event")
    BY <2>1, <2>3 DEF Stop
  <2> QED BY <2>2, <2>3
<1> QED BY <1>2, <1>4, <1>5 DEF Ends

\* A thread starts with the loop the application uses now.
LEMMA BeginDoes ==
    ASSUME TypeInv, NEW t \in Turns, NEW kind \in {"turn", "event"}, NEW weight \in Nat,
           Begin(t, kind, weight)
    PROVE  /\ Only(t) /\ thread'[t].at = "hear" /\ thread'[t].gen = loop.gen
           /\ thread'[t].mine = {} /\ thread'[t].kind = kind
           /\ thread'[t].base = 0 /\ thread'[t].snap = 0
           /\ seen' \in Seens /\ seen'.gaps = seen.gaps /\ seen'.unread = seen.unread
           /\ seen'.overlap = (seen.overlap \/ \E s \in Turns : s # t /\ Runs(s))
<1> DEFINE r == Started(kind, "hear", loop.gen, weight)
<1>1. loop.gen \in Nat
  BY LoopIs DEF TypeInv
<1>2. r \in Threads /\ r.at = "hear" /\ r.gen = loop.gen /\ r.mine = {} /\ r.kind = kind
      /\ r.base = 0 /\ r.snap = 0
  <2>1. "hear" \in Places /\ kind \in {"none", "turn", "event"}
    BY DEF Places
  <2> QED BY <1>1, <2>1, StartedIs
<1>3. thread' = [thread EXCEPT ![t] = r]
  BY DEF Begin, Started
<1> HIDE DEF r
<1>4. Only(t) /\ thread'[t] = r
  BY <1>2, <1>3, Become DEF TypeInv
<1>5. seen' \in Seens /\ seen'.gaps = seen.gaps /\ seen'.unread = seen.unread
      /\ seen'.overlap = (seen.overlap \/ \E s \in Turns : s # t /\ Runs(s))
  <2> DEFINE some == seen.overlap \/ \E s \in Turns : s # t /\ Runs(s)
  <2>1. seen' = [seen EXCEPT !.overlap = some] /\ some \in BOOLEAN
    BY DEF Begin
  <2> HIDE DEF some
  <2>2. /\ seen' \in Seens /\ seen'.gaps = seen.gaps
        /\ seen'.unread = seen.unread /\ seen'.overlap = some
    BY <2>1, SeenReplaced DEF TypeInv
  <2> QED BY <2>2 DEF some
<1> QED BY <1>2, <1>4, <1>5

-----------------------------------------------------------------------------
(* Short-term memory *)

\* What is kept are the newest entries, as many as the window holds.
LEMMA KeepIs ==
    ASSUME NEW S, NEW e \in Seq(S)
    PROVE  /\ Keep(e) \in Seq(S)
           /\ Len(Keep(e)) = IF Len(e) <= Window THEN Len(e) ELSE Window
           /\ \A i \in 1 .. Len(Keep(e)) : Keep(e)[i] = e[Len(e) - Len(Keep(e)) + i]
<1>1. Len(e) \in Nat /\ Window \in Nat \ {0} /\ \A i \in 1 .. Len(e) : e[i] \in S
  BY TurnAssumption, ElementOfSeq
<1>2. CASE Len(e) <= Window
  BY <1>1, <1>2 DEF Keep
<1>3. CASE ~(Len(e) <= Window)
  <2> DEFINE m == Len(e) - Window + 1
             n == Len(e)
  <2>1. Keep(e) = SubSeq(e, m, n) /\ m \in Int /\ n \in Int /\ m <= n
        /\ \A i \in m .. n : e[i] \in S
    BY <1>1, <1>3 DEF Keep
  <2>2. /\ SubSeq(e, m, n) \in Seq(S) /\ Len(SubSeq(e, m, n)) = n - m + 1
        /\ \A i \in 1 .. n - m + 1 : SubSeq(e, m, n)[i] = e[m + i - 1]
    BY <2>1, SubSeqProperties
  <2>3. n - m + 1 = Window /\ \A i \in 1 .. Window : m + i - 1 = n - Window + i
    BY <1>1
  <2> QED BY <1>1, <1>3, <2>1, <2>2, <2>3
<1> QED BY <1>2, <1>3

LEMMA EntriesAre ==
    ASSUME NEW log \in Seq(Turns)
    PROVE  /\ Entries(log) \in Seq(Said) /\ Len(Entries(log)) = 2 * Len(log)
           /\ \A k \in 1 .. 2 * Len(log) :
                 /\ (k + 1) \div 2 \in 1 .. Len(log)
                 /\ Entries(log)[k] = <<IF k % 2 = 1 THEN "user" ELSE "entity",
                                        log[(k + 1) \div 2]>>
<1>1. Len(log) \in Nat /\ \A i \in 1 .. Len(log) : log[i] \in Turns
  BY ElementOfSeq
<1>2. \A k \in 1 .. 2 * Len(log) : (k + 1) \div 2 \in 1 .. Len(log)
  BY <1>1
<1>3. \A k \in 1 .. 2 * Len(log) :
         <<IF k % 2 = 1 THEN "user" ELSE "entity", log[(k + 1) \div 2]>> \in Said
  BY <1>1, <1>2 DEF Said
<1>4. Entries(log) \in [1 .. 2 * Len(log) -> Said]
  BY <1>3 DEF Entries
<1>5. Entries(log) \in Seq(Said) /\ Len(Entries(log)) = 2 * Len(log)
  BY <1>1, <1>4
<1> QED BY <1>2, <1>5 DEF Entries

LEMMA HydrateIs ==
    ASSUME NEW log \in Seq(Turns)
    PROVE  Hydrate(log) \in Seq(Said) /\ Len(Hydrate(log)) <= Window
<1>1. Keep(log) \in Seq(Turns)
  BY KeepIs
<1>2. Entries(Keep(log)) \in Seq(Said)
  BY <1>1, EntriesAre
<1>3. Len(Entries(Keep(log))) \in Nat /\ Window \in Nat
  BY <1>2, TurnAssumption
<1> QED BY <1>2, <1>3, KeepIs DEF Hydrate

-----------------------------------------------------------------------------
(* What the steps of a thread do *)

\* Parts of a thread's record that a step leaves alone.
Keeps(t) ==
    /\ thread'[t].gen = thread[t].gen /\ thread'[t].kind = thread[t].kind
    /\ thread'[t].mine = thread[t].mine /\ thread'[t].sum = thread[t].sum

LEMMA HearDoes ==
    ASSUME TypeInv, NEW t \in Turns, Hear(t)
    PROVE  /\ TypeInv' /\ UNCHANGED <<disk, loop, lock, task, closing, used, seen>>
           /\ Only(t) /\ Keeps(t) /\ thread[t].at = "hear"
           /\ thread'[t].at = IF thread[t].kind = "event" THEN "save" ELSE "user"
           /\ thread'[t].base = loop.cur /\ thread'[t].snap = thread[t].snap
<1> DEFINE at == IF thread[t].kind = "event" THEN "save" ELSE "user"
           r == [thread[t] EXCEPT !.base = loop.cur, !.at = at]
<1>1. thread[t] \in Threads /\ loop.cur \in Nat /\ at \in Places
  BY LoopIs DEF TypeInv, Places
<1>2. thread' = [thread EXCEPT ![t] = r] /\ thread[t].at = "hear"
      /\ UNCHANGED <<disk, loop, lock, task, closing, used, seen>>
  BY DEF Hear
<1> HIDE DEF at
<1>3. /\ r \in Threads /\ r.at = at /\ r.base = loop.cur /\ r.snap = thread[t].snap
      /\ r.gen = thread[t].gen /\ r.kind = thread[t].kind
      /\ r.mine = thread[t].mine /\ r.sum = thread[t].sum
  BY <1>1 DEF Threads
<1> HIDE DEF r
<1>4. Only(t) /\ thread'[t] = r
  BY <1>2, <1>3, Become DEF TypeInv
<1>5. TypeInv'
  BY <1>2, <1>4 DEF TypeInv, Only
<1> QED BY <1>2, <1>3, <1>4, <1>5 DEF Keeps, at

\* An entry of a turn that the application's loop remembers.
LEMMA RememberDoes ==
    ASSUME TypeInv, NEW t \in Turns, NEW role \in {"user", "entity"}, Remember(t, role)
    PROVE  /\ loop' \in Loops /\ loop'.gen = loop.gen /\ loop'.cur = loop.cur
           /\ loop'.short = IF thread[t].gen = loop.gen
                            THEN Keep(Append(loop.short, <<role, t>>)) ELSE loop.short
<1>1. loop \in Loops /\ loop.short \in Seq(Said) /\ <<role, t>> \in Said
  BY LoopIs DEF TypeInv, Said
<1> DEFINE x == Keep(Append(loop.short, <<role, t>>))
<1>2. x \in Seq(Said)
  BY <1>1, AppendProperties, KeepIs
<1>3. CASE thread[t].gen = loop.gen
  <2>1. loop' = [loop EXCEPT !.short = x]
    BY <1>3 DEF Remember
  <2> HIDE DEF x
  <2>2. loop' \in Loops /\ loop'.gen = loop.gen /\ loop'.cur = loop.cur /\ loop'.short = x
    BY <1>1, <1>2, <2>1, ShortReplaced
  <2> QED BY <1>3, <2>2 DEF x
<1>4. CASE thread[t].gen # loop.gen
  BY <1>1, <1>4 DEF Remember
<1> QED BY <1>3, <1>4

LEMMA AddUserDoes ==
    ASSUME TypeInv, NEW t \in Turns, AddUser(t)
    PROVE  /\ TypeInv' /\ UNCHANGED <<disk, lock, task, closing, used, seen>>
           /\ thread[t].at = "user" /\ Goes(t, "save")
           /\ loop'.gen = loop.gen /\ loop'.cur = loop.cur
           /\ loop'.short = IF thread[t].gen = loop.gen
                            THEN Keep(Append(loop.short, <<"user", t>>)) ELSE loop.short
<1>1. UNCHANGED <<disk, lock, task, closing, used, seen>> /\ thread[t].at = "user"
      /\ Goto(t, "save") /\ Remember(t, "user")
  BY DEF AddUser
<1>2. Goes(t, "save")
  BY <1>1, GotoDoes DEF Places
<1>3. loop' \in Loops /\ loop'.gen = loop.gen /\ loop'.cur = loop.cur
      /\ loop'.short = IF thread[t].gen = loop.gen
                       THEN Keep(Append(loop.short, <<"user", t>>)) ELSE loop.short
  BY <1>1, RememberDoes
<1>4. TypeInv'
  BY <1>1, <1>2, <1>3 DEF TypeInv, Goes, Only
<1> QED BY <1>1, <1>2, <1>3, <1>4

LEMMA SaveDoes ==
    ASSUME TypeInv, NEW t \in Turns, SaveSnapshot(t)
    PROVE  /\ TypeInv' /\ UNCHANGED <<loop, lock, task, closing, used, seen>>
           /\ Only(t) /\ Keeps(t) /\ thread[t].at = "save"
           /\ thread'[t].at = "adopt" /\ thread'[t].snap = Len(disk.snaps) + 1
           /\ thread'[t].base = thread[t].base
           /\ disk'.snaps = Append(disk.snaps, thread[t].base) /\ disk'.episodes = disk.episodes
           /\ disk'.summaries = disk.summaries /\ disk'.log = disk.log
<1> DEFINE n == Len(disk.snaps) + 1
           r == [thread[t] EXCEPT !.snap = n, !.at = "adopt"]
           x == Append(disk.snaps, thread[t].base)
<1>1. thread[t] \in Threads /\ disk \in Disks /\ thread[t].base \in Nat
      /\ disk.snaps \in Seq(Nat) /\ Len(disk.snaps) \in Nat
  BY ThreadIs, DiskIs DEF TypeInv
<1>2. thread' = [thread EXCEPT ![t] = r] /\ thread[t].at = "save"
      /\ disk' = [disk EXCEPT !.snaps = x]
      /\ UNCHANGED <<loop, lock, task, closing, used, seen>>
  BY DEF SaveSnapshot
<1> n \in Nat /\ "adopt" \in Places
  BY <1>1 DEF Places
<1> HIDE DEF n
<1>3. /\ r \in Threads /\ r.at = "adopt" /\ r.snap = n
      /\ r.base = thread[t].base /\ r.gen = thread[t].gen /\ r.kind = thread[t].kind
      /\ r.mine = thread[t].mine /\ r.sum = thread[t].sum
  BY <1>1 DEF Threads
<1> HIDE DEF r
<1>4. Only(t) /\ thread'[t] = r
  BY <1>2, <1>3, Become DEF TypeInv
<1>5. x \in Seq(Nat)
  BY <1>1
<1> HIDE DEF x
<1>6. disk' \in Disks /\ disk'.snaps = x /\ disk'.episodes = disk.episodes
      /\ disk'.summaries = disk.summaries /\ disk'.log = disk.log
  BY <1>1, <1>2, <1>5, SnapsReplaced
<1>7. TypeInv'
  BY <1>2, <1>4, <1>6 DEF TypeInv, Only
<1> QED BY <1>2, <1>3, <1>4, <1>6, <1>7 DEF Keeps, x, n

LEMMA AdoptDoes ==
    ASSUME TypeInv, NEW t \in Turns, Adopt(t)
    PROVE  /\ TypeInv' /\ UNCHANGED <<disk, lock, task, closing, used>>
           /\ thread[t].at = "adopt"
           /\ loop'.gen = loop.gen /\ loop'.short = loop.short
           /\ loop'.cur = IF thread[t].gen = loop.gen THEN thread[t].snap ELSE loop.cur
           /\ \/ thread[t].kind = "event" /\ Ends(t, "done")
              \/ /\ thread[t].kind # "event"
                 /\ Only(t) /\ Keeps(t) /\ thread'[t].at = "episodes"
                 /\ thread'[t].base = 0 /\ thread'[t].snap = 0 /\ UNCHANGED seen
<1>1. thread[t] \in Threads /\ loop \in Loops /\ thread[t].snap \in Nat
  BY ThreadIs DEF TypeInv
<1>2. UNCHANGED <<disk, lock, task, closing, used>> /\ thread[t].at = "adopt"
      /\ loop' = IF thread[t].gen = loop.gen THEN [loop EXCEPT !.cur = thread[t].snap] ELSE loop
  BY DEF Adopt
<1>3. loop' \in Loops /\ loop'.gen = loop.gen /\ loop'.short = loop.short
      /\ loop'.cur = IF thread[t].gen = loop.gen THEN thread[t].snap ELSE loop.cur
  <2>1. CASE thread[t].gen = loop.gen
    BY <1>1, <1>2, <2>1, CurReplaced
  <2>2. CASE thread[t].gen # loop.gen
    BY <1>1, <1>2, <2>2
  <2> QED BY <2>1, <2>2
<1>4. CASE thread[t].kind = "event"
  <2>1. Ends(t, "done")
    BY <1>4, StopDoes DEF Adopt
  <2>2. TypeInv'
    BY <1>2, <1>3, <2>1 DEF TypeInv, Ends, Only
  <2> QED BY <1>2, <1>3, <1>4, <2>1, <2>2
<1>5. CASE thread[t].kind # "event"
  <2> DEFINE r == [thread[t] EXCEPT !.at = "episodes", !.base = 0, !.snap = 0]
  <2>1. thread' = [thread EXCEPT ![t] = r] /\ UNCHANGED seen
    BY <1>5 DEF Adopt
  <2>2. /\ r \in Threads /\ r.at = "episodes" /\ r.base = 0 /\ r.snap = 0
        /\ r.gen = thread[t].gen /\ r.kind = thread[t].kind
        /\ r.mine = thread[t].mine /\ r.sum = thread[t].sum
    BY <1>1 DEF Threads, Places
  <2> HIDE DEF r
  <2>3. Only(t) /\ thread'[t] = r
    BY <2>1, <2>2, Become DEF TypeInv
  <2>4. TypeInv'
    BY <1>2, <1>3, <2>1, <2>3 DEF TypeInv, Only
  <2> QED BY <1>2, <1>3, <1>5, <2>1, <2>2, <2>3, <2>4 DEF Keeps
<1> QED BY <1>4, <1>5

LEMMA StoreDoes ==
    ASSUME TypeInv, NEW t \in Turns, StoreEpisode(t)
    PROVE  /\ TypeInv' /\ UNCHANGED <<loop, lock, task, closing, seen>>
           /\ Only(t) /\ Keeps(t) /\ thread[t].at = "episodes"
           /\ thread'[t].at \in {"episodes", "reply"}
           /\ thread'[t].base = thread[t].base /\ thread'[t].snap = thread[t].snap
           /\ \/ UNCHANGED disk
              \/ /\ disk'.snaps = disk.snaps /\ disk'.episodes = Append(disk.episodes, 0)
                 /\ disk'.summaries = disk.summaries /\ disk'.log = disk.log
<1>1. thread[t] \in Threads /\ thread[t].left \in Nat /\ disk \in Disks
      /\ disk.episodes \in Seq(Nat)
  BY ThreadIs, DiskIs DEF TypeInv
<1>2. UNCHANGED <<loop, lock, task, closing, seen>> /\ thread[t].at = "episodes"
  BY DEF StoreEpisode
<1>3. CASE thread[t].left = 0
  <2>1. Goes(t, "reply") /\ UNCHANGED <<disk, used>>
    BY <1>3, GotoDoes DEF StoreEpisode, Places
  <2>2. TypeInv'
    BY <1>2, <2>1 DEF TypeInv, Goes, Only
  <2> QED BY <1>2, <2>1, <2>2 DEF Goes, Keeps
<1>4. CASE thread[t].left # 0
  <2> DEFINE n == thread[t].left - 1
             r == [thread[t] EXCEPT !.left = n]
             x == Append(disk.episodes, 0)
  <2>0. (disk' = [disk EXCEPT !.episodes = x] /\ UNCHANGED used) \/ (Fault /\ UNCHANGED disk)
    BY <1>4 DEF StoreEpisode
  <2>1. thread' = [thread EXCEPT ![t] = r]
    BY <1>4 DEF StoreEpisode
  <2>2. n \in Nat
    BY <1>1, <1>4
  <2> HIDE DEF n
  <2>3. /\ r \in Threads /\ r.at = thread[t].at /\ r.base = thread[t].base
        /\ r.snap = thread[t].snap /\ r.gen = thread[t].gen /\ r.kind = thread[t].kind
        /\ r.mine = thread[t].mine /\ r.sum = thread[t].sum
    BY <1>1, <2>2 DEF Threads
  <2> HIDE DEF r
  <2>4. Only(t) /\ thread'[t] = r
    BY <2>1, <2>3, Become DEF TypeInv
  <2>5. x \in Seq(Nat)
    BY <1>1
  <2> HIDE DEF x
  <2>6. used' \in Nat /\ disk' \in Disks
        /\ \/ UNCHANGED disk
           \/ disk'.snaps = disk.snaps /\ disk'.episodes = x
              /\ disk'.summaries = disk.summaries /\ disk'.log = disk.log
    <3>1. CASE disk' = [disk EXCEPT !.episodes = x] /\ UNCHANGED used
      BY <1>1, <2>5, <3>1, EpisodesReplaced DEF TypeInv
    <3>2. CASE Fault /\ UNCHANGED disk
      BY <3>2 DEF TypeInv, Fault
    <3> QED BY <2>0, <3>1, <3>2
  <2>7. TypeInv'
    BY <1>2, <2>4, <2>6 DEF TypeInv, Only
  <2> QED BY <1>2, <2>3, <2>4, <2>6, <2>7 DEF Keeps, x
<1> QED BY <1>3, <1>4

LEMMA ReplyDoes ==
    ASSUME TypeInv, NEW t \in Turns, Reply(t)
    PROVE  /\ TypeInv' /\ UNCHANGED <<lock, task, closing>>
           /\ Only(t) /\ Keeps(t) /\ thread[t].at = "reply" /\ thread'[t].at = "influence"
           /\ thread'[t].base = thread[t].base /\ thread'[t].snap = thread[t].snap
           /\ loop'.gen = loop.gen /\ loop'.cur = loop.cur
           /\ loop'.short = IF thread[t].gen = loop.gen
                            THEN Keep(Append(loop.short, <<"entity", t>>)) ELSE loop.short
           /\ disk'.snaps = disk.snaps /\ disk'.episodes = disk.episodes
           /\ disk'.summaries = disk.summaries
           /\ seen'.overlap = seen.overlap /\ seen'.unread = seen.unread
           /\ \/ disk'.log = Append(disk.log, t) /\ UNCHANGED seen
              \/ disk'.log = disk.log /\ seen'.gaps = seen.gaps \cup {t}
<1>1. thread[t] \in Threads /\ disk \in Disks /\ disk.log \in Seq(Turns)
      /\ seen \in Seens /\ seen.gaps \cup {t} \in SUBSET Turns
  BY DiskIs, SeenReplaced DEF TypeInv
<1> DEFINE r == [thread[t] EXCEPT !.at = "influence", !.left = 0]
           x == Append(disk.log, t)
           g == seen.gaps \cup {t}
<1>2. thread' = [thread EXCEPT ![t] = r] /\ thread[t].at = "reply" /\ Remember(t, "entity")
      /\ UNCHANGED <<lock, task, closing>>
      /\ \/ disk' = [disk EXCEPT !.log = x] /\ UNCHANGED <<used, seen>>
         \/ Fault /\ seen' = [seen EXCEPT !.gaps = g] /\ UNCHANGED disk
  BY DEF Reply
<1>3. /\ r \in Threads /\ r.at = "influence" /\ r.base = thread[t].base
      /\ r.snap = thread[t].snap /\ r.gen = thread[t].gen /\ r.kind = thread[t].kind
      /\ r.mine = thread[t].mine /\ r.sum = thread[t].sum
  BY <1>1 DEF Threads, Places
<1> HIDE DEF r
<1>4. Only(t) /\ thread'[t] = r
  BY <1>2, <1>3, Become DEF TypeInv
<1>5. loop' \in Loops /\ loop'.gen = loop.gen /\ loop'.cur = loop.cur
      /\ loop'.short = IF thread[t].gen = loop.gen
                       THEN Keep(Append(loop.short, <<"entity", t>>)) ELSE loop.short
  BY <1>2, RememberDoes
<1>6. x \in Seq(Turns) /\ g \in SUBSET Turns
  BY <1>1
<1> HIDE DEF x, g
<1>7. /\ used' \in Nat /\ disk' \in Disks /\ seen' \in Seens
      /\ disk'.snaps = disk.snaps /\ disk'.episodes = disk.episodes
      /\ disk'.summaries = disk.summaries /\ seen'.overlap = seen.overlap
      /\ seen'.unread = seen.unread
      /\ \/ disk'.log = x /\ UNCHANGED seen
         \/ disk'.log = disk.log /\ seen'.gaps = g
  <2>1. CASE disk' = [disk EXCEPT !.log = x] /\ UNCHANGED <<used, seen>>
    BY <1>1, <1>6, <2>1, LogReplaced DEF TypeInv
  <2>2. CASE Fault /\ seen' = [seen EXCEPT !.gaps = g] /\ UNCHANGED disk
    <3>1. used' \in Nat
      BY <2>2 DEF TypeInv, Fault
    <3>2. /\ seen' \in Seens /\ seen'.overlap = seen.overlap /\ seen'.gaps = g
          /\ seen'.unread = seen.unread
      BY <1>1, <1>6, <2>2, SeenReplaced
    <3> QED BY <1>1, <2>2, <3>1, <3>2
  <2> QED BY <1>2, <2>1, <2>2
<1>8. TypeInv'
  BY <1>2, <1>4, <1>5, <1>7 DEF TypeInv, Only
<1> QED BY <1>2, <1>3, <1>4, <1>5, <1>7, <1>8 DEF Keeps, x, g

\* What may happen to one task, the others staying what they are.
TaskOnly(t, what) == task'[t] = what /\ \A s \in Turns : s # t => task'[s] = task[s]

LEMMA TaskBecomes ==
    ASSUME TypeInv, NEW t \in Turns, NEW what \in {"none", "queued", "done", "failed", "lost"},
           task' = [task EXCEPT ![t] = what]
    PROVE  /\ task' \in [Turns -> {"none", "queued", "done", "failed", "lost"}]
           /\ TaskOnly(t, what)
  BY DEF TypeInv, TaskOnly

LEMMA EnqueueDoes ==
    ASSUME TypeInv, NEW t \in Turns, Enqueue(t)
    PROVE  /\ TypeInv' /\ UNCHANGED <<disk, lock, closing, used>>
           /\ thread[t].at = "influence"
           /\ loop'.gen = loop.gen /\ loop'.cur = loop.cur /\ loop'.short = loop.short
           /\ \/ /\ thread[t].gen = loop.gen /\ TaskOnly(t, "queued")
                 /\ Goes(t, "reflect") /\ UNCHANGED seen
              \/ TaskOnly(t, "done") /\ Goes(t, "reflect") /\ UNCHANGED seen
              \/ Ends(t, "failed") /\ UNCHANGED task
<1>1. loop \in Loops /\ UNCHANGED <<disk, lock, closing, used>> /\ thread[t].at = "influence"
  BY DEF Enqueue, TypeInv
<1>2. CASE /\ thread[t].gen = loop.gen /\ task' = [task EXCEPT ![t] = "queued"]
           /\ loop' = [loop EXCEPT !.futures = {s \in @ : task[s] = "queued"} \cup {t}]
           /\ Goto(t, "reflect") /\ UNCHANGED seen
  <2> DEFINE x == {s \in loop.futures : task[s] = "queued"} \cup {t}
  <2>1. loop' = [loop EXCEPT !.futures = x] /\ x \in SUBSET Turns
    BY <1>1, <1>2, LoopIs
  <2> HIDE DEF x
  <2>2. loop' \in Loops /\ loop'.gen = loop.gen /\ loop'.cur = loop.cur
        /\ loop'.short = loop.short
    BY <1>1, <2>1, FuturesReplaced
  <2>3. Goes(t, "reflect") /\ TaskOnly(t, "queued")
        /\ task' \in [Turns -> {"none", "queued", "done", "failed", "lost"}]
    BY <1>2, GotoDoes, TaskBecomes DEF Places
  <2>4. TypeInv'
    BY <1>1, <1>2, <2>2, <2>3 DEF TypeInv, Goes, Only
  <2> QED BY <1>1, <1>2, <2>2, <2>3, <2>4
<1>3. CASE /\ task' = [task EXCEPT ![t] = "done"] /\ UNCHANGED loop
           /\ Goto(t, "reflect") /\ UNCHANGED seen
  <2>1. Goes(t, "reflect") /\ TaskOnly(t, "done")
        /\ task' \in [Turns -> {"none", "queued", "done", "failed", "lost"}]
    BY <1>3, GotoDoes, TaskBecomes DEF Places
  <2>2. TypeInv'
    BY <1>1, <1>3, <2>1 DEF TypeInv, Goes, Only
  <2> QED BY <1>1, <1>3, <2>1, <2>2
<1>4. CASE Stop(t, "failed") /\ UNCHANGED <<task, loop>>
  <2>1. Ends(t, "failed")
    BY <1>4, StopDoes
  <2>2. TypeInv'
    BY <1>1, <1>4, <2>1 DEF TypeInv, Ends, Only
  <2> QED BY <1>1, <1>4, <2>1, <2>2
<1> QED BY <1>2, <1>3, <1>4 DEF Enqueue

LEMMA ReflectDoes ==
    ASSUME TypeInv, NEW t \in Turns, Reflect(t)
    PROVE  /\ TypeInv' /\ UNCHANGED <<disk, loop, lock, task, closing>>
           /\ thread[t].at = "reflect"
           /\ \/ /\ Only(t) /\ thread'[t].at = "summarise" /\ thread'[t].mine = Unreflected
                 /\ thread'[t].gen = thread[t].gen /\ thread'[t].kind = thread[t].kind
                 /\ thread'[t].base = thread[t].base /\ thread'[t].snap = thread[t].snap
                 /\ UNCHANGED seen
              \/ Ends(t, "done")
<1>1. thread[t] \in Threads /\ UNCHANGED <<disk, loop, lock, task, closing>>
      /\ thread[t].at = "reflect"
  BY DEF Reflect, TypeInv
<1>2. used' \in Nat
  BY DEF Reflect, TypeInv, Fault
<1> DEFINE r == [thread[t] EXCEPT !.mine = Unreflected, !.at = "summarise"]
<1>3. CASE thread' = [thread EXCEPT ![t] = r] /\ UNCHANGED seen
  <2>1. Unreflected \in SUBSET Nat
    BY DEF Unreflected
  <2>2. r \in Threads /\ r.at = "summarise" /\ r.mine = Unreflected /\ r.gen = thread[t].gen
        /\ r.kind = thread[t].kind /\ r.base = thread[t].base /\ r.snap = thread[t].snap
    BY <1>1, <2>1 DEF Threads, Places
  <2> HIDE DEF r
  <2>3. Only(t) /\ thread'[t] = r
    BY <1>3, <2>2, Become DEF TypeInv
  <2>4. TypeInv'
    BY <1>1, <1>2, <1>3, <2>3 DEF TypeInv, Only
  <2> QED BY <1>1, <1>3, <2>2, <2>3, <2>4
<1>4. CASE Stop(t, "done")
  <2>1. Ends(t, "done")
    BY <1>4, StopDoes
  <2>2. TypeInv'
    BY <1>1, <1>2, <2>1 DEF TypeInv, Ends, Only
  <2> QED BY <1>1, <2>1, <2>2
<1> QED BY <1>3, <1>4 DEF Reflect

\* A reflection has stored its summary and turns to marking.
Stores(t) ==
    /\ Only(t) /\ thread'[t].at = "mark" /\ thread'[t].sum = Len(disk.summaries) + 1
    /\ thread'[t].mine = thread[t].mine
    /\ thread'[t].gen = thread[t].gen /\ thread'[t].kind = thread[t].kind
    /\ thread'[t].base = thread[t].base /\ thread'[t].snap = thread[t].snap
    /\ disk'.snaps = disk.snaps /\ disk'.episodes = disk.episodes
    /\ disk'.summaries = Append(disk.summaries, thread[t].mine) /\ disk'.log = disk.log
    /\ UNCHANGED seen

LEMMA SummariseDoes ==
    ASSUME TypeInv, NEW t \in Turns, Summarise(t)
    PROVE  /\ TypeInv' /\ UNCHANGED <<loop, lock, task, closing>>
           /\ thread[t].at = "summarise"
           /\ Stores(t) \/ (Ends(t, "done") /\ UNCHANGED disk)
<1> DEFINE n == Len(disk.summaries) + 1
           r == [thread[t] EXCEPT !.sum = n, !.at = "mark"]
           x == Append(disk.summaries, thread[t].mine)
<1>1. thread[t] \in Threads /\ disk \in Disks /\ thread[t].mine \in SUBSET Nat
      /\ disk.summaries \in Seq(SUBSET Nat) /\ Len(disk.summaries) \in Nat
  BY ThreadIs, DiskIs DEF TypeInv
<1>2. thread[t].at = "summarise" /\ UNCHANGED <<loop, lock, task, closing>>
  BY DEF Summarise
<1>3. CASE /\ thread' = [thread EXCEPT ![t] = r] /\ disk' = [disk EXCEPT !.summaries = x]
           /\ UNCHANGED <<used, seen>>
  <2> n \in Nat /\ "mark" \in Places
    BY <1>1 DEF Places
  <2> HIDE DEF n
  <2>1. /\ r \in Threads /\ r.at = "mark" /\ r.sum = n /\ r.snap = thread[t].snap
        /\ r.base = thread[t].base /\ r.gen = thread[t].gen /\ r.kind = thread[t].kind
        /\ r.mine = thread[t].mine
    BY <1>1 DEF Threads
  <2> HIDE DEF r
  <2>2. Only(t) /\ thread'[t] = r
    BY <1>3, <2>1, Become DEF TypeInv
  <2>3. x \in Seq(SUBSET Nat)
    BY <1>1, AppendProperties
  <2> HIDE DEF x
  <2>4. disk' \in Disks /\ disk'.snaps = disk.snaps /\ disk'.episodes = disk.episodes
        /\ disk'.summaries = x /\ disk'.log = disk.log
    BY <1>1, <1>3, <2>3, SummariesReplaced
  <2>5. TypeInv'
    BY <1>2, <1>3, <2>2, <2>4 DEF TypeInv, Only
  <2>6. Stores(t)
    BY <1>3, <2>1, <2>2, <2>4 DEF Stores, x, n
  <2> QED BY <1>2, <2>5, <2>6
<1>4. CASE Fault /\ Stop(t, "done") /\ UNCHANGED disk
  <2>1. Ends(t, "done") /\ used' \in Nat
    BY <1>4, StopDoes DEF TypeInv, Fault
  <2>2. TypeInv'
    BY <1>2, <1>4, <2>1 DEF TypeInv, Ends, Only
  <2> QED BY <1>2, <1>4, <2>1, <2>2
<1> QED BY <1>3, <1>4 DEF Summarise

\* The smallest number of a set is one of its members.
LEMMA MinIs ==
    ASSUME NEW S \in SUBSET Nat, S # {}
    PROVE  Min(S) \in S
<1> DEFINE less == {ss \in Nat \X Nat : ss[1] < ss[2]}
<1>1. IsWellFoundedOn(less, Nat)
  BY NatLessThanWellFounded, Zenon DEF OpToRel
<1> HIDE DEF less
<1>2. PICK x \in S : \A y \in S : ~ (<<y, x>> \in less)
  BY <1>1, WFMin, Zenon
<1>3. \A y, z \in Nat : y < z => <<y, z>> \in less
  <2> SUFFICES ASSUME NEW y \in Nat, NEW z \in Nat, y < z PROVE <<y, z>> \in less
    OBVIOUS
  <2>1. <<y, z>> \in Nat \X Nat /\ <<y, z>>[1] < <<y, z>>[2]
    OBVIOUS
  <2> QED BY <2>1, Zenon DEF less
<1>4. \A y \in S : x \in Nat /\ y \in Nat /\ ~ (y < x)
  BY <1>2, <1>3, Zenon
<1>5. \A y \in S : x <= y
  BY <1>4
<1> QED BY <1>5 DEF Min

LEMMA MarkDoes ==
    ASSUME TypeInv, NEW t \in Turns, MarkReflected(t),
           thread[t].mine \subseteq 1 .. Len(disk.episodes)
    PROVE  /\ TypeInv' /\ UNCHANGED <<loop, lock, task, closing>> /\ thread[t].at = "mark"
           /\ \/ /\ thread[t].mine # {} /\ UNCHANGED seen
                 /\ Only(t) /\ thread'[t].at = "mark" /\ thread'[t].sum = thread[t].sum
                 /\ thread'[t].mine \subseteq thread[t].mine
                 /\ thread'[t].gen = thread[t].gen /\ thread'[t].kind = thread[t].kind
                 /\ thread'[t].base = thread[t].base /\ thread'[t].snap = thread[t].snap
                 /\ disk'.snaps = disk.snaps /\ disk'.summaries = disk.summaries
                 /\ disk'.log = disk.log
                 /\ \E i \in thread[t].mine :
                       disk'.episodes = [disk.episodes EXCEPT ![i] = thread[t].sum]
              \/ Ends(t, "done") /\ UNCHANGED disk
<1> DEFINE old == thread[t].mine
           i == Min(old)
           r == [thread[t] EXCEPT !.mine = old \ {i}]
           x == [disk.episodes EXCEPT ![i] = thread[t].sum]
<1>1. thread[t] \in Threads /\ disk \in Disks /\ old \in SUBSET Nat /\ thread[t].sum \in Nat
      /\ disk.episodes \in Seq(Nat)
  BY ThreadIs, DiskIs DEF TypeInv
<1>2. UNCHANGED <<loop, lock, task, closing>> /\ thread[t].at = "mark"
  BY DEF MarkReflected
<1>3. CASE old # {} /\ disk' = [disk EXCEPT !.episodes = x]
           /\ thread' = [thread EXCEPT ![t] = r] /\ UNCHANGED <<seen, used>>
  <2>1. i \in old
    BY <1>1, <1>3, MinIs
  <2> HIDE DEF i
  <2>2. x \in Seq(Nat)
    BY <1>1, <2>1, ExceptSeq
  <2>3. disk' \in Disks /\ disk'.snaps = disk.snaps /\ disk'.episodes = x
        /\ disk'.summaries = disk.summaries /\ disk'.log = disk.log
    <3> HIDE DEF x
    <3> QED BY <1>1, <1>3, <2>2, EpisodesReplaced
  <2>4. old \ {i} \in SUBSET Nat
    BY <1>1
  <2>5. /\ r \in Threads /\ r.mine = old \ {i} /\ r.at = thread[t].at
        /\ r.sum = thread[t].sum /\ r.base = thread[t].base /\ r.snap = thread[t].snap
        /\ r.gen = thread[t].gen /\ r.kind = thread[t].kind
    BY <1>1, <2>4 DEF Threads
  <2> HIDE DEF r
  <2>6. Only(t) /\ thread'[t] = r
    BY <1>3, <2>5, Become DEF TypeInv
  <2>7. TypeInv'
    BY <1>2, <1>3, <2>3, <2>6 DEF TypeInv, Only
  <2> QED BY <1>2, <1>3, <2>1, <2>3, <2>5, <2>6, <2>7
<1>4. CASE Stop(t, "done") /\ UNCHANGED disk
  <2>1. Ends(t, "done") /\ used' \in Nat
    BY <1>4, StopDoes DEF MarkReflected, TypeInv, Fault
  <2>2. TypeInv'
    BY <1>2, <1>4, <2>1 DEF TypeInv, Ends, Only
  <2> QED BY <1>2, <1>4, <2>1, <2>2
<1> QED BY <1>3, <1>4 DEF MarkReflected, ToMark

LEMMA RaiseDoes ==
    ASSUME TypeInv, NEW t \in Turns, Raise(t)
    PROVE  /\ TypeInv' /\ UNCHANGED <<disk, loop, lock, task, closing>>
           /\ thread[t].at \in {"user", "save", "reply", "influence"} /\ Ends(t, "failed")
<1>1. UNCHANGED <<disk, loop, lock, task, closing>> /\ Stop(t, "failed")
      /\ thread[t].at \in {"user", "save", "reply", "influence"}
  BY DEF Raise
<1>2. used' \in Nat
  BY DEF Raise, TypeInv, Fault
<1>3. Ends(t, "failed")
  BY <1>1, StopDoes
<1> QED BY <1>1, <1>2, <1>3 DEF TypeInv, Ends, Only

-----------------------------------------------------------------------------
(* What requests, the worker, closing and a restart do *)

LEMMA BeginsDoes ==
    ASSUME TypeInv, NEW t \in Turns, Ask(t) \/ Dispatch(t)
    PROVE  /\ TypeInv' /\ UNCHANGED <<disk, loop, task, closing>>
           /\ lock' = t /\ thread[t].at = "none"
           /\ Only(t) /\ thread'[t].at = "hear" /\ thread'[t].gen = loop.gen
           /\ thread'[t].mine = {} /\ thread'[t].base = 0 /\ thread'[t].snap = 0
           /\ seen'.gaps = seen.gaps /\ seen'.unread = seen.unread
           /\ seen'.overlap = (seen.overlap \/ \E s \in Turns : s # t /\ Runs(s))
<1>1. PICK kind \in {"turn", "event"}, weight \in Nat : Begin(t, kind, weight)
  <2>1. 0 \in Nat /\ Weights \subseteq Nat
    BY TurnAssumption
  <2>2. CASE Ask(t)
    BY <2>1, <2>2 DEF Ask
  <2>3. CASE Dispatch(t)
    BY <2>1, <2>3 DEF Dispatch
  <2> QED BY <2>2, <2>3
<1>2. UNCHANGED <<disk, loop, task, closing, used>> /\ lock' = t /\ thread[t].at = "none"
  BY DEF Ask, Dispatch, Starts
<1>3. /\ Only(t) /\ thread'[t].at = "hear" /\ thread'[t].gen = loop.gen
      /\ thread'[t].mine = {} /\ thread'[t].base = 0 /\ thread'[t].snap = 0
      /\ seen' \in Seens /\ seen'.gaps = seen.gaps /\ seen'.unread = seen.unread
      /\ seen'.overlap = (seen.overlap \/ \E s \in Turns : s # t /\ Runs(s))
  BY <1>1, BeginDoes
<1>4. TypeInv'
  BY <1>2, <1>3 DEF TypeInv, Only
<1> QED BY <1>2, <1>3, <1>4

\* The lock is given back.
LEMMA UnlockDoes ==
    ASSUME TypeInv, NEW t \in Turns, Finish(t) \/ Cancel(t)
    PROVE  TypeInv' /\ lock' = 0 /\ UNCHANGED <<disk, loop, thread, task, closing, seen>>
<1>1. lock' = 0 /\ UNCHANGED <<disk, loop, thread, task, closing, seen>>
  BY DEF Finish, Cancel
<1>2. used' \in Nat
  BY DEF Finish, Cancel, Fault, TypeInv
<1> QED BY <1>1, <1>2 DEF TypeInv

LEMMA WorkDoes ==
    ASSUME TypeInv, NEW t \in Turns, Work(t)
    PROVE  /\ TypeInv' /\ UNCHANGED <<disk, loop, thread, lock, closing, seen>>
           /\ \E what \in {"done", "failed"} : TaskOnly(t, what)
<1>1. UNCHANGED <<disk, loop, thread, lock, closing, seen>> /\ used' \in Nat
  BY DEF Work, Fault, TypeInv
<1>2. PICK what \in {"done", "failed"} : task' = [task EXCEPT ![t] = what]
  BY DEF Work
<1>3. /\ task' \in [Turns -> {"none", "queued", "done", "failed", "lost"}]
      /\ TaskOnly(t, what)
  BY <1>2, TaskBecomes
<1> QED BY <1>1, <1>3 DEF TypeInv

LEMMA CloseDoes ==
    ASSUME TypeInv, Close
    PROVE  /\ TypeInv' /\ UNCHANGED <<disk, thread, lock, task, seen>>
           /\ loop'.gen = loop.gen /\ loop'.cur = loop.cur /\ loop'.short = loop.short
<1>1. /\ UNCHANGED <<disk, thread, lock, task, seen>>
      /\ closing' = [on |-> TRUE, futures |-> loop.futures]
      /\ loop' = [loop EXCEPT !.futures = {}]
  BY DEF Close
<1>2. used' \in Nat
  BY DEF Close, Fault, TypeInv
<1>3. loop \in Loops /\ loop.futures \subseteq Turns /\ {} \in SUBSET Turns
  BY LoopIs DEF TypeInv
<1>4. loop' \in Loops /\ loop'.gen = loop.gen /\ loop'.cur = loop.cur
      /\ loop'.short = loop.short
  BY <1>1, <1>3, FuturesReplaced
<1>5. closing' \in [on : BOOLEAN, futures : SUBSET Turns]
  BY <1>1, <1>3
<1> QED BY <1>1, <1>2, <1>4, <1>5 DEF TypeInv

LEMMA NewLoopIs ==
    ASSUME TypeInv
    PROVE  /\ NewLoop \in Loops /\ NewLoop.gen = loop.gen + 1
           /\ NewLoop.cur = Len(disk.snaps) /\ NewLoop.short = Hydrate(disk.log)
<1>1. loop.gen + 1 \in Nat /\ Len(disk.snaps) \in Nat /\ disk.log \in Seq(Turns)
  BY LoopIs, DiskIs DEF TypeInv
<1>2. Hydrate(disk.log) \in Seq(Said)
  BY <1>1, HydrateIs
<1> QED BY <1>1, <1>2 DEF NewLoop, Loops

LEMMA RebuildDoes ==
    ASSUME TypeInv, Rebuild
    PROVE  /\ TypeInv' /\ UNCHANGED <<disk, thread, lock, task>>
           /\ \A t \in Turns : task[t] # "queued"
           /\ loop'.gen = loop.gen + 1 /\ loop'.cur = Len(disk.snaps)
           /\ loop'.short = Hydrate(disk.log) /\ seen'.gaps = seen.gaps
           /\ seen'.overlap = (seen.overlap \/ \E t \in Turns : Runs(t))
           /\ seen'.unread = seen.unread \ {Len(disk.snaps)}
<1> DEFINE left == seen.unread \ {Len(disk.snaps)}
<1> DEFINE some == seen.overlap \/ \E t \in Turns : Runs(t)
<1>1. /\ UNCHANGED <<disk, thread, lock, task, used>> /\ loop' = NewLoop
      /\ closing' = [on |-> FALSE, futures |-> {}]
      /\ \A t \in Turns : task[t] # "queued"
  BY DEF Rebuild, CanRebuild
<1>2. seen' = [[seen EXCEPT !.overlap = some] EXCEPT !.unread = left] /\ some \in BOOLEAN
      /\ seen \in Seens /\ left \in SUBSET Nat
  BY SeenReplaced DEF Rebuild, TypeInv
<1> HIDE DEF some, left
<1>3. /\ seen' \in Seens /\ seen'.gaps = seen.gaps
      /\ seen'.overlap = some /\ seen'.unread = left
  BY <1>2 DEF Seens
<1>4. closing' \in [on : BOOLEAN, futures : SUBSET Turns]
  BY <1>1
<1>5. TypeInv'
  BY <1>1, <1>3, <1>4, NewLoopIs DEF TypeInv
<1> QED BY <1>1, <1>3, <1>5, NewLoopIs DEF some, left

LEMMA RebuildRaisesDoes ==
    ASSUME TypeInv, RebuildRaises
    PROVE  TypeInv' /\ UNCHANGED <<disk, loop, thread, lock, task, seen>>
<1>1. UNCHANGED <<disk, loop, thread, lock, task, used, seen>>
      /\ closing' \in [on : BOOLEAN, futures : SUBSET Turns]
  BY DEF RebuildRaises
<1> QED BY <1>1 DEF TypeInv

\* A restart ends every thread that runs, where it stands.
LEMMA RestartDoes ==
    ASSUME TypeInv, Restart
    PROVE  /\ TypeInv' /\ UNCHANGED disk /\ lock' = 0
           /\ seen'.gaps = seen.gaps /\ seen'.overlap = seen.overlap
           /\ seen'.unread = seen.unread \ {Len(disk.snaps)}
           /\ loop'.gen = loop.gen + 1 /\ loop'.cur = Len(disk.snaps)
           /\ loop'.short = Hydrate(disk.log)
           /\ \A t \in Turns :
                 /\ thread'[t].at = IF Runs(t) THEN "lost" ELSE thread[t].at
                 /\ thread'[t].mine = thread[t].mine /\ thread'[t].sum = thread[t].sum
                 /\ thread'[t].gen = thread[t].gen /\ thread'[t].kind = thread[t].kind
                 /\ thread'[t].base = thread[t].base /\ thread'[t].snap = thread[t].snap
                 /\ task'[t] # "queued"
<1> DEFINE left == seen.unread \ {Len(disk.snaps)}
<1>1. /\ UNCHANGED disk /\ lock' = 0 /\ loop' = NewLoop
      /\ seen' = [seen EXCEPT !.unread = left]
      /\ thread' = [t \in Turns |-> IF Runs(t) THEN [thread[t] EXCEPT !.at = "lost"]
                                    ELSE thread[t]]
      /\ task' = [t \in Turns |-> IF task[t] = "queued" THEN "lost" ELSE task[t]]
      /\ closing' = [on |-> FALSE, futures |-> {}]
  BY DEF Restart
<1>2. used' \in Nat /\ left \in SUBSET Nat
  BY SeenReplaced DEF Restart, Fault, TypeInv
<1>9. /\ seen' \in Seens /\ seen'.gaps = seen.gaps /\ seen'.overlap = seen.overlap
      /\ seen'.unread = left
  <2>1. /\ seen \in Seens /\ left \in SUBSET Nat
        /\ seen' = [seen EXCEPT !.unread = left]
    BY <1>1, <1>2 DEF TypeInv
  <2> HIDE DEF left
  <2> QED BY <2>1 DEF Seens
<1>3. ASSUME NEW t \in Turns
      PROVE  LET r == [thread[t] EXCEPT !.at = "lost"] IN
             /\ r \in Threads /\ r.at = "lost" /\ r.mine = thread[t].mine
             /\ r.sum = thread[t].sum /\ r.gen = thread[t].gen /\ r.kind = thread[t].kind
             /\ r.base = thread[t].base /\ r.snap = thread[t].snap
  <2>1. thread[t] \in Threads
    BY DEF TypeInv
  <2> QED BY <2>1 DEF Threads, Places
<1>4. ASSUME NEW t \in Turns
      PROVE  /\ thread'[t] \in Threads
             /\ thread'[t].at = IF Runs(t) THEN "lost" ELSE thread[t].at
             /\ thread'[t].mine = thread[t].mine /\ thread'[t].sum = thread[t].sum
             /\ thread'[t].gen = thread[t].gen /\ thread'[t].kind = thread[t].kind
             /\ thread'[t].base = thread[t].base /\ thread'[t].snap = thread[t].snap
  <2>1. thread[t] \in Threads
    BY DEF TypeInv
  <2>2. CASE Runs(t)
    <3>1. thread'[t] = [thread[t] EXCEPT !.at = "lost"]
      BY <1>1, <2>2
    <3> QED BY <1>3, <2>2, <3>1
  <2>3. CASE ~Runs(t)
    <3>1. thread'[t] = thread[t]
      BY <1>1, <2>3
    <3> QED BY <2>1, <2>3, <3>1
  <2> QED BY <2>2, <2>3
<1>5. thread' \in [Turns -> Threads]
  <2>1. DOMAIN thread' = Turns /\ thread' = [t \in Turns |-> thread'[t]]
    BY <1>1
  <2> QED BY <1>4, <2>1
<1>6. /\ task' \in [Turns -> {"none", "queued", "done", "failed", "lost"}]
      /\ \A t \in Turns : task'[t] # "queued"
  BY <1>1 DEF TypeInv
<1>7. closing' \in [on : BOOLEAN, futures : SUBSET Turns]
  BY <1>1
<1>8. TypeInv'
  BY <1>1, <1>2, <1>5, <1>6, <1>7, <1>9, NewLoopIs DEF TypeInv
<1> QED BY <1>1, <1>4, <1>6, <1>8, <1>9, NewLoopIs

\* A reset adds a snapshot that the loop is not told of.
LEMMA ResetDoes ==
    ASSUME TypeInv, ResetState
    PROVE  LET n == Len(disk.snaps) IN
           /\ TypeInv' /\ UNCHANGED <<loop, thread, lock, task, closing>>
           /\ n \in Nat /\ Len(disk'.snaps) = n + 1 /\ disk'.snaps[n + 1] = n + 1
           /\ \A i \in 1 .. n : disk'.snaps[i] = disk.snaps[i]
           /\ disk'.episodes = disk.episodes /\ disk'.summaries = disk.summaries
           /\ disk'.log = disk.log
           /\ seen'.gaps = seen.gaps /\ seen'.overlap = seen.overlap
           /\ seen'.unread = seen.unread \cup {n + 1}
<1> DEFINE n == Len(disk.snaps)
           x == Append(disk.snaps, n + 1)
           u == seen.unread \cup {n + 1}
<1>1. /\ UNCHANGED <<loop, thread, lock, task, closing>> /\ used' = used + 1
      /\ disk' = [disk EXCEPT !.snaps = x] /\ seen' = [seen EXCEPT !.unread = u]
  BY DEF ResetState, Fault
<1>2. disk \in Disks /\ disk.snaps \in Seq(Nat) /\ n \in Nat /\ seen \in Seens
      /\ used' \in Nat /\ seen.unread \subseteq Nat
  BY <1>1, DiskIs, SeenReplaced DEF TypeInv
<1>3. /\ x \in Seq(Nat) /\ Len(x) = n + 1 /\ x[n + 1] = n + 1
      /\ \A i \in 1 .. n : x[i] = disk.snaps[i]
  <2> DEFINE m == n + 1
  <2>1. m \in Nat
    BY <1>2
  <2> HIDE DEF m
  <2> QED BY <1>2, <2>1, AppendProperties DEF m
<1>4. u \in SUBSET Nat
  BY <1>2
<1> HIDE DEF x, u
<1>5. disk' \in Disks /\ disk'.snaps = x /\ disk'.episodes = disk.episodes
      /\ disk'.summaries = disk.summaries /\ disk'.log = disk.log
  BY <1>1, <1>2, <1>3, SnapsReplaced
<1>6. /\ seen' \in Seens /\ seen'.gaps = seen.gaps /\ seen'.overlap = seen.overlap
      /\ seen'.unread = u
  BY <1>1, <1>2, <1>4, SeenReplaced
<1>7. TypeInv'
  BY <1>1, <1>2, <1>5, <1>6 DEF TypeInv
<1> QED BY <1>1, <1>2, <1>3, <1>5, <1>6, <1>7 DEF u

-----------------------------------------------------------------------------
(* What all steps of a thread have in common *)

\* Where only a turn comes: a presence event is not spoken to and not answered.
Spoken == {"user", "episodes", "reply"}

\* A thread that runs goes on in its loop, keeps the lock where it is, and queues
\* maintenance for the application's loop only.
Moves(t) ==
    /\ Only(t) /\ thread'[t].gen = thread[t].gen /\ thread'[t].kind = thread[t].kind
    /\ Runs(t) /\ thread'[t].at \notin {"none", "lost"}
    /\ thread[t].kind = "event" /\ thread[t].at \notin Spoken => thread'[t].at \notin Spoken
    /\ lock' = lock /\ loop'.gen = loop.gen
    /\ seen'.overlap = seen.overlap /\ seen'.unread = seen.unread
    /\ \/ loop'.short = loop.short
       \/ \E role \in {"user", "entity"} : loop'.short = Keep(Append(loop.short, <<role, t>>))
    /\ \/ UNCHANGED task
       \/ TaskOnly(t, "done")
       \/ TaskOnly(t, "queued") /\ thread[t].gen = loop.gen

LEMMA ThreadMoves ==
    ASSUME TypeInv, NEW t \in Turns, Thread(t),
           thread[t].mine \subseteq 1 .. Len(disk.episodes)
    PROVE  TypeInv' /\ Moves(t)
<1>1. CASE Hear(t)
  BY <1>1, HearDoes DEF Moves, Keeps, Goes, Ends, Runs, Ended, Spoken
<1>2. CASE AddUser(t)
  BY <1>2, AddUserDoes DEF Moves, Keeps, Goes, Ends, Runs, Ended, Spoken
<1>3. CASE SaveSnapshot(t)
  BY <1>3, SaveDoes DEF Moves, Keeps, Goes, Ends, Runs, Ended, Spoken
<1>4. CASE Adopt(t)
  BY <1>4, AdoptDoes DEF Moves, Keeps, Goes, Ends, Runs, Ended, Spoken
<1>5. CASE StoreEpisode(t)
  BY <1>5, StoreDoes DEF Moves, Keeps, Goes, Ends, Runs, Ended, Spoken
<1>6. CASE Reply(t)
  BY <1>6, ReplyDoes DEF Moves, Keeps, Goes, Ends, Runs, Ended, Spoken
<1>7. CASE Enqueue(t)
  BY <1>7, EnqueueDoes DEF Moves, Keeps, Goes, Ends, Runs, Ended, Spoken
<1>8. CASE Reflect(t)
  BY <1>8, ReflectDoes DEF Moves, Keeps, Goes, Ends, Runs, Ended, Spoken
<1>9. CASE Summarise(t)
  BY <1>9, SummariseDoes DEF Moves, Keeps, Goes, Stores, Ends, Runs, Ended, Spoken
<1>10. CASE MarkReflected(t)
  BY <1>10, MarkDoes DEF Moves, Keeps, Goes, Ends, Runs, Ended, Spoken
<1>11. CASE Raise(t)
  BY <1>11, RaiseDoes DEF Moves, Keeps, Goes, Ends, Runs, Ended, Spoken
<1> QED BY <1>1, <1>2, <1>3, <1>4, <1>5, <1>6, <1>7, <1>8, <1>9, <1>10, <1>11 DEF Thread

-----------------------------------------------------------------------------
(* Maintenance, the lock and the window *)

\* The parts of the invariant that most steps leave alone: no queued maintenance
\* of another loop, the lock with a thread that this process has started, short-term
\* memory within its window, and presence events where only they come.
OwnInv ==
    /\ NoOrphanMaintenance
    /\ lock # 0 => thread[lock].at \notin {"none", "lost"}
    /\ Len(loop.short) <= Window
    /\ \A t \in Turns : thread[t].kind = "event" => thread[t].at \notin Spoken

\* What is remembered keeps to the window.
LEMMA KeepFits ==
    ASSUME TypeInv, NEW t \in Turns, NEW role \in {"user", "entity"}
    PROVE  Len(Keep(Append(loop.short, <<role, t>>))) <= Window
<1>1. Append(loop.short, <<role, t>>) \in Seq(Said)
  BY LoopIs, AppendProperties DEF TypeInv, Said
<1> DEFINE e == Append(loop.short, <<role, t>>)
<1> HIDE DEF e
<1>2. e \in Seq(Said)
  BY <1>1 DEF e
<1>3. Len(e) \in Nat /\ Window \in Nat
  BY <1>2, TurnAssumption
<1>4. Len(Keep(e)) <= Window
  BY <1>2, <1>3, KeepIs
<1> QED BY <1>4 DEF e

LEMMA OwnThread ==
    ASSUME TypeInv, OwnInv, NEW t \in Turns, Moves(t)
    PROVE  OwnInv'
<1>1. lock' # 0 => thread'[lock'].at \notin {"none", "lost"}
  BY DEF OwnInv, Moves, Only, TypeInv
<1>2. NoOrphanMaintenance'
  BY DEF OwnInv, Moves, NoOrphanMaintenance, Only, TaskOnly
<1>3. Len(loop'.short) <= Window
  BY KeepFits DEF OwnInv, Moves
<1>4. \A s \in Turns : thread'[s].kind = "event" => thread'[s].at \notin Spoken
  BY DEF OwnInv, Moves, Only
<1> QED BY <1>1, <1>2, <1>3, <1>4 DEF OwnInv

LEMMA OwnElse ==
    ASSUME TypeInv, OwnInv,
           \/ \E t \in Turns : Finish(t) \/ Work(t) \/ Ask(t) \/ Dispatch(t) \/ Cancel(t)
           \/ Rebuild \/ RebuildRaises \/ ResetState \/ Close \/ Restart \/ UNCHANGED vars
    PROVE  OwnInv'
<1>1. ASSUME NEW t \in Turns, Finish(t) \/ Cancel(t) PROVE OwnInv'
  BY <1>1, UnlockDoes DEF OwnInv, NoOrphanMaintenance
<1>2. ASSUME NEW t \in Turns, Work(t) PROVE OwnInv'
  BY <1>2, WorkDoes DEF OwnInv, NoOrphanMaintenance, TaskOnly
<1>3. ASSUME NEW t \in Turns, Ask(t) \/ Dispatch(t) PROVE OwnInv'
  <2>1. /\ UNCHANGED <<loop, task>> /\ lock' = t /\ Only(t)
        /\ thread'[t].at = "hear" /\ thread'[t].gen = loop.gen
    BY <1>3, BeginsDoes
  <2>2. NoOrphanMaintenance'
    BY <2>1 DEF OwnInv, NoOrphanMaintenance, Only
  <2>3. \A s \in Turns : thread'[s].kind = "event" => thread'[s].at \notin Spoken
    BY <2>1 DEF OwnInv, Only, Spoken
  <2> QED BY <2>1, <2>2, <2>3 DEF OwnInv
<1>4. CASE Rebuild
  <2>1. /\ UNCHANGED <<thread, lock, task>> /\ \A t \in Turns : task[t] # "queued"
        /\ loop'.short = Hydrate(disk.log)
    BY <1>4, RebuildDoes
  <2>2. Len(Hydrate(disk.log)) <= Window
    BY HydrateIs, DiskIs DEF TypeInv
  <2> QED BY <2>1, <2>2 DEF OwnInv, NoOrphanMaintenance
<1>5. CASE Restart
  <2>1. /\ lock' = 0 /\ \A t \in Turns : task'[t] # "queued"
        /\ loop'.short = Hydrate(disk.log)
    BY <1>5, RestartDoes
  <2>2. Len(Hydrate(disk.log)) <= Window
    BY HydrateIs, DiskIs DEF TypeInv
  <2>3. \A t \in Turns : /\ thread'[t].kind = thread[t].kind
                          /\ thread'[t].at \in {thread[t].at, "lost"}
    BY <1>5, RestartDoes
  <2>4. \A t \in Turns : thread'[t].kind = "event" => thread'[t].at \notin Spoken
    BY <2>3 DEF OwnInv, Spoken
  <2> QED BY <2>1, <2>2, <2>4 DEF OwnInv, NoOrphanMaintenance
<1>6. CASE RebuildRaises
  BY <1>6, RebuildRaisesDoes DEF OwnInv, NoOrphanMaintenance
<1>7. CASE Close
  BY <1>7, CloseDoes DEF OwnInv, NoOrphanMaintenance
<1>8. CASE UNCHANGED vars
  BY <1>8 DEF OwnInv, NoOrphanMaintenance, vars
<1>9. CASE ResetState
  BY <1>9, ResetDoes DEF OwnInv, NoOrphanMaintenance
<1> QED BY <1>1, <1>2, <1>3, <1>4, <1>5, <1>6, <1>7, <1>8, <1>9

-----------------------------------------------------------------------------
(* Snapshots, episodes and summaries *)

\* Rows refer to rows.
SnapsInv ==
    /\ \A i \in 1 .. Len(disk.snaps) : disk.snaps[i] \in 0 .. Len(disk.snaps)
    /\ loop.cur \in 0 .. Len(disk.snaps)
    /\ \A t \in Turns : thread[t].base \in 0 .. Len(disk.snaps)
                        /\ thread[t].snap \in 0 .. Len(disk.snaps)

\* A reflection that is marking has written its summary, of what it is marking.
EpisodesInv ==
    /\ \A i \in 1 .. Len(disk.episodes) :
          /\ disk.episodes[i] \in 0 .. Len(disk.summaries)
          /\ disk.episodes[i] # 0 => i \in disk.summaries[disk.episodes[i]]
    /\ \A t \in Turns :
          /\ thread[t].mine \subseteq 1 .. Len(disk.episodes)
          /\ thread[t].at = "mark" => /\ thread[t].sum \in 1 .. Len(disk.summaries)
                                      /\ thread[t].mine \subseteq disk.summaries[thread[t].sum]

\* A step of thread t that writes no snapshot.
LEMMA SnapsKept ==
    ASSUME TypeInv, SnapsInv, NEW t \in Turns, Only(t), disk'.snaps = disk.snaps,
           loop'.cur \in {loop.cur, thread[t].snap},
           thread'[t].base \in {0, loop.cur, thread[t].base},
           thread'[t].snap \in {0, thread[t].snap}
    PROVE  SnapsInv'
<1>1. 0 \in 0 .. Len(disk.snaps)
  BY DiskIs DEF TypeInv
<1> QED BY <1>1 DEF SnapsInv, Only

LEMMA SnapsThread ==
    ASSUME TypeInv, SnapsInv, NEW t \in Turns, Thread(t),
           thread[t].mine \subseteq 1 .. Len(disk.episodes)
    PROVE  SnapsInv'
<1> DEFINE Still == /\ Only(t) /\ disk'.snaps = disk.snaps
                    /\ loop'.cur \in {loop.cur, thread[t].snap}
                    /\ thread'[t].base \in {0, loop.cur, thread[t].base}
                    /\ thread'[t].snap \in {0, thread[t].snap}
<1>1. CASE Hear(t)
  <2>1. Still
    BY <1>1, HearDoes DEF Goes, Ends
  <2> QED BY <2>1, SnapsKept
<1>2. CASE AddUser(t)
  <2>1. Still
    BY <1>2, AddUserDoes DEF Goes, Ends
  <2> QED BY <2>1, SnapsKept
<1>3. CASE Adopt(t)
  <2>1. Still
    BY <1>3, AdoptDoes DEF Goes, Ends
  <2> QED BY <2>1, SnapsKept
<1>4. CASE StoreEpisode(t)
  <2>1. Still
    BY <1>4, StoreDoes DEF Goes, Ends
  <2> QED BY <2>1, SnapsKept
<1>5. CASE Reply(t)
  <2>1. Still
    BY <1>5, ReplyDoes DEF Goes, Ends
  <2> QED BY <2>1, SnapsKept
<1>6. CASE Enqueue(t)
  <2>1. Still
    BY <1>6, EnqueueDoes DEF Goes, Ends
  <2> QED BY <2>1, SnapsKept
<1>7. CASE Reflect(t)
  <2>1. Still
    BY <1>7, ReflectDoes DEF Goes, Ends
  <2> QED BY <2>1, SnapsKept
<1>8. CASE Summarise(t)
  <2>1. Still
    BY <1>8, SummariseDoes DEF Stores, Ends
  <2> QED BY <2>1, SnapsKept
<1>9. CASE MarkReflected(t)
  <2>1. Still
    BY <1>9, MarkDoes DEF Goes, Ends
  <2> QED BY <2>1, SnapsKept
<1>10. CASE Raise(t)
  <2>1. Still
    BY <1>10, RaiseDoes DEF Goes, Ends
  <2> QED BY <2>1, SnapsKept
<1>11. CASE SaveSnapshot(t)
  <2> DEFINE n == Len(disk.snaps)
             x == Append(disk.snaps, thread[t].base)
  <2>1. n \in Nat /\ disk.snaps \in Seq(Nat) /\ thread[t].base \in Nat
    BY DiskIs, ThreadIs DEF TypeInv
  <2>2. Len(x) = n + 1 /\ x[n + 1] = thread[t].base /\ \A i \in 1 .. n : x[i] = disk.snaps[i]
    BY <2>1, AppendProperties
  <2>3. /\ disk'.snaps = x /\ Only(t) /\ thread'[t].snap = n + 1 /\ UNCHANGED loop
        /\ thread'[t].base = thread[t].base
    BY <1>11, SaveDoes
  <2> HIDE DEF x, n
  <2>4. \A i \in 1 .. Len(disk'.snaps) : disk'.snaps[i] \in 0 .. Len(disk'.snaps)
    <3>1. \A i \in 1 .. n : disk.snaps[i] \in 0 .. n
      BY DEF SnapsInv, n
    <3>2. thread[t].base \in 0 .. n
      BY DEF SnapsInv, n
    <3>3. ASSUME NEW i \in 1 .. n + 1 PROVE x[i] \in 0 .. n + 1
      <4>1. CASE i = n + 1
        BY <2>1, <2>2, <3>2, <4>1
      <4>2. CASE i # n + 1
        BY <2>1, <2>2, <3>1, <4>2
      <4> QED BY <4>1, <4>2
    <3> QED BY <2>2, <2>3, <3>3
  <2>5. loop'.cur \in 0 .. Len(disk'.snaps)
    BY <2>1, <2>2, <2>3 DEF SnapsInv, n
  <2>6. \A s \in Turns : thread'[s].base \in 0 .. Len(disk'.snaps)
                          /\ thread'[s].snap \in 0 .. Len(disk'.snaps)
    BY <2>1, <2>2, <2>3 DEF SnapsInv, Only, n
  <2> QED BY <2>4, <2>5, <2>6 DEF SnapsInv
<1> QED BY <1>1, <1>2, <1>3, <1>4, <1>5, <1>6, <1>7, <1>8, <1>9, <1>10, <1>11 DEF Thread

LEMMA SnapsElse ==
    ASSUME TypeInv, SnapsInv,
           \/ \E t \in Turns : Finish(t) \/ Work(t) \/ Ask(t) \/ Dispatch(t) \/ Cancel(t)
           \/ Rebuild \/ RebuildRaises \/ ResetState \/ Close \/ Restart \/ UNCHANGED vars
    PROVE  SnapsInv'
<1>0. Len(disk.snaps) \in Nat
  BY DiskIs DEF TypeInv
<1>1. ASSUME NEW t \in Turns, Finish(t) \/ Cancel(t) PROVE SnapsInv'
  BY <1>1, UnlockDoes DEF SnapsInv
<1>2. ASSUME NEW t \in Turns, Work(t) PROVE SnapsInv'
  BY <1>2, WorkDoes DEF SnapsInv
<1>3. ASSUME NEW t \in Turns, Ask(t) \/ Dispatch(t) PROVE SnapsInv'
  BY <1>0, <1>3, BeginsDoes DEF SnapsInv, Only
<1>4. CASE Rebuild
  BY <1>0, <1>4, RebuildDoes DEF SnapsInv
<1>5. CASE Restart
  BY <1>0, <1>5, RestartDoes DEF SnapsInv
<1>6. CASE RebuildRaises
  BY <1>6, RebuildRaisesDoes DEF SnapsInv
<1>7. CASE Close
  BY <1>7, CloseDoes DEF SnapsInv
<1>8. CASE UNCHANGED vars
  BY <1>8 DEF SnapsInv, vars
<1>9. CASE ResetState
  <2> DEFINE n == Len(disk.snaps)
  <2>1. /\ UNCHANGED <<loop, thread>> /\ n \in Nat /\ Len(disk'.snaps) = n + 1
        /\ disk'.snaps[n + 1] = n + 1 /\ \A i \in 1 .. n : disk'.snaps[i] = disk.snaps[i]
    BY <1>9, ResetDoes
  <2>2. /\ \A i \in 1 .. n : disk.snaps[i] \in 0 .. n
        /\ loop.cur \in 0 .. n /\ \A t \in Turns : thread[t].base \in 0 .. n
                                                   /\ thread[t].snap \in 0 .. n
    BY DEF SnapsInv
  <2> HIDE DEF n
  <2>3. ASSUME NEW i \in 1 .. n + 1 PROVE disk'.snaps[i] \in 0 .. n + 1
    <3>1. CASE i = n + 1
      BY <2>1, <3>1
    <3>2. CASE i # n + 1
      <4>1. i \in 1 .. n
        BY <2>1, <3>2
      <4>2. disk'.snaps[i] \in 0 .. n
        BY <2>1, <2>2, <4>1
      <4> QED BY <2>1, <4>2
    <3> QED BY <3>1, <3>2
  <2> QED BY <2>1, <2>2, <2>3 DEF SnapsInv
<1> QED BY <1>1, <1>2, <1>3, <1>4, <1>5, <1>6, <1>7, <1>8, <1>9

\* A step of thread t that leaves episodes and summaries alone and starts no marking.
LEMMA EpisodesKept ==
    ASSUME TypeInv, EpisodesInv, NEW t \in Turns, Only(t),
           disk'.episodes = disk.episodes, disk'.summaries = disk.summaries,
           thread'[t].mine \subseteq thread[t].mine,
           thread'[t].at = "mark" => thread[t].at = "mark" /\ thread'[t].sum = thread[t].sum
    PROVE  EpisodesInv'
  BY DEF EpisodesInv, Only

LEMMA EpisodesThread ==
    ASSUME TypeInv, EpisodesInv, NEW t \in Turns, Thread(t)
    PROVE  EpisodesInv'
<1> DEFINE Still == /\ Only(t) /\ disk'.episodes = disk.episodes
                    /\ disk'.summaries = disk.summaries
                    /\ thread'[t].mine \subseteq thread[t].mine
                    /\ thread'[t].at = "mark" => /\ thread[t].at = "mark"
                                                /\ thread'[t].sum = thread[t].sum
<1>0. /\ disk.episodes \in Seq(Nat) /\ Len(disk.episodes) \in Nat
      /\ disk.summaries \in Seq(SUBSET Nat) /\ Len(disk.summaries) \in Nat
      /\ thread[t].mine \in SUBSET Nat /\ thread[t].mine \subseteq 1 .. Len(disk.episodes)
  BY DiskIs, ThreadIs DEF TypeInv, EpisodesInv
<1>1. CASE Hear(t)
  <2>1. Still
    BY <1>1, HearDoes DEF Keeps, Goes, Ends
  <2> QED BY <2>1, EpisodesKept
<1>2. CASE AddUser(t)
  <2>1. Still
    BY <1>2, AddUserDoes DEF Keeps, Goes, Ends
  <2> QED BY <2>1, EpisodesKept
<1>3. CASE SaveSnapshot(t)
  <2>1. Still
    BY <1>3, SaveDoes DEF Keeps, Goes, Ends
  <2> QED BY <2>1, EpisodesKept
<1>4. CASE Adopt(t)
  <2>1. Still
    BY <1>4, AdoptDoes DEF Keeps, Goes, Ends
  <2> QED BY <2>1, EpisodesKept
<1>5. CASE Reply(t)
  <2>1. Still
    BY <1>5, ReplyDoes DEF Keeps, Goes, Ends
  <2> QED BY <2>1, EpisodesKept
<1>6. CASE Enqueue(t)
  <2>1. Still
    BY <1>6, EnqueueDoes DEF Keeps, Goes, Ends
  <2> QED BY <2>1, EpisodesKept
<1>7. CASE Raise(t)
  <2>1. Still
    BY <1>7, RaiseDoes DEF Keeps, Goes, Ends
  <2> QED BY <2>1, EpisodesKept
<1>8. CASE StoreEpisode(t)
  <2> DEFINE x == Append(disk.episodes, 0)
             n == Len(disk.episodes)
  <2>1. /\ Only(t) /\ Keeps(t) /\ thread'[t].at # "mark"
        /\ \/ UNCHANGED disk
           \/ disk'.episodes = x /\ disk'.summaries = disk.summaries
    BY <1>8, StoreDoes
  <2>2. Len(x) = n + 1 /\ x[n + 1] = 0 /\ \A i \in 1 .. n : x[i] = disk.episodes[i]
    BY <1>0, AppendProperties
  <2> HIDE DEF x
  <2>3. CASE UNCHANGED disk
    <3>1. Still
      BY <2>1, <2>3 DEF Keeps
    <3> QED BY <3>1, EpisodesKept
  <2>4. CASE disk'.episodes = x /\ disk'.summaries = disk.summaries
    <3>1. \A i \in 1 .. Len(disk'.episodes) :
             /\ disk'.episodes[i] \in 0 .. Len(disk'.summaries)
             /\ disk'.episodes[i] # 0 => i \in disk'.summaries[disk'.episodes[i]]
      <4> HIDE DEF n
      <4>1. ASSUME NEW i \in 1 .. n + 1
            PROVE  /\ x[i] \in 0 .. Len(disk.summaries)
                   /\ x[i] # 0 => i \in disk.summaries[x[i]]
        <5>1. CASE i = n + 1
          BY <1>0, <2>2, <5>1
        <5>2. CASE i # n + 1
          <6>1. i \in 1 .. n
            BY <1>0, <5>2 DEF n
          <6>2. x[i] = disk.episodes[i]
            BY <2>2, <6>1, Zenon
          <6>3. /\ disk.episodes[i] \in 0 .. Len(disk.summaries)
                /\ disk.episodes[i] # 0 => i \in disk.summaries[disk.episodes[i]]
            BY <6>1, Zenon DEF EpisodesInv, n
          <6> QED BY <6>2, <6>3
        <5> QED BY <5>1, <5>2
      <4> QED BY <2>2, <2>4, <4>1
    <3>2. \A s \in Turns : thread'[s].mine = thread[s].mine
      BY <2>1 DEF Only, Keeps
    <3>3. Len(disk'.episodes) = n + 1 /\ n \in Nat
      BY <1>0, <2>2, <2>4
    <3>4. \A s \in Turns : thread'[s].mine \subseteq 1 .. Len(disk'.episodes)
      BY <3>2, <3>3 DEF EpisodesInv
    <3>5. \A s \in Turns : thread'[s].at = "mark" =>
             thread[s].at = "mark" /\ thread'[s].sum = thread[s].sum
      BY <2>1 DEF Only
    <3> QED BY <2>4, <3>1, <3>2, <3>4, <3>5 DEF EpisodesInv
  <2> QED BY <2>1, <2>3, <2>4
<1>9. CASE Reflect(t)
  <2>1. CASE Ends(t, "done") /\ UNCHANGED disk
    <3>1. Still
      BY <2>1 DEF Ends
    <3> QED BY <3>1, EpisodesKept
  <2>2. CASE /\ Only(t) /\ thread'[t].at = "summarise" /\ thread'[t].mine = Unreflected
             /\ UNCHANGED disk
    <3>1. Unreflected \subseteq 1 .. Len(disk.episodes)
      BY DEF Unreflected
    <3> QED BY <2>2, <3>1 DEF EpisodesInv, Only
  <2> QED BY <1>9, <2>1, <2>2, ReflectDoes
<1>12. CASE Summarise(t) /\ Ends(t, "done") /\ UNCHANGED disk
  <2>1. Still
    BY <1>12 DEF Ends
  <2> QED BY <2>1, EpisodesKept
<1>10. CASE Summarise(t) /\ Stores(t)
  <2> DEFINE x == Append(disk.summaries, thread[t].mine)
             n == Len(disk.summaries)
  <2>1. /\ Only(t) /\ thread'[t].sum = n + 1 /\ thread'[t].mine = thread[t].mine
        /\ disk'.episodes = disk.episodes /\ disk'.summaries = x
    BY <1>10 DEF Stores
  <2>2. Len(x) = n + 1 /\ x[n + 1] = thread[t].mine
        /\ \A i \in 1 .. n : x[i] = disk.summaries[i]
    BY <1>0, AppendProperties
  <2> HIDE DEF x
  <2>3. \A i \in 1 .. Len(disk'.episodes) :
           /\ disk'.episodes[i] \in 0 .. Len(disk'.summaries)
           /\ disk'.episodes[i] # 0 => i \in disk'.summaries[disk'.episodes[i]]
    <3> SUFFICES ASSUME NEW i \in 1 .. Len(disk.episodes)
                 PROVE  /\ disk.episodes[i] \in 0 .. n + 1
                        /\ disk.episodes[i] # 0 => i \in x[disk.episodes[i]]
      BY <2>1, <2>2
    <3>1. /\ disk.episodes[i] \in 0 .. n
          /\ disk.episodes[i] # 0 => i \in disk.summaries[disk.episodes[i]]
      BY DEF EpisodesInv
    <3> DEFINE q == disk.episodes[i]
    <3> HIDE DEF q
    <3>2. n \in Nat /\ q \in 0 .. n /\ (q # 0 => i \in disk.summaries[q])
      BY <1>0, <3>1 DEF q
    <3>3. q \in 0 .. n + 1 /\ (q # 0 => q \in 1 .. n)
      BY <3>2
    <3>4. q # 0 => x[q] = disk.summaries[q]
      BY <2>2, <3>3, Zenon
    <3>5. q # 0 => i \in x[q]
      BY <3>2, <3>4
    <3> QED BY <3>3, <3>5 DEF q
  <2>4. ASSUME NEW s \in Turns
        PROVE  /\ thread'[s].mine \subseteq 1 .. Len(disk'.episodes)
               /\ thread'[s].at = "mark" =>
                     /\ thread'[s].sum \in 1 .. Len(disk'.summaries)
                     /\ thread'[s].mine \subseteq disk'.summaries[thread'[s].sum]
    <3>1. CASE s = t
      BY <1>0, <2>1, <2>2, <3>1
    <3>2. CASE s # t
      <4>1. thread'[s] = thread[s]
        BY <2>1, <3>2 DEF Only
      <4>2. /\ thread[s].mine \subseteq 1 .. Len(disk.episodes)
            /\ thread[s].at = "mark" => /\ thread[s].sum \in 1 .. n
                                        /\ thread[s].mine \subseteq disk.summaries[thread[s].sum]
        BY DEF EpisodesInv
      <4>3. thread[s].at = "mark" => /\ thread[s].sum \in 1 .. n + 1
                                     /\ x[thread[s].sum] = disk.summaries[thread[s].sum]
        BY <1>0, <2>2, <4>2
      <4> QED BY <2>1, <2>2, <4>1, <4>2, <4>3
    <3> QED BY <3>1, <3>2
  <2> QED BY <2>3, <2>4 DEF EpisodesInv
<1>11. CASE MarkReflected(t)
  <2>1. CASE Ends(t, "done") /\ UNCHANGED disk
    <3>1. Still
      BY <2>1 DEF Ends
    <3> QED BY <3>1, EpisodesKept
  <2>2. CASE /\ Only(t) /\ thread[t].at = "mark" /\ thread'[t].sum = thread[t].sum
             /\ thread'[t].mine \subseteq thread[t].mine
             /\ disk'.summaries = disk.summaries
             /\ \E i \in thread[t].mine :
                   disk'.episodes = [disk.episodes EXCEPT ![i] = thread[t].sum]
    <3>1. PICK j \in thread[t].mine :
             disk'.episodes = [disk.episodes EXCEPT ![j] = thread[t].sum]
      BY <2>2
    <3>2. /\ thread[t].sum \in 1 .. Len(disk.summaries)
          /\ j \in disk.summaries[thread[t].sum] /\ j \in 1 .. Len(disk.episodes)
      BY <2>2, <3>1 DEF EpisodesInv
    <3>3. /\ Len(disk'.episodes) = Len(disk.episodes) /\ disk'.episodes[j] = thread[t].sum
          /\ \A i \in 1 .. Len(disk.episodes) :
                i # j => disk'.episodes[i] = disk.episodes[i]
      BY <1>0, <3>1, <3>2
    <3>4. \A i \in 1 .. Len(disk'.episodes) :
             /\ disk'.episodes[i] \in 0 .. Len(disk'.summaries)
             /\ disk'.episodes[i] # 0 => i \in disk'.summaries[disk'.episodes[i]]
      <4> SUFFICES ASSUME NEW i \in 1 .. Len(disk.episodes)
                   PROVE  /\ disk'.episodes[i] \in 0 .. Len(disk.summaries)
                          /\ disk'.episodes[i] # 0 => i \in disk.summaries[disk'.episodes[i]]
        BY <2>2, <3>3
      <4>1. CASE i = j
        BY <1>0, <3>2, <3>3, <4>1
      <4>2. CASE i # j
        <5>1. disk'.episodes[i] = disk.episodes[i]
          BY <3>3, <4>2
        <5>2. /\ disk.episodes[i] \in 0 .. Len(disk.summaries)
              /\ disk.episodes[i] # 0 => i \in disk.summaries[disk.episodes[i]]
          BY DEF EpisodesInv
        <5> QED BY <5>1, <5>2
      <4> QED BY <4>1, <4>2
    <3>5. \A s \in Turns :
             /\ thread'[s].mine \subseteq thread[s].mine
             /\ thread'[s].at = "mark" => thread[s].at = "mark" /\ thread'[s].sum = thread[s].sum
      BY <2>2 DEF Only
    <3>6. ASSUME NEW s \in Turns
          PROVE  /\ thread'[s].mine \subseteq 1 .. Len(disk'.episodes)
                 /\ thread'[s].at = "mark" =>
                       /\ thread'[s].sum \in 1 .. Len(disk'.summaries)
                       /\ thread'[s].mine \subseteq disk'.summaries[thread'[s].sum]
      <4>1. /\ thread[s].mine \subseteq 1 .. Len(disk.episodes)
            /\ thread[s].at = "mark" =>
                  /\ thread[s].sum \in 1 .. Len(disk.summaries)
                  /\ thread[s].mine \subseteq disk.summaries[thread[s].sum]
        BY DEF EpisodesInv
      <4>2. Len(disk'.episodes) = Len(disk.episodes) /\ disk'.summaries = disk.summaries
        BY <2>2, <3>3
      <4>3. /\ thread'[s].mine \subseteq thread[s].mine
            /\ thread'[s].at = "mark" => thread[s].at = "mark" /\ thread'[s].sum = thread[s].sum
        BY <3>5, Zenon
      <4>4. thread'[s].mine \subseteq 1 .. Len(disk'.episodes)
        BY <4>1, <4>2, <4>3
      <4>5. CASE thread'[s].at = "mark"
        BY <4>1, <4>2, <4>3, <4>5
      <4> QED BY <4>4, <4>5
    <3> QED BY <3>4, <3>6 DEF EpisodesInv
  <2> QED BY <1>0, <1>11, <2>1, <2>2, MarkDoes
<1>13. CASE Summarise(t)
  BY <1>10, <1>12, <1>13, SummariseDoes
<1> QED BY <1>1, <1>2, <1>3, <1>4, <1>5, <1>6, <1>7, <1>8, <1>9, <1>11, <1>13 DEF Thread

LEMMA EpisodesElse ==
    ASSUME TypeInv, EpisodesInv,
           \/ \E t \in Turns : Finish(t) \/ Work(t) \/ Ask(t) \/ Dispatch(t) \/ Cancel(t)
           \/ Rebuild \/ RebuildRaises \/ ResetState \/ Close \/ Restart \/ UNCHANGED vars
    PROVE  EpisodesInv'
<1>1. ASSUME NEW t \in Turns, Finish(t) \/ Cancel(t) PROVE EpisodesInv'
  BY <1>1, UnlockDoes DEF EpisodesInv
<1>2. ASSUME NEW t \in Turns, Work(t) PROVE EpisodesInv'
  BY <1>2, WorkDoes DEF EpisodesInv
<1>3. ASSUME NEW t \in Turns, Ask(t) \/ Dispatch(t) PROVE EpisodesInv'
  <2>1. UNCHANGED disk /\ Only(t) /\ thread'[t].mine = {} /\ thread'[t].at = "hear"
    BY <1>3, BeginsDoes
  <2> QED BY <2>1, EpisodesKept
<1>4. CASE Rebuild
  BY <1>4, RebuildDoes DEF EpisodesInv
<1>5. CASE Restart
  <2>1. UNCHANGED disk
    BY <1>5, RestartDoes
  <2>2. \A t \in Turns :
           /\ thread'[t].mine = thread[t].mine /\ thread'[t].sum = thread[t].sum
           /\ thread'[t].at = "mark" => thread[t].at = "mark"
    BY <1>5, RestartDoes
  <2>3. ASSUME NEW t \in Turns
        PROVE  /\ thread'[t].mine \subseteq 1 .. Len(disk.episodes)
               /\ thread'[t].at = "mark" =>
                     /\ thread'[t].sum \in 1 .. Len(disk.summaries)
                     /\ thread'[t].mine \subseteq disk.summaries[thread'[t].sum]
    <3>1. /\ thread'[t].mine = thread[t].mine /\ thread'[t].sum = thread[t].sum
          /\ thread'[t].at = "mark" => thread[t].at = "mark"
      BY <2>2, Zenon
    <3>2. /\ thread[t].mine \subseteq 1 .. Len(disk.episodes)
          /\ thread[t].at = "mark" =>
                /\ thread[t].sum \in 1 .. Len(disk.summaries)
                /\ thread[t].mine \subseteq disk.summaries[thread[t].sum]
      BY DEF EpisodesInv
    <3> QED BY <3>1, <3>2
  <2>4. \A i \in 1 .. Len(disk.episodes) :
           /\ disk.episodes[i] \in 0 .. Len(disk.summaries)
           /\ disk.episodes[i] # 0 => i \in disk.summaries[disk.episodes[i]]
    BY DEF EpisodesInv
  <2> QED BY <2>1, <2>3, <2>4, Zenon DEF EpisodesInv
<1>6. CASE RebuildRaises
  BY <1>6, RebuildRaisesDoes DEF EpisodesInv
<1>7. CASE Close
  BY <1>7, CloseDoes DEF EpisodesInv
<1>8. CASE UNCHANGED vars
  BY <1>8 DEF EpisodesInv, vars
<1>9. CASE ResetState
  BY <1>9, ResetDoes DEF EpisodesInv
<1> QED BY <1>1, <1>2, <1>3, <1>4, <1>5, <1>6, <1>7, <1>8, <1>9

-----------------------------------------------------------------------------
(* One turn at a time, and the chain of snapshots *)

\* Without an overlap one thread runs at most, and in the application's loop.
AloneInv ==
    ~seen.overlap =>
        /\ \A s, t \in Turns : Runs(s) /\ Runs(t) => s = t
        /\ \A t \in Turns : Runs(t) => thread[t].gen = loop.gen

LEMMA AloneThread ==
    ASSUME TypeInv, AloneInv, NEW t \in Turns, Moves(t)
    PROVE  AloneInv'
<1> SUFFICES ASSUME ~seen'.overlap
             PROVE  /\ \A r, s \in Turns : Runs(r)' /\ Runs(s)' => r = s
                    /\ \A s \in Turns : Runs(s)' => thread'[s].gen = loop'.gen
  BY DEF AloneInv
<1>1. ~seen.overlap /\ loop'.gen = loop.gen
  BY DEF Moves
<1>2. \A s \in Turns : Runs(s)' => Runs(s)
  BY DEF Moves, Only, Runs
<1>3. \A s \in Turns : thread'[s].gen = thread[s].gen
  BY DEF Moves, Only
<1> QED BY <1>1, <1>2, <1>3 DEF AloneInv

\* What a step must tell of an overlap for the others to go on from it.
LEMMA OverlapSeen ==
    ASSUME TypeInv, NEW p \in BOOLEAN, seen'.overlap = (seen.overlap \/ p), ~seen'.overlap
    PROVE  ~seen.overlap /\ ~p
<1>1. seen.overlap \in BOOLEAN
  BY SeenReplaced DEF TypeInv
<1> QED BY <1>1

LEMMA BeginsAlone ==
    ASSUME TypeInv, NEW t \in Turns, Ask(t) \/ Dispatch(t), ~seen'.overlap
    PROVE  ~seen.overlap /\ \A s \in Turns : s # t => ~Runs(s)
<1> DEFINE p == \E s \in Turns : s # t /\ Runs(s)
<1>1. seen'.overlap = (seen.overlap \/ p) /\ p \in BOOLEAN
  BY BeginsDoes
<1>2. ~seen.overlap /\ ~p
  <2> HIDE DEF p
  <2> QED BY <1>1, OverlapSeen
<1> QED BY <1>2

LEMMA RebuildAlone ==
    ASSUME TypeInv, Rebuild, ~seen'.overlap
    PROVE  ~seen.overlap /\ \A t \in Turns : ~Runs(t)
<1> DEFINE p == \E t \in Turns : Runs(t)
<1>1. seen'.overlap = (seen.overlap \/ p) /\ p \in BOOLEAN
  BY RebuildDoes
<1>2. ~seen.overlap /\ ~p
  <2> HIDE DEF p
  <2> QED BY <1>1, OverlapSeen
<1> QED BY <1>2

LEMMA RestartQuiet ==
    ASSUME TypeInv, Restart
    PROVE  seen'.overlap = seen.overlap /\ \A t \in Turns : ~Runs(t)'
<1>1. seen'.overlap = seen.overlap /\ \A t \in Turns :
         thread'[t].at = IF Runs(t) THEN "lost" ELSE thread[t].at
  BY RestartDoes
<1> QED BY <1>1 DEF Runs, Ended

LEMMA AloneElse ==
    ASSUME TypeInv, AloneInv,
           \/ \E t \in Turns : Finish(t) \/ Work(t) \/ Ask(t) \/ Dispatch(t) \/ Cancel(t)
           \/ Rebuild \/ RebuildRaises \/ ResetState \/ Close \/ Restart \/ UNCHANGED vars
    PROVE  AloneInv'
<1>1. ASSUME UNCHANGED thread, seen'.overlap = seen.overlap, loop'.gen = loop.gen
      PROVE  AloneInv'
  BY <1>1 DEF AloneInv, Runs
<1>2. ASSUME NEW t \in Turns, Finish(t) \/ Cancel(t) PROVE AloneInv'
  BY <1>1, <1>2, UnlockDoes
<1>3. ASSUME NEW t \in Turns, Work(t) PROVE AloneInv'
  BY <1>1, <1>3, WorkDoes
<1>4. ASSUME NEW t \in Turns, Ask(t) \/ Dispatch(t), ~seen'.overlap
      PROVE  /\ \A r, s \in Turns : Runs(r)' /\ Runs(s)' => r = s
             /\ \A s \in Turns : Runs(s)' => thread'[s].gen = loop'.gen
  <2>1. \A s \in Turns : s # t => ~Runs(s)
    BY <1>4, BeginsAlone
  <2>2. Only(t) /\ thread'[t].gen = loop.gen /\ UNCHANGED loop
    BY <1>4, BeginsDoes
  <2>3. \A s \in Turns : Runs(s)' => s = t
    BY <2>1, <2>2 DEF Only, Runs
  <2> QED BY <2>2, <2>3
<1>5. ASSUME Rebuild, ~seen'.overlap PROVE \A t \in Turns : ~Runs(t)'
  <2>1. UNCHANGED thread
    BY <1>5, RebuildDoes
  <2>2. \A t \in Turns : ~Runs(t)
    BY <1>5, RebuildAlone
  <2> QED BY <2>1, <2>2 DEF Runs
<1>6. CASE RebuildRaises
  BY <1>1, <1>6, RebuildRaisesDoes
<1>7. CASE Close
  BY <1>1, <1>7, CloseDoes
<1>8. CASE UNCHANGED vars
  BY <1>1, <1>8 DEF vars
<1>9. CASE \E t \in Turns : Ask(t) \/ Dispatch(t)
  BY <1>4, <1>9 DEF AloneInv
<1>10. CASE Rebuild
  BY <1>5, <1>10 DEF AloneInv
<1>11. CASE Restart
  BY <1>11, RestartQuiet DEF AloneInv
<1>12. CASE ResetState
  BY <1>1, <1>12, ResetDoes
<1> QED BY <1>2, <1>3, <1>6, <1>7, <1>8, <1>9, <1>10, <1>11, <1>12

\* Without an overlap each snapshot was computed from the one before it that is not left
\* out, and so will be the next one: a thread has computed from the newest, and the loop
\* holds it unless a thread has yet to adopt it.
Coming == Len(disk.snaps) + 1
Past(b, n, u) == b < n /\ b \notin u /\ b + 1 .. n - 1 \subseteq u
Chain ==
    /\ seen.unread \subseteq 1 .. Len(disk.snaps)
    /\ \A i \in 1 .. Len(disk.snaps) : disk.snaps[i] = i \/ Past(disk.snaps[i], i, seen.unread)
    /\ \A t \in Turns : /\ thread[t].at \in {"user", "save"} => Past(thread[t].base, Coming, seen.unread)
                        /\ thread[t].at = "adopt" => Past(thread[t].snap, Coming, seen.unread)
    /\ (\A t \in Turns : thread[t].at # "adopt") => Past(loop.cur, Coming, seen.unread)
ChainInv == ~seen.overlap => Chain

\* A step of thread t that neither saves nor adopts.
LEMMA ChainKept ==
    ASSUME TypeInv, Chain, NEW t \in Turns, Only(t), disk'.snaps = disk.snaps,
           seen'.unread = seen.unread,
           loop'.cur = loop.cur, thread[t].at # "adopt", thread'[t].at # "adopt",
           thread'[t].at \in {"user", "save"} => Past(thread'[t].base, Coming, seen.unread)
    PROVE  Chain'
<1>2. \A s \in Turns :
         /\ thread'[s].at \in {"user", "save"} => Past(thread'[s].base, Coming, seen.unread)
         /\ thread'[s].at = "adopt" => Past(thread'[s].snap, Coming, seen.unread)
  BY DEF Chain, Only
<1>3. (\A s \in Turns : thread'[s].at # "adopt") => \A s \in Turns : thread[s].at # "adopt"
  BY DEF Only
<1>4. Coming' = Coming
  BY DEF Coming
<1> QED BY <1>2, <1>3, <1>4 DEF Chain

LEMMA ChainThread ==
    ASSUME TypeInv, AloneInv, Chain, NEW t \in Turns, Thread(t), Moves(t), ~seen.overlap,
           thread[t].mine \subseteq 1 .. Len(disk.episodes)
    PROVE  Chain'
<1> DEFINE Still == /\ Only(t) /\ disk'.snaps = disk.snaps /\ loop'.cur = loop.cur
                    /\ thread[t].at # "adopt" /\ thread'[t].at # "adopt"
                    /\ thread'[t].at \in {"user", "save"} => Past(thread'[t].base, Coming, seen.unread)
                    /\ seen'.unread = seen.unread
           n == Len(disk.snaps)
<1>0. /\ n \in Nat /\ disk.snaps \in Seq(Nat)
      /\ \A s \in Turns : s # t => thread[s].at \notin {"user", "save", "adopt"}
      /\ thread[t].gen = loop.gen /\ seen'.unread = seen.unread
  <2>1. n \in Nat /\ disk.snaps \in Seq(Nat)
    BY DiskIs DEF TypeInv
  <2>2. \A s \in Turns : s # t => ~Runs(s)
    BY DEF AloneInv, Moves
  <2>3. thread[t].gen = loop.gen
    BY DEF AloneInv, Moves
  <2>4. seen'.unread = seen.unread
    BY DEF Moves
  <2> QED BY <2>1, <2>2, <2>3, <2>4 DEF Runs, Ended
<1>1. CASE Hear(t)
  <2>1. /\ Only(t) /\ UNCHANGED <<disk, loop>> /\ thread[t].at = "hear"
        /\ thread'[t].at # "adopt" /\ thread'[t].base = loop.cur
    BY <1>1, HearDoes
  <2>2. Past(loop.cur, Coming, seen.unread)
    BY <1>0, <2>1 DEF Chain
  <2>3. Still
    BY <1>0, <2>1, <2>2
  <2> QED BY <2>3, ChainKept
<1>2. CASE AddUser(t)
  <2>1. /\ Goes(t, "save") /\ UNCHANGED disk /\ loop'.cur = loop.cur /\ thread[t].at = "user"
    BY <1>2, AddUserDoes
  <2>2. Past(thread[t].base, Coming, seen.unread)
    BY <2>1 DEF Chain
  <2>3. Still
    BY <1>0, <2>1, <2>2 DEF Goes
  <2> QED BY <2>3, ChainKept
<1>3. CASE SaveSnapshot(t)
  <2> DEFINE x == Append(disk.snaps, thread[t].base)
  <2>1. /\ Only(t) /\ disk'.snaps = x /\ thread[t].at = "save"
        /\ thread'[t].at = "adopt" /\ thread'[t].snap = n + 1
    BY <1>3, SaveDoes
  <2>2. Past(thread[t].base, n + 1, seen.unread)
    BY <2>1 DEF Chain, Coming
  <2>3. thread[t].base \in Nat
    BY ThreadIs DEF TypeInv
  <2>4. Len(x) = n + 1 /\ x[n + 1] = thread[t].base /\ \A i \in 1 .. n : x[i] = disk.snaps[i]
    BY <1>0, <2>3, AppendProperties
  <2>6. /\ seen.unread \subseteq 1 .. n
        /\ \A i \in 1 .. n : disk.snaps[i] = i \/ Past(disk.snaps[i], i, seen.unread)
    BY DEF Chain
  <2> HIDE DEF x, n
  <2>7. ASSUME NEW i \in 1 .. n + 1 PROVE x[i] = i \/ Past(x[i], i, seen.unread)
    <3>1. CASE i = n + 1
      BY <2>2, <2>4, <3>1
    <3>2. CASE i # n + 1
      BY <1>0, <2>4, <2>6, <3>2
    <3> QED BY <3>1, <3>2
  <2>8. Past(n + 1, n + 2, seen.unread) /\ seen.unread \subseteq 1 .. n + 1
    BY <1>0, <2>6 DEF Past
  <2>9. Coming' = n + 2 /\ Len(disk'.snaps) = n + 1
    BY <1>0, <2>1, <2>4 DEF Coming
  <2>10. \A s \in Turns :
           /\ thread'[s].at \in {"user", "save"} => Past(thread'[s].base, n + 2, seen.unread)
           /\ thread'[s].at = "adopt" => Past(thread'[s].snap, n + 2, seen.unread)
    BY <1>0, <2>1, <2>8 DEF Only
  <2> QED BY <1>0, <2>1, <2>7, <2>8, <2>9, <2>10 DEF Chain
<1>4. CASE Adopt(t)
  <2>1. /\ Only(t) /\ UNCHANGED disk /\ thread[t].at = "adopt"
        /\ thread'[t].at \in {"done", "episodes"}
        /\ loop'.cur = IF thread[t].gen = loop.gen THEN thread[t].snap ELSE loop.cur
    BY <1>4, AdoptDoes DEF Ends
  <2>2. Past(loop'.cur, Coming, seen.unread) /\ Coming' = Coming
    BY <1>0, <2>1 DEF Chain, Coming
  <2>3. \A s \in Turns : thread'[s].at \notin {"user", "save", "adopt"}
    BY <1>0, <2>1 DEF Only
  <2> QED BY <1>0, <2>1, <2>2, <2>3 DEF Chain
<1>5. CASE StoreEpisode(t)
  <2>1. Still
    BY <1>0, <1>5, StoreDoes
  <2> QED BY <2>1, ChainKept
<1>6. CASE Reply(t)
  <2>1. Still
    BY <1>0, <1>6, ReplyDoes
  <2> QED BY <2>1, ChainKept
<1>7. CASE Enqueue(t)
  <2>1. Still
    BY <1>0, <1>7, EnqueueDoes DEF Goes, Ends
  <2> QED BY <2>1, ChainKept
<1>8. CASE Reflect(t)
  <2>1. Still
    BY <1>0, <1>8, ReflectDoes DEF Ends
  <2> QED BY <2>1, ChainKept
<1>9. CASE Summarise(t)
  <2>1. Still
    BY <1>0, <1>9, SummariseDoes DEF Stores, Ends
  <2> QED BY <2>1, ChainKept
<1>10. CASE MarkReflected(t)
  <2>1. Still
    BY <1>0, <1>10, MarkDoes DEF Ends
  <2> QED BY <2>1, ChainKept
<1>11. CASE Raise(t)
  <2>1. Still
    BY <1>0, <1>11, RaiseDoes DEF Ends
  <2> QED BY <2>1, ChainKept
<1> QED BY <1>1, <1>2, <1>3, <1>4, <1>5, <1>6, <1>7, <1>8, <1>9, <1>10, <1>11 DEF Thread

LEMMA ChainElse ==
    ASSUME TypeInv, ChainInv,
           \/ \E t \in Turns : Finish(t) \/ Work(t) \/ Ask(t) \/ Dispatch(t) \/ Cancel(t)
           \/ Rebuild \/ RebuildRaises \/ ResetState \/ Close \/ Restart \/ UNCHANGED vars
    PROVE  ChainInv'
<1>1. ASSUME UNCHANGED <<disk, thread, seen>>, loop'.cur = loop.cur PROVE ChainInv'
  BY <1>1 DEF ChainInv, Chain, Coming, Past
<1>2. ASSUME NEW t \in Turns, Finish(t) \/ Cancel(t) PROVE ChainInv'
  BY <1>1, <1>2, UnlockDoes
<1>3. ASSUME NEW t \in Turns, Work(t) PROVE ChainInv'
  BY <1>1, <1>3, WorkDoes
<1>4. ASSUME NEW t \in Turns, Ask(t) \/ Dispatch(t), ~seen'.overlap PROVE Chain'
  <2>1. Chain
    BY <1>4, BeginsAlone DEF ChainInv
  <2>2. /\ Only(t) /\ UNCHANGED <<disk, loop>> /\ thread[t].at = "none"
        /\ thread'[t].at = "hear" /\ seen'.unread = seen.unread
    BY <1>4, BeginsDoes
  <2> QED BY <2>1, <2>2, ChainKept
<1>5. ASSUME UNCHANGED disk, Chain, loop'.cur = Len(disk.snaps), \A t \in Turns : ~Runs(t)',
             seen'.unread = seen.unread \ {Len(disk.snaps)}
      PROVE  Chain'
  <2> DEFINE n == Len(disk.snaps)
  <2>1. \A t \in Turns : thread'[t].at \notin {"user", "save", "adopt"}
    BY <1>5 DEF Runs, Ended
  <2>2. /\ seen.unread \subseteq 1 .. n /\ n \in Nat
        /\ \A i \in 1 .. n : disk.snaps[i] \in Nat
        /\ \A i \in 1 .. n : disk.snaps[i] = i \/ Past(disk.snaps[i], i, seen.unread)
    BY <1>5, DiskIs DEF Chain, TypeInv
  <2>3. disk' = disk /\ loop'.cur = n /\ seen'.unread = seen.unread \ {n} /\ Coming' = n + 1
    BY <1>5 DEF Coming
  <2> HIDE DEF n
  <2>4. ASSUME NEW i \in 1 .. n, NEW b \in Nat, Past(b, i, seen.unread) PROVE Past(b, i, seen'.unread)
    BY <2>2, <2>3, <2>4 DEF Past
  <2>5. Past(n, n + 1, seen'.unread)
    BY <2>2, <2>3 DEF Past
  <2>6. \A i \in 1 .. n : disk.snaps[i] = i \/ Past(disk.snaps[i], i, seen'.unread)
    BY <2>2, <2>4
  <2>7. seen'.unread \subseteq 1 .. n
    BY <2>2, <2>3
  <2> QED BY <2>1, <2>3, <2>5, <2>6, <2>7 DEF Chain, n
<1>6. ASSUME Rebuild, ~seen'.overlap PROVE Chain'
  <2>1. /\ UNCHANGED <<disk, thread>> /\ loop'.cur = Len(disk.snaps)
        /\ seen'.unread = seen.unread \ {Len(disk.snaps)}
    BY <1>6, RebuildDoes
  <2>2. ~seen.overlap /\ \A t \in Turns : ~Runs(t)
    BY <1>6, RebuildAlone
  <2>3. \A t \in Turns : ~Runs(t)'
    BY <2>1, <2>2 DEF Runs
  <2> QED BY <1>5, <2>1, <2>2, <2>3 DEF ChainInv
<1>7. CASE RebuildRaises
  BY <1>1, <1>7, RebuildRaisesDoes
<1>8. CASE Close
  BY <1>1, <1>8, CloseDoes
<1>9. CASE UNCHANGED vars
  BY <1>1, <1>9 DEF vars
<1>10. CASE Restart
  <2>1. /\ UNCHANGED disk /\ loop'.cur = Len(disk.snaps)
        /\ seen'.unread = seen.unread \ {Len(disk.snaps)}
    BY <1>10, RestartDoes
  <2>2. seen'.overlap = seen.overlap /\ \A t \in Turns : ~Runs(t)'
    BY <1>10, RestartQuiet
  <2> QED BY <1>5, <2>1, <2>2 DEF ChainInv
<1>11. CASE \E t \in Turns : Ask(t) \/ Dispatch(t)
  BY <1>4, <1>11 DEF ChainInv
<1>12. CASE Rebuild
  BY <1>6, <1>12 DEF ChainInv
<1>13. CASE ResetState
  <2> DEFINE n == Len(disk.snaps)
  <2>1. /\ UNCHANGED <<loop, thread>> /\ n \in Nat /\ Len(disk'.snaps) = n + 1
        /\ disk'.snaps[n + 1] = n + 1 /\ \A i \in 1 .. n : disk'.snaps[i] = disk.snaps[i]
        /\ seen'.overlap = seen.overlap /\ seen'.unread = seen.unread \cup {n + 1}
    BY <1>13, ResetDoes
  <2> SUFFICES ASSUME Chain PROVE Chain'
    BY <2>1 DEF ChainInv
  <2>2. /\ seen.unread \subseteq 1 .. n /\ Coming = n + 1 /\ Coming' = n + 2
        /\ \A i \in 1 .. n : disk.snaps[i] \in Nat
        /\ \A i \in 1 .. n : disk.snaps[i] = i \/ Past(disk.snaps[i], i, seen.unread)
    BY <2>1, DiskIs DEF Chain, Coming, TypeInv
  <2>3. /\ loop.cur \in Nat
        /\ \A t \in Turns : thread[t].base \in Nat /\ thread[t].snap \in Nat
    BY LoopIs, ThreadIs DEF TypeInv
  <2> HIDE DEF n
  <2>4. ASSUME NEW i \in 1 .. n, NEW b \in Nat, Past(b, i, seen.unread) PROVE Past(b, i, seen'.unread)
    BY <2>1, <2>2, <2>4 DEF Past
  <2>5. ASSUME NEW b \in Nat, Past(b, n + 1, seen.unread) PROVE Past(b, n + 2, seen'.unread)
    BY <2>1, <2>2, <2>5 DEF Past
  <2>6. ASSUME NEW i \in 1 .. n + 1 PROVE disk'.snaps[i] = i \/ Past(disk'.snaps[i], i, seen'.unread)
    <3>1. CASE i = n + 1
      BY <2>1, <3>1
    <3>2. CASE i # n + 1
      <4>1. i \in 1 .. n
        BY <2>1, <3>2
      <4>2. /\ disk'.snaps[i] = disk.snaps[i] /\ disk.snaps[i] \in Nat
            /\ disk.snaps[i] = i \/ Past(disk.snaps[i], i, seen.unread)
        BY <2>1, <2>2, <4>1
      <4> QED BY <2>4, <4>1, <4>2
    <3> QED BY <3>1, <3>2
  <2>7. seen'.unread \subseteq 1 .. n + 1
    BY <2>1, <2>2
  <2>8. \A t \in Turns :
           /\ thread'[t].at \in {"user", "save"} => Past(thread'[t].base, n + 2, seen'.unread)
           /\ thread'[t].at = "adopt" => Past(thread'[t].snap, n + 2, seen'.unread)
    BY <2>1, <2>2, <2>3, <2>5 DEF Chain
  <2>9. (\A t \in Turns : thread'[t].at # "adopt") => Past(loop'.cur, n + 2, seen'.unread)
    BY <2>1, <2>2, <2>3, <2>5 DEF Chain
  <2> QED BY <2>1, <2>2, <2>6, <2>7, <2>8, <2>9 DEF Chain
<1> QED BY <1>2, <1>3, <1>7, <1>8, <1>9, <1>10, <1>11, <1>12, <1>13

-----------------------------------------------------------------------------
(* What short-term memory shows of the log *)

\* Memory s follows the dialogue e: from its last entry back to the last one of a turn
\* with a gap it holds what e ends with, and it is shorter than e and the window only
\* where there is such an entry.
Follows(s, e, g) ==
    /\ \A i \in 1 .. Len(s) : (\A j \in i .. Len(s) : s[j][2] \notin g) =>
          Len(s) - i < Len(e) /\ s[i] = e[Len(e) - Len(s) + i]
    /\ Len(s) = Window \/ Len(s) = Len(e) \/ \E j \in 1 .. Len(s) : s[j][2] \in g

LEMMA KeepLast ==
    ASSUME NEW s \in Seq(Said), NEW x \in Said
    PROVE  LET k == Keep(Append(s, x)) IN
           k \in Seq(Said) /\ Len(k) > 0 /\ k[Len(k)] = x
<1> DEFINE a == Append(s, x)
<1>1. a \in Seq(Said) /\ Len(a) = Len(s) + 1 /\ a[Len(a)] = x /\ Len(s) \in Nat
  BY AppendProperties
<1> HIDE DEF a
<1> DEFINE k == Keep(a)
<1>2. /\ k \in Seq(Said) /\ Len(k) = IF Len(a) <= Window THEN Len(a) ELSE Window
      /\ \A i \in 1 .. Len(k) : k[i] = a[Len(a) - Len(k) + i]
  BY <1>1, KeepIs
<1> HIDE DEF k
<1>3. Len(k) \in 1 .. Len(a)
  BY <1>1, <1>2, TurnAssumption
<1>4. k[Len(k)] = a[Len(a) - Len(k) + Len(k)]
  BY <1>2, <1>3
<1>5. Len(a) - Len(k) + Len(k) = Len(a)
  BY <1>1, <1>3
<1> QED BY <1>1, <1>2, <1>3, <1>4, <1>5 DEF k, a

\* Both go on with the same entry.
LEMMA FollowsAppend ==
    ASSUME NEW s \in Seq(Said), NEW e \in Seq(Said), NEW x \in Said, NEW g, Follows(s, e, g)
    PROVE  Follows(Keep(Append(s, x)), Append(e, x), g)
<1> DEFINE a == Append(s, x)
           f == Append(e, x)
           n == Len(s)
           m == Len(e)
<1>1. /\ a \in Seq(Said) /\ Len(a) = n + 1 /\ a[n + 1] = x /\ n \in Nat
      /\ \A i \in 1 .. n : a[i] = s[i]
  BY AppendProperties
<1>2. /\ Len(f) = m + 1 /\ f[m + 1] = x /\ m \in Nat /\ \A i \in 1 .. m : f[i] = e[i]
  BY AppendProperties
<1> HIDE DEF a, f
<1> DEFINE k == Keep(a)
           l == Len(k)
<1>3. /\ k \in Seq(Said) /\ l = IF n + 1 <= Window THEN n + 1 ELSE Window
      /\ \A i \in 1 .. l : k[i] = a[n + 1 - l + i]
  <2>1. /\ k \in Seq(Said) /\ l = IF Len(a) <= Window THEN Len(a) ELSE Window
        /\ \A i \in 1 .. l : k[i] = a[Len(a) - l + i]
    BY <1>1, KeepIs
  <2>2. Len(a) = n + 1 /\ n \in Nat /\ l \in Nat
    BY <1>1, <2>1
  <2> HIDE DEF k, l, n
  <2>3. ASSUME NEW i \in 1 .. l PROVE k[i] = a[n + 1 - l + i]
    <3>1. k[i] = a[Len(a) - l + i]
      BY <2>1, Zenon
    <3> QED BY <2>2, <3>1
  <2>4. l = IF n + 1 <= Window THEN n + 1 ELSE Window
    BY <2>1, <2>2
  <2> QED BY <2>1, <2>3, <2>4
<1> HIDE DEF k
<1>4. l \in 1 .. n + 1
  BY <1>1, <1>3, TurnAssumption
<1>5. /\ \A i \in 1 .. n : (\A j \in i .. n : s[j][2] \notin g) =>
            n - i < m /\ s[i] = e[m - n + i]
      /\ n = Window \/ n = m \/ \E j \in 1 .. n : s[j][2] \in g
  BY DEF Follows
<1> HIDE DEF n, m, l
<1>6. ASSUME NEW i \in 1 .. l, \A j \in i .. l : k[j][2] \notin g
      PROVE  l - i < m + 1 /\ k[i] = f[m + 1 - l + i]
  <2>1. CASE i = l
    <3>1. n + 1 - l + i = n + 1 /\ m + 1 - l + i = m + 1
      BY <1>1, <1>2, <1>4, <2>1
    <3>2. k[i] = a[n + 1 - l + i]
      BY <1>3
    <3>3. l - i < m + 1
      BY <1>2, <1>4, <2>1
    <3> QED BY <1>1, <1>2, <3>1, <3>2, <3>3
  <2>2. CASE i # l
    <3> DEFINE h == n + 1 - l + i
    <3>1. h \in 1 .. n /\ m - n + h = m + 1 - l + i /\ n - h = l - i - 1
      BY <1>1, <1>2, <1>4, <2>2
    <3>2. k[i] = a[h] /\ a[h] = s[h]
      BY <1>1, <1>3, <3>1
    <3>3. ASSUME NEW j \in h .. n PROVE s[j][2] \notin g
      <4> DEFINE q == j - (n + 1 - l)
      <4>1. q \in i .. l /\ q \in 1 .. l /\ n + 1 - l + q = j /\ j \in 1 .. n
        BY <1>1, <1>4, <3>1
      <4> HIDE DEF q, h
      <4>2. k[q] = a[n + 1 - l + q]
        BY <1>3, <4>1, Zenon
      <4>3. a[j] = s[j]
        BY <1>1, <4>1, Zenon
      <4>4. k[q] = s[j]
        BY <4>1, <4>2, <4>3
      <4>5. k[q][2] \notin g
        BY <1>6, <4>1, Zenon
      <4> QED BY <4>4, <4>5
    <3> HIDE DEF h
    <3>4. n - h < m /\ s[h] = e[m - n + h]
      BY <1>5, <3>1, <3>3
    <3>5. m - n + h \in 1 .. m
      BY <1>1, <1>2, <3>1, <3>4
    <3>6. f[m + 1 - l + i] = e[m + 1 - l + i]
      BY <1>2, <3>1, <3>5
    <3>7. l - i < m + 1
      BY <1>2, <1>4, <3>1, <3>4
    <3> QED BY <3>1, <3>2, <3>4, <3>6, <3>7
  <2> QED BY <2>1, <2>2
<1>0. n \in Nat /\ (l = IF n + 1 <= Window THEN n + 1 ELSE Window) /\ Window \in Nat \ {0}
  BY <1>1, <1>3, TurnAssumption
<1>7. l = Window \/ l = m + 1 \/ \E j \in 1 .. l : k[j][2] \in g
  <2>1. CASE n + 1 > Window
    BY <1>0, <2>1
  <2>2. CASE ~(n + 1 > Window) /\ n = m
    BY <1>0, <2>2
  <2>3. CASE ~(n + 1 > Window) /\ \E j \in 1 .. n : s[j][2] \in g
    <3>1. PICK j \in 1 .. n : s[j][2] \in g
      BY <2>3
    <3>2. l = n + 1 /\ j \in 1 .. l /\ n + 1 - l + j = j
      BY <1>0, <2>3
    <3>3. k[j] = a[n + 1 - l + j] /\ a[j] = s[j]
      BY <1>1, <1>3, <3>2, Zenon
    <3>4. k[j][2] \in g
      BY <3>1, <3>2, <3>3
    <3> QED BY <3>2, <3>4
  <2>4. n # Window \/ n + 1 > Window
    BY <1>0
  <2> QED BY <1>5, <2>1, <2>2, <2>3, <2>4
<1>8. Len(k) = l /\ Len(f) = m + 1
  BY <1>2 DEF l
<1>9. Follows(k, f, g)
  <2>1. ASSUME NEW i \in 1 .. Len(k), \A j \in i .. Len(k) : k[j][2] \notin g
        PROVE  Len(k) - i < Len(f) /\ k[i] = f[Len(f) - Len(k) + i]
    <3>1. i \in 1 .. l /\ \A j \in i .. l : k[j][2] \notin g
      BY <1>8, <2>1
    <3>2. l - i < m + 1 /\ k[i] = f[m + 1 - l + i]
      BY <1>6, <3>1, Zenon
    <3>3. m \in Nat /\ l \in Nat
      BY <1>0, <1>2
    <3> QED BY <1>8, <3>2, <3>3
  <2>2. Len(k) = Window \/ Len(k) = Len(f) \/ \E j \in 1 .. Len(k) : k[j][2] \in g
    BY <1>7, <1>8
  <2> QED BY <2>1, <2>2, Zenon DEF Follows
<1> QED BY <1>9 DEF k, a, f

\* More gaps ask less.
LEMMA FollowsMore ==
    ASSUME NEW s, NEW e, NEW g, NEW h, g \subseteq h, Follows(s, e, g)
    PROVE  Follows(s, e, h)
<1>1. ASSUME NEW i \in 1 .. Len(s), \A j \in i .. Len(s) : s[j][2] \notin h
      PROVE  Len(s) - i < Len(e) /\ s[i] = e[Len(e) - Len(s) + i]
  <2>1. \A j \in i .. Len(s) : s[j][2] \notin g
    BY <1>1
  <2> QED BY <2>1, Zenon DEF Follows
<1>2. Len(s) = Window \/ Len(s) = Len(e) \/ \E j \in 1 .. Len(s) : s[j][2] \in h
  BY Zenon DEF Follows
<1> QED BY <1>1, <1>2, Zenon DEF Follows

\* Nothing is asked of a memory whose last entry is of a turn with a gap.
LEMMA FollowsGap ==
    ASSUME NEW s \in Seq(Said), NEW e, NEW g, Len(s) > 0, s[Len(s)][2] \in g
    PROVE  Follows(s, e, g)
<1>1. Len(s) \in 1 .. Len(s) /\ \A i \in 1 .. Len(s) : Len(s) \in i .. Len(s)
  OBVIOUS
<1>2. \A i \in 1 .. Len(s) : ~ \A j \in i .. Len(s) : s[j][2] \notin g
  BY <1>1, Zenon
<1>3. \E j \in 1 .. Len(s) : s[j][2] \in g
  BY <1>1, Zenon
<1> QED BY <1>2, <1>3, Zenon DEF Follows

LEMMA FollowsKeep ==
    ASSUME NEW e \in Seq(Said), NEW g
    PROVE  Follows(Keep(e), e, g)
<1> DEFINE k == Keep(e)
           l == Len(k)
           m == Len(e)
<1>1. /\ l = IF m <= Window THEN m ELSE Window
      /\ \A i \in 1 .. l : k[i] = e[m - l + i]
  BY KeepIs
<1>2. m \in Nat /\ Window \in Nat
  BY TurnAssumption
<1> HIDE DEF k, l, m
<1>3. \A i \in 1 .. l : l - i < m
  BY <1>1, <1>2
<1>4. l = Window \/ l = m
  BY <1>1, <1>2
<1>5. Len(k) = l /\ Len(e) = m
  BY DEF l, m
<1>6. Follows(k, e, g)
  BY <1>1, <1>3, <1>4, <1>5 DEF Follows
<1> QED BY <1>6 DEF k

\* A memory without gaps that follows the dialogue is the newest of it.
LEMMA FollowsIs ==
    ASSUME NEW s \in Seq(Said), NEW e \in Seq(Said), NEW g, Follows(s, e, g),
           Len(s) <= Window, \A i \in 1 .. Len(s) : s[i][2] \notin g
    PROVE  s = Keep(e)
<1> DEFINE k == Keep(e)
           l == Len(k)
           m == Len(e)
           n == Len(s)
<1>1. /\ k \in Seq(Said) /\ l = IF m <= Window THEN m ELSE Window
      /\ \A i \in 1 .. l : k[i] = e[m - l + i]
  BY KeepIs
<1>2. m \in Nat /\ n \in Nat /\ Window \in Nat \ {0} /\ n <= Window
  BY TurnAssumption
<1>3. n = Window \/ n = m
  BY Zenon DEF Follows
<1>4. \A i \in 1 .. n : n - i < m /\ s[i] = e[m - n + i]
  <2> SUFFICES ASSUME NEW i \in 1 .. n PROVE n - i < m /\ s[i] = e[m - n + i]
    OBVIOUS
  <2>1. \A j \in i .. n : s[j][2] \notin g
    <3>1. \A j \in i .. n : j \in 1 .. n
      BY <1>2
    <3> QED BY <3>1, Zenon
  <2> QED BY <2>1, Zenon DEF Follows
<1> HIDE DEF k, l, m, n
<1>5. n = l
  <2>1. CASE n = m
    BY <1>1, <1>2, <2>1
  <2>2. CASE n = Window
    <3>1. 1 \in 1 .. n
      BY <1>2, <2>2
    <3>2. n - 1 < m
      BY <1>4, <3>1
    <3> QED BY <1>1, <1>2, <2>2, <3>2
  <2> QED BY <1>3, <2>1, <2>2
<1>6. Len(s) = Len(k)
  BY <1>5 DEF l, n
<1>7. \A i \in 1 .. Len(s) : s[i] = k[i]
  BY <1>1, <1>4, <1>5 DEF n
<1>8. s = k
  BY <1>1, <1>6, <1>7, SeqEqual
<1> QED BY <1>8 DEF k

\* A row more are two entries more.
LEMMA EntriesAppend ==
    ASSUME NEW log \in Seq(Turns), NEW t \in Turns
    PROVE  Entries(Append(log, t)) = Append(Append(Entries(log), <<"user", t>>), <<"entity", t>>)
<1> DEFINE new == Append(log, t)
           old == Entries(log)
           one == Append(old, <<"user", t>>)
           two == Append(one, <<"entity", t>>)
           n == Len(log)
<1>1. /\ new \in Seq(Turns) /\ Len(new) = n + 1 /\ n \in Nat /\ new[n + 1] = t
      /\ \A i \in 1 .. n : new[i] = log[i]
  BY AppendProperties
<1>2. /\ old \in Seq(Said) /\ Len(old) = 2 * n
      /\ \A k \in 1 .. 2 * n :
            /\ (k + 1) \div 2 \in 1 .. n
            /\ old[k] = <<IF k % 2 = 1 THEN "user" ELSE "entity", log[(k + 1) \div 2]>>
  BY EntriesAre
<1>3. <<"user", t>> \in Said /\ <<"entity", t>> \in Said
  BY DEF Said
<1> HIDE DEF old, new, n
<1>4. /\ one \in Seq(Said) /\ Len(one) = 2 * n + 1 /\ one[2 * n + 1] = <<"user", t>>
      /\ \A k \in 1 .. 2 * n : one[k] = old[k]
  BY <1>2, <1>3, AppendProperties
<1> HIDE DEF one
<1>5. /\ two \in Seq(Said) /\ Len(two) = 2 * n + 2 /\ two[2 * n + 2] = <<"entity", t>>
      /\ \A k \in 1 .. 2 * n + 1 : two[k] = one[k]
  <2>1. /\ two \in Seq(Said) /\ Len(two) = Len(one) + 1
        /\ two[Len(one) + 1] = <<"entity", t>>
        /\ \A k \in 1 .. Len(one) : two[k] = one[k]
    BY <1>3, <1>4, AppendProperties
  <2> HIDE DEF two
  <2>2. Len(one) = 2 * n + 1 /\ Len(one) + 1 = 2 * n + 2
    BY <1>1, <1>4
  <2> QED BY <2>1, <2>2
<1> HIDE DEF two
<1>6. /\ Entries(new) \in Seq(Said) /\ Len(Entries(new)) = 2 * n + 2
      /\ \A k \in 1 .. 2 * n + 2 :
            Entries(new)[k] = <<IF k % 2 = 1 THEN "user" ELSE "entity", new[(k + 1) \div 2]>>
  <2>1. 2 * Len(new) = 2 * n + 2
    BY <1>1
  <2> QED BY <1>1, <2>1, EntriesAre
<1>7. ASSUME NEW k \in 1 .. 2 * n + 2 PROVE Entries(new)[k] = two[k]
  <2>1. CASE k = 2 * n + 2
    <3>1. k % 2 # 1 /\ (k + 1) \div 2 = n + 1
      BY <1>1, <2>1
    <3>2. Entries(new)[k] = <<IF k % 2 = 1 THEN "user" ELSE "entity", new[(k + 1) \div 2]>>
      BY <1>6
    <3> QED BY <1>1, <1>5, <2>1, <3>1, <3>2
  <2>2. CASE k = 2 * n + 1
    <3>1. k % 2 = 1 /\ (k + 1) \div 2 = n + 1 /\ k \in 1 .. 2 * n + 1
      BY <1>1, <2>2
    <3>2. Entries(new)[k] = <<IF k % 2 = 1 THEN "user" ELSE "entity", new[(k + 1) \div 2]>>
      BY <1>6
    <3>3. two[k] = <<"user", t>>
      BY <1>4, <1>5, <2>2, <3>1
    <3> QED BY <1>1, <3>1, <3>2, <3>3
  <2>3. CASE k # 2 * n + 1 /\ k # 2 * n + 2
    <3>1. k \in 1 .. 2 * n /\ k \in 1 .. 2 * n + 1
      BY <1>1, <2>3
    <3>2. Entries(new)[k] = <<IF k % 2 = 1 THEN "user" ELSE "entity", new[(k + 1) \div 2]>>
      BY <1>6
    <3>3. new[(k + 1) \div 2] = log[(k + 1) \div 2]
      BY <1>1, <1>2, <3>1
    <3>4. two[k] = old[k]
      BY <1>4, <1>5, <3>1
    <3> QED BY <1>2, <3>1, <3>2, <3>3, <3>4
  <2> QED BY <2>1, <2>2, <2>3
<1>8. Entries(new) = two
  BY <1>5, <1>6, <1>7, SeqEqual
<1> QED BY <1>8 DEF new, old, one, two

\* What a restart reads is the newest of the whole dialogue, although it reads rows.
LEMMA HydrateIsKeep ==
    ASSUME NEW log \in Seq(Turns)
    PROVE  Hydrate(log) = Keep(Entries(log))
<1> DEFINE rows == Keep(log)
           some == Entries(rows)
           all == Entries(log)
           n == Len(log)
           r == Len(rows)
           W == Window
<1>1. /\ rows \in Seq(Turns) /\ r = (IF n <= W THEN n ELSE W) /\ n \in Nat /\ W \in Nat \ {0}
      /\ \A i \in 1 .. r : rows[i] = log[n - r + i]
  BY KeepIs, TurnAssumption
<1>2. /\ all \in Seq(Said) /\ Len(all) = 2 * n
      /\ \A k \in 1 .. 2 * n :
            /\ (k + 1) \div 2 \in 1 .. n
            /\ all[k] = <<IF k % 2 = 1 THEN "user" ELSE "entity", log[(k + 1) \div 2]>>
  BY EntriesAre
<1>3. CASE n <= W
  <2>1. rows = log
    BY <1>3 DEF Keep
  <2> QED BY <2>1 DEF Hydrate
<1>4. CASE ~(n <= W)
  <2> HIDE DEF rows
  <2>1. /\ some \in Seq(Said) /\ Len(some) = 2 * r
        /\ \A k \in 1 .. 2 * r :
              /\ (k + 1) \div 2 \in 1 .. r
              /\ some[k] = <<IF k % 2 = 1 THEN "user" ELSE "entity", rows[(k + 1) \div 2]>>
    BY <1>1, EntriesAre
  <2> HIDE DEF some, all
  <2> DEFINE ks == Keep(some)
             ka == Keep(all)
  <2>2. r = W /\ 2 * r >= W /\ 2 * n >= W
    BY <1>1, <1>4
  <2>3. /\ ks \in Seq(Said) /\ Len(ks) = W
        /\ \A i \in 1 .. W : ks[i] = some[2 * r - W + i]
    <3>1. /\ ks \in Seq(Said)
          /\ Len(ks) = IF Len(some) <= Window THEN Len(some) ELSE Window
          /\ \A i \in 1 .. Len(ks) : ks[i] = some[Len(some) - Len(ks) + i]
      BY <2>1, KeepIs
    <3> HIDE DEF ks, n, r
    <3>2. Len(some) = 2 * r
      BY <2>1
    <3>3. Len(ks) = W
      BY <1>1, <2>2, <3>1, <3>2
    <3>4. \A i \in 1 .. W : ks[i] = some[Len(some) - W + i]
      BY <3>1, <3>3
    <3> QED BY <3>1, <3>2, <3>3, <3>4
  <2>4. /\ ka \in Seq(Said) /\ Len(ka) = W
        /\ \A i \in 1 .. W : ka[i] = all[2 * n - W + i]
    <3>1. /\ ka \in Seq(Said)
          /\ Len(ka) = IF Len(all) <= Window THEN Len(all) ELSE Window
          /\ \A i \in 1 .. Len(ka) : ka[i] = all[Len(all) - Len(ka) + i]
      BY <1>2, KeepIs
    <3> HIDE DEF ka, n, r
    <3>2. Len(all) = 2 * n
      BY <1>2
    <3>3. Len(ka) = W
      BY <1>1, <2>2, <3>1, <3>2
    <3>4. \A i \in 1 .. W : ka[i] = all[Len(all) - W + i]
      BY <3>1, <3>3
    <3> QED BY <3>1, <3>2, <3>3, <3>4
  <2> HIDE DEF ks, ka, n, r
  <2>5. ASSUME NEW i \in 1 .. W PROVE ks[i] = ka[i]
    <3> DEFINE p == 2 * r - W + i
               q == 2 * n - W + i
               h == (p + 1) \div 2
    <3>1. p \in 1 .. 2 * r /\ q \in 1 .. 2 * n /\ p % 2 = q % 2 /\ (q + 1) \div 2 = n - r + h
      BY <1>1, <1>4, <2>2
    <3>2. ks[i] = some[p] /\ ka[i] = all[q]
      BY <2>3, <2>4
    <3> HIDE DEF p, q
    <3>3. /\ h \in 1 .. r
          /\ some[p] = <<IF p % 2 = 1 THEN "user" ELSE "entity", rows[h]>>
      BY <2>1, <3>1
    <3>4. all[q] = <<IF q % 2 = 1 THEN "user" ELSE "entity", log[(q + 1) \div 2]>>
      BY <1>2, <3>1
    <3> HIDE DEF h
    <3>5. rows[h] = log[n - r + h]
      BY <1>1, <3>3
    <3> QED BY <3>1, <3>2, <3>3, <3>4, <3>5
  <2>6. ks = ka
    BY <2>3, <2>4, <2>5, SeqEqual
  <2> QED BY <2>6 DEF ks, ka, some, all, rows, Hydrate
<1> QED BY <1>3, <1>4

-----------------------------------------------------------------------------
(* The window *)

\* A turn that is heard and not yet answered, or has failed to be.
Pending(t) ==
    thread[t].kind # "event" /\ thread[t].at \in {"save", "adopt", "episodes", "reply"}

\* Without an overlap short-term memory follows the log and what is heard beyond it.
Windowed ==
    /\ \A t \in Turns : Pending(t) =>
          /\ Follows(loop.short, Append(Entries(disk.log), <<"user", t>>), seen.gaps)
          /\ Len(loop.short) > 0 /\ loop.short[Len(loop.short)] = <<"user", t>>
    /\ (\A t \in Turns : ~Pending(t)) => Follows(loop.short, Entries(disk.log), seen.gaps)
WindowInv == ~seen.overlap => Windowed

\* A step after which no turn is pending more than before, and none less.
LEMMA WindowKept ==
    ASSUME Windowed, disk'.log = disk.log, loop'.short = loop.short,
           seen.gaps \subseteq seen'.gaps, \A t \in Turns : Pending(t)' <=> Pending(t)
    PROVE  Windowed'
<1>1. ASSUME NEW t \in Turns, Pending(t)'
      PROVE  /\ Follows(loop'.short, Append(Entries(disk'.log), <<"user", t>>), seen'.gaps)
             /\ Len(loop'.short) > 0 /\ loop'.short[Len(loop'.short)] = <<"user", t>>
  <2>1. /\ Follows(loop.short, Append(Entries(disk.log), <<"user", t>>), seen.gaps)
        /\ Len(loop.short) > 0 /\ loop.short[Len(loop.short)] = <<"user", t>>
    BY <1>1, Zenon DEF Windowed
  <2>2. Follows(loop.short, Append(Entries(disk.log), <<"user", t>>), seen'.gaps)
    BY <2>1, FollowsMore
  <2> QED BY <2>1, <2>2
<1>2. ASSUME \A t \in Turns : ~Pending(t)'
      PROVE  Follows(loop'.short, Entries(disk'.log), seen'.gaps)
  <2>1. Follows(loop.short, Entries(disk.log), seen.gaps)
    BY <1>2, Zenon DEF Windowed
  <2>2. Follows(loop.short, Entries(disk.log), seen'.gaps)
    BY <2>1, FollowsMore
  <2> QED BY <2>2
<1> QED BY <1>1, <1>2, Zenon DEF Windowed

LEMMA WindowThread ==
    ASSUME TypeInv, OwnInv, AloneInv, Windowed, NEW t \in Turns, Thread(t), Moves(t),
           ~seen.overlap, thread[t].mine \subseteq 1 .. Len(disk.episodes)
    PROVE  Windowed'
<1> DEFINE Still == /\ disk'.log = disk.log /\ loop'.short = loop.short
                    /\ seen.gaps \subseteq seen'.gaps /\ (Pending(t)' <=> Pending(t))
           mem == loop.short
           old == Entries(disk.log)
           user == <<"user", t>>
           entity == <<"entity", t>>
<1>0. /\ thread[t].gen = loop.gen /\ Only(t)
      /\ \A s \in Turns : s # t => ~Pending(s) /\ ~Pending(s)'
      /\ thread[t].kind = "event" => thread[t].at \notin Spoken
  <2>1. \A s \in Turns : s # t => ~Runs(s)
    BY DEF AloneInv, Moves
  <2>2. thread[t].gen = loop.gen
    BY DEF AloneInv, Moves
  <2>3. Only(t) /\ (thread[t].kind = "event" => thread[t].at \notin Spoken)
    BY DEF Moves, OwnInv
  <2>4. \A s \in Turns : s # t => ~Pending(s)
    BY <2>1 DEF Runs, Ended, Pending
  <2>5. \A s \in Turns : s # t => ~Pending(s)'
    BY <2>3, <2>4 DEF Only, Pending
  <2> QED BY <2>2, <2>3, <2>4, <2>5
<1>s. ASSUME Still PROVE Windowed'
  <2>1. \A s \in Turns : Pending(s)' <=> Pending(s)
    BY <1>0, <1>s, Zenon
  <2> QED BY <1>s, <2>1, WindowKept
<1>t. /\ mem \in Seq(Said) /\ old \in Seq(Said) /\ user \in Said /\ entity \in Said
      /\ disk.log \in Seq(Turns)
  BY LoopIs, DiskIs, EntriesAre DEF TypeInv, Said
<1> HIDE DEF mem, old
<1>1. CASE Hear(t)
  <2>1. Still
    BY <1>1, HearDoes DEF Pending, Keeps
  <2> QED BY <1>s, <2>1
<1>2. CASE AddUser(t)
  <2>1. /\ UNCHANGED <<disk, seen>> /\ thread[t].at = "user" /\ Goes(t, "save")
        /\ loop'.short = Keep(Append(mem, user))
    BY <1>0, <1>2, AddUserDoes DEF mem
  <2>2. thread[t].kind # "event" /\ ~Pending(t) /\ Pending(t)'
    BY <1>0, <2>1 DEF Spoken, Pending, Goes
  <2>3. Follows(mem, old, seen.gaps)
    BY <1>0, <2>2, Zenon DEF Windowed, mem, old
  <2> DEFINE new == Keep(Append(mem, user))
  <2>4. Follows(new, Append(old, user), seen.gaps)
    BY <1>t, <2>3, FollowsAppend
  <2>5. Len(new) > 0 /\ new[Len(new)] = user
    BY <1>t, KeepLast
  <2> HIDE DEF new
  <2>6. loop'.short = new /\ seen' = seen /\ Entries(disk'.log) = old
    BY <2>1 DEF new, old
  <2>7. \A s \in Turns : Pending(s)' => s = t
    BY <1>0, Zenon
  <2>8. ASSUME NEW s \in Turns, Pending(s)'
        PROVE  /\ Follows(loop'.short, Append(Entries(disk'.log), <<"user", s>>), seen'.gaps)
               /\ Len(loop'.short) > 0 /\ loop'.short[Len(loop'.short)] = <<"user", s>>
    <3>1. s = t
      BY <2>7, <2>8, Zenon
    <3> QED BY <2>4, <2>5, <2>6, <3>1
  <2>9. ~ \A s \in Turns : ~Pending(s)'
    BY <2>2
  <2> QED BY <2>8, <2>9, Zenon DEF Windowed
<1>3. CASE SaveSnapshot(t)
  <2>1. Still
    BY <1>3, SaveDoes DEF Pending, Keeps
  <2> QED BY <1>s, <2>1
<1>4. CASE Adopt(t)
  <2>1. Still
    BY <1>4, AdoptDoes DEF Pending, Keeps, Ends
  <2> QED BY <1>s, <2>1
<1>5. CASE StoreEpisode(t)
  <2>1. Still
    BY <1>5, StoreDoes DEF Pending, Keeps
  <2> QED BY <1>s, <2>1
<1>6. CASE Reply(t)
  <2> DEFINE new == Keep(Append(mem, entity))
  <2>1. /\ thread[t].at = "reply" /\ Only(t) /\ Keeps(t) /\ thread'[t].at = "influence"
        /\ loop'.short = new
        /\ \/ disk'.log = Append(disk.log, t) /\ UNCHANGED seen
           \/ disk'.log = disk.log /\ seen'.gaps = seen.gaps \cup {t}
    BY <1>0, <1>6, ReplyDoes DEF mem
  <2>2. Pending(t) /\ ~Pending(t)'
    BY <1>0, <2>1 DEF Spoken, Pending
  <2>3. \A s \in Turns : ~Pending(s)'
    BY <1>0, <2>2, Zenon
  <2>4. Follows(mem, Append(old, user), seen.gaps)
    BY <2>2, Zenon DEF Windowed, mem, old
  <2>5. new \in Seq(Said) /\ Len(new) > 0 /\ new[Len(new)] = entity
    BY <1>t, KeepLast
  <2>6. CASE disk'.log = Append(disk.log, t) /\ UNCHANGED seen
    <3> DEFINE two == Append(old, user)
    <3>1. two \in Seq(Said)
      BY <1>t, AppendProperties
    <3>2. Entries(disk'.log) = Append(two, entity)
      BY <1>t, <2>6, EntriesAppend DEF old
    <3> HIDE DEF two
    <3>3. Follows(mem, two, seen.gaps)
      BY <2>4 DEF two
    <3>4. Follows(new, Append(two, entity), seen.gaps)
      BY <1>t, <3>1, <3>3, FollowsAppend
    <3> HIDE DEF new
    <3>5. Follows(loop'.short, Entries(disk'.log), seen'.gaps)
      BY <2>1, <2>6, <3>2, <3>4
    <3> QED BY <2>3, <3>5, Zenon DEF Windowed
  <2>7. CASE disk'.log = disk.log /\ seen'.gaps = seen.gaps \cup {t}
    <3> HIDE DEF new
    <3>1. entity[2] = t /\ t \in seen'.gaps
      BY <2>7
    <3>2. new[Len(new)][2] \in seen'.gaps
      BY <2>5, <3>1
    <3>3. Follows(new, Entries(disk'.log), seen'.gaps)
      BY <2>5, <3>2, FollowsGap
    <3>4. Follows(loop'.short, Entries(disk'.log), seen'.gaps)
      BY <2>1, <3>3
    <3> QED BY <2>3, <3>4, Zenon DEF Windowed
  <2> QED BY <2>1, <2>6, <2>7
<1>7. CASE Enqueue(t)
  <2>1. Still
    BY <1>7, EnqueueDoes DEF Pending, Goes, Ends
  <2> QED BY <1>s, <2>1
<1>8. CASE Reflect(t)
  <2>1. Still
    BY <1>8, ReflectDoes DEF Pending, Ends
  <2> QED BY <1>s, <2>1
<1>9. CASE Summarise(t)
  <2>1. Still
    BY <1>9, SummariseDoes DEF Pending, Stores, Ends
  <2> QED BY <1>s, <2>1
<1>10. CASE MarkReflected(t)
  <2>1. Still
    BY <1>10, MarkDoes DEF Pending, Ends
  <2> QED BY <1>s, <2>1
<1>11. CASE Raise(t)
  <2>1. UNCHANGED <<disk, loop>> /\ Ends(t, "failed")
    BY <1>11, RaiseDoes
  <2>2. ~Pending(t)'
    BY <2>1 DEF Ends, Pending
  <2>3. CASE ~Pending(t)
    <3>1. Still
      BY <2>1, <2>2, <2>3 DEF Ends
    <3> QED BY <1>s, <3>1
  <2>4. CASE Pending(t)
    <3>1. Len(mem) > 0 /\ mem[Len(mem)] = user
      BY <2>4, Zenon DEF Windowed, mem
    <3>2. seen'.gaps = seen.gaps \cup {t}
      BY <2>1, <2>4 DEF Ends, Pending
    <3>3. user[2] = t /\ t \in seen'.gaps
      BY <3>2
    <3>4. mem[Len(mem)][2] \in seen'.gaps
      BY <3>1, <3>3
    <3>5. Follows(mem, Entries(disk'.log), seen'.gaps)
      BY <1>t, <3>1, <3>4, FollowsGap
    <3>6. Follows(loop'.short, Entries(disk'.log), seen'.gaps)
      BY <2>1, <3>5 DEF mem
    <3>7. \A s \in Turns : ~Pending(s)'
      BY <1>0, <2>2, Zenon
    <3> QED BY <3>6, <3>7, Zenon DEF Windowed
  <2> QED BY <2>3, <2>4
<1> QED BY <1>1, <1>2, <1>3, <1>4, <1>5, <1>6, <1>7, <1>8, <1>9, <1>10, <1>11 DEF Thread

LEMMA WindowElse ==
    ASSUME TypeInv, WindowInv,
           \/ \E t \in Turns : Finish(t) \/ Work(t) \/ Ask(t) \/ Dispatch(t) \/ Cancel(t)
           \/ Rebuild \/ RebuildRaises \/ ResetState \/ Close \/ Restart \/ UNCHANGED vars
    PROVE  WindowInv'
<1>1. ASSUME UNCHANGED <<disk, thread, seen>>, loop'.short = loop.short PROVE WindowInv'
  <2>1. \A t \in Turns : Pending(t)' <=> Pending(t)
    BY <1>1 DEF Pending
  <2>2. Windowed => Windowed'
    BY <1>1, <2>1, WindowKept
  <2> QED BY <1>1, <2>2 DEF WindowInv
<1>2. ASSUME NEW t \in Turns, Finish(t) \/ Cancel(t) PROVE WindowInv'
  BY <1>1, <1>2, UnlockDoes
<1>3. ASSUME NEW t \in Turns, Work(t) PROVE WindowInv'
  BY <1>1, <1>3, WorkDoes
<1>4. ASSUME NEW t \in Turns, Ask(t) \/ Dispatch(t), ~seen'.overlap PROVE Windowed'
  <2>1. Windowed
    BY <1>4, BeginsAlone DEF WindowInv
  <2>2. /\ Only(t) /\ UNCHANGED <<disk, loop>> /\ thread[t].at = "none"
        /\ thread'[t].at = "hear" /\ seen'.gaps = seen.gaps
    BY <1>4, BeginsDoes
  <2>3. \A s \in Turns : Pending(s)' <=> Pending(s)
    BY <2>2 DEF Only, Pending
  <2> QED BY <2>1, <2>2, <2>3, WindowKept
<1>5. ASSUME UNCHANGED disk, loop'.short = Hydrate(disk.log), \A t \in Turns : ~Runs(t)'
      PROVE  Windowed'
  <2>1. disk.log \in Seq(Turns) /\ Entries(disk.log) \in Seq(Said)
    BY DiskIs, EntriesAre DEF TypeInv
  <2>2. loop'.short = Keep(Entries(disk.log))
    BY <1>5, <2>1, HydrateIsKeep
  <2>3. Follows(loop'.short, Entries(disk'.log), seen'.gaps)
    BY <1>5, <2>1, <2>2, FollowsKeep
  <2>4. \A t \in Turns : ~Pending(t)'
    BY <1>5 DEF Pending, Runs, Ended
  <2> QED BY <2>3, <2>4, Zenon DEF Windowed
<1>6. ASSUME Rebuild, ~seen'.overlap PROVE Windowed'
  <2>1. UNCHANGED <<disk, thread>> /\ loop'.short = Hydrate(disk.log)
    BY <1>6, RebuildDoes
  <2>2. \A t \in Turns : ~Runs(t)
    BY <1>6, RebuildAlone
  <2>3. \A t \in Turns : ~Runs(t)'
    BY <2>1, <2>2 DEF Runs
  <2> QED BY <1>5, <2>1, <2>3
<1>7. CASE RebuildRaises
  BY <1>1, <1>7, RebuildRaisesDoes
<1>8. CASE Close
  BY <1>1, <1>8, CloseDoes
<1>9. CASE UNCHANGED vars
  BY <1>1, <1>9 DEF vars
<1>10. CASE Restart
  <2>1. UNCHANGED disk /\ loop'.short = Hydrate(disk.log)
    BY <1>10, RestartDoes
  <2>2. \A t \in Turns : ~Runs(t)'
    BY <1>10, RestartQuiet
  <2> QED BY <1>5, <2>1, <2>2 DEF WindowInv
<1>11. CASE \E t \in Turns : Ask(t) \/ Dispatch(t)
  BY <1>4, <1>11 DEF WindowInv
<1>12. CASE Rebuild
  BY <1>6, <1>12 DEF WindowInv
<1>13. CASE ResetState
  <2>1. /\ UNCHANGED <<loop, thread>> /\ disk'.log = disk.log
        /\ seen'.gaps = seen.gaps /\ seen'.overlap = seen.overlap
    BY <1>13, ResetDoes
  <2>2. \A t \in Turns : Pending(t)' <=> Pending(t)
    BY <2>1 DEF Pending
  <2>3. Windowed => Windowed'
    BY <2>1, <2>2, WindowKept
  <2> QED BY <2>1, <2>3 DEF WindowInv
<1> QED BY <1>2, <1>3, <1>7, <1>8, <1>9, <1>10, <1>11, <1>12, <1>13

-----------------------------------------------------------------------------
(* The inductive invariant and what it implies *)

IInv == TypeInv /\ OwnInv /\ SnapsInv /\ EpisodesInv /\ AloneInv /\ ChainInv /\ WindowInv

LEMMA InitHolds == Init => IInv
<1> SUFFICES ASSUME Init PROVE IInv
  OBVIOUS
<1>1. /\ disk = [snaps |-> <<>>, episodes |-> <<>>, summaries |-> <<>>, log |-> <<>>]
      /\ loop = [gen |-> 1, cur |-> 0, short |-> <<>>, futures |-> {}]
      /\ thread = [t \in Turns |-> NoThread] /\ lock = 0
      /\ task = [t \in Turns |-> "none"] /\ closing = [on |-> FALSE, futures |-> {}]
      /\ used = 0 /\ seen = [overlap |-> FALSE, gaps |-> {}, unread |-> {}]
  BY DEF Init
<1>2. /\ disk \in Disks /\ Len(disk.snaps) = 0 /\ Len(disk.episodes) = 0
      /\ disk.log = <<>> /\ loop \in Loops /\ loop.cur = 0 /\ loop.short = <<>>
  BY <1>1 DEF Disks, Loops
<1>3. seen \in Seens /\ closing \in [on : BOOLEAN, futures : SUBSET Turns]
  BY <1>1 DEF Seens
<1>4. /\ thread \in [Turns -> Threads]
      /\ \A t \in Turns : /\ thread[t].at = "none" /\ thread[t].kind = "none"
                           /\ thread[t].mine = {} /\ thread[t].base = 0 /\ thread[t].snap = 0
  <2>1. NoThread.at = "none" /\ NoThread.kind = "none"
    BY DEF NoThread
  <2> QED BY <1>1, <2>1, NoThreadIs
<1>5. TypeInv
  BY <1>1, <1>2, <1>3, <1>4 DEF TypeInv
<1>6. OwnInv
  BY <1>1, <1>2, <1>4, TurnAssumption DEF OwnInv, NoOrphanMaintenance, Spoken
<1>7. SnapsInv /\ EpisodesInv
  BY <1>2, <1>4 DEF SnapsInv, EpisodesInv
<1>8. AloneInv
  BY <1>4 DEF AloneInv, Runs
<1>9. ChainInv
  BY <1>1, <1>2, <1>4 DEF ChainInv, Chain, Coming, Past
<1>10. WindowInv
  <2>1. Len(loop.short) = 0 /\ disk.log \in Seq(Turns) /\ Len(disk.log) = 0
    BY <1>2
  <2>2. Len(Entries(disk.log)) = 0
    BY <2>1, EntriesAre
  <2>3. Follows(loop.short, Entries(disk.log), seen.gaps)
    BY <2>1, <2>2 DEF Follows
  <2>4. \A t \in Turns : ~Pending(t)
    BY <1>4 DEF Pending
  <2> QED BY <2>3, <2>4 DEF WindowInv, Windowed
<1> QED BY <1>5, <1>6, <1>7, <1>8, <1>9, <1>10 DEF IInv

LEMMA ElseTyped ==
    ASSUME TypeInv,
           \/ \E t \in Turns : Finish(t) \/ Work(t) \/ Ask(t) \/ Dispatch(t) \/ Cancel(t)
           \/ Rebuild \/ RebuildRaises \/ ResetState \/ Close \/ Restart \/ UNCHANGED vars
    PROVE  TypeInv'
<1>1. ASSUME NEW t \in Turns, Finish(t) \/ Cancel(t) PROVE TypeInv'
  BY <1>1, UnlockDoes
<1>2. ASSUME NEW t \in Turns, Work(t) PROVE TypeInv'
  BY <1>2, WorkDoes
<1>3. ASSUME NEW t \in Turns, Ask(t) \/ Dispatch(t) PROVE TypeInv'
  BY <1>3, BeginsDoes
<1>4. CASE Rebuild
  BY <1>4, RebuildDoes
<1>5. CASE Restart
  BY <1>5, RestartDoes
<1>6. CASE RebuildRaises
  BY <1>6, RebuildRaisesDoes
<1>7. CASE Close
  BY <1>7, CloseDoes
<1>8. CASE UNCHANGED vars
  BY <1>8 DEF TypeInv, vars
<1>9. CASE ResetState
  BY <1>9, ResetDoes
<1> QED BY <1>1, <1>2, <1>3, <1>4, <1>5, <1>6, <1>7, <1>8, <1>9

LEMMA ThreadHolds ==
    ASSUME IInv, NEW t \in Turns, Thread(t)
    PROVE  IInv'
<1>1. TypeInv /\ OwnInv /\ SnapsInv /\ EpisodesInv /\ AloneInv /\ ChainInv /\ WindowInv
  BY DEF IInv
<1>2. thread[t].mine \subseteq 1 .. Len(disk.episodes)
  BY <1>1 DEF EpisodesInv
<1>3. TypeInv' /\ Moves(t)
  BY <1>1, <1>2, ThreadMoves
<1>4. OwnInv' /\ AloneInv'
  BY <1>1, <1>3, OwnThread, AloneThread
<1>5. SnapsInv' /\ EpisodesInv'
  BY <1>1, <1>2, SnapsThread, EpisodesThread
<1>6. ~seen'.overlap => ~seen.overlap
  BY <1>3 DEF Moves
<1>7. ASSUME ~seen.overlap PROVE Chain' /\ Windowed'
  <2>1. Chain /\ Windowed
    BY <1>1, <1>7 DEF ChainInv, WindowInv
  <2>2. Chain'
    BY <1>1, <1>2, <1>3, <1>7, <2>1, ChainThread
  <2>3. Windowed'
    BY <1>1, <1>2, <1>3, <1>7, <2>1, WindowThread
  <2> QED BY <2>2, <2>3
<1>8. ChainInv' /\ WindowInv'
  BY <1>6, <1>7 DEF ChainInv, WindowInv
<1> QED BY <1>3, <1>4, <1>5, <1>8 DEF IInv

LEMMA NextHolds == IInv /\ [Next]_vars => IInv'
<1> SUFFICES ASSUME IInv, [Next]_vars PROVE IInv'
  OBVIOUS
<1> DEFINE Else ==
           \/ \E t \in Turns : Finish(t) \/ Work(t) \/ Ask(t) \/ Dispatch(t) \/ Cancel(t)
           \/ Rebuild \/ RebuildRaises \/ ResetState \/ Close \/ Restart \/ UNCHANGED vars
<1>1. (\E t \in Turns : Thread(t)) \/ Else
  BY Zenon DEF Next, Runtime, Rebuilding, Outside
<1>2. ASSUME NEW t \in Turns, Thread(t) PROVE IInv'
  BY <1>2, ThreadHolds
<1>3. CASE Else
  <2>1. TypeInv /\ OwnInv /\ SnapsInv /\ EpisodesInv /\ AloneInv /\ ChainInv /\ WindowInv
    BY DEF IInv
  <2>2. TypeInv'
    BY <1>3, <2>1, ElseTyped
  <2>3. OwnInv'
    BY <1>3, <2>1, OwnElse
  <2>4. SnapsInv' /\ EpisodesInv'
    BY <1>3, <2>1, SnapsElse, EpisodesElse
  <2>5. AloneInv'
    BY <1>3, <2>1, AloneElse
  <2>6. ChainInv'
    BY <1>3, <2>1, ChainElse
  <2>7. WindowInv'
    BY <1>3, <2>1, WindowElse
  <2> QED BY <2>2, <2>3, <2>4, <2>5, <2>6, <2>7 DEF IInv
<1> QED BY <1>1, <1>2, <1>3

LEMMA InvariantHolds == Spec => []IInv
<1>1. Init => IInv
  BY InitHolds
<1>2. IInv /\ [Next]_vars => IInv'
  BY NextHolds
<1> QED BY <1>1, <1>2, PTL DEF Spec

\* Rows refer to rows that exist, short-term memory keeps to its window, and loop_lock is
\* held by a request whose thread was started by this process (core/loop.py and
\* api_runtime.py), for any number of turns, faults and restarts.
THEOREM PipelineTypeOK == Spec => []TurnTypeOK
<1>1. IInv => TurnTypeOK
  BY DEF IInv, TypeInv, OwnInv, SnapsInv, EpisodesInv, TurnTypeOK
<1> QED BY <1>1, InvariantHolds, PTL

\* _rebuild_loop and a restart leave no queued maintenance of the loop they replace.
THEOREM MaintenanceHasItsLoop == Spec => []NoOrphanMaintenance
<1>1. IInv => NoOrphanMaintenance
  BY DEF IInv, OwnInv
<1> QED BY <1>1, InvariantHolds, PTL

\* An episode is marked only by a summary that was made from it, however the reflections
\* of overlapping turns interleave and whatever fails between their commits.
THEOREM MarksAreSummarised == Spec => []ReflectedIsSummarised
<1>1. IInv => ReflectedIsSummarised
  BY DEF IInv, EpisodesInv, ReflectedIsSummarised
<1> QED BY <1>1, InvariantHolds, PTL

\* As long as no cancelled turn overlapped another, every snapshot was computed from the
\* one before it, and between turns the loop holds the newest one; the snapshots of resets
\* (api_routes.py, state_reset) are left out until a loop starts from them, for the running
\* loop is not told of a reset and goes on past its snapshot.
THEOREM StateGoesOn == Spec => []StateIsContinuous
<1>1. IInv => StateIsContinuous
  <2> SUFFICES ASSUME IInv, ~seen.overlap
               PROVE  /\ \A i \in 1 .. Len(disk.snaps) :
                           disk.snaps[i] = i \/ Continues(disk.snaps[i], i)
                      /\ (\A t \in Turns : ~Runs(t)) =>
                           Continues(loop.cur, Len(disk.snaps) + 1)
    BY DEF StateIsContinuous
  <2>1. Chain
    BY DEF IInv, ChainInv
  <2>2. (\A t \in Turns : ~Runs(t)) => \A t \in Turns : thread[t].at # "adopt"
    BY DEF Runs, Ended
  <2> QED BY <2>1, <2>2 DEF Chain, Coming, Past, Continues
<1> QED BY <1>1, InvariantHolds, PTL

\* Between turns the dialogue window is what a restart would read from the log, unless it
\* still holds a turn that failed or whose row could not be written.
THEOREM WindowGoesOn == Spec => []WindowIsContinuous
<1>1. IInv => WindowIsContinuous
  <2> SUFFICES ASSUME IInv, ~seen.overlap, \A t \in Turns : ~Runs(t),
                      \A i \in 1 .. Len(loop.short) : loop.short[i][2] \notin seen.gaps
               PROVE  loop.short = Hydrate(disk.log)
    BY DEF WindowIsContinuous
  <2>1. /\ loop.short \in Seq(Said) /\ disk.log \in Seq(Turns)
        /\ Entries(disk.log) \in Seq(Said) /\ Len(loop.short) <= Window
    BY LoopIs, DiskIs, EntriesAre DEF IInv, TypeInv, OwnInv
  <2>2. \A t \in Turns : ~Pending(t)
    BY DEF Pending, Runs, Ended
  <2>3. Follows(loop.short, Entries(disk.log), seen.gaps)
    BY <2>2, Zenon DEF IInv, WindowInv, Windowed
  <2>4. loop.short = Keep(Entries(disk.log))
    BY <2>1, <2>3, FollowsIs
  <2> QED BY <2>1, <2>4, HydrateIsKeep
<1> QED BY <1>1, InvariantHolds, PTL

=============================================================================
