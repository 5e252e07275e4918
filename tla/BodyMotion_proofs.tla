------------------------- MODULE BodyMotion_proofs -------------------------
(***************************************************************************)
(* The lower body as the process drives it, proved for any moods, tests,   *)
(* commands, bounds and number of outside events: the fields keep their    *)
(* types and the write lock its queue, a motion that ends without an error *)
(* has stopped, only one motion runs at a time, and a body that the store  *)
(* calls disarmed is disarmed once nothing is under way.                   *)
(*                                                                         *)
(* None of the four is inductive.  Base says who holds what: the motion    *)
(* controller's lock belongs to the one mover past its preflight, each     *)
(* writer is in the lock's queue exactly while it has a write under way,   *)
(* only the head has written, and the command of a write is the one that   *)
(* the writer's place in its own code calls for.  Arms adds what the lines *)
(* under way in both directions will still do to the arming: what the      *)
(* store is yet to read either ends in "armed" or says nothing, and behind *)
(* a stop that its writer has not taken for done nothing arms the robot.   *)
(***************************************************************************)
EXTENDS BodyMotion, FiniteSetTheorems, TLAPS

\* What the fields hold.
Commands == Moves \cup Discrete \cup {"rest", "none"}
Pcs  == {"idle", "asked", "command", "drive", "sleep", "stop", "halt", "search"}
Whys == {"none", "done", "blocked", "error"}
Tri  == {"unknown", "yes", "no"}
Ats  == {"none", "queued", "written", "raised"}
Runs == [pc : Pcs, intent : Intents, step : 0 .. 3, asleep : BOOLEAN, why : Whys]
Motions == [owner : Movers \cup {"none"}, auto : BOOLEAN, cool : SUBSET Intents,
            run : [Movers -> Runs]]
Writes  == [cmd : Commands, at : Ats]
Bridges == [open : {"no", "live", "dead"}, plugged : BOOLEAN, reading : BOOLEAN,
            queue : Seq(Writers), wr : [Writers -> Writes]]
Views   == [armed : Tri, avoid : Tri, lineOn : Tri, obst : Sights \cup {"unknown"},
            line : Lines \cup {"unknown"}]
Robots  == [armed : BOOLEAN, avoid : BOOLEAN, lineOn : BOOLEAN, pulse : BOOLEAN,
            obst : Sights, line : Lines]
Acks    == [kind : {"ack"}, of : Discrete]
Seens   == [kind : {"sensed"}, obst : Sights, line : Lines, lineOn : Tri]
Stati   == [kind : {"status"}, armed : Tri, avoid : Tri, lineOn : Tri, obst : Sights,
            line : Lines]
Reports == Acks \cup Seens \cup Stati
Talks   == [moving : BOOLEAN, pc : {"closed", "wait", "busy", "closing", "last"}]
Links   == {"idle", "dropping", "opening", "stopping", "leaving", "closing"}

Types ==
    /\ motion \in Motions /\ bridge \in Bridges /\ view \in Views /\ robot \in Robots
    /\ teleop \in Talks /\ link \in Links
    /\ wire \in Seq(Commands) /\ Len(wire) <= WireMax
    /\ up \in Seq(Reports)
    /\ seen \in [drove : [Movers -> BOOLEAN]]

\* The controller's lock belongs to the mover that is past its preflight.
LockOK(run, owner) == \A m \in Movers : run[m].pc \notin {"idle", "asked"} <=> owner = m

\* A writer is in the queue once while it has a write under way, and only the head has written.
QueueOK(q, wr) ==
    /\ \A i, j \in DOMAIN q : q[i] = q[j] => i = j
    /\ \A w \in Writers : wr[w].at # "none" <=> \E i \in DOMAIN q : q[i] = w
    /\ \A w \in Writers : wr[w].at \in {"written", "raised"} => Head(q) = w

\* A mover writes what its place calls for, and after the stop is written no pulse of its
\* sequence is left.
Writing == {"command", "drive", "stop", "halt", "search"}
MoverOK(r, x, d) ==
    /\ r.pc \in Writing <=> x.at # "none"
    /\ r.pc \in {"command", "search"} => x.cmd = "reacquire start" /\ ~ d
    /\ r.pc \in {"stop", "halt"} => x.cmd = "motors off"
    /\ r.pc \in {"stop", "halt"} /\ x.at = "written" => ~ d
    /\ r.why # "none" => r.pc = "idle"
    /\ r.why \in {"done", "blocked"} => ~ d
MoversOK(run, wr, drove) == \A m \in Movers : MoverOK(run[m], wr[m], drove[m])

\* Teleop and the route have a write under way where they wait for one.
ClientsOK(pc, at, b) ==
    /\ pc \in {"busy", "last"} <=> b.wr["teleop"].at # "none"
    /\ at \in {"stopping", "leaving"} <=> b.wr["link"].at # "none"
    /\ at \in {"stopping", "leaving"} => b.wr["link"].cmd = "motors off"
    /\ at = "opening" => b.open = "no"

Base ==
    /\ Types
    /\ LockOK(motion.run, motion.owner)
    /\ QueueOK(bridge.queue, bridge.wr)
    /\ MoversOK(motion.run, bridge.wr, seen.drove)
    /\ ClientsOK(teleop.pc, link, bridge)

-----------------------------------------------------------------------------
(* Sequences *)

LEMMA Appended ==
    ASSUME NEW S, NEW s \in Seq(S), NEW e \in S
    PROVE  /\ Append(s, e) \in Seq(S) /\ Append(s, e) # <<>>
           /\ Len(s) \in Nat /\ DOMAIN s = 1 .. Len(s) /\ Len(Append(s, e)) = Len(s) + 1
           /\ DOMAIN Append(s, e) = 1 .. Len(s) + 1
           /\ Append(s, e)[Len(s) + 1] = e
           /\ \A i \in 1 .. Len(s) : Append(s, e)[i] = s[i]
           /\ s # <<>> => Head(Append(s, e)) = Head(s)
<1>1. /\ Append(s, e) \in Seq(S)
      /\ Len(s) \in Nat /\ DOMAIN s = 1 .. Len(s) /\ Len(Append(s, e)) = Len(s) + 1
  OBVIOUS
<1>2. DOMAIN Append(s, e) = 1 .. Len(s) + 1 /\ Append(s, e) # <<>>
  BY <1>1
<1>3. Append(s, e)[Len(s) + 1] = e /\ \A i \in 1 .. Len(s) : Append(s, e)[i] = s[i]
  OBVIOUS
<1>4. ASSUME s # <<>> PROVE Head(Append(s, e)) = Head(s)
  BY <1>1, <1>2, <1>3, <1>4
<1> QED  BY <1>1, <1>2, <1>3, <1>4

LEMMA Tailed ==
    ASSUME NEW S, NEW s \in Seq(S), s # <<>>
    PROVE  /\ Tail(s) \in Seq(S) /\ Head(s) \in S /\ Head(s) = s[1]
           /\ Len(s) \in Nat \ {0} /\ DOMAIN s = 1 .. Len(s) /\ Len(Tail(s)) = Len(s) - 1
           /\ DOMAIN Tail(s) = 1 .. Len(s) - 1
           /\ \A i \in 1 .. Len(s) - 1 : Tail(s)[i] = s[i + 1]
  OBVIOUS

-----------------------------------------------------------------------------
(* The write lock's queue *)

\* A coroutine that has nothing under way joins at the end.
LEMMA QueueGrows ==
    ASSUME NEW q \in Seq(Writers), NEW wr \in [Writers -> Writes], QueueOK(q, wr),
           NEW w \in Writers, NEW x \in Writes, wr[w].at = "none", x.at = "queued"
    PROVE  QueueOK(Append(q, w), [wr EXCEPT ![w] = x])
<1> DEFINE p == Append(q, w)
           n == Len(q)
           wq == [wr EXCEPT ![w] = x]
<1>1. /\ n \in Nat /\ DOMAIN q = 1 .. n /\ DOMAIN p = 1 .. n + 1 /\ p[n + 1] = w
      /\ \A i \in 1 .. n : p[i] = q[i]
      /\ q # <<>> => Head(p) = Head(q)
  BY Appended
<1>2. /\ wq[w] = x /\ \A v \in Writers \ {w} : wq[v] = wr[v]
  OBVIOUS
<1>3. \A i \in 1 .. n : q[i] # w
  BY <1>1 DEF QueueOK
<1>4. q = <<>> => n = 0
  OBVIOUS
<1> HIDE DEF p, n, wq
<1>5. \A i, j \in DOMAIN p : p[i] = p[j] => i = j
  <2>1. \A i, j \in 1 .. n : q[i] = q[j] => i = j
    BY <1>1 DEF QueueOK
  <2> QED  BY <2>1, <1>1, <1>3
<1>6. \A v \in Writers : wq[v].at # "none" <=> \E i \in DOMAIN p : p[i] = v
  <2> SUFFICES ASSUME NEW v \in Writers PROVE wq[v].at # "none" <=> \E i \in DOMAIN p : p[i] = v
    OBVIOUS
  <2>1. CASE v = w
    BY <2>1, <1>1, <1>2
  <2>2. CASE v # w
    <3>1. wq[v].at # "none" <=> \E i \in 1 .. n : q[i] = v
      BY <2>2, <1>1, <1>2 DEF QueueOK
    <3> QED  BY <3>1, <2>2, <1>1
  <2> QED  BY <2>1, <2>2
<1>7. \A v \in Writers : wq[v].at \in {"written", "raised"} => Head(p) = v
  <2> SUFFICES ASSUME NEW v \in Writers, wq[v].at \in {"written", "raised"} PROVE Head(p) = v
    OBVIOUS
  <2>1. v # w
    BY <1>2
  <2>2. wr[v].at \in {"written", "raised"}
    BY <2>1, <1>2
  <2>3. Head(q) = v /\ \E i \in 1 .. n : q[i] = v
    BY <2>2, <1>1 DEF QueueOK
  <2> QED  BY <2>3, <1>1, <1>4
<1> QED  BY <1>5, <1>6, <1>7 DEF QueueOK, p, wq

\* The head has written and leaves; the next has not written yet.
LEMMA QueueShrinks ==
    ASSUME NEW q \in Seq(Writers), NEW wr \in [Writers -> Writes], QueueOK(q, wr),
           NEW w \in Writers, NEW x \in Writes, wr[w].at \in {"written", "raised"}, x.at = "none"
    PROVE  QueueOK(Tail(q), [wr EXCEPT ![w] = x]) /\ Tail(q) \in Seq(Writers)
<1> DEFINE p == Tail(q)
           n == Len(q)
           wq == [wr EXCEPT ![w] = x]
<1>1. Head(q) = w /\ \E i \in DOMAIN q : q[i] = w
  BY DEF QueueOK
<1>2. q # <<>>
  BY <1>1
<1>3. /\ n \in Nat \ {0} /\ DOMAIN q = 1 .. n /\ DOMAIN p = 1 .. n - 1 /\ q[1] = w
      /\ \A i \in 1 .. n - 1 : p[i] = q[i + 1]
      /\ p \in Seq(Writers)
  <2>1. /\ n \in Nat \ {0} /\ DOMAIN q = 1 .. n /\ DOMAIN p = 1 .. n - 1 /\ Head(q) = q[1]
        /\ \A i \in 1 .. n - 1 : p[i] = q[i + 1]
        /\ p \in Seq(Writers)
    BY <1>2, Tailed
  <2> QED  BY <2>1, <1>1
<1>4. /\ wq[w] = x /\ \A v \in Writers \ {w} : wq[v] = wr[v]
  OBVIOUS
<1>5. \A i, j \in 1 .. n : q[i] = q[j] => i = j
  BY <1>3 DEF QueueOK
<1> HIDE DEF p, n, wq
<1>6. \A i, j \in DOMAIN p : p[i] = p[j] => i = j
  BY <1>3, <1>5
<1>7. \A v \in Writers : wq[v].at # "none" <=> \E i \in DOMAIN p : p[i] = v
  <2> SUFFICES ASSUME NEW v \in Writers PROVE wq[v].at # "none" <=> \E i \in DOMAIN p : p[i] = v
    OBVIOUS
  <2>1. CASE v = w
    BY <2>1, <1>3, <1>4, <1>5
  <2>2. CASE v # w
    <3>1. wq[v].at # "none" <=> \E i \in 1 .. n : q[i] = v
      <4>1. wr[v].at # "none" <=> \E i \in DOMAIN q : q[i] = v
        BY DEF QueueOK
      <4> QED  BY <4>1, <2>2, <1>3, <1>4
    <3>2. ASSUME NEW i \in 1 .. n, q[i] = v PROVE \E k \in 1 .. n - 1 : p[k] = v
      <4>1. i - 1 \in 1 .. n - 1 /\ p[i - 1] = q[i]
        BY <3>2, <2>2, <1>3
      <4> QED  BY <4>1, <3>2
    <3>3. ASSUME NEW k \in 1 .. n - 1, p[k] = v PROVE \E i \in 1 .. n : q[i] = v
      BY <3>3, <1>3
    <3> QED  BY <3>1, <3>2, <3>3, <1>3
  <2> QED  BY <2>1, <2>2
<1>8. \A v \in Writers : wq[v].at \notin {"written", "raised"}
  <2> SUFFICES ASSUME NEW v \in Writers, v # w PROVE wq[v].at \notin {"written", "raised"}
    BY <1>4
  <2>1. wr[v].at \notin {"written", "raised"}
    BY <1>1 DEF QueueOK
  <2> QED  BY <2>1, <1>4
<1> QED  BY <1>3, <1>6, <1>7, <1>8 DEF QueueOK, p, wq

\* The head writes: its place stays, and nobody else had written.
LEMMA QueueKeeps ==
    ASSUME NEW q \in Seq(Writers), NEW wr \in [Writers -> Writes], QueueOK(q, wr),
           NEW w \in Writers, NEW x \in Writes, Head(q) = w,
           wr[w].at # "none", x.at # "none"
    PROVE  QueueOK(q, [wr EXCEPT ![w] = x])
<1> DEFINE wq == [wr EXCEPT ![w] = x]
<1>1. /\ wq[w] = x /\ \A v \in Writers \ {w} : wq[v] = wr[v]
  OBVIOUS
<1> HIDE DEF wq
<1>2. \A v \in Writers : wq[v].at # "none" <=> wr[v].at # "none"
  BY <1>1
<1>3. \A v \in Writers : wq[v].at \in {"written", "raised"} => Head(q) = v
  BY <1>1 DEF QueueOK
<1> QED  BY <1>2, <1>3, Zenon DEF QueueOK, wq

-----------------------------------------------------------------------------
(* What the bridge's operations do to its fields *)

LEMMA BridgeFields ==
    ASSUME NEW b \in Bridges
    PROVE  /\ b.open \in {"no", "live", "dead"} /\ b.plugged \in BOOLEAN /\ b.reading \in BOOLEAN
           /\ b.queue \in Seq(Writers) /\ b.wr \in [Writers -> Writes]
           /\ \A w \in Writers : b.wr[w] \in Writes /\ b.wr[w].at \in Ats /\ b.wr[w].cmd \in Commands
<1>1. /\ b.open \in {"no", "live", "dead"} /\ b.plugged \in BOOLEAN /\ b.reading \in BOOLEAN
      /\ b.queue \in Seq(Writers) /\ b.wr \in [Writers -> Writes]
  BY DEF Bridges
<1>2. \A x \in Writes : x.at \in Ats /\ x.cmd \in Commands
  BY DEF Writes
<1> QED  BY <1>1, <1>2

LEMMA WriteIn ==
    ASSUME NEW cmd \in Commands, NEW at \in Ats
    PROVE  [cmd |-> cmd, at |-> at] \in Writes
  BY DEF Writes

\* From b to c: coroutine w queues a command, or has given the lock back.
Others(b, c, w) ==
    /\ c \in Bridges /\ c.open = b.open /\ QueueOK(c.queue, c.wr)
    /\ \A v \in Writers \ {w} : c.wr[v] = b.wr[v]
Asks(b, c, w, cmd) == Others(b, c, w) /\ c.wr[w].at = "queued" /\ c.wr[w].cmd = cmd
Frees(b, c, w) == Others(b, c, w) /\ c.wr[w].at = "none"

Joins(b, w, cmd) == [b EXCEPT !.queue = Append(@, w), !.wr[w] = [cmd |-> cmd, at |-> "queued"]]

\* send_raw_command on a port that is there.
LEMMA JoinsAsks ==
    ASSUME NEW b \in Bridges, QueueOK(b.queue, b.wr), NEW w \in Writers, b.wr[w].at = "none",
           NEW cmd \in Commands
    PROVE  Asks(b, Joins(b, w, cmd), w, cmd)
<1> DEFINE x == [cmd |-> cmd, at |-> "queued"]
           c == Joins(b, w, cmd)
<1>1. x \in Writes /\ x.at = "queued" /\ x.cmd = cmd
  BY WriteIn DEF Ats
<1>2. b.queue \in Seq(Writers) /\ b.wr \in [Writers -> Writes]
  BY BridgeFields
<1>3. Append(b.queue, w) \in Seq(Writers)
  BY <1>2
<1> HIDE DEF x
<1>4. c \in Bridges /\ c.open = b.open /\ c.queue = Append(b.queue, w) /\ c.wr = [b.wr EXCEPT ![w] = x]
  <2>1. c = [b EXCEPT !.queue = Append(b.queue, w), !.wr[w] = x]
    BY DEF Joins, x
  <2>2. [b.wr EXCEPT ![w] = x] \in [Writers -> Writes]
    BY <1>1, <1>2
  <2> HIDE DEF c
  <2> QED  BY <2>1, <2>2, <1>3 DEF Bridges
<1>5. QueueOK(Append(b.queue, w), [b.wr EXCEPT ![w] = x])
  BY <1>1, <1>2, QueueGrows, Zenon
<1>6. c.wr[w] = x /\ \A v \in Writers \ {w} : c.wr[v] = b.wr[v]
  BY <1>2, <1>4
<1>7. QueueOK(c.queue, c.wr)
  BY <1>4, <1>5, Zenon
<1> HIDE DEF c
<1>8. Others(b, c, w)
  BY <1>4, <1>6, <1>7, Zenon DEF Others
<1> QED  BY <1>1, <1>6, <1>8 DEF Asks, c

\* The end of a write.
LEMMA ReleaseFrees ==
    ASSUME NEW b \in Bridges, QueueOK(b.queue, b.wr), NEW w \in Writers,
           b.wr[w].at \in {"written", "raised"}
    PROVE  Frees(b, Release(b, w), w)
<1> DEFINE c == Release(b, w)
<1>1. NoWrite \in Writes /\ NoWrite.at = "none"
  <2>1. "none" \in Commands /\ "none" \in Ats
    BY DEF Commands, Ats
  <2> QED  BY <2>1, WriteIn DEF NoWrite
<1>2. b.queue \in Seq(Writers) /\ b.wr \in [Writers -> Writes]
  BY BridgeFields
<1>3. QueueOK(Tail(b.queue), [b.wr EXCEPT ![w] = NoWrite]) /\ Tail(b.queue) \in Seq(Writers)
  BY <1>1, <1>2, QueueShrinks, Zenon
<1>4. c \in Bridges /\ c.open = b.open /\ c.queue = Tail(b.queue) /\ c.wr = [b.wr EXCEPT ![w] = NoWrite]
  <2>1. c = [b EXCEPT !.queue = Tail(b.queue), !.wr[w] = NoWrite]
    BY DEF Release
  <2>2. [b.wr EXCEPT ![w] = NoWrite] \in [Writers -> Writes]
    BY <1>1, <1>2
  <2> HIDE DEF c
  <2> QED  BY <2>1, <2>2, <1>3 DEF Bridges
<1>6. c.wr[w] = NoWrite /\ \A v \in Writers \ {w} : c.wr[v] = b.wr[v]
  BY <1>2, <1>4
<1>7. QueueOK(c.queue, c.wr)
  BY <1>4, <1>3, Zenon
<1> HIDE DEF c
<1>8. Others(b, c, w)
  BY <1>4, <1>6, <1>7, Zenon DEF Others
<1> QED  BY <1>1, <1>6, <1>8 DEF Frees, c

LEMMA EnqueueAsks ==
    ASSUME bridge \in Bridges, QueueOK(bridge.queue, bridge.wr), NEW w \in Writers,
           bridge.wr[w].at = "none", NEW cmd \in Commands, Enqueue(w, cmd)
    PROVE  Asks(bridge, bridge', w, cmd)
<1>1. bridge' = Joins(bridge, w, cmd)
  BY DEF Enqueue, Joins
<1> QED  BY <1>1, JoinsAsks, Zenon

LEMMA ResumeDoes ==
    ASSUME bridge \in Bridges, QueueOK(bridge.queue, bridge.wr), NEW w \in Writers,
           NEW next \in Commands, Resume(w, next)
    PROVE  /\ bridge.wr[w].at \in {"written", "raised"} /\ view' = Acked(w)
           /\ next = "none" => Frees(bridge, bridge', w)
           /\ next # "none" => Asks(bridge, bridge', w, next)
<1> DEFINE free == Release(bridge, w)
<1>1. bridge.wr[w].at \in {"written", "raised"} /\ view' = Acked(w)
  BY Zenon DEF Resume, Settled
<1>2. Frees(bridge, free, w)
  BY <1>1, ReleaseFrees, Zenon
<1>3. bridge' = IF next = "none" THEN free ELSE Joins(free, w, next)
  BY DEF Resume, Joins
<1> HIDE DEF free
<1>4. ASSUME next # "none" PROVE Asks(bridge, bridge', w, next)
  <2>1. bridge' = Joins(free, w, next)
    BY <1>3, <1>4
  <2>2. free \in Bridges /\ QueueOK(free.queue, free.wr) /\ free.wr[w].at = "none"
    BY <1>2 DEF Frees, Others
  <2>3. Asks(free, bridge', w, next)
    BY <2>1, <2>2, JoinsAsks, Zenon
  <2> QED  BY <2>3, <1>2 DEF Asks, Frees, Others
<1> QED  BY <1>1, <1>2, <1>3, <1>4

-----------------------------------------------------------------------------
(* What the controller's operations do to its fields *)

LEMMA MotionFields ==
    ASSUME NEW mo \in Motions
    PROVE  /\ mo.owner \in Movers \cup {"none"} /\ mo.auto \in BOOLEAN /\ mo.cool \subseteq Intents
           /\ mo.run \in [Movers -> Runs]
           /\ \A m \in Movers : /\ mo.run[m] \in Runs
                                /\ mo.run[m].pc \in Pcs /\ mo.run[m].intent \in Intents
                                /\ mo.run[m].step \in 0 .. 3 /\ mo.run[m].asleep \in BOOLEAN
                                /\ mo.run[m].why \in Whys
<1>1. /\ mo.owner \in Movers \cup {"none"} /\ mo.auto \in BOOLEAN /\ mo.cool \subseteq Intents
      /\ mo.run \in [Movers -> Runs]
  BY DEF Motions
<1>2. \A r \in Runs : /\ r.pc \in Pcs /\ r.intent \in Intents /\ r.step \in 0 .. 3
                      /\ r.asleep \in BOOLEAN /\ r.why \in Whys
  BY DEF Runs
<1> QED  BY <1>1, <1>2

\* From mo to n: mover m goes to pc and why, the lock to own, and nobody else moves.
Goes(mo, n, m, own, pc, why) ==
    /\ n \in Motions /\ n.owner = own /\ n.run[m].pc = pc /\ n.run[m].why = why
    /\ \A o \in Movers \ {m} : n.run[o] = mo.run[o]

Put(mo, own, m, r) == [mo EXCEPT !.owner = own, !.run[m] = r]

LEMMA PutGoes ==
    ASSUME NEW mo \in Motions, NEW own \in Movers \cup {"none"}, NEW m \in Movers, NEW r \in Runs
    PROVE  Goes(mo, Put(mo, own, m, r), m, own, r.pc, r.why)
<1>1. mo.run \in [Movers -> Runs]
  BY MotionFields
<1>2. [mo.run EXCEPT ![m] = r] \in [Movers -> Runs]
  BY <1>1
<1>3. /\ Put(mo, own, m, r) \in Motions /\ Put(mo, own, m, r).owner = own
      /\ Put(mo, own, m, r).run = [mo.run EXCEPT ![m] = r]
  BY <1>2 DEF Motions, Put
<1> QED  BY <1>1, <1>3 DEF Goes

LEMMA IdleIs == Idle \in Runs /\ Idle.pc = "idle" /\ Idle.why = "none"
<1>1. "HOLD" \in Intents /\ "idle" \in Pcs /\ "none" \in Whys
  BY DEF Intents, Profiles, Pcs, Whys
<1>2. Idle \in Runs
  BY <1>1 DEF Idle, Runs
<1>3. Idle.pc = "idle" /\ Idle.why = "none"
  BY DEF Idle
<1> QED  BY <1>2, <1>3

\* The same mover, given up; asked for another intent; at another point of its sequence.
Over(r, why) == [r EXCEPT !.why = why]
Asking(r, i) == [r EXCEPT !.pc = "asked", !.intent = i]
At(r, pc, s, a) == [r EXCEPT !.pc = pc, !.step = s, !.asleep = a]

LEMMA RunIsOver ==
    ASSUME NEW r \in Runs, NEW why \in Whys
    PROVE  Over(r, why) \in Runs /\ Over(r, why).pc = r.pc /\ Over(r, why).why = why
  BY DEF Over, Runs

LEMMA RunIsAsked ==
    ASSUME NEW r \in Runs, NEW i \in Intents
    PROVE  Asking(r, i) \in Runs /\ Asking(r, i).pc = "asked" /\ Asking(r, i).why = r.why
<1>1. "asked" \in Pcs
  BY DEF Pcs
<1> QED  BY <1>1 DEF Asking, Runs

LEMMA RunGoesTo ==
    ASSUME NEW r \in Runs, NEW pc \in Pcs, NEW s \in 0 .. 3, NEW a \in BOOLEAN
    PROVE  At(r, pc, s, a) \in Runs /\ At(r, pc, s, a).pc = pc /\ At(r, pc, s, a).why = r.why
  BY DEF At, Runs

LEMMA EndGoes ==
    ASSUME motion \in Motions, NEW m \in Movers, NEW why \in Whys
    PROVE  Goes(motion, End(m, why), m, "none", "idle", why)
<1> DEFINE r == Over(Idle, why)
<1>1. End(m, why) = Put(motion, "none", m, r)
  BY DEF End, Put, Over
<1>2. r \in Runs /\ r.pc = "idle" /\ r.why = why
  BY IdleIs, RunIsOver
<1> HIDE DEF r
<1>3. Goes(motion, Put(motion, "none", m, r), m, "none", r.pc, r.why)
  BY <1>2, PutGoes
<1> QED  BY <1>1, <1>2, <1>3

LEMMA FinishGoes ==
    ASSUME motion \in Motions, NEW m \in Movers
    PROVE  Goes(motion, Finish(m), m, "none", "idle", "done")
<1> DEFINE e == End(m, "done")
           c == IF Prof(m).cools THEN e.cool \cup {Run(m).intent} ELSE e.cool
<1>1. Goes(motion, e, m, "none", "idle", "done")
  <2>1. "done" \in Whys
    BY DEF Whys
  <2> QED  BY <2>1, EndGoes
<1>2. Finish(m) = [e EXCEPT !.cool = c]
  BY DEF Finish
<1>3. c \subseteq Intents
  <2>1. Run(m).intent \in Intents
    BY MotionFields DEF Run
  <2>2. e.cool \subseteq Intents
    BY <1>1, MotionFields DEF Goes
  <2> HIDE DEF e
  <2> QED  BY <2>1, <2>2
<1> HIDE DEF e, c
<1>4. Finish(m) \in Motions /\ Finish(m).owner = e.owner /\ Finish(m).run = e.run
  BY <1>1, <1>2, <1>3 DEF Motions, Goes
<1> QED  BY <1>1, <1>4 DEF Goes

-----------------------------------------------------------------------------
(* The parts of the invariant, step by step *)

LEMMA LockHeld ==
    ASSUME NEW mo \in Motions, NEW n, NEW m \in Movers, NEW own, NEW pc, NEW why,
           LockOK(mo.run, mo.owner), Goes(mo, n, m, own, pc, why), mo.owner \in {"none", m},
           own = IF pc \in {"idle", "asked"} THEN "none" ELSE m
    PROVE  LockOK(n.run, n.owner)
<1> SUFFICES ASSUME NEW o \in Movers PROVE n.run[o].pc \notin {"idle", "asked"} <=> n.owner = o
  BY DEF LockOK
<1>1. "none" \notin Movers
  BY DEF Movers
<1>2. CASE o = m
  BY <1>1, <1>2 DEF Goes
<1>3. CASE o # m
  BY <1>1, <1>3 DEF Goes, LockOK
<1> QED  BY <1>2, <1>3

LEMMA ClientsSame ==
    ASSUME NEW pc, NEW at, NEW b, NEW c, NEW w \in Movers \cup {"api"},
           ClientsOK(pc, at, b), Others(b, c, w)
    PROVE  ClientsOK(pc, at, c)
<1>1. "teleop" \in Writers \ {w} /\ "link" \in Writers \ {w}
  BY DEF Writers, Movers
<1> QED  BY <1>1 DEF ClientsOK, Others

-----------------------------------------------------------------------------
(* Types of what the other operations leave *)

LEMMA AckTyped ==
    ASSUME NEW v \in Views, NEW cmd
    PROVE  AckEffect(v, cmd) \in Views
  BY DEF Views, AckEffect, Tri

LEMMA AckedTyped ==
    ASSUME view \in Views, NEW w \in Writers
    PROVE  Acked(w) \in Views
  BY AckTyped DEF Acked

LEMMA MergeTyped ==
    ASSUME NEW v \in Views, NEW r \in Reports
    PROVE  Merge(v, r) \in Views
<1>1. ASSUME NEW u \in Seens \cup Stati PROVE MergeLine(v, u) \in Views
  BY <1>1 DEF Views, MergeLine, Seens, Stati
<1>2. CASE r \in Acks
  BY <1>2, AckTyped DEF Acks, Merge
<1>3. CASE r \in Seens
  BY <1>1, <1>3 DEF Seens, Merge
<1>4. CASE r \in Stati
  <2>1. r.kind = "status" /\ r.armed \in Tri /\ r.avoid \in Tri
    BY <1>4 DEF Stati
  <2>2. MergeLine(v, r) \in Views
    BY <1>1, <1>4
  <2>3. Merge(v, r) = [MergeLine(v, r) EXCEPT !.armed = r.armed, !.avoid = r.avoid]
    BY <2>1 DEF Merge
  <2> QED  BY <2>1, <2>2, <2>3 DEF Views
<1> QED  BY <1>2, <1>3, <1>4 DEF Reports

LEMMA ObeyTyped ==
    ASSUME NEW r \in Robots, NEW cmd
    PROVE  Obey(r, cmd) \in Robots
  BY DEF Robots, Obey

-----------------------------------------------------------------------------
(* Profiles *)

LEMMA ProfileIs ==
    ASSUME NEW i \in Intents
    PROVE  /\ Profiles[i].steps \in Seq(Moves \cup {"rest"}) /\ Len(Profiles[i].steps) <= 3
           /\ Profiles[i].command \in {"none", "reacquire start"}
<1> DEFINE Good(s) == s \in Seq(Moves \cup {"rest"}) /\ Len(s) <= 3
<1>1. Good(<<>>) /\ Good(<<"drive">>) /\ Good(<<"drive", "rest">>) /\ Good(<<"expressive">>)
  BY DEF Moves
<1>2. Good(Wiggle)
  BY DEF Moves, Wiggle
<1>3. i \in {"HOLD", "NO_MOTION", "APPROACH_MICRO", "RETREAT_SHORT", "WITHDRAW", "TURN_AWAY",
             "TWIST_SMALL", "TWIST_MEDIUM", "SPIN_ONE_EXPERIMENTAL", "REACQUIRE"}
  BY DEF Intents, Profiles
<1>4. /\ Profiles[i].steps \in {<<>>, <<"drive">>, <<"drive", "rest">>, <<"expressive">>, Wiggle}
      /\ Profiles[i].command \in {"none", "reacquire start"}
  <2>1. CASE i = "HOLD"
    BY <2>1 DEF Profiles, Profile
  <2>2. CASE i = "NO_MOTION"
    BY <2>2 DEF Profiles, Profile
  <2>3. CASE i = "APPROACH_MICRO"
    BY <2>3 DEF Profiles, Profile
  <2>4. CASE i = "RETREAT_SHORT"
    BY <2>4 DEF Profiles, Profile
  <2>5. CASE i = "WITHDRAW"
    BY <2>5 DEF Profiles, Profile
  <2>6. CASE i = "TURN_AWAY"
    BY <2>6 DEF Profiles, Profile
  <2>7. CASE i = "TWIST_SMALL"
    BY <2>7 DEF Profiles, Profile
  <2>8. CASE i = "TWIST_MEDIUM"
    BY <2>8 DEF Profiles, Profile
  <2>9. CASE i = "SPIN_ONE_EXPERIMENTAL"
    BY <2>9 DEF Profiles, Profile
  <2>10. CASE i = "REACQUIRE"
    BY <2>10 DEF Profiles, Profile
  <2> QED  BY <1>3, <2>1, <2>2, <2>3, <2>4, <2>5, <2>6, <2>7, <2>8, <2>9, <2>10
<1> QED  BY <1>1, <1>2, <1>4

LEMMA ResolvedIn ==
    ASSUME NEW s, NEW act
    PROVE  ResolveIntent(s, act) \in Intents
  BY DEF ResolveIntent, Intents, Profiles

-----------------------------------------------------------------------------
(* Every step keeps the base *)

LEMMA BaseNext ==
    ASSUME motion' \in Motions, bridge' \in Bridges, view' \in Views, robot' \in Robots,
           teleop' \in Talks, link' \in Links, wire' \in Seq(Commands), Len(wire') <= WireMax,
           up' \in Seq(Reports), seen' \in [drove : [Movers -> BOOLEAN]],
           LockOK(motion'.run, motion'.owner), QueueOK(bridge'.queue, bridge'.wr),
           MoversOK(motion'.run, bridge'.wr, seen'.drove), ClientsOK(teleop'.pc, link', bridge')
    PROVE  Base'
<1>1. Types'
  BY DEF Types
<1>2. LockOK(motion.run, motion.owner)'
  BY DEF LockOK
<1>3. QueueOK(bridge.queue, bridge.wr)'
  BY DEF QueueOK
<1>4. MoversOK(motion.run, bridge.wr, seen.drove)'
  BY DEF MoversOK
<1>5. ClientsOK(teleop.pc, link, bridge)'
  BY DEF ClientsOK
<1> QED  BY <1>1, <1>2, <1>3, <1>4, <1>5 DEF Base

LEMMA BaseHas ==
    ASSUME Base
    PROVE  /\ motion \in Motions /\ bridge \in Bridges /\ view \in Views /\ robot \in Robots
           /\ teleop \in Talks /\ link \in Links
           /\ wire \in Seq(Commands) /\ Len(wire) <= WireMax
           /\ up \in Seq(Reports) /\ seen \in [drove : [Movers -> BOOLEAN]]
           /\ LockOK(motion.run, motion.owner) /\ QueueOK(bridge.queue, bridge.wr)
           /\ MoversOK(motion.run, bridge.wr, seen.drove) /\ ClientsOK(teleop.pc, link, bridge)
           /\ seen.drove \in [Movers -> BOOLEAN]
  BY DEF Base, Types

LEMMA MoverWrites == Movers \subseteq Writers /\ \A m \in Movers : m \in Movers \cup {"api"}
  BY DEF Writers, Movers

LEMMA OthersSame ==
    ASSUME NEW b \in Bridges, QueueOK(b.queue, b.wr), NEW w
    PROVE  Others(b, b, w)
  BY DEF Others

\* A step of mover m that keeps the rest of the world: what is left to show is its own part.
LEMMA MoverStep ==
    ASSUME Base, NEW m \in Movers, NEW own \in {m, "none"}, NEW pc, NEW why,
           Goes(motion, motion', m, own, pc, why), motion.owner \in {"none", m},
           own = IF pc \in {"idle", "asked"} THEN "none" ELSE m,
           Others(bridge, bridge', m), view' \in Views,
           UNCHANGED <<teleop, link, wire, up, robot>>,
           seen' \in [drove : [Movers -> BOOLEAN]],
           \A o \in Movers \ {m} : seen'.drove[o] = seen.drove[o],
           MoverOK(motion'.run[m], bridge'.wr[m], seen'.drove[m])
    PROVE  Base'
<1>0. /\ motion \in Motions /\ bridge \in Bridges /\ robot \in Robots /\ teleop \in Talks
      /\ link \in Links /\ wire \in Seq(Commands) /\ Len(wire) <= WireMax /\ up \in Seq(Reports)
      /\ LockOK(motion.run, motion.owner)
      /\ MoversOK(motion.run, bridge.wr, seen.drove) /\ ClientsOK(teleop.pc, link, bridge)
  BY BaseHas
<1>1. motion' \in Motions /\ bridge' \in Bridges /\ QueueOK(bridge'.queue, bridge'.wr)
  BY DEF Goes, Others
<1>2. LockOK(motion'.run, motion'.owner)
  BY <1>0, LockHeld, Zenon
<1>3. MoversOK(motion'.run, bridge'.wr, seen'.drove)
  <2>1. \A o \in Movers \ {m} : /\ motion'.run[o] = motion.run[o] /\ bridge'.wr[o] = bridge.wr[o]
                                /\ seen'.drove[o] = seen.drove[o]
    BY MoverWrites DEF Goes, Others
  <2> DEFINE run2 == motion'.run
             wr2 == bridge'.wr
             dr2 == seen'.drove
  <2>2. MoverOK(run2[m], wr2[m], dr2[m])
    OBVIOUS
  <2>3. \A o \in Movers \ {m} : run2[o] = motion.run[o] /\ wr2[o] = bridge.wr[o] /\ dr2[o] = seen.drove[o]
    BY <2>1
  <2> HIDE DEF run2, wr2, dr2
  <2>4. MoversOK(run2, wr2, dr2)
    <3>1. MoversOK(motion.run, bridge.wr, seen.drove)
      BY <1>0
    <3>2. \A o \in Movers \ {m} : MoverOK(run2[o], wr2[o], dr2[o])
      BY <2>3, <3>1 DEF MoversOK
    <3> QED  BY <2>2, <3>2 DEF MoversOK
  <2> QED  BY <2>4 DEF run2, wr2, dr2
<1>4. ClientsOK(teleop'.pc, link', bridge')
  <2>1. ClientsOK(teleop.pc, link, bridge')
    BY <1>0, MoverWrites, ClientsSame, Zenon
  <2> QED  BY <2>1
<1>5. /\ teleop' \in Talks /\ link' \in Links /\ wire' \in Seq(Commands) /\ Len(wire') <= WireMax
      /\ up' \in Seq(Reports) /\ robot' \in Robots
  BY <1>0
<1> QED  BY <1>1, <1>2, <1>3, <1>4, <1>5, BaseNext, Zenon

LEMMA SeenSame ==
    ASSUME Base, seen' = seen
    PROVE  /\ seen' \in [drove : [Movers -> BOOLEAN]]
           /\ \A o \in Movers : seen'.drove[o] = seen.drove[o]
  BY BaseHas

LEMMA SeenReset ==
    ASSUME Base, NEW m \in Movers, seen' = [seen EXCEPT !.drove[m] = FALSE]
    PROVE  /\ seen' \in [drove : [Movers -> BOOLEAN]] /\ ~ seen'.drove[m]
           /\ \A o \in Movers \ {m} : seen'.drove[o] = seen.drove[o]
<1>1. seen \in [drove : [Movers -> BOOLEAN]] /\ seen.drove \in [Movers -> BOOLEAN]
  BY BaseHas
<1>2. [seen.drove EXCEPT ![m] = FALSE] \in [Movers -> BOOLEAN]
  BY <1>1
<1>3. seen' \in [drove : [Movers -> BOOLEAN]] /\ seen'.drove = [seen.drove EXCEPT ![m] = FALSE]
  BY <1>1, <1>2
<1> QED  BY <1>1, <1>3

\* The records the sequence's steps write.
LEMMA RunPut ==
    ASSUME motion \in Motions, NEW m \in Movers, NEW own \in Movers \cup {"none"},
           NEW pc \in Pcs, NEW s \in 0 .. 3, NEW a \in BOOLEAN
    PROVE  Goes(motion, Put(motion, own, m, At(motion.run[m], pc, s, a)), m, own, pc, motion.run[m].why)
<1> DEFINE r == At(motion.run[m], pc, s, a)
<1>1. motion.run[m] \in Runs
  BY MotionFields
<1>3. r \in Runs /\ r.pc = pc /\ r.why = motion.run[m].why
  BY <1>1, RunGoesTo
<1> HIDE DEF r
<1>4. Goes(motion, Put(motion, own, m, r), m, own, r.pc, r.why)
  BY <1>3, PutGoes
<1> QED  BY <1>3, <1>4 DEF r

LEMMA RunPcs ==
    ASSUME motion \in Motions, NEW m \in Movers, NEW own \in Movers \cup {"none"}, NEW pc \in Pcs
    PROVE  /\ Goes(motion, [motion EXCEPT !.owner = own, !.run[m].pc = pc], m, own, pc, motion.run[m].why)
           /\ Goes(motion, [motion EXCEPT !.run[m].pc = pc], m, motion.owner, pc, motion.run[m].why)
<1> DEFINE r == motion.run[m]
<1>1. /\ r \in Runs /\ r.step \in 0 .. 3 /\ r.asleep \in BOOLEAN
      /\ motion.owner \in Movers \cup {"none"}
  BY MotionFields
<1>2. [r EXCEPT !.pc = pc] = At(r, pc, r.step, r.asleep)
  BY <1>1 DEF At, Runs
<1>3. [motion EXCEPT !.owner = own, !.run[m].pc = pc] = Put(motion, own, m, At(r, pc, r.step, r.asleep))
  BY <1>2 DEF Put
<1>4. [motion EXCEPT !.run[m].pc = pc] = Put(motion, motion.owner, m, At(r, pc, r.step, r.asleep))
  BY <1>2 DEF Put, Motions
<1> QED  BY <1>1, <1>3, <1>4, RunPut

\* What a mover's place in its sequence says of its write and of the lock.
LEMMA MoverKnows ==
    ASSUME Base, NEW m \in Movers
    PROVE  /\ MoverOK(motion.run[m], bridge.wr[m], seen.drove[m])
           /\ motion.run[m].pc \notin {"idle", "asked"} <=> motion.owner = m
           /\ motion.run[m].pc \in Pcs /\ bridge.wr[m].at \in Ats /\ bridge.wr[m].cmd \in Commands
           /\ m \in Writers
  BY BaseHas, MotionFields, BridgeFields, MoverWrites DEF MoversOK, LockOK

LEMMA BeginBase ==
    ASSUME Base, NEW m \in Movers, Begin(m)
    PROVE  Base'
<1> DEFINE p == Prof(m)
<1>1. /\ motion \in Motions /\ bridge \in Bridges /\ QueueOK(bridge.queue, bridge.wr)
      /\ view \in Views
  BY BaseHas
<1>2. motion.run[m].pc = "asked" /\ motion.owner = "none"
  BY DEF Begin, Run, LockFree
<1>3. motion.run[m].why = "none" /\ bridge.wr[m].at = "none" /\ m \in Writers
  BY <1>2, MoverKnows DEF MoverOK, Writing
<1>4. /\ seen' \in [drove : [Movers -> BOOLEAN]] /\ ~ seen'.drove[m]
      /\ \A o \in Movers \ {m} : seen'.drove[o] = seen.drove[o]
  BY SeenReset DEF Begin
<1>5. UNCHANGED <<view, teleop, link, wire, up, robot>>
  BY DEF Begin
<1>6. view' \in Views
  BY <1>1, <1>5
<1>7. /\ p.steps \in Seq(Moves \cup {"rest"}) /\ Len(p.steps) <= 3
      /\ p.command \in {"none", "reacquire start"}
  <2>1. motion.run[m].intent \in Intents
    BY <1>1, MotionFields
  <2> QED  BY <2>1, ProfileIs DEF Prof, Run
<1>8. ASSUME NEW why \in {"done", "blocked"}, Goes(motion, motion', m, "none", "idle", why),
             bridge' = bridge
      PROVE  Base'
  <2>1. Others(bridge, bridge', m)
    BY <1>1, <1>8, OthersSame
  <2>2. MoverOK(motion'.run[m], bridge'.wr[m], seen'.drove[m])
    BY <1>3, <1>4, <1>8 DEF MoverOK, Goes, Writing
  <2> QED  BY <2>1, <2>2, <1>2, <1>4, <1>5, <1>6, <1>8, MoverStep
<1>9. ASSUME NEW pc \in {"command", "drive"}, NEW cmd \in Commands, Enqueue(m, cmd),
             pc = "command" => cmd = "reacquire start",
             Goes(motion, motion', m, m, pc, "none")
      PROVE  Base'
  <2>1. Asks(bridge, bridge', m, cmd)
    BY <1>1, <1>3, <1>9, EnqueueAsks, Zenon
  <2>2. MoverOK(motion'.run[m], bridge'.wr[m], seen'.drove[m])
    BY <2>1, <1>4, <1>9 DEF MoverOK, Goes, Writing, Asks
  <2>3. Others(bridge, bridge', m)
    BY <2>1 DEF Asks
  <2> QED  BY <2>2, <2>3, <1>2, <1>4, <1>5, <1>6, <1>9, MoverStep
<1>10. CASE Preflight(m) # "none"
  <2>1. motion' = End(m, "blocked") /\ bridge' = bridge
    BY <1>10 DEF Begin
  <2>2. Goes(motion, motion', m, "none", "idle", "blocked")
    BY <2>1, <1>1, EndGoes DEF Whys
  <2> QED  BY <2>1, <2>2, <1>8
<1>11. CASE Preflight(m) = "none" /\ p.command # "none"
  <2>1. Enqueue(m, "reacquire start") /\ motion' = [motion EXCEPT !.owner = m, !.run[m].pc = "command"]
    BY <1>7, <1>11 DEF Begin
  <2>2. Goes(motion, motion', m, m, "command", "none")
    BY <2>1, <1>1, <1>3, RunPcs DEF Pcs
  <2>3. "reacquire start" \in Commands
    BY DEF Commands, Discrete
  <2> QED  BY <2>1, <2>2, <2>3, <1>9
<1>12. CASE Preflight(m) = "none" /\ p.command = "none" /\ p.steps = <<>>
  <2>1. motion' = Finish(m) /\ bridge' = bridge
    BY <1>12 DEF Begin
  <2>2. Goes(motion, motion', m, "none", "idle", "done")
    BY <2>1, <1>1, FinishGoes
  <2> QED  BY <2>1, <2>2, <1>8
<1>13. CASE Preflight(m) = "none" /\ p.command = "none" /\ p.steps # <<>>
  <2>1. /\ Enqueue(m, Head(p.steps))
        /\ motion' = [motion EXCEPT !.owner = m, !.run[m].pc = "drive", !.run[m].step = 1]
    BY <1>13 DEF Begin
  <2>2. Head(p.steps) \in Commands
    <3>1. Head(p.steps) \in Moves \cup {"rest"}
      BY <1>7, <1>13, Tailed
    <3> QED  BY <3>1 DEF Commands
  <2>3. motion.run[m] \in Runs /\ motion.run[m].asleep \in BOOLEAN
    BY <1>1, MotionFields
  <2>4. motion' = Put(motion, m, m, At(motion.run[m], "drive", 1, motion.run[m].asleep))
    <3>1. [motion.run[m] EXCEPT !.pc = "drive", !.step = 1] = At(motion.run[m], "drive", 1, motion.run[m].asleep)
      BY <2>3 DEF At, Runs
    <3>2. motion.run \in [Movers -> Runs]
      BY <1>1, MotionFields
    <3>3. [[motion.run EXCEPT ![m].pc = "drive"] EXCEPT ![m].step = 1]
             = [motion.run EXCEPT ![m] = [motion.run[m] EXCEPT !.pc = "drive", !.step = 1]]
      BY <2>3, <3>2 DEF Runs
    <3>4. motion' = [motion EXCEPT !.owner = m,
                        !.run = [[motion.run EXCEPT ![m].pc = "drive"] EXCEPT ![m].step = 1]]
      BY <1>1, <2>1 DEF Motions
    <3> QED  BY <3>1, <3>3, <3>4 DEF Put
  <2>5. Goes(motion, motion', m, m, "drive", "none")
    BY <2>3, <2>4, <1>1, <1>3, RunPut DEF Pcs
  <2> QED  BY <2>1, <2>2, <2>5, <1>9
<1> QED  BY <1>10, <1>11, <1>12, <1>13

\* A mover that holds the lock and whose write has been settled: the lock of the port goes
\* on, and the sequence is over or sleeps.
LEMMA MoverFrees ==
    ASSUME Base, NEW m \in Movers, Resume(m, "none"), motion.run[m].pc \notin {"idle", "asked"},
           NEW own \in {m, "none"}, NEW pc \in {"idle", "sleep"}, NEW why \in Whys,
           own = (IF pc = "idle" THEN "none" ELSE m),
           Goes(motion, motion', m, own, pc, why),
           why \in {"done", "blocked"} => ~ seen.drove[m], why # "none" => pc = "idle",
           UNCHANGED <<teleop, link, wire, up, robot, seen>>
    PROVE  Base'
<1>1. bridge \in Bridges /\ QueueOK(bridge.queue, bridge.wr) /\ view \in Views
  BY BaseHas
<1>2. m \in Writers /\ motion.owner = m
  BY MoverKnows
<1>3. Frees(bridge, bridge', m) /\ view' = Acked(m)
  <2>1. "none" \in Commands
    BY DEF Commands
  <2> QED  BY <2>1, <1>1, <1>2, ResumeDoes
<1>4. Others(bridge, bridge', m) /\ bridge'.wr[m].at = "none"
  BY <1>3 DEF Frees
<1>5. view' \in Views
  BY <1>1, <1>2, <1>3, AckedTyped
<1>6. /\ seen' \in [drove : [Movers -> BOOLEAN]]
      /\ \A o \in Movers : seen'.drove[o] = seen.drove[o]
  BY SeenSame
<1>7. MoverOK(motion'.run[m], bridge'.wr[m], seen'.drove[m])
  BY <1>4, <1>6 DEF MoverOK, Goes, Writing
<1>8. own = IF pc \in {"idle", "asked"} THEN "none" ELSE m
  OBVIOUS
<1> QED  BY <1>2, <1>4, <1>5, <1>6, <1>7, <1>8, MoverStep

LEMMA FailBase ==
    ASSUME Base, NEW m \in Movers, Fail(m)
    PROVE  Base'
<1>1. motion' = End(m, "error") /\ Resume(m, "none") /\ motion.run[m].pc \notin {"idle", "asked"}
  BY DEF Fail, Run
<1>2. Goes(motion, motion', m, "none", "idle", "error") /\ "error" \in Whys
  BY <1>1, BaseHas, EndGoes DEF Whys
<1>3. UNCHANGED <<teleop, link, wire, up, robot, seen>>
  BY DEF Fail
<1> QED  BY <1>1, <1>2, <1>3, MoverFrees

LEMMA DrivenBase ==
    ASSUME Base, NEW m \in Movers, Driven(m)
    PROVE  Base'
<1>0. motion \in Motions /\ motion.run[m] \in Runs /\ motion.run[m].step \in 0 .. 3
  BY BaseHas, MotionFields
<1>1. /\ Resume(m, "none") /\ motion.run[m].pc \in {"command", "drive"}
      /\ UNCHANGED <<teleop, link, wire, up, robot, seen>>
  BY DEF Driven, Run
<1>2. CASE motion.run[m].pc = "command"
  <2>1. motion' = Finish(m)
    BY <1>2 DEF Driven, Run
  <2>2. Goes(motion, motion', m, "none", "idle", "done") /\ "done" \in Whys
    BY <2>1, <1>0, FinishGoes DEF Whys
  <2>3. ~ seen.drove[m]
    BY <1>2, MoverKnows DEF MoverOK
  <2> QED  BY <2>2, <2>3, <1>1, MoverFrees
<1>3. CASE motion.run[m].pc = "drive"
  <2>1. motion' = [motion EXCEPT !.run[m].pc = "sleep", !.run[m].asleep = TRUE]
    BY <1>3 DEF Driven, Run
  <2>2. motion.run[m].why = "none" /\ motion.owner = m
    BY <1>3, MoverKnows DEF MoverOK
  <2>3. motion' = Put(motion, m, m, At(motion.run[m], "sleep", motion.run[m].step, TRUE))
    <3>1. [motion.run[m] EXCEPT !.pc = "sleep", !.asleep = TRUE]
             = At(motion.run[m], "sleep", motion.run[m].step, TRUE)
      BY <1>0 DEF At, Runs
    <3>2. motion.run \in [Movers -> Runs]
      BY <1>0, MotionFields
    <3>3. [[motion.run EXCEPT ![m].pc = "sleep"] EXCEPT ![m].asleep = TRUE]
             = [motion.run EXCEPT ![m] = [motion.run[m] EXCEPT !.pc = "sleep", !.asleep = TRUE]]
      BY <1>0, <3>2 DEF Runs
    <3>4. motion' = [motion EXCEPT !.owner = m,
                        !.run = [[motion.run EXCEPT ![m].pc = "sleep"] EXCEPT ![m].asleep = TRUE]]
      BY <1>0, <2>1, <2>2 DEF Motions
    <3> QED  BY <3>1, <3>3, <3>4 DEF Put
  <2>4. Goes(motion, motion', m, m, "sleep", "none") /\ "none" \in Whys
    BY <1>0, <2>2, <2>3, RunPut DEF Pcs, Whys
  <2> QED  BY <2>2, <2>4, <1>1, <1>3, MoverFrees
<1> QED  BY <1>1, <1>2, <1>3

\* A mover that holds the lock queues its next write.
LEMMA MoverAsks ==
    ASSUME Base, NEW m \in Movers, motion.run[m].pc \notin {"idle", "asked"},
           NEW pc \in {"drive", "stop", "halt", "search"}, NEW cmd,
           Asks(bridge, bridge', m, cmd), Goes(motion, motion', m, m, pc, "none"),
           pc \in {"stop", "halt"} => cmd = "motors off",
           pc = "search" => cmd = "reacquire start" /\ ~ seen.drove[m],
           view' \in Views, UNCHANGED <<teleop, link, wire, up, robot, seen>>
    PROVE  Base'
<1>1. m \in Writers /\ motion.owner = m
  BY MoverKnows
<1>2. Others(bridge, bridge', m) /\ bridge'.wr[m].at = "queued" /\ bridge'.wr[m].cmd = cmd
  BY DEF Asks
<1>3. /\ seen' \in [drove : [Movers -> BOOLEAN]]
      /\ \A o \in Movers : seen'.drove[o] = seen.drove[o]
  BY SeenSame
<1>4. MoverOK(motion'.run[m], bridge'.wr[m], seen'.drove[m])
  BY <1>2, <1>3 DEF MoverOK, Goes, Writing
<1> QED  BY <1>1, <1>2, <1>3, <1>4, MoverStep

LEMMA NextStepBase ==
    ASSUME Base, NEW m \in Movers, NextStep(m)
    PROVE  Base'
<1> DEFINE more == Run(m).step < Len(Prof(m).steps)
           halt == more /\ Preflight(m) # "none"
           r == motion.run[m]
<1>0. /\ motion \in Motions /\ r \in Runs /\ r.step \in 0 .. 3 /\ r.asleep \in BOOLEAN
      /\ r.intent \in Intents /\ bridge \in Bridges /\ QueueOK(bridge.queue, bridge.wr)
      /\ view \in Views /\ motion.run \in [Movers -> Runs]
  BY BaseHas, MotionFields
<1>1. r.pc = "sleep" /\ UNCHANGED <<view, teleop, link, wire, up, robot, seen>>
  BY DEF NextStep, Run
<1>2. bridge.wr[m].at = "none" /\ r.why = "none" /\ motion.owner = m /\ m \in Writers
  BY <1>1, MoverKnows DEF MoverOK, Writing
<1>3. CASE ~ Connected
  <2>1. motion' = End(m, "error") /\ bridge' = bridge
    BY <1>3 DEF NextStep
  <2>2. Goes(motion, motion', m, "none", "idle", "error")
    BY <2>1, <1>0, EndGoes DEF Whys
  <2>3. Others(bridge, bridge', m)
    BY <2>1, <1>0, OthersSame
  <2>4. /\ seen' \in [drove : [Movers -> BOOLEAN]]
        /\ \A o \in Movers : seen'.drove[o] = seen.drove[o]
    BY <1>1, SeenSame
  <2>5. MoverOK(motion'.run[m], bridge'.wr[m], seen'.drove[m])
    BY <2>1, <2>2, <1>2 DEF MoverOK, Goes, Writing
  <2> QED  BY <2>2, <2>3, <2>4, <2>5, <1>0, <1>1, <1>2, MoverStep
<1>4. CASE Connected /\ more /\ ~ halt
  <2>1. /\ Enqueue(m, Prof(m).steps[r.step + 1])
        /\ motion' = [motion EXCEPT !.run[m].pc = "drive", !.run[m].step = @ + 1]
    BY <1>4 DEF NextStep, Run
  <2>2. /\ r.step < Len(Prof(m).steps) /\ Prof(m).steps \in Seq(Moves \cup {"rest"})
        /\ Len(Prof(m).steps) <= 3
    BY <1>0, <1>4, ProfileIs DEF Prof, Run
  <2>3. r.step + 1 \in 0 .. 3 /\ Prof(m).steps[r.step + 1] \in Commands
    BY <2>2, <1>0 DEF Commands
  <2>4. motion' = Put(motion, m, m, At(r, "drive", r.step + 1, r.asleep))
    <3>1. [r EXCEPT !.pc = "drive", !.step = @ + 1] = At(r, "drive", r.step + 1, r.asleep)
      BY <1>0 DEF At, Runs
    <3> DEFINE g == [motion.run EXCEPT ![m].pc = "drive"]
               h == [g EXCEPT ![m].step = r.step + 1]
    <3>2. h = [motion.run EXCEPT ![m] = [r EXCEPT !.pc = "drive", !.step = @ + 1]]
      <4>1. [[r EXCEPT !.pc = "drive"] EXCEPT !.step = r.step + 1]
              = [r EXCEPT !.pc = "drive", !.step = @ + 1]
        BY <1>0 DEF Runs
      <4>2. g = [motion.run EXCEPT ![m] = [r EXCEPT !.pc = "drive"]]
        OBVIOUS
      <4>3. h = [g EXCEPT ![m] = [[r EXCEPT !.pc = "drive"] EXCEPT !.step = r.step + 1]]
        BY <4>2, <1>0
      <4> QED  BY <4>1, <4>2, <4>3
    <3>3. g[m].step = r.step
      BY <1>0 DEF Runs
    <3>4. motion' = [motion EXCEPT !.run = [g EXCEPT ![m].step = g[m].step + 1]]
      <4> DEFINE a == [motion EXCEPT !.run = g]
      <4>1. motion' = [a EXCEPT !.run[m].step = @ + 1]
        BY <2>1
      <4>2. a \in [owner : Movers \cup {"none"}, auto : BOOLEAN, cool : SUBSET Intents, run : {g}]
        BY <1>0 DEF Motions
      <4>3. a.run = g
        BY <4>2
      <4>4. motion' = [a EXCEPT !.run = [g EXCEPT ![m].step = g[m].step + 1]]
        BY <4>1, <4>3
      <4> HIDE DEF g
      <4> QED  BY <4>4, <1>0 DEF Motions
    <3> HIDE DEF g
    <3>5. motion' = [motion EXCEPT !.owner = m, !.run = h]
      BY <1>0, <1>2, <3>3, <3>4 DEF Motions
    <3> HIDE DEF h
    <3> QED  BY <3>1, <3>2, <3>5 DEF Put
  <2>5. Goes(motion, motion', m, m, "drive", "none")
    BY <1>0, <1>2, <2>3, <2>4, RunPut DEF Pcs
  <2>6. Asks(bridge, bridge', m, Prof(m).steps[r.step + 1])
    BY <2>1, <2>3, <1>0, <1>2, EnqueueAsks, Zenon
  <2> QED  BY <2>5, <2>6, <1>0, <1>1, MoverAsks
<1>5. CASE Connected /\ (~ more \/ halt)
  <2> DEFINE pc == IF halt THEN "halt" ELSE "stop"
  <2>1. Enqueue(m, "motors off") /\ motion' = [motion EXCEPT !.run[m].pc = pc]
    BY <1>5 DEF NextStep, Stop
  <2>2. pc \in {"stop", "halt"} /\ "motors off" \in Commands
    BY DEF Commands, Discrete
  <2> HIDE DEF pc, halt, more
  <2>3. Goes(motion, motion', m, m, pc, "none")
    BY <2>1, <2>2, <1>0, <1>2, RunPcs DEF Pcs
  <2>4. Asks(bridge, bridge', m, "motors off")
    BY <2>1, <2>2, <1>0, <1>2, EnqueueAsks, Zenon
  <2> QED  BY <2>2, <2>3, <2>4, <1>0, <1>1, MoverAsks
<1> QED  BY <1>3, <1>4, <1>5

LEMMA AfterStopBase ==
    ASSUME Base, NEW m \in Movers, AfterStop(m)
    PROVE  Base'
<1> DEFINE search == Run(m).pc = "stop" /\ Prof(m).post = "reacquire" /\ ~ LineVisible(view)
<1>0. /\ motion \in Motions /\ bridge \in Bridges /\ QueueOK(bridge.queue, bridge.wr)
      /\ view \in Views
  BY BaseHas
<1>1. /\ motion.run[m].pc \in {"stop", "halt"} /\ bridge.wr[m].at = "written"
      /\ UNCHANGED <<teleop, link, wire, up, robot, seen>>
  BY DEF AfterStop, Run, Settled, Raised
<1>2. ~ seen.drove[m] /\ motion.run[m].why = "none" /\ motion.owner = m /\ m \in Writers
  BY <1>1, MoverKnows DEF MoverOK
<1>3. CASE search
  <2>1. Resume(m, "reacquire start") /\ motion' = [motion EXCEPT !.run[m].pc = "search"]
    BY <1>3 DEF AfterStop
  <2>2. "reacquire start" \in Commands
    BY DEF Commands, Discrete
  <2>3. Asks(bridge, bridge', m, "reacquire start") /\ view' = Acked(m)
    BY <2>1, <2>2, <1>0, <1>2, ResumeDoes
  <2>4. view' \in Views
    BY <2>3, <1>0, <1>2, AckedTyped
  <2>5. Goes(motion, motion', m, m, "search", "none")
    BY <2>1, <1>0, <1>2, RunPcs DEF Pcs
  <2> QED  BY <2>3, <2>4, <2>5, <1>1, <1>2, MoverAsks
<1>4. CASE ~ search
  <2>1. /\ Resume(m, "none")
        /\ motion' = IF Run(m).pc = "halt" THEN End(m, "blocked") ELSE Finish(m)
    BY <1>4 DEF AfterStop
  <2> HIDE DEF search
  <2>2. \E why \in {"done", "blocked"} : Goes(motion, motion', m, "none", "idle", why) /\ why \in Whys
    <3>1. CASE Run(m).pc = "halt"
      BY <3>1, <2>1, <1>0, EndGoes DEF Whys
    <3>2. CASE Run(m).pc # "halt"
      BY <3>2, <2>1, <1>0, FinishGoes DEF Whys
    <3> QED  BY <3>1, <3>2
  <2>3. PICK why \in {"done", "blocked"} : Goes(motion, motion', m, "none", "idle", why) /\ why \in Whys
    BY <2>2
  <2> QED  BY <2>1, <2>3, <1>1, <1>2, MoverFrees
<1> QED  BY <1>3, <1>4

LEMMA AfterSearchBase ==
    ASSUME Base, NEW m \in Movers, AfterSearch(m)
    PROVE  Base'
<1>1. /\ motion.run[m].pc = "search" /\ Resume(m, "none") /\ motion' = Finish(m)
      /\ UNCHANGED <<teleop, link, wire, up, robot, seen>>
  BY DEF AfterSearch, Run
<1>2. ~ seen.drove[m]
  BY <1>1, MoverKnows DEF MoverOK
<1>3. Goes(motion, motion', m, "none", "idle", "done") /\ "done" \in Whys
  BY <1>1, BaseHas, FinishGoes DEF Whys
<1> QED  BY <1>1, <1>2, <1>3, MoverFrees

\* A step of anybody else: the movers keep their places, their writes and their pulses.
LEMMA RestStep ==
    ASSUME Base, motion' \in Motions, motion'.owner = motion.owner,
           \A m \in Movers : /\ motion'.run[m].pc = motion.run[m].pc
                             /\ motion'.run[m].why = motion.run[m].why
                             /\ bridge'.wr[m] = bridge.wr[m],
           bridge' \in Bridges, QueueOK(bridge'.queue, bridge'.wr),
           view' \in Views, robot' \in Robots, teleop' \in Talks, link' \in Links,
           wire' \in Seq(Commands), Len(wire') <= WireMax, up' \in Seq(Reports),
           seen' = seen, ClientsOK(teleop'.pc, link', bridge')
    PROVE  Base'
<1>1. /\ LockOK(motion.run, motion.owner) /\ MoversOK(motion.run, bridge.wr, seen.drove)
      /\ seen' \in [drove : [Movers -> BOOLEAN]]
  BY BaseHas
<1>2. LockOK(motion'.run, motion'.owner)
  BY <1>1 DEF LockOK
<1>3. MoversOK(motion'.run, bridge'.wr, seen'.drove)
  <2> SUFFICES ASSUME NEW m \in Movers PROVE MoverOK(motion'.run[m], bridge'.wr[m], seen.drove[m])
    BY DEF MoversOK
  <2>1. MoverOK(motion.run[m], bridge.wr[m], seen.drove[m])
    BY <1>1 DEF MoversOK
  <2> QED  BY <2>1 DEF MoverOK
<1> QED  BY <1>1, <1>2, <1>3, BaseNext

\* A client that is no mover queues a command or gives the lock back.
LEMMA ClientStep ==
    ASSUME Base, NEW w \in {"api", "teleop", "link"}, Others(bridge, bridge', w), motion' = motion,
           view' \in Views, teleop' \in Talks, link' \in Links,
           UNCHANGED <<wire, up, robot, seen>>, ClientsOK(teleop'.pc, link', bridge')
    PROVE  Base'
<1>1. /\ motion' \in Motions /\ robot' \in Robots /\ wire' \in Seq(Commands)
      /\ Len(wire') <= WireMax /\ up' \in Seq(Reports)
  BY BaseHas
<1>2. \A m \in Movers : bridge'.wr[m] = bridge.wr[m]
  BY MoverWrites DEF Others, Movers
<1>3. bridge' \in Bridges /\ QueueOK(bridge'.queue, bridge'.wr)
  BY DEF Others
<1> QED  BY <1>1, <1>2, <1>3, RestStep

\* The head of the queue has written, or its write has raised.
Settles(b, c, w, a) == Others(b, c, w) /\ c.wr[w].at = a /\ c.wr[w].cmd = b.wr[w].cmd

LEMMA HeadSettles ==
    ASSUME NEW b \in Bridges, QueueOK(b.queue, b.wr), NEW w \in Writers, Head(b.queue) = w,
           b.wr[w].at # "none", NEW a \in {"written", "raised"}
    PROVE  Settles(b, [b EXCEPT !.wr[w].at = a], w, a)
<1> DEFINE x == [b.wr[w] EXCEPT !.at = a]
           c == [b EXCEPT !.wr[w].at = a]
<1>1. b.queue \in Seq(Writers) /\ b.wr \in [Writers -> Writes] /\ b.wr[w] \in Writes
  BY BridgeFields
<1>2. x \in Writes /\ x.at = a /\ x.cmd = b.wr[w].cmd
  BY <1>1 DEF Writes, Ats
<1> HIDE DEF x
<1>3. [b.wr EXCEPT ![w] = x] \in [Writers -> Writes]
  BY <1>1, <1>2
<1>4. c \in Bridges /\ c.open = b.open /\ c.queue = b.queue /\ c.wr = [b.wr EXCEPT ![w] = x]
  <2>1. c = [b EXCEPT !.wr = [b.wr EXCEPT ![w] = x]]
    BY DEF x
  <2> HIDE DEF c
  <2> QED  BY <2>1, <1>3 DEF Bridges
<1>5. QueueOK(b.queue, [b.wr EXCEPT ![w] = x])
  BY <1>1, <1>2, QueueKeeps
<1> HIDE DEF c
<1>6. QueueOK(c.queue, c.wr)
  BY <1>4, <1>5, Zenon
<1>7. c.wr[w] = x /\ \A v \in Writers \ {w} : c.wr[v] = b.wr[v]
  BY <1>1, <1>4
<1>8. Settles(b, c, w, a)
  BY <1>2, <1>4, <1>6, <1>7 DEF Settles, Others
<1> QED  BY <1>8 DEF c

\* What a write of command cmd by w makes of the pulse that mover m has not stopped.
Drove(d, m, w, cmd) ==
    CASE m = w /\ cmd \in Moves -> TRUE
      [] m = w /\ cmd = "motors off" -> FALSE
      [] OTHER -> d

LEMMA WriteDoes ==
    ASSUME Base, NEW w \in Writers, Write(w)
    PROVE  /\ bridge.queue # <<>> /\ Head(bridge.queue) = w /\ bridge.wr[w].at = "queued"
           /\ UNCHANGED <<motion, view, teleop, link, up, robot, used>>
           /\ \/ /\ bridge.open = "live" /\ Len(wire) < WireMax
                 /\ wire' = Append(wire, bridge.wr[w].cmd)
                 /\ Settles(bridge, bridge', w, "written")
                 /\ seen' = [seen EXCEPT !.drove =
                               [m \in Movers |-> Drove(seen.drove[m], m, w, bridge.wr[w].cmd)]]
              \/ /\ bridge.open # "live" /\ wire' = wire /\ seen' = seen
                 /\ Settles(bridge, bridge', w, "raised")
<1>1. /\ bridge.queue # <<>> /\ Head(bridge.queue) = w /\ bridge.wr[w].at = "queued"
      /\ UNCHANGED <<motion, view, teleop, link, up, robot, used>>
  BY DEF Write
<1>2. bridge \in Bridges /\ QueueOK(bridge.queue, bridge.wr)
  BY BaseHas
<1>3. \A a \in {"written", "raised"} : Settles(bridge, [bridge EXCEPT !.wr[w].at = a], w, a)
  BY <1>1, <1>2, HeadSettles
<1>4. CASE bridge.open = "live"
  <2>1. /\ Len(wire) < WireMax /\ wire' = Append(wire, bridge.wr[w].cmd)
        /\ bridge' = [bridge EXCEPT !.wr[w].at = "written"]
        /\ seen' = [seen EXCEPT !.drove =
                      [m \in Movers |-> Drove(seen.drove[m], m, w, bridge.wr[w].cmd)]]
    BY <1>4 DEF Write, Drove
  <2>2. Settles(bridge, bridge', w, "written")
    BY <2>1, <1>3
  <2> QED  BY <2>1, <2>2, <1>1, <1>4
<1>5. CASE bridge.open # "live"
  <2>1. bridge' = [bridge EXCEPT !.wr[w].at = "raised"] /\ wire' = wire /\ seen' = seen
    BY <1>5 DEF Write
  <2>2. Settles(bridge, bridge', w, "raised")
    BY <2>1, <1>3
  <2> QED  BY <2>1, <2>2, <1>1, <1>5
<1> QED  BY <1>4, <1>5

LEMMA WriteBase ==
    ASSUME Base, NEW w \in Writers, Write(w)
    PROVE  Base'
<1> DEFINE cmd == bridge.wr[w].cmd
<1>1. /\ bridge.wr[w].at = "queued" /\ cmd \in Commands
      /\ UNCHANGED <<motion, view, teleop, link, up, robot>>
  BY WriteDoes, BaseHas, BridgeFields
<1>2. \E a \in {"written", "raised"} : Settles(bridge, bridge', w, a)
  BY WriteDoes
<1>3. PICK a \in {"written", "raised"} : Settles(bridge, bridge', w, a)
  BY <1>2
<1>4. /\ bridge' \in Bridges /\ QueueOK(bridge'.queue, bridge'.wr) /\ bridge'.open = bridge.open
      /\ bridge'.wr[w].at = a /\ bridge'.wr[w].cmd = cmd
      /\ \A v \in Writers \ {w} : bridge'.wr[v] = bridge.wr[v]
  BY <1>3 DEF Settles, Others
<1>5. wire' \in Seq(Commands) /\ Len(wire') <= WireMax
  <2>1. wire \in Seq(Commands) /\ Len(wire) <= WireMax
    BY BaseHas
  <2>2. CASE wire' = wire
    BY <2>1, <2>2
  <2>3. CASE Len(wire) < WireMax /\ wire' = Append(wire, cmd)
    <3>1. wire' \in Seq(Commands) /\ Len(wire) \in Nat /\ Len(wire') = Len(wire) + 1
      BY <2>1, <2>3, <1>1, Appended
    <3> QED  BY <3>1, <2>3, BodyAssumption
  <2> QED  BY <2>2, <2>3, WriteDoes
<1>6. /\ seen' \in [drove : [Movers -> BOOLEAN]]
      /\ \A m \in Movers : seen'.drove[m] = Drove(seen.drove[m], m, w, cmd) \/ seen'.drove[m] = seen.drove[m]
      /\ a = "written" => \A m \in Movers : seen'.drove[m] = Drove(seen.drove[m], m, w, cmd)
  <2>1. seen \in [drove : [Movers -> BOOLEAN]] /\ seen.drove \in [Movers -> BOOLEAN]
    BY BaseHas
  <2>2. CASE seen' = seen /\ a = "raised"
    BY <2>1, <2>2
  <2>3. CASE seen' = [seen EXCEPT !.drove = [m \in Movers |-> Drove(seen.drove[m], m, w, cmd)]]
    <3> DEFINE d == [m \in Movers |-> Drove(seen.drove[m], m, w, cmd)]
    <3>1. \A m \in Movers : Drove(seen.drove[m], m, w, cmd) \in BOOLEAN
      BY <2>1 DEF Drove
    <3>2. d \in [Movers -> BOOLEAN] /\ \A m \in Movers : d[m] = Drove(seen.drove[m], m, w, cmd)
      BY <3>1
    <3> HIDE DEF d
    <3>3. seen' \in [drove : [Movers -> BOOLEAN]] /\ seen'.drove = d
      BY <2>1, <2>3, <3>2 DEF d
    <3> QED  BY <3>2, <3>3
  <2>4. a = "written" \/ a = "raised"
    OBVIOUS
  <2> QED  BY <2>2, <2>3, <2>4, <1>4, WriteDoes DEF Settles
<1>7. MoversOK(motion'.run, bridge'.wr, seen'.drove)
  <2> SUFFICES ASSUME NEW m \in Movers PROVE MoverOK(motion.run[m], bridge'.wr[m], seen'.drove[m])
    BY <1>1 DEF MoversOK
  <2>1. MoverOK(motion.run[m], bridge.wr[m], seen.drove[m]) /\ m \in Writers
    BY MoverKnows
  <2>2. CASE m # w
    <3>1. bridge'.wr[m] = bridge.wr[m] /\ seen'.drove[m] = seen.drove[m]
      BY <2>1, <2>2, <1>4, <1>6 DEF Drove
    <3> QED  BY <3>1, <2>1
  <2>3. CASE m = w
    <3>1. /\ cmd = "motors off" => Drove(seen.drove[m], m, w, cmd) = FALSE
          /\ cmd = "reacquire start" => Drove(seen.drove[m], m, w, cmd) = seen.drove[m]
      BY <2>3 DEF Drove, Moves
    <3>2. /\ bridge'.wr[m].at = a /\ bridge'.wr[m].cmd = cmd
          /\ cmd = "motors off" /\ a = "written" => seen'.drove[m] = FALSE
          /\ cmd = "reacquire start" => seen'.drove[m] = seen.drove[m]
      BY <3>1, <2>3, <1>4, <1>6
    <3> HIDE DEF cmd
    <3>3. bridge.wr[m].at # "none" /\ cmd = bridge.wr[m].cmd
      BY <1>1, <2>3 DEF cmd
    <3> QED  BY <3>2, <3>3, <2>1 DEF MoverOK, Writing
  <2> QED  BY <2>2, <2>3
<1>8. ClientsOK(teleop'.pc, link', bridge')
  <2>1. ClientsOK(teleop.pc, link, bridge)
    BY BaseHas
  <2>2. \A v \in Writers : (bridge'.wr[v].at # "none" <=> bridge.wr[v].at # "none") /\ bridge'.wr[v].cmd = bridge.wr[v].cmd
    BY <1>1, <1>4
  <2>3. "teleop" \in Writers /\ "link" \in Writers
    BY DEF Writers
  <2> QED  BY <2>1, <2>2, <2>3, <1>1, <1>4 DEF ClientsOK
<1> QED
  <2>1. /\ motion' \in Motions /\ LockOK(motion'.run, motion'.owner) /\ view' \in Views /\ robot' \in Robots
        /\ teleop' \in Talks /\ link' \in Links /\ up' \in Seq(Reports)
    BY <1>1, BaseHas
  <2> QED  BY <2>1, <1>4, <1>5, <1>6, <1>7, <1>8, BaseNext

-----------------------------------------------------------------------------
(* The command route, teleop, connect and disconnect *)

LEMMA ClientNames ==
    /\ "api" \in Writers /\ "teleop" \in Writers /\ "link" \in Writers
    /\ "motors off" \in Commands /\ "drive" \in Commands /\ "rest" \in Commands /\ "none" \in Commands
    /\ Discrete \cup {"motor"} \subseteq Commands
  BY DEF Writers, Commands, Discrete, Moves

LEMMA ClientFrees ==
    ASSUME Base, NEW w \in {"api", "teleop", "link"}, Resume(w, "none")
    PROVE  Frees(bridge, bridge', w) /\ view' \in Views
<1>1. bridge \in Bridges /\ QueueOK(bridge.queue, bridge.wr) /\ view \in Views /\ w \in Writers
  BY BaseHas, ClientNames
<1>2. Frees(bridge, bridge', w) /\ view' = Acked(w)
  BY <1>1, ClientNames, ResumeDoes
<1> QED  BY <1>1, <1>2, AckedTyped

LEMMA ClientAsks ==
    ASSUME Base, NEW w \in {"api", "teleop", "link"}, NEW cmd \in Commands, Enqueue(w, cmd),
           bridge.wr[w].at = "none"
    PROVE  Asks(bridge, bridge', w, cmd)
<1>1. bridge \in Bridges /\ QueueOK(bridge.queue, bridge.wr) /\ w \in Writers
  BY BaseHas, ClientNames
<1> QED  BY <1>1, EnqueueAsks, Zenon

LEMMA ApiBase ==
    ASSUME Base, ApiCommand \/ ApiDone
    PROVE  Base'
<1>1. /\ UNCHANGED <<motion, teleop, link, wire, up, robot, seen>>
  BY DEF ApiCommand, ApiDone
<1>2. teleop' \in Talks /\ link' \in Links /\ ClientsOK(teleop.pc, link, bridge) /\ view \in Views
  BY <1>1, BaseHas
<1>3. Others(bridge, bridge', "api") /\ view' \in Views
  <2>1. CASE ApiCommand
    <3>1. PICK cmd \in ApiCommands : Enqueue("api", cmd)
      BY <2>1 DEF ApiCommand
    <3>2. bridge.wr["api"].at = "none" /\ view' = view
      BY <2>1 DEF ApiCommand
    <3>3. cmd \in Commands
      BY BodyAssumption, ClientNames
    <3>4. Asks(bridge, bridge', "api", cmd)
      BY <3>1, <3>2, <3>3, ClientAsks
    <3> QED  BY <3>2, <3>4, <1>2 DEF Asks
  <2>2. CASE ApiDone
    BY <2>2, ClientFrees DEF ApiDone, Frees
  <2> QED  BY <2>1, <2>2
<1>4. ClientsOK(teleop.pc, link, bridge')
  BY <1>2, <1>3, ClientsSame
<1> QED  BY <1>1, <1>2, <1>3, <1>4, ClientStep

\* The teleop handler's place after one of its own writes has begun or ended.
LEMMA TeleopMoves ==
    ASSUME Base, Others(bridge, bridge', "teleop"), teleop' \in Talks, view' \in Views,
           teleop'.pc \in {"busy", "last"} <=> bridge'.wr["teleop"].at # "none",
           UNCHANGED <<motion, link, wire, up, robot, seen>>
    PROVE  Base'
<1>1. link' \in Links /\ ClientsOK(teleop.pc, link, bridge)
  BY BaseHas
<1>2. ClientsOK(teleop'.pc, link', bridge')
  <2>1. bridge'.wr["link"] = bridge.wr["link"] /\ bridge'.open = bridge.open
    BY ClientNames DEF Others
  <2> QED  BY <2>1, <1>1 DEF ClientsOK
<1> QED  BY <1>1, <1>2, ClientStep

TalkPcs == {"closed", "wait", "busy", "closing", "last"}

LEMMA TalkStill ==
    ASSUME NEW pc \in TalkPcs
    PROVE  [moving |-> FALSE, pc |-> pc] \in Talks /\ [moving |-> FALSE, pc |-> pc].pc = pc
  BY DEF Talks, TalkPcs

LEMMA TeleopSayBase ==
    ASSUME Base, NEW cmd \in Commands, TeleopSay(cmd)
    PROVE  Base'
<1>0. /\ teleop \in Talks /\ bridge \in Bridges /\ QueueOK(bridge.queue, bridge.wr)
      /\ ClientsOK(teleop.pc, link, bridge) /\ view \in Views
  BY BaseHas
<1>1. /\ teleop.pc = "wait" /\ UNCHANGED <<motion, view, link, wire, up, robot, seen>>
  BY DEF TeleopSay
<1>2. bridge.wr["teleop"].at = "none" /\ view' \in Views
  BY <1>0, <1>1 DEF ClientsOK
<1>3. CASE Connected
  <2>1. Enqueue("teleop", cmd) /\ teleop' = [teleop EXCEPT !.pc = "busy"]
    BY <1>3 DEF TeleopSay
  <2>2. Asks(bridge, bridge', "teleop", cmd)
    BY <2>1, <1>2, ClientAsks
  <2>3. teleop' \in Talks /\ teleop'.pc = "busy"
    BY <2>1, <1>0 DEF Talks
  <2> QED  BY <2>2, <2>3, <1>1, <1>2, TeleopMoves DEF Asks
<1>4. CASE ~ Connected
  <2>1. bridge' = bridge /\ teleop' = [teleop EXCEPT !.pc = "closing"]
    BY <1>4 DEF TeleopSay
  <2>2. teleop' \in Talks /\ teleop'.pc = "closing" /\ Others(bridge, bridge', "teleop")
    BY <2>1, <1>0, OthersSame DEF Talks
  <2> QED  BY <2>1, <2>2, <1>1, <1>2, TeleopMoves
<1> QED  BY <1>3, <1>4

LEMMA TeleopBase ==
    ASSUME Base, TeleopStep \/ TeleopOpen \/ TeleopIntent \/ TeleopKill \/ TeleopTimeout \/ TeleopLeave
    PROVE  Base'
<1>0. /\ teleop \in Talks /\ bridge \in Bridges /\ QueueOK(bridge.queue, bridge.wr)
      /\ ClientsOK(teleop.pc, link, bridge) /\ view \in Views
  BY BaseHas
<1>1. CASE TeleopIntent \/ TeleopKill \/ TeleopTimeout
  BY <1>1, TeleopSayBase, ClientNames DEF TeleopIntent, TeleopKill, TeleopTimeout
<1>2. CASE TeleopDone
  <2>1. Resume("teleop", "none") /\ UNCHANGED <<motion, link, wire, up, robot, seen>>
    BY <1>2 DEF TeleopDone
  <2>2. Frees(bridge, bridge', "teleop") /\ view' \in Views
    BY <2>1, ClientFrees
  <2>3. teleop' \in Talks /\ teleop'.pc \in {"wait", "closing"}
    <3>1. (bridge.wr["teleop"].cmd = "drive") \in BOOLEAN
      OBVIOUS
    <3>2. CASE Raised("teleop")
      BY <3>2, <1>0, <1>2 DEF TeleopDone, Talks
    <3>3. CASE ~ Raised("teleop")
      BY <3>1, <3>3, <1>0, <1>2 DEF TeleopDone, Talks
    <3> QED  BY <3>2, <3>3
  <2> QED  BY <2>1, <2>2, <2>3, TeleopMoves DEF Frees
<1>3. CASE TeleopClose
  <2>1. teleop.pc = "closing" /\ UNCHANGED <<motion, view, link, wire, up, robot, seen>>
    BY <1>3 DEF TeleopClose
  <2>2. bridge.wr["teleop"].at = "none" /\ view' \in Views
    BY <2>1, <1>0 DEF ClientsOK
  <2>3. CASE Connected
    <3>1. Enqueue("teleop", "motors off") /\ teleop' = [teleop EXCEPT !.pc = "last"]
      BY <2>3, <1>3 DEF TeleopClose
    <3>2. Asks(bridge, bridge', "teleop", "motors off")
      BY <3>1, <2>2, ClientAsks, ClientNames
    <3>3. teleop' \in Talks /\ teleop'.pc = "last"
      BY <3>1, <1>0 DEF Talks
    <3> QED  BY <3>2, <3>3, <2>1, <2>2, TeleopMoves DEF Asks
  <2>4. CASE ~ Connected
    <3>1. bridge' = bridge /\ teleop' = [moving |-> FALSE, pc |-> "closed"]
      BY <2>4, <1>3 DEF TeleopClose
    <3>2. teleop' \in Talks /\ teleop'.pc = "closed" /\ Others(bridge, bridge', "teleop")
      BY <3>1, <1>0, OthersSame, TalkStill DEF TalkPcs
    <3> QED  BY <3>1, <3>2, <2>1, <2>2, TeleopMoves
  <2> QED  BY <2>3, <2>4
<1>4. CASE TeleopEnd
  <2>1. /\ Resume("teleop", "none") /\ UNCHANGED <<motion, link, wire, up, robot, seen>>
        /\ teleop' = [moving |-> FALSE, pc |-> "closed"]
    BY <1>4 DEF TeleopEnd
  <2>2. Frees(bridge, bridge', "teleop") /\ view' \in Views
    BY <2>1, ClientFrees
  <2>3. teleop' \in Talks /\ teleop'.pc = "closed"
    BY <2>1, TalkStill DEF TalkPcs
  <2> QED  BY <2>1, <2>2, <2>3, TeleopMoves DEF Frees
<1>5. CASE TeleopOpen \/ TeleopLeave
  <2>1. /\ UNCHANGED <<motion, bridge, view, link, wire, up, robot, seen>>
        /\ teleop.pc \in {"closed", "wait"}
        /\ \/ teleop' = [moving |-> FALSE, pc |-> "wait"]
           \/ teleop' = [teleop EXCEPT !.pc = "closing"]
    BY <1>5 DEF TeleopOpen, TeleopLeave
  <2>2. teleop' \in Talks /\ teleop'.pc \in {"wait", "closing"}
    <3>1. CASE teleop' = [moving |-> FALSE, pc |-> "wait"]
      BY <3>1, TalkStill DEF TalkPcs
    <3>2. CASE teleop' = [teleop EXCEPT !.pc = "closing"]
      BY <3>2, <1>0 DEF Talks
    <3> QED  BY <3>1, <3>2, <2>1
  <2>3. bridge.wr["teleop"].at = "none" /\ Others(bridge, bridge', "teleop") /\ view' \in Views
    BY <2>1, <1>0, OthersSame DEF ClientsOK
  <2> QED  BY <2>1, <2>2, <2>3, TeleopMoves
<1> QED  BY <1>1, <1>2, <1>3, <1>4, <1>5 DEF TeleopStep

\* The route's place after a step of its own; the other coroutines' writes are kept.
LEMMA LinkMoves ==
    ASSUME Base, bridge' \in Bridges, QueueOK(bridge'.queue, bridge'.wr),
           \A v \in Writers \ {"link"} : bridge'.wr[v] = bridge.wr[v],
           link' \in Links, view' \in Views, up' \in Seq(Reports),
           link' \in {"stopping", "leaving"} <=> bridge'.wr["link"].at # "none",
           link' \in {"stopping", "leaving"} => bridge'.wr["link"].cmd = "motors off",
           link' = "opening" => bridge'.open = "no",
           UNCHANGED <<motion, teleop, wire, robot, seen>>
    PROVE  Base'
<1>1. /\ motion' \in Motions /\ teleop' \in Talks /\ wire' \in Seq(Commands) /\ Len(wire') <= WireMax
      /\ robot' \in Robots /\ ClientsOK(teleop.pc, link, bridge)
  BY BaseHas
<1>2. "teleop" \in Writers \ {"link"} /\ \A m \in Movers : m \in Writers \ {"link"}
  BY DEF Writers, Movers
<1>3. ClientsOK(teleop'.pc, link', bridge')
  BY <1>1, <1>2 DEF ClientsOK
<1> QED  BY <1>1, <1>2, <1>3, RestStep

\* A port just opened is taken over with a stop, queued behind what other coroutines have
\* under way.
LEMMA OpenedDoes ==
    ASSUME Base, Opened
    PROVE  /\ link = "opening" /\ bridge.open = "no"
           /\ UNCHANGED <<motion, view, teleop, wire, up, robot, seen>>
           /\ \/ /\ link' = "stopping" /\ bridge'.open = "live" /\ bridge' \in Bridges
                 /\ QueueOK(bridge'.queue, bridge'.wr)
                 /\ bridge'.wr["link"].at = "queued" /\ bridge'.wr["link"].cmd = "motors off"
                 /\ \A v \in Writers \ {"link"} : bridge'.wr[v] = bridge.wr[v]
              \/ link' = "idle" /\ bridge' = bridge
<1>0. bridge \in Bridges /\ QueueOK(bridge.queue, bridge.wr) /\ ClientsOK(teleop.pc, link, bridge)
  BY BaseHas
<1>1. /\ link = "opening" /\ UNCHANGED <<motion, view, teleop, wire, up, robot, seen>>
  BY DEF Opened
<1>2. bridge.open = "no" /\ bridge.wr["link"].at = "none"
  BY <1>0, <1>1 DEF ClientsOK
<1>3. CASE bridge.plugged
  <2> DEFINE b == [bridge EXCEPT !.open = "live", !.reading = TRUE]
  <2>1. link' = "stopping" /\ bridge' = Joins(b, "link", "motors off")
    BY <1>3, <1>0 DEF Opened, Joins, Bridges
  <2>2. b \in Bridges /\ b.open = "live" /\ b.queue = bridge.queue /\ b.wr = bridge.wr
    BY <1>0 DEF Bridges
  <2> HIDE DEF b
  <2>3. Asks(b, bridge', "link", "motors off")
    BY <2>1, <2>2, <1>0, <1>2, ClientNames, JoinsAsks
  <2> QED  BY <2>1, <2>2, <2>3, <1>1, <1>2 DEF Asks, Others
<1>4. CASE ~ bridge.plugged
  BY <1>1, <1>2, <1>4 DEF Opened
<1> QED  BY <1>3, <1>4

LEMMA StopReaderDoes ==
    ASSUME Base, StopReader
    PROVE  /\ link = "leaving" /\ link' = "closing" /\ view' = Acked("link")
           /\ bridge.wr["link"].at \in {"written", "raised"}
           /\ UNCHANGED <<motion, teleop, wire, up, robot, seen>>
           /\ Frees(bridge, bridge', "link")
<1>0. bridge \in Bridges /\ QueueOK(bridge.queue, bridge.wr)
  BY BaseHas
<1>1. /\ link = "leaving" /\ link' = "closing" /\ view' = Acked("link")
      /\ bridge.wr["link"].at \in {"written", "raised"}
      /\ UNCHANGED <<motion, teleop, wire, up, robot, seen>>
      /\ bridge' = [Release(bridge, "link") EXCEPT !.reading = FALSE]
  BY DEF StopReader, Settled
<1> DEFINE b == Release(bridge, "link")
<1>2. Frees(bridge, b, "link")
  BY <1>0, <1>1, ClientNames, ReleaseFrees
<1> HIDE DEF b
<1>3. b \in Bridges /\ bridge' = [b EXCEPT !.reading = FALSE]
  BY <1>1, <1>2 DEF Frees, Others, b
<1>4. bridge' \in Bridges /\ bridge'.open = b.open /\ bridge'.queue = b.queue /\ bridge'.wr = b.wr
  BY <1>3 DEF Bridges
<1>5. Frees(bridge, bridge', "link")
  BY <1>2, <1>4 DEF Frees, Others
<1> QED  BY <1>1, <1>5

LEMMA LinkBase ==
    ASSUME Base, LinkStep \/ Connect \/ Disconnect
    PROVE  Base'
<1>0. /\ link \in Links /\ bridge \in Bridges /\ QueueOK(bridge.queue, bridge.wr) /\ view \in Views
      /\ ClientsOK(teleop.pc, link, bridge) /\ up \in Seq(Reports)
      /\ bridge.open \in {"no", "live", "dead"} /\ bridge.reading \in BOOLEAN
      /\ <<>> \in Seq(Reports)
  BY BaseHas, BridgeFields
<1>1. CASE Connect \/ DropPort \/ ClosePort
  <2>1. /\ UNCHANGED <<motion, teleop, wire, robot, seen, view>> /\ up' \in {up, <<>>}
        /\ link \in {"idle", "dropping", "closing"} /\ link' \in {"dropping", "opening", "idle"}
        /\ link' = "opening" => bridge' = [bridge EXCEPT !.open = "no"]
        /\ \/ bridge' = [bridge EXCEPT !.reading = FALSE]
           \/ bridge' = [bridge EXCEPT !.open = "no"]
    BY <1>1 DEF Connect, DropPort, ClosePort
  <2>2. /\ bridge' \in Bridges /\ bridge'.queue = bridge.queue /\ bridge'.wr = bridge.wr
        /\ bridge' = [bridge EXCEPT !.open = "no"] => bridge'.open = "no"
    <3>1. CASE bridge' = [bridge EXCEPT !.reading = FALSE]
      BY <3>1, <1>0 DEF Bridges
    <3>2. CASE bridge' = [bridge EXCEPT !.open = "no"]
      BY <3>2, <1>0 DEF Bridges
    <3> QED  BY <3>1, <3>2, <2>1
  <2>3. bridge.wr["link"].at = "none"
    BY <2>1, <1>0 DEF ClientsOK
  <2>4. link' \in Links /\ view' \in Views /\ up' \in Seq(Reports)
    BY <2>1, <1>0 DEF Links
  <2> QED  BY <2>1, <2>2, <2>3, <2>4, <1>0, LinkMoves
<1>2. CASE Opened
  <2>1. link' \in Links /\ view' \in Views /\ up' \in Seq(Reports)
    BY <1>2, <1>0, OpenedDoes DEF Links
  <2>2. CASE link' = "idle" /\ bridge' = bridge
    <3>1. bridge.wr["link"].at = "none"
      BY <1>0, <1>2, OpenedDoes DEF ClientsOK
    <3> QED  BY <2>1, <2>2, <3>1, <1>0, <1>2, OpenedDoes, LinkMoves
  <2>3. CASE link' = "stopping" /\ bridge'.open = "live"
    <3>1. link' # "idle"
      BY <2>3
    <3> QED  BY <2>1, <2>3, <3>1, <1>2, OpenedDoes, LinkMoves
  <2> QED  BY <2>2, <2>3, <1>2, OpenedDoes
<1>3. CASE ConnectStopped
  <2>1. Resume("link", "none") /\ link' = "idle" /\ UNCHANGED <<motion, teleop, wire, up, robot, seen>>
    BY <1>3 DEF ConnectStopped
  <2>2. Frees(bridge, bridge', "link") /\ view' \in Views
    BY <2>1, ClientFrees
  <2> QED  BY <2>1, <2>2, <1>0, LinkMoves DEF Links, Frees, Others
<1>4. CASE StopReader
  <2>1. view' \in Views
    BY <1>0, <1>4, StopReaderDoes, AckedTyped, ClientNames
  <2> QED  BY <2>1, <1>0, <1>4, StopReaderDoes, LinkMoves DEF Links, Frees, Others
<1>5. CASE Disconnect
  <2>1. /\ link = "idle" /\ link' = "leaving" /\ Enqueue("link", "motors off")
        /\ UNCHANGED <<motion, view, teleop, wire, up, robot, seen>>
    BY <1>5 DEF Disconnect
  <2>2. bridge.wr["link"].at = "none"
    BY <2>1, <1>0 DEF ClientsOK
  <2>3. Asks(bridge, bridge', "link", "motors off")
    BY <2>1, <2>2, ClientAsks, ClientNames
  <2> QED  BY <2>1, <2>3, <1>0, LinkMoves DEF Links, Asks, Others
<1> QED  BY <1>1, <1>2, <1>3, <1>4, <1>5 DEF LinkStep

-----------------------------------------------------------------------------
(* Requests for a motion, the reader, the robot and the cable *)

LEMMA AskBase ==
    ASSUME Base, NEW m \in Movers, motion.run[m].pc = "idle", NEW i \in Intents,
           motion' = [motion EXCEPT !.run[m] = [Idle EXCEPT !.pc = "asked", !.intent = i]],
           UNCHANGED <<bridge, view, teleop, link, wire, up, robot, seen>>
    PROVE  Base'
<1> DEFINE r == Asking(Idle, i)
<1>0. /\ motion \in Motions /\ bridge' \in Bridges /\ view' \in Views /\ robot' \in Robots
      /\ teleop' \in Talks /\ link' \in Links /\ wire' \in Seq(Commands) /\ Len(wire') <= WireMax
      /\ up' \in Seq(Reports) /\ seen' \in [drove : [Movers -> BOOLEAN]]
      /\ LockOK(motion.run, motion.owner) /\ QueueOK(bridge'.queue, bridge'.wr)
      /\ MoversOK(motion.run, bridge'.wr, seen'.drove) /\ ClientsOK(teleop'.pc, link', bridge')
      /\ motion.owner \in Movers \cup {"none"}
  BY BaseHas, MotionFields
<1>1. r \in Runs /\ r.pc = "asked" /\ r.why = "none"
  BY IdleIs, RunIsAsked
<1>2. motion' = Put(motion, motion.owner, m, r)
  BY <1>0 DEF Put, Motions, Asking
<1> HIDE DEF r
<1>3. Goes(motion, motion', m, motion.owner, "asked", "none")
  <2>1. Goes(motion, Put(motion, motion.owner, m, r), m, motion.owner, r.pc, r.why)
    BY <1>0, <1>1, PutGoes
  <2> QED  BY <2>1, <1>1, <1>2
<1>4. LockOK(motion'.run, motion'.owner)
  BY <1>0, <1>3 DEF LockOK, Goes
<1>5. MoversOK(motion'.run, bridge'.wr, seen'.drove)
  <2> SUFFICES ASSUME NEW o \in Movers PROVE MoverOK(motion'.run[o], bridge'.wr[o], seen'.drove[o])
    BY DEF MoversOK
  <2>1. MoverOK(motion.run[o], bridge'.wr[o], seen'.drove[o])
    BY <1>0 DEF MoversOK
  <2>2. CASE o = m
    BY <2>1, <2>2, <1>3 DEF MoverOK, Goes, Writing
  <2>3. CASE o # m
    BY <2>1, <2>3, <1>3 DEF Goes
  <2> QED  BY <2>2, <2>3
<1>6. motion' \in Motions
  BY <1>3 DEF Goes
<1> QED  BY <1>0, <1>4, <1>5, <1>6, BaseNext

\* The controller's switches: auto mode, a cooldown that is over, a sequence that wakes.
LEMMA SwitchBase ==
    ASSUME Base, motion' \in Motions, motion'.owner = motion.owner,
           \A m \in Movers : /\ motion'.run[m].pc = motion.run[m].pc
                             /\ motion'.run[m].why = motion.run[m].why,
           UNCHANGED <<bridge, view, teleop, link, wire, up, robot, seen>>
    PROVE  Base'
<1>1. /\ bridge' \in Bridges /\ QueueOK(bridge'.queue, bridge'.wr) /\ view' \in Views
      /\ robot' \in Robots /\ teleop' \in Talks /\ link' \in Links /\ wire' \in Seq(Commands)
      /\ Len(wire') <= WireMax /\ up' \in Seq(Reports) /\ ClientsOK(teleop'.pc, link', bridge')
  BY BaseHas
<1> QED  BY <1>1, RestStep

LEMMA WakeBase ==
    ASSUME Base, NEW m \in Movers, Wake(m)
    PROVE  Base'
<1>0. motion \in Motions /\ motion.run \in [Movers -> Runs] /\ motion.run[m] \in Runs
  BY BaseHas, MotionFields
<1>1. /\ motion' = [motion EXCEPT !.run[m].asleep = FALSE]
      /\ UNCHANGED <<bridge, view, teleop, link, wire, up, robot, seen>>
  BY DEF Wake
<1> DEFINE r == [motion.run[m] EXCEPT !.asleep = FALSE]
           run2 == [motion.run EXCEPT ![m] = r]
<1>2. r \in Runs /\ r.pc = motion.run[m].pc /\ r.why = motion.run[m].why
  BY <1>0 DEF Runs
<1>3. motion' = [motion EXCEPT !.run = run2]
  BY <1>1
<1> HIDE DEF r
<1>4. run2 \in [Movers -> Runs]
  BY <1>0, <1>2
<1>5. \A o \in Movers : run2[o].pc = motion.run[o].pc /\ run2[o].why = motion.run[o].why
  BY <1>0, <1>2
<1> HIDE DEF run2
<1>6. motion' \in Motions /\ motion'.run = run2 /\ motion'.owner = motion.owner
  BY <1>0, <1>3, <1>4 DEF Motions
<1> QED  BY <1>1, <1>5, <1>6, SwitchBase

LEMMA RequestBase ==
    ASSUME Base, ScheduleAfterTurn \/ ExecuteTest \/ Configure \/ CooldownEnds
    PROVE  Base'
<1>0. /\ motion \in Motions /\ motion.cool \subseteq Intents /\ motion.auto \in BOOLEAN
      /\ "auto" \in Movers /\ "test" \in Movers
  BY BaseHas, MotionFields DEF Movers
<1>1. CASE ScheduleAfterTurn
  <2>1. PICK mood \in Moods :
            LET intent == ResolveIntent(mood.state, mood.action) IN
            /\ motion' = IF ShouldExecute(intent, motion.auto) /\ Run("auto").pc = "idle"
                         THEN [motion EXCEPT !.run["auto"] = [Idle EXCEPT !.pc = "asked", !.intent = intent]]
                         ELSE motion
            /\ UNCHANGED <<bridge, view, teleop, link, wire, up, robot, seen>>
    BY <1>1 DEF ScheduleAfterTurn
  <2> DEFINE i == ResolveIntent(mood.state, mood.action)
             go == ShouldExecute(i, motion.auto) /\ Run("auto").pc = "idle"
  <2>2. i \in Intents
    BY ResolvedIn
  <2>3. CASE go
    <3>1. motion.run["auto"].pc = "idle"
      BY <2>3 DEF Run
    <3>2. motion' = [motion EXCEPT !.run["auto"] = [Idle EXCEPT !.pc = "asked", !.intent = i]]
      BY <2>1, <2>3
    <3> HIDE DEF i
    <3> QED  BY <3>1, <3>2, <2>1, <2>2, <1>0, AskBase
  <2>4. CASE ~ go
    <3>1. motion' = motion
      BY <2>1, <2>4
    <3> QED  BY <3>1, <2>1, <1>0, SwitchBase
  <2> QED  BY <2>3, <2>4
<1>2. CASE ExecuteTest
  <2>1. PICK i \in Tests :
            /\ motion' = [motion EXCEPT !.run["test"] = [Idle EXCEPT !.pc = "asked", !.intent = i]]
            /\ Run("test").pc = "idle"
            /\ UNCHANGED <<bridge, view, teleop, link, wire, up, robot, seen>>
    BY <1>2 DEF ExecuteTest
  <2>2. i \in Intents /\ motion.run["test"].pc = "idle"
    BY <2>1, BodyAssumption DEF Run
  <2> QED  BY <2>1, <2>2, <1>0, AskBase
<1>3. CASE Configure
  <2>1. /\ motion' = [motion EXCEPT !.auto = ~ @]
        /\ UNCHANGED <<bridge, view, teleop, link, wire, up, robot, seen>>
    BY <1>3 DEF Configure
  <2>2. motion' \in Motions /\ motion'.owner = motion.owner /\ motion'.run = motion.run
    BY <2>1, <1>0 DEF Motions
  <2> QED  BY <2>1, <2>2, SwitchBase
<1>4. CASE CooldownEnds
  <2>1. PICK i \in motion.cool : motion' = [motion EXCEPT !.cool = @ \ {i}]
    BY <1>4 DEF CooldownEnds
  <2>2. UNCHANGED <<bridge, view, teleop, link, wire, up, robot, seen>>
    BY <1>4 DEF CooldownEnds
  <2>3. motion' \in Motions /\ motion'.owner = motion.owner /\ motion'.run = motion.run
    BY <2>1, <1>0 DEF Motions
  <2> QED  BY <2>2, <2>3, SwitchBase
<1> QED  BY <1>1, <1>2, <1>3, <1>4

LEMMA ReportsTyped ==
    ASSUME robot \in Robots
    PROVE  /\ Sensed \in Reports /\ Status \in Reports
           /\ \A c \in Discrete : [kind |-> "ack", of |-> c] \in Reports
           /\ [kind |-> "status", armed |-> "no", avoid |-> "yes", lineOn |-> "yes",
               obst |-> robot.obst, line |-> robot.line] \in Reports
<1>1. /\ robot.obst \in Sights /\ robot.line \in Lines
      /\ Says(robot.lineOn) \in Tri /\ Says(robot.armed) \in Tri /\ Says(robot.avoid) \in Tri
  BY DEF Robots, Says, Tri
<1>2. Sensed \in Seens
  BY <1>1 DEF Sensed, Seens
<1>3. Status \in Stati
  BY <1>1 DEF Status, Stati
<1>4. \A c \in Discrete : [kind |-> "ack", of |-> c] \in Acks
  BY DEF Acks
<1>5. [kind |-> "status", armed |-> "no", avoid |-> "yes", lineOn |-> "yes",
       obst |-> robot.obst, line |-> robot.line] \in Stati
  BY <1>1 DEF Stati, Tri
<1> QED  BY <1>2, <1>3, <1>4, <1>5 DEF Reports

\* The world moves: the controller, the write queue, teleop and the route are left alone.
LEMMA WorldStep ==
    ASSUME Base, UNCHANGED <<motion, teleop, link, seen>>, bridge' \in Bridges,
           bridge'.queue = bridge.queue, bridge'.wr = bridge.wr,
           bridge.open = "no" => bridge'.open = "no",
           view' \in Views, robot' \in Robots, wire' \in Seq(Commands), Len(wire') <= WireMax,
           up' \in Seq(Reports)
    PROVE  Base'
<1>1. /\ motion' \in Motions /\ QueueOK(bridge'.queue, bridge'.wr) /\ teleop' \in Talks
      /\ link' \in Links /\ ClientsOK(teleop.pc, link, bridge)
  BY BaseHas
<1>2. ClientsOK(teleop'.pc, link', bridge')
  BY <1>1 DEF ClientsOK
<1> QED  BY <1>1, <1>2, RestStep

LEMMA WorldBase ==
    ASSUME Base, \/ Ingest \/ ReadError \/ RobotReads \/ RobotReports \/ PulseEnds \/ ArmTimeout
                 \/ Surroundings \/ Unplug \/ Plug \/ Reboot
    PROVE  Base'
<1>0. /\ bridge \in Bridges /\ view \in Views /\ robot \in Robots /\ wire \in Seq(Commands)
      /\ Len(wire) <= WireMax /\ up \in Seq(Reports) /\ WireMax \in Nat
      /\ <<>> \in Seq(Reports) /\ <<>> \in Seq(Commands) /\ Len(<<>>) = 0
      /\ bridge.open \in {"no", "live", "dead"}
  BY BaseHas, BridgeFields, BodyAssumption
<1>1. CASE Ingest
  <2>1. /\ up # <<>> /\ view' = Merge(view, Head(up)) /\ up' = Tail(up)
        /\ UNCHANGED <<motion, bridge, teleop, link, wire, robot, seen>>
    BY <1>1 DEF Ingest
  <2>2. up' \in Seq(Reports) /\ Head(up) \in Reports
    BY <2>1, <1>0, Tailed
  <2>3. view' \in Views
    BY <2>1, <2>2, <1>0, MergeTyped
  <2> QED  BY <2>1, <2>2, <2>3, <1>0, WorldStep
<1>2. CASE ReadError
  <2>1. /\ bridge' = [bridge EXCEPT !.reading = FALSE]
        /\ UNCHANGED <<motion, view, teleop, link, wire, up, robot, seen>>
    BY <1>2 DEF ReadError
  <2>2. /\ bridge' \in Bridges /\ bridge'.queue = bridge.queue /\ bridge'.wr = bridge.wr
        /\ bridge'.open = bridge.open
    BY <2>1, <1>0 DEF Bridges
  <2> QED  BY <2>1, <2>2, <1>0, WorldStep
<1>3. CASE RobotReads
  <2>1. /\ wire # <<>> /\ wire' = Tail(wire) /\ robot' = Obey(robot, Head(wire))
        /\ \/ up' = up
           \/ Head(wire) \in Discrete /\ up' = Append(up, [kind |-> "ack", of |-> Head(wire)])
        /\ UNCHANGED <<motion, bridge, view, teleop, link, seen>>
    BY <1>3 DEF RobotReads
  <2>2. wire' \in Seq(Commands) /\ Len(wire') <= WireMax
    <3>1. /\ wire' \in Seq(Commands) /\ Len(wire) \in Nat /\ Len(wire') = Len(wire) - 1
      BY <2>1, <1>0, Tailed
    <3> QED  BY <3>1, <1>0
  <2>3. robot' \in Robots
    BY <2>1, <1>0, ObeyTyped
  <2>4. up' \in Seq(Reports)
    <3>1. CASE up' = up
      BY <3>1, <1>0
    <3>2. CASE Head(wire) \in Discrete /\ up' = Append(up, [kind |-> "ack", of |-> Head(wire)])
      <4>1. [kind |-> "ack", of |-> Head(wire)] \in Reports
        BY <3>2, <1>0, ReportsTyped
      <4> QED  BY <4>1, <3>2, <1>0, Appended
    <3> QED  BY <3>1, <3>2, <2>1
  <2> QED  BY <2>1, <2>2, <2>3, <2>4, <1>0, WorldStep
<1>4. CASE RobotReports
  <2>1. PICK r \in {Sensed, Status} : up' = Append(up, r)
    BY <1>4 DEF RobotReports
  <2>2. UNCHANGED <<motion, bridge, view, teleop, link, wire, robot, seen>>
    BY <1>4 DEF RobotReports
  <2>3. r \in Reports
    BY <1>0, ReportsTyped
  <2>4. up' \in Seq(Reports)
    BY <2>1, <2>3, <1>0, Appended
  <2> QED  BY <2>2, <2>4, <1>0, WorldStep
<1>5. CASE PulseEnds \/ ArmTimeout \/ Surroundings
  <2>1. UNCHANGED <<motion, bridge, view, teleop, link, wire, up, seen>>
    BY <1>5 DEF PulseEnds, ArmTimeout, Surroundings
  <2>2. robot' \in Robots
    <3>1. CASE PulseEnds
      BY <3>1, <1>0 DEF PulseEnds, Robots
    <3>2. CASE ArmTimeout
      BY <3>2, <1>0 DEF ArmTimeout, Robots
    <3>3. CASE Surroundings
      BY <3>3, <1>0 DEF Surroundings, Robots
    <3> QED  BY <3>1, <3>2, <3>3, <1>5
  <2> QED  BY <2>1, <2>2, <1>0, WorldStep
<1>6. CASE Unplug
  <2>1. /\ bridge' = [bridge EXCEPT !.plugged = FALSE, !.open = IF @ = "live" THEN "dead" ELSE @]
        /\ wire' = <<>> /\ up' = <<>> /\ UNCHANGED <<motion, view, teleop, link, robot, seen>>
    BY <1>6 DEF Unplug
  <2>2. /\ bridge' \in Bridges /\ bridge'.queue = bridge.queue /\ bridge'.wr = bridge.wr
        /\ bridge.open = "no" => bridge'.open = "no"
    BY <2>1, <1>0 DEF Bridges
  <2> QED  BY <2>1, <2>2, <1>0, WorldStep
<1>7. CASE Plug
  <2>1. /\ bridge' = [bridge EXCEPT !.plugged = TRUE]
        /\ UNCHANGED <<motion, view, teleop, link, wire, up, robot, seen>>
    BY <1>7 DEF Plug
  <2>2. /\ bridge' \in Bridges /\ bridge'.queue = bridge.queue /\ bridge'.wr = bridge.wr
        /\ bridge'.open = bridge.open
    BY <2>1, <1>0 DEF Bridges
  <2> QED  BY <2>1, <2>2, <1>0, WorldStep
<1>8. CASE Reboot
  <2> DEFINE st == [kind |-> "status", armed |-> "no", avoid |-> "yes", lineOn |-> "yes",
                    obst |-> robot.obst, line |-> robot.line]
  <2>1. /\ robot' = [PowerOn EXCEPT !.obst = robot.obst, !.line = robot.line] /\ wire' = <<>>
        /\ up' = <<>> \/ up' = <<st>>
        /\ UNCHANGED <<motion, bridge, view, teleop, link, seen>>
    BY <1>8 DEF Reboot
  <2>2. robot' \in Robots
    BY <2>1, <1>0 DEF PowerOn, Robots
  <2>3. up' \in Seq(Reports)
    <3>1. st \in Reports
      BY <1>0, ReportsTyped
    <3> HIDE DEF st
    <3>2. <<st>> \in Seq(Reports)
      BY <3>1
    <3> QED  BY <3>2, <2>1, <1>0
  <2> QED  BY <2>1, <2>2, <2>3, <1>0, WorldStep
<1> QED  BY <1>1, <1>2, <1>3, <1>4, <1>5, <1>6, <1>7, <1>8

\* Every step keeps Base.
LEMMA BaseStep ==
    ASSUME Base, [Next]_vars
    PROVE  Base'
<1>1. CASE UNCHANGED vars
  BY <1>1, BaseHas, BaseNext DEF vars
<1>2. ASSUME NEW m \in Movers, MotionStep(m) PROVE Base'
  BY <1>2, BeginBase, FailBase, DrivenBase, NextStepBase, AfterStopBase, AfterSearchBase, WakeBase
  DEF MotionStep
<1>3. ASSUME NEW w \in Writers, Write(w) PROVE Base'
  BY <1>3, WriteBase
<1>4. CASE ApiDone \/ TeleopStep \/ LinkStep \/ RobotReads
  BY <1>4, ApiBase, TeleopBase, LinkBase, WorldBase
<1>5. CASE Outside
  BY <1>5, RequestBase, ApiBase, TeleopBase, LinkBase, WorldBase DEF Outside
<1> QED  BY <1>1, <1>2, <1>3, <1>4, <1>5 DEF Next

LEMMA BaseInit == Init => Base
<1> SUFFICES ASSUME Init PROVE Base
  OBVIOUS
<1>1. PICK ready \in BOOLEAN :
         /\ motion = [owner |-> "none", auto |-> ready, cool |-> {}, run |-> [m \in Movers |-> Idle]]
         /\ bridge = [open |-> IF ready THEN "live" ELSE "no", plugged |-> TRUE, reading |-> ready,
                      queue |-> <<>>, wr |-> [w \in Writers |-> NoWrite]]
         /\ view = IF ready THEN [armed |-> "no", avoid |-> "yes", lineOn |-> "yes",
                                 obst |-> "clear", line |-> "track_follow"]
                   ELSE Blind
  BY DEF Init
<1>2. /\ robot = PowerOn /\ teleop = [moving |-> FALSE, pc |-> "closed"] /\ link = "idle"
      /\ wire = <<>> /\ up = <<>> /\ seen = [drove |-> [m \in Movers |-> FALSE]]
  BY DEF Init
<1>3. NoWrite \in Writes /\ NoWrite.at = "none" /\ Idle \in Runs /\ Idle.pc = "idle" /\ Idle.why = "none"
  BY ClientNames, WriteIn, IdleIs DEF NoWrite, Ats
<1>4. /\ motion \in Motions /\ motion.owner = "none"
      /\ \A m \in Movers : motion.run[m].pc = "idle" /\ motion.run[m].why = "none"
  <2>1. [m \in Movers |-> Idle] \in [Movers -> Runs]
    BY <1>3
  <2>2. motion \in Motions /\ motion.owner = "none" /\ motion.run = [m \in Movers |-> Idle]
    BY <1>1, <2>1 DEF Motions
  <2> QED  BY <2>2, <1>3
<1>5. /\ bridge \in Bridges /\ bridge.queue = <<>> /\ \A w \in Writers : bridge.wr[w] = NoWrite
      /\ bridge.open = (IF ready THEN "live" ELSE "no")
  <2>1. [w \in Writers |-> NoWrite] \in [Writers -> Writes] /\ <<>> \in Seq(Writers)
    BY <1>3
  <2>2. /\ bridge \in Bridges /\ bridge.queue = <<>> /\ bridge.wr = [w \in Writers |-> NoWrite]
        /\ bridge.open = (IF ready THEN "live" ELSE "no")
    BY <1>1, <2>1 DEF Bridges
  <2> QED  BY <2>2
<1>6. view \in Views
  BY <1>1 DEF Views, Tri, Blind, Sights, Lines
<1>7. robot \in Robots
  BY <1>2 DEF Robots, PowerOn, Sights, Lines
<1>8. teleop \in Talks /\ teleop.pc = "closed"
  BY <1>2, TalkStill DEF TalkPcs
<1>9. seen \in [drove : [Movers -> BOOLEAN]]
  BY <1>2
<1>10. wire \in Seq(Commands) /\ Len(wire) <= WireMax /\ up \in Seq(Reports) /\ link \in Links
  BY <1>2, BodyAssumption DEF Links
<1>11. Types
  BY <1>4, <1>5, <1>6, <1>7, <1>8, <1>9, <1>10 DEF Types
<1>12. LockOK(motion.run, motion.owner)
  BY <1>4 DEF LockOK, Movers
<1>13. QueueOK(bridge.queue, bridge.wr)
  BY <1>3, <1>5 DEF QueueOK
<1>14. MoversOK(motion.run, bridge.wr, seen.drove)
  BY <1>3, <1>4, <1>5, MoverWrites DEF MoversOK, MoverOK, Writing
<1>15. ClientsOK(teleop.pc, link, bridge)
  BY <1>2, <1>3, <1>5, <1>8, ClientNames DEF ClientsOK
<1> QED  BY <1>11, <1>12, <1>13, <1>14, <1>15 DEF Base

\* At every moment the lock, the queue and the places of the coroutines agree.
THEOREM BaseHolds == Spec => []Base
<1>1. Base /\ [Next]_vars => Base'
  BY BaseStep
<1> QED  BY BaseInit, <1>1, PTL DEF Spec

-----------------------------------------------------------------------------
(* The theorems *)

\* A queue without repetitions has as many members as places.
LEMMA QueueCounts ==
    ASSUME NEW q \in Seq(Writers), \A i, j \in DOMAIN q : q[i] = q[j] => i = j
    PROVE  Cardinality({q[i] : i \in DOMAIN q}) = Len(q)
<1> DEFINE n == Len(q)
           T == {q[i] : i \in DOMAIN q}
           f == [i \in 1 .. n |-> q[i]]
<1>1. n \in Nat /\ DOMAIN q = 1 .. n
  OBVIOUS
<1>2. f \in Bijection(1 .. n, T)
  BY <1>1 DEF Bijection, Injection, Surjection, IsInjective
<1>3. ExistsBijection(1 .. n, T)
  BY <1>2 DEF ExistsBijection
<1> HIDE DEF n, T, f
<1>4. IsFiniteSet(1 .. n) /\ Cardinality(1 .. n) = n
  BY <1>1, FS_Interval
<1>5. Cardinality(T) = n
  BY <1>3, <1>4, FS_Bijection
<1> QED  BY <1>5 DEF n, T

\* The fields hold what the code stores, and a coroutine is in the write lock's queue,
\* once, exactly while it has a write under way.
THEOREM BodyTypeCorrect == Spec => []BodyTypeOK
<1>1. Base => BodyTypeOK
  <2> SUFFICES ASSUME Base PROVE BodyTypeOK
    OBVIOUS
  <2>1. /\ motion.owner \in Movers \cup {"none"} /\ motion.cool \subseteq Intents
        /\ \A m \in Movers : Run(m).intent \in Intents /\ Run(m).step \in 0 .. 3
        /\ Len(wire) <= WireMax
    BY BaseHas, MotionFields DEF Run
  <2>2. bridge.queue \in Seq(Writers) /\ QueueOK(bridge.queue, bridge.wr)
    BY BaseHas, BridgeFields
  <2>3. \A w \in Writers : (bridge.wr[w].at # "none") = (\E i \in DOMAIN bridge.queue : bridge.queue[i] = w)
    BY <2>2 DEF QueueOK
  <2>4. Cardinality({bridge.queue[i] : i \in DOMAIN bridge.queue}) = Len(bridge.queue)
    BY <2>2, QueueCounts DEF QueueOK
  <2> QED  BY <2>1, <2>3, <2>4 DEF BodyTypeOK
<1> QED  BY BaseHolds, <1>1, PTL

\* A motion that is over and did not end in an error has no pulse left without a stop.
THEOREM SequencesStop == Spec => []StoppedAfterSequence
<1>1. Base => StoppedAfterSequence
  BY MoverKnows DEF StoppedAfterSequence, MoverOK, Run
<1> QED  BY BaseHolds, <1>1, PTL

\* A step of one mover leaves the other's record as it is.
LEMMA OtherStays ==
    ASSUME Base, NEW o \in Movers, NEW m \in Movers \ {o}, MotionStep(o)
    PROVE  motion'.run[m] = motion.run[m]
<1>0. motion \in Motions /\ motion.run \in [Movers -> Runs]
  BY BaseHas, MotionFields
<1>1. ASSUME NEW why \in Whys, motion' = End(o, why) PROVE motion'.run[m] = motion.run[m]
  BY <1>0, <1>1, EndGoes DEF Goes
<1>2. ASSUME motion' = Finish(o) PROVE motion'.run[m] = motion.run[m]
  BY <1>0, <1>2, FinishGoes DEF Goes
<1>3. \A pc : [motion EXCEPT !.run[o].pc = pc].run[m] = motion.run[m]
  BY <1>0 DEF Motions
<1>4. "blocked" \in Whys /\ "error" \in Whys
  BY DEF Whys
<1>5. CASE Begin(o)
  <2>1. \/ motion' = End(o, "blocked") \/ motion' = Finish(o)
        \/ motion' = [motion EXCEPT !.owner = o, !.run[o].pc = "command"]
        \/ motion' = [motion EXCEPT !.owner = o, !.run[o].pc = "drive", !.run[o].step = 1]
    BY <1>5 DEF Begin
  <2>2. CASE motion' = [motion EXCEPT !.owner = o, !.run[o].pc = "command"]
    BY <2>2, <1>0 DEF Motions
  <2>3. CASE motion' = [motion EXCEPT !.owner = o, !.run[o].pc = "drive", !.run[o].step = 1]
    BY <2>3, <1>0 DEF Motions
  <2> QED  BY <2>1, <2>2, <2>3, <1>1, <1>2, <1>4
<1>6. CASE Fail(o)
  BY <1>6, <1>1, <1>4 DEF Fail
<1>7. CASE Driven(o)
  <2>1. CASE motion' = Finish(o)
    BY <2>1, <1>2
  <2>2. CASE motion' = [motion EXCEPT !.run[o].pc = "sleep", !.run[o].asleep = TRUE]
    BY <2>2, <1>0 DEF Motions
  <2> QED  BY <2>1, <2>2, <1>7 DEF Driven
<1>8. CASE NextStep(o)
  <2>1. \/ motion' = End(o, "error")
        \/ motion' = [motion EXCEPT !.run[o].pc = "drive", !.run[o].step = @ + 1]
        \/ \E pc : motion' = [motion EXCEPT !.run[o].pc = pc]
    BY <1>8 DEF NextStep, Stop
  <2>2. CASE motion' = [motion EXCEPT !.run[o].pc = "drive", !.run[o].step = @ + 1]
    BY <2>2, <1>0 DEF Motions
  <2> QED  BY <2>1, <2>2, <1>1, <1>3, <1>4
<1>9. CASE AfterStop(o)
  BY <1>9, <1>1, <1>2, <1>3, <1>4 DEF AfterStop
<1>10. CASE AfterSearch(o)
  BY <1>10, <1>2 DEF AfterSearch
<1>11. CASE Wake(o)
  <2>1. motion' = [motion EXCEPT !.run[o].asleep = FALSE]
    BY <1>11 DEF Wake
  <2> QED  BY <2>1, <1>0 DEF Motions
<1> QED  BY <1>5, <1>6, <1>7, <1>8, <1>9, <1>10, <1>11 DEF MotionStep

\* Only Begin takes a mover from its request to its first write.
LEMMA OnlyBegin ==
    ASSUME Base, Next, NEW m \in Movers, motion.run[m].pc = "asked",
           motion'.run[m].pc \in {"drive", "command"}
    PROVE  Begin(m)
<1>0. motion \in Motions /\ motion.run \in [Movers -> Runs]
  BY BaseHas, MotionFields
<1>1. ASSUME motion'.run[m].pc = "asked" \/ motion'.run[m] = motion.run[m] PROVE FALSE
  BY <1>1
<1>2. ASSUME motion' = motion \/ motion'.run = motion.run PROVE FALSE
  BY <1>1, <1>2
<1>3. CASE \E o \in Movers : MotionStep(o)
  <2>1. PICK o \in Movers : MotionStep(o)
    BY <1>3
  <2>2. o = m
    BY <2>1, <1>1, OtherStays
  <2>3. Begin(m) \/ Wake(m)
    BY <2>1, <2>2 DEF MotionStep, Fail, Driven, NextStep, AfterStop, AfterSearch, Run
  <2>4. ~ Wake(m)
    <3> SUFFICES ASSUME Wake(m) PROVE FALSE
      OBVIOUS
    <3>1. motion' = [motion EXCEPT !.run[m].asleep = FALSE]
      BY DEF Wake
    <3>2. motion'.run[m].pc = motion.run[m].pc
      BY <3>1, <1>0 DEF Motions, Runs
    <3> QED  BY <3>2
  <2> QED  BY <2>3, <2>4
<1>4. CASE \E w \in Writers : Write(w)
  BY <1>4, <1>2 DEF Write
<1>5. CASE ApiDone \/ TeleopStep \/ LinkStep \/ RobotReads
  BY <1>5, <1>2 DEF ApiDone, TeleopStep, TeleopDone, TeleopClose, TeleopEnd, LinkStep, DropPort,
     Opened, ConnectStopped, StopReader, ClosePort, RobotReads
<1>6. CASE ScheduleAfterTurn
  <2>1. \/ motion' = motion
        \/ \E i \in Intents :
              motion' = [motion EXCEPT !.run["auto"] = [Idle EXCEPT !.pc = "asked", !.intent = i]]
    BY <1>6, ResolvedIn DEF ScheduleAfterTurn
  <2>2. ASSUME NEW i \in Intents,
               motion' = [motion EXCEPT !.run["auto"] = [Idle EXCEPT !.pc = "asked", !.intent = i]]
        PROVE  FALSE
    <3>1. [Idle EXCEPT !.pc = "asked", !.intent = i].pc = "asked"
      BY IdleIs DEF Runs
    <3> QED  BY <2>2, <3>1, <1>0, <1>1 DEF Motions
  <2> QED  BY <2>1, <2>2, <1>2
<1>7. CASE ExecuteTest
  <2>1. PICK i \in Tests : motion' = [motion EXCEPT !.run["test"] = [Idle EXCEPT !.pc = "asked", !.intent = i]]
    BY <1>7 DEF ExecuteTest
  <2>2. [Idle EXCEPT !.pc = "asked", !.intent = i].pc = "asked"
    BY IdleIs DEF Runs
  <2> QED  BY <2>1, <2>2, <1>0, <1>1 DEF Motions
<1>8. CASE Configure \/ CooldownEnds
  <2>1. motion'.run = motion.run
    BY <1>8, <1>0 DEF Configure, CooldownEnds, Motions
  <2> QED  BY <2>1, <1>2
<1>9. CASE \/ ApiCommand \/ Connect \/ Disconnect \/ TeleopOpen \/ TeleopIntent \/ TeleopKill
           \/ TeleopTimeout \/ TeleopLeave
  BY <1>9, <1>2 DEF ApiCommand, Connect, Disconnect, TeleopOpen, TeleopIntent, TeleopKill,
     TeleopTimeout, TeleopLeave, TeleopSay
<1>10. CASE \/ Ingest \/ ReadError \/ RobotReports \/ PulseEnds \/ ArmTimeout
            \/ Surroundings \/ Unplug \/ Plug \/ Reboot
  BY <1>10, <1>2 DEF Ingest, ReadError, RobotReports, PulseEnds, ArmTimeout, Surroundings, Unplug,
     Plug, Reboot
<1> QED  BY <1>3, <1>4, <1>5, <1>6, <1>7, <1>8, <1>9, <1>10 DEF Next, Outside

\* A motion starts only when no other is between its first pulse and its record, and never
\* on an intent that is still cooling.
THEOREM MotionsTakeTurns == Spec => OneMotionAtATime
<1>1. ASSUME Base, Next, NEW m \in Movers, Run(m).pc = "asked",
             motion'.run[m].pc \in {"drive", "command"}
      PROVE  /\ Run(m).intent \notin motion.cool
             /\ \A o \in Movers \ {m} : Run(o).pc \in {"idle", "asked"}
  <2>1. Begin(m) /\ motion \in Motions
    BY <1>1, OnlyBegin, BaseHas DEF Run
  <2>2. motion.owner = "none"
    BY <2>1 DEF Begin, LockFree
  <2>3. Preflight(m) = "none"
    <3> SUFFICES ASSUME Preflight(m) # "none" PROVE FALSE
      OBVIOUS
    <3>1. motion' = End(m, "blocked")
      BY <2>1 DEF Begin
    <3>2. motion'.run[m].pc = "idle"
      BY <3>1, <2>1, EndGoes DEF Goes, Whys
    <3> QED  BY <3>2, <1>1
  <2>4. Run(m).intent \notin motion.cool
    BY <2>3 DEF Preflight
  <2>5. \A o \in Movers : Run(o).pc \in {"idle", "asked"}
    BY <2>2, <1>1, MoverKnows DEF Run, Movers
  <2> QED  BY <2>4, <2>5
<1>2. Base /\ [Next]_vars
        => [\A m \in Movers :
              (Run(m).pc = "asked" /\ motion'.run[m].pc \in {"drive", "command"})
                 => /\ Run(m).intent \notin motion.cool
                    /\ \A o \in Movers \ {m} : Run(o).pc \in {"idle", "asked"}]_vars
  BY <1>1
<1> QED  BY BaseHolds, <1>2, PTL DEF Spec, OneMotionAtATime

-----------------------------------------------------------------------------
(* What the store believes of the arming *)

Offs   == {"motors off", "disarm"}
Arming == Offs \cup {"arm"}
Tells(r)     == r.kind = "status" \/ (r.kind = "ack" /\ r.of \in Arming)
SaysArmed(r) == (r.kind = "status" /\ r.armed = "yes") \/ (r.kind = "ack" /\ r.of = "arm")

\* Of the reports not ingested yet the last that tells says armed; or none of them tells.
LastSays(u)  == \E k \in DOMAIN u : SaysArmed(u[k]) /\ \A j \in DOMAIN u : j > k => ~ Tells(u[j])
NoneTells(u) == \A j \in DOMAIN u : ~ Tells(u[j])

\* No line under way changes the arming; after the lines under way the robot is disarmed.
Silent(s) == \A j \in DOMAIN s : s[j] \notin Arming
OffLast(s, armed) ==
    \/ \E k \in DOMAIN s : s[k] \in Offs /\ \A j \in DOMAIN s : j > k => s[j] # "arm"
    \/ (\A j \in DOMAIN s : s[j] # "arm") /\ ~ armed

\* The port works, and the stop that takes it over has been written.
Informed(b, at) == b.open = "live" /\ ~ (at = "stopping" /\ b.wr["link"].at = "queued")

\* Of an armed robot the store hears "armed" last, or it already believes as much.
Believed(b, at, v, s, u, armed) ==
    (Informed(b, at) /\ armed /\ Silent(s)) => LastSays(u) \/ (NoneTells(u) /\ v.armed # "no")
\* A stop written and not taken for done yet leaves a robot that ends up disarmed.
Stopping(b, at, s, armed) ==
    Informed(b, at) => \A w \in Writers :
        (b.wr[w].at = "written" /\ b.wr[w].cmd \in Offs) => OffLast(s, armed)
Arms == Believed(bridge, link, view, wire, up, robot.armed) /\ Stopping(bridge, link, wire, robot.armed)

LEMMA ArmsNext ==
    ASSUME Believed(bridge', link', view', wire', up', robot'.armed),
           Stopping(bridge', link', wire', robot'.armed)
    PROVE  Arms'
<1>1. Believed(bridge, link, view, wire, up, robot.armed)'
  BY DEF Believed, Informed, Silent, LastSays, NoneTells, Tells, SaysArmed
<1>2. Stopping(bridge, link, wire, robot.armed)'
  BY DEF Stopping, Informed, OffLast
<1> QED  BY <1>1, <1>2 DEF Arms

\* What a line written, obeyed or read off the wire does to what is under way.
LEMMA LineAppended ==
    ASSUME NEW s \in Seq(Commands), NEW e \in Commands
    PROVE  /\ e \in Offs => \A a : OffLast(Append(s, e), a)
           /\ Silent(Append(s, e)) => Silent(s) /\ e \notin Arming
<1> DEFINE t == Append(s, e)
           n == Len(s)
<1>1. /\ n \in Nat /\ DOMAIN s = 1 .. n /\ DOMAIN t = 1 .. n + 1 /\ t[n + 1] = e
      /\ \A i \in 1 .. n : t[i] = s[i]
  BY Appended
<1> HIDE DEF t, n
<1>2. ASSUME e \in Offs, NEW a PROVE OffLast(t, a)
  BY <1>1, <1>2 DEF OffLast
<1>3. ASSUME Silent(t) PROVE Silent(s) /\ e \notin Arming
  BY <1>1, <1>3 DEF Silent
<1> QED  BY <1>2, <1>3 DEF t

LEMMA ObeyArms ==
    ASSUME NEW r \in Robots, NEW cmd
    PROVE  Obey(r, cmd).armed = IF cmd = "arm" THEN TRUE ELSE IF cmd \in Offs THEN FALSE ELSE r.armed
  BY DEF Robots, Obey, Offs

LEMMA LineRead ==
    ASSUME NEW s \in Seq(Commands), s # <<>>, NEW a \in BOOLEAN, NEW b \in BOOLEAN,
           b = IF Head(s) = "arm" THEN TRUE ELSE IF Head(s) \in Offs THEN FALSE ELSE a
    PROVE  /\ OffLast(s, a) => OffLast(Tail(s), b)
           /\ Silent(Tail(s)) /\ Head(s) \notin Arming => Silent(s)
<1> DEFINE t == Tail(s)
           n == Len(s)
<1>1. /\ n \in Nat \ {0} /\ DOMAIN s = 1 .. n /\ DOMAIN t = 1 .. n - 1 /\ Head(s) = s[1]
      /\ \A i \in 1 .. n - 1 : t[i] = s[i + 1]
  BY Tailed
<1> HIDE DEF t, n
<1>2. \A i \in 2 .. n : i - 1 \in 1 .. n - 1 /\ t[i - 1] = s[i]
  BY <1>1
<1>3. ASSUME OffLast(s, a) PROVE OffLast(t, b)
  <2>1. CASE \E k \in DOMAIN s : s[k] \in Offs /\ \A j \in DOMAIN s : j > k => s[j] # "arm"
    <3>1. PICK k \in 1 .. n : s[k] \in Offs /\ \A j \in 1 .. n : j > k => s[j] # "arm"
      BY <2>1, <1>1
    <3>2. CASE k = 1
      <4>1. b = FALSE
        BY <3>1, <3>2, <1>1 DEF Offs
      <4>2. \A j \in 1 .. n - 1 : t[j] # "arm"
        BY <3>1, <3>2, <1>1
      <4> QED  BY <4>1, <4>2, <1>1 DEF OffLast
    <3>3. CASE k # 1
      <4>1. k - 1 \in 1 .. n - 1 /\ t[k - 1] \in Offs
        BY <3>1, <3>3, <1>1, <1>2
      <4>2. \A j \in 1 .. n - 1 : j > k - 1 => t[j] # "arm"
        BY <3>1, <1>1
      <4> QED  BY <4>1, <4>2, <1>1 DEF OffLast
    <3> QED  BY <3>2, <3>3
  <2>2. CASE (\A j \in DOMAIN s : s[j] # "arm") /\ ~ a
    <3>1. ~ b
      BY <2>2, <1>1
    <3>2. \A j \in 1 .. n - 1 : t[j] # "arm"
      BY <2>2, <1>1
    <3> QED  BY <3>1, <3>2, <1>1 DEF OffLast
  <2> QED  BY <2>1, <2>2, <1>3 DEF OffLast
<1>4. ASSUME Silent(t), Head(s) \notin Arming PROVE Silent(s)
  <2>1. ASSUME NEW j \in 1 .. n PROVE s[j] \notin Arming
    <3>1. CASE j = 1
      BY <3>1, <1>1, <1>4
    <3>2. CASE j # 1
      <4>1. j - 1 \in 1 .. n - 1 /\ t[j - 1] = s[j]
        BY <3>2, <1>2
      <4> QED  BY <4>1, <1>1, <1>4 DEF Silent
    <3> QED  BY <3>1, <3>2
  <2> QED  BY <2>1, <1>1 DEF Silent
<1> QED  BY <1>3, <1>4 DEF t

\* The same for what the robot prints and the reader ingests.
LEMMA ReportAppended ==
    ASSUME NEW u \in Seq(Reports), NEW r \in Reports
    PROVE  /\ SaysArmed(r) => LastSays(Append(u, r))
           /\ LastSays(u) /\ ~ Tells(r) => LastSays(Append(u, r))
           /\ NoneTells(u) /\ ~ Tells(r) => NoneTells(Append(u, r))
<1> DEFINE t == Append(u, r)
           n == Len(u)
<1>1. /\ n \in Nat /\ DOMAIN u = 1 .. n /\ DOMAIN t = 1 .. n + 1 /\ t[n + 1] = r
      /\ \A i \in 1 .. n : t[i] = u[i]
  BY Appended
<1> HIDE DEF t, n
<1>2. ASSUME SaysArmed(r) PROVE LastSays(t)
  BY <1>1, <1>2 DEF LastSays
<1>3. ASSUME LastSays(u), ~ Tells(r) PROVE LastSays(t)
  <2>1. PICK k \in 1 .. n : SaysArmed(u[k]) /\ \A j \in 1 .. n : j > k => ~ Tells(u[j])
    BY <1>1, <1>3 DEF LastSays
  <2>2. k \in 1 .. n + 1 /\ SaysArmed(t[k])
    BY <2>1, <1>1
  <2>3. \A j \in 1 .. n + 1 : j > k => ~ Tells(t[j])
    BY <2>1, <1>1, <1>3
  <2> QED  BY <2>2, <2>3, <1>1 DEF LastSays
<1>4. ASSUME NoneTells(u), ~ Tells(r) PROVE NoneTells(t)
  BY <1>1, <1>4 DEF NoneTells
<1> QED  BY <1>2, <1>3, <1>4 DEF t

LEMMA ReportTaken ==
    ASSUME NEW u \in Seq(Reports), u # <<>>
    PROVE  /\ LastSays(u) => LastSays(Tail(u)) \/ (NoneTells(Tail(u)) /\ SaysArmed(Head(u)))
           /\ NoneTells(u) => NoneTells(Tail(u)) /\ ~ Tells(Head(u))
<1> DEFINE t == Tail(u)
           n == Len(u)
<1>1. /\ n \in Nat \ {0} /\ DOMAIN u = 1 .. n /\ DOMAIN t = 1 .. n - 1 /\ Head(u) = u[1]
      /\ \A i \in 1 .. n - 1 : t[i] = u[i + 1]
  BY Tailed
<1> HIDE DEF t, n
<1>2. ASSUME LastSays(u) PROVE LastSays(t) \/ (NoneTells(t) /\ SaysArmed(u[1]))
  <2>1. PICK k \in 1 .. n : SaysArmed(u[k]) /\ \A j \in 1 .. n : j > k => ~ Tells(u[j])
    BY <1>1, <1>2 DEF LastSays
  <2>2. CASE k = 1
    <3>1. \A j \in 1 .. n - 1 : ~ Tells(t[j])
      BY <2>1, <2>2, <1>1
    <3> QED  BY <2>1, <2>2, <3>1, <1>1 DEF NoneTells
  <2>3. CASE k # 1
    <3>1. k - 1 \in 1 .. n - 1 /\ SaysArmed(t[k - 1])
      BY <2>1, <2>3, <1>1
    <3>2. \A j \in 1 .. n - 1 : j > k - 1 => ~ Tells(t[j])
      BY <2>1, <1>1
    <3> QED  BY <3>1, <3>2, <1>1 DEF LastSays
  <2> QED  BY <2>2, <2>3
<1>3. ASSUME NoneTells(u) PROVE NoneTells(t) /\ ~ Tells(u[1])
  BY <1>1, <1>3 DEF NoneTells
<1> QED  BY <1>1, <1>2, <1>3 DEF t

LEMMA MergeArms ==
    ASSUME NEW v \in Views, NEW r \in Reports
    PROVE  /\ SaysArmed(r) => Merge(v, r).armed = "yes"
           /\ ~ Tells(r) => Merge(v, r).armed = v.armed
<1>1. \A u \in Reports : MergeLine(v, u).armed = v.armed
  BY DEF Views, MergeLine
<1>2. CASE r.kind = "ack"
  <2>1. Merge(v, r) = AckEffect(v, r.of)
    BY <1>2 DEF Merge
  <2>2. /\ r.of = "arm" => AckEffect(v, r.of).armed = "yes"
        /\ r.of \notin Arming => AckEffect(v, r.of).armed = v.armed
    BY DEF Views, AckEffect, Arming, Offs
  <2> QED  BY <2>1, <2>2, <1>2 DEF SaysArmed, Tells
<1>3. CASE r.kind = "sensed"
  BY <1>1, <1>3 DEF Merge, SaysArmed, Tells
<1>4. CASE r.kind = "status"
  <2>1. Merge(v, r) = [MergeLine(v, r) EXCEPT !.armed = r.armed, !.avoid = r.avoid]
    BY <1>4 DEF Merge
  <2>2. Merge(v, r).armed = r.armed
    BY <2>1 DEF Views, MergeLine
  <2> QED  BY <2>2, <1>4 DEF SaysArmed, Tells
<1> QED  BY <1>2, <1>3, <1>4 DEF Reports, Acks, Seens, Stati

\* A coroutine gave the lock back or asked for it: it has nothing written any more.
Touches(b, c, w) ==
    /\ c.open = b.open /\ c.wr[w].at \in {"none", "queued"}
    /\ \A v \in Writers \ {w} : c.wr[v] = b.wr[v]

Queued(b, w, q, x) == [b EXCEPT !.queue = q, !.wr[w] = x]

LEMMA PutTouches ==
    ASSUME NEW b \in Bridges, NEW w \in Writers, NEW q, NEW x, x.at \in {"none", "queued"}
    PROVE  Touches(b, Queued(b, w, q, x), w)
<1>1. b.wr \in [Writers -> Writes]
  BY BridgeFields
<1>2. Queued(b, w, q, x).wr = [b.wr EXCEPT ![w] = x]
  BY DEF Bridges, Queued
<1>3. Queued(b, w, q, x).open = b.open
  BY DEF Bridges, Queued
<1> QED  BY <1>1, <1>2, <1>3 DEF Touches

LEMMA EnqueueTouches ==
    ASSUME bridge \in Bridges, NEW w \in Writers, NEW cmd, Enqueue(w, cmd)
    PROVE  Touches(bridge, bridge', w)
<1> DEFINE x == [cmd |-> cmd, at |-> "queued"]
<1>1. bridge' = Queued(bridge, w, Append(bridge.queue, w), x) /\ x.at = "queued"
  BY DEF Enqueue, Queued
<1> HIDE DEF x
<1> QED  BY <1>1, PutTouches

LEMMA ResumeTouches ==
    ASSUME bridge \in Bridges, NEW w \in Writers, NEW next, Resume(w, next)
    PROVE  Touches(bridge, bridge', w)
<1> DEFINE x == IF next = "none" THEN NoWrite ELSE [cmd |-> next, at |-> "queued"]
           q == IF next = "none" THEN Tail(bridge.queue) ELSE Append(Tail(bridge.queue), w)
<1>0. bridge.wr \in [Writers -> Writes]
  BY BridgeFields
<1>1. x.at \in {"none", "queued"}
  BY DEF NoWrite
<1>2. CASE next = "none"
  <2>1. bridge' = Queued(bridge, w, q, x)
    BY <1>2 DEF Resume, Release, Queued
  <2> HIDE DEF x, q
  <2> QED  BY <2>1, <1>1, PutTouches
<1>3. CASE next # "none"
  <2> DEFINE free == [bridge EXCEPT !.queue = Tail(@), !.wr[w] = NoWrite]
  <2>1. bridge' = [free EXCEPT !.queue = Append(@, w), !.wr[w] = [cmd |-> next, at |-> "queued"]]
    BY <1>3 DEF Resume, Release
  <2>2. /\ free.queue = Tail(bridge.queue) /\ free.wr = [bridge.wr EXCEPT ![w] = NoWrite]
        /\ free.open = bridge.open
    BY DEF Bridges
  <2>3. bridge' = [free EXCEPT !.queue = q, !.wr[w] = x]
    BY <2>1, <2>2, <1>3
  <2>4. bridge'.open = bridge.open /\ bridge'.wr = [free.wr EXCEPT ![w] = x]
    BY <2>3 DEF Bridges
  <2> HIDE DEF free, x, q
  <2>5. bridge'.wr[w] = x /\ \A v \in Writers \ {w} : bridge'.wr[v] = bridge.wr[v]
    BY <2>2, <2>4, <1>0
  <2> QED  BY <2>4, <2>5, <1>1 DEF Touches
<1> QED  BY <1>2, <1>3

\* Nothing was written and nothing arrived: the store says "disarmed" only where it did,
\* or where a stop that was written is taken for done.
Takes(v, u) ==
    (u.armed = "no" /\ v.armed # "no")
        => \E w \in Writers : bridge.wr[w].at = "written" /\ bridge.wr[w].cmd \in Offs

LEMMA ArmsStay ==
    ASSUME Arms, robot \in Robots, robot' \in Robots,
           Informed(bridge', link') => Informed(bridge, link), robot'.armed => robot.armed,
           wire' = wire, up' = up, Takes(view, view'),
           \A v \in Writers : bridge'.wr[v].at = "written" => bridge'.wr[v] = bridge.wr[v]
    PROVE  Arms'
<1>1. ASSUME Informed(bridge', link'), robot'.armed, Silent(wire')
      PROVE  LastSays(up') \/ (NoneTells(up') /\ view'.armed # "no")
  <2>1. Informed(bridge, link) /\ robot.armed /\ Silent(wire)
    BY <1>1
  <2>2. LastSays(up) \/ (NoneTells(up) /\ view.armed # "no")
    BY <2>1 DEF Arms, Believed
  <2>3. ~ OffLast(wire, robot.armed)
    BY <2>1 DEF Silent, OffLast, Arming, Offs
  <2>4. ~ (view'.armed = "no" /\ view.armed # "no")
    BY <2>1, <2>3 DEF Takes, Arms, Stopping
  <2> QED  BY <2>2, <2>4
<1>2. ASSUME Informed(bridge', link'), NEW w \in Writers, bridge'.wr[w].at = "written",
             bridge'.wr[w].cmd \in Offs
      PROVE  OffLast(wire', robot'.armed)
  <2>1. OffLast(wire, robot.armed)
    BY <1>2 DEF Arms, Stopping
  <2> QED  BY <2>1 DEF OffLast
<1> QED  BY <1>1, <1>2, ArmsNext DEF Believed, Stopping

LEMMA ArmsUninformed ==
    ASSUME ~ Informed(bridge', link')
    PROVE  Arms'
  BY ArmsNext DEF Believed, Stopping

\* The local ack disarms the view only for a stop or a disarm that was written.
LEMMA AckedTakes ==
    ASSUME Base, NEW w \in Writers, bridge.wr[w].at \in {"written", "raised"}, view' = Acked(w)
    PROVE  Takes(view, view')
<1>1. view \in Views
  BY BaseHas
<1>2. AckEffect(view, bridge.wr[w].cmd).armed = "no"
         => view.armed = "no" \/ bridge.wr[w].cmd \in Offs
  BY <1>1 DEF Views, AckEffect, Offs
<1> QED  BY <1>2 DEF Acked, Raised, Takes

\* A motion, a route or the socket asks for the lock or resumes after its write.
LEMMA TouchArms ==
    ASSUME Base, Arms, NEW w \in Writers, UNCHANGED <<wire, up, robot>>,
           Informed(bridge', link') => Informed(bridge, link),
           \/ bridge' = bridge /\ view' = view
           \/ \E cmd : Enqueue(w, cmd) /\ view' = view
           \/ \E next : Resume(w, next)
    PROVE  Arms'
<1>0. bridge \in Bridges /\ robot \in Robots
  BY BaseHas
<1>1. Takes(view, view')
  <2>1. CASE view' = view
    BY <2>1 DEF Takes
  <2>2. CASE \E next : Resume(w, next)
    BY <2>2, AckedTakes DEF Resume, Settled
  <2> QED  BY <2>1, <2>2
<1>2. bridge' = bridge \/ Touches(bridge, bridge', w)
  BY <1>0, EnqueueTouches, ResumeTouches
<1>3. \A v \in Writers : bridge'.wr[v].at = "written" => bridge'.wr[v] = bridge.wr[v]
  BY <1>2 DEF Touches
<1> QED  BY <1>0, <1>1, <1>3, ArmsStay

\* Only the coroutine that takes a port over is waited for, and it waits from Opened on.
LEMMA StillInformed ==
    ASSUME Base, NEW w \in Writers \ {"link"}, link' = link, Touches(bridge, bridge', w)
    PROVE  Informed(bridge', link') => Informed(bridge, link)
<1>1. "link" \in Writers \ {w}
  BY ClientNames
<1> QED  BY <1>1 DEF Touches, Informed

LEMMA OthersArms ==
    ASSUME Base, Arms, NEW w \in Writers \ {"link"}, UNCHANGED <<link, wire, up, robot>>,
           \/ bridge' = bridge /\ view' = view
           \/ \E cmd : Enqueue(w, cmd) /\ view' = view
           \/ \E next : Resume(w, next)
    PROVE  Arms'
<1>1. bridge \in Bridges
  BY BaseHas
<1>2. bridge' = bridge \/ Touches(bridge, bridge', w)
  BY <1>1, EnqueueTouches, ResumeTouches
<1>3. Informed(bridge', link') => Informed(bridge, link)
  BY <1>2, StillInformed
<1> QED  BY <1>3, TouchArms

LEMMA MotionArms ==
    ASSUME Base, Arms, NEW m \in Movers, MotionStep(m)
    PROVE  Arms'
<1>1. UNCHANGED <<link, wire, up, robot>>
  BY DEF MotionStep, Begin, Fail, Driven, NextStep, AfterStop, AfterSearch, Wake
<1>2. \/ bridge' = bridge /\ view' = view
      \/ \E cmd : Enqueue(m, cmd) /\ view' = view
      \/ \E next : Resume(m, next)
  BY DEF MotionStep, Begin, Fail, Driven, NextStep, Stop, AfterStop, AfterSearch, Wake
<1>3. m \in Writers \ {"link"}
  BY DEF Writers, Movers
<1> QED  BY <1>1, <1>2, <1>3, OthersArms

LEMMA ClientArms ==
    ASSUME Base, Arms, \/ ApiCommand \/ ApiDone \/ TeleopStep \/ TeleopOpen \/ TeleopIntent
                       \/ TeleopKill \/ TeleopTimeout \/ TeleopLeave
    PROVE  Arms'
<1>1. UNCHANGED <<link, wire, up, robot>>
  BY DEF ApiCommand, ApiDone, TeleopStep, TeleopDone, TeleopClose, TeleopEnd, TeleopOpen,
     TeleopIntent, TeleopKill, TeleopTimeout, TeleopLeave, TeleopSay
<1>2. \E w \in {"api", "teleop"} :
        \/ bridge' = bridge /\ view' = view
        \/ \E cmd : Enqueue(w, cmd) /\ view' = view
        \/ \E next : Resume(w, next)
  BY DEF ApiCommand, ApiDone, TeleopStep, TeleopDone, TeleopClose, TeleopEnd, TeleopOpen,
     TeleopIntent, TeleopKill, TeleopTimeout, TeleopLeave, TeleopSay
<1>3. {"api", "teleop"} \subseteq Writers \ {"link"}
  BY DEF Writers, Movers
<1> QED  BY <1>1, <1>2, <1>3, OthersArms

LEMMA LinkArms ==
    ASSUME Base, Arms, LinkStep \/ Connect \/ Disconnect
    PROVE  Arms'
<1>0. bridge \in Bridges /\ robot \in Robots /\ "link" \in Writers /\ ClientsOK(teleop.pc, link, bridge)
  BY BaseHas, ClientNames
<1>1. CASE Connect
  <2>1. bridge' = [bridge EXCEPT !.reading = FALSE] /\ link' = "dropping" /\ link = "idle"
        /\ UNCHANGED <<view, wire, up, robot>>
    BY <1>1 DEF Connect
  <2>2. bridge'.open = bridge.open /\ bridge'.wr = bridge.wr
    BY <2>1, <1>0 DEF Bridges
  <2>3. Informed(bridge', link') => Informed(bridge, link)
    BY <2>1, <2>2 DEF Informed
  <2>4. Takes(view, view')
    BY <2>1 DEF Takes
  <2> QED  BY <2>1, <2>2, <2>3, <2>4, <1>0, ArmsStay
<1>2. CASE DropPort \/ ClosePort
  <2>1. bridge' = [bridge EXCEPT !.open = "no"]
    BY <1>2 DEF DropPort, ClosePort
  <2>2. bridge'.open = "no"
    BY <2>1, <1>0 DEF Bridges
  <2> QED  BY <2>2, ArmsUninformed DEF Informed
<1>3. CASE Opened
  <2>1. ~ Informed(bridge', link')
    BY <1>3, OpenedDoes DEF Informed
  <2> QED  BY <2>1, ArmsUninformed
<1>4. CASE ConnectStopped
  <2>1. /\ link = "stopping" /\ link' = "idle" /\ Resume("link", "none")
        /\ UNCHANGED <<wire, up, robot>>
    BY <1>4 DEF ConnectStopped
  <2>2. bridge'.open = bridge.open /\ bridge.wr["link"].at # "queued"
    BY <2>1, <1>0, ResumeTouches DEF Touches, Resume, Settled
  <2>3. Informed(bridge', link') => Informed(bridge, link)
    BY <2>2 DEF Informed
  <2> QED  BY <2>1, <2>3, <1>0, TouchArms
<1>5. CASE StopReader
  <2>1. /\ link = "leaving" /\ Frees(bridge, bridge', "link") /\ view' = Acked("link")
        /\ bridge.wr["link"].at \in {"written", "raised"} /\ UNCHANGED <<wire, up, robot>>
    BY <1>5, StopReaderDoes
  <2>2. Informed(bridge', link') => Informed(bridge, link)
    BY <2>1 DEF Informed, Frees, Others
  <2>3. Takes(view, view')
    BY <2>1, <1>0, AckedTakes
  <2>4. \A v \in Writers : bridge'.wr[v].at = "written" => bridge'.wr[v] = bridge.wr[v]
    BY <2>1 DEF Frees, Others
  <2> QED  BY <2>1, <2>2, <2>3, <2>4, <1>0, ArmsStay
<1>6. CASE Disconnect
  <2>1. /\ link = "idle" /\ link' = "leaving" /\ Enqueue("link", "motors off")
        /\ UNCHANGED <<view, wire, up, robot>>
    BY <1>6 DEF Disconnect
  <2>2. bridge'.open = bridge.open
    BY <2>1, <1>0, EnqueueTouches DEF Touches
  <2>3. Informed(bridge', link') => Informed(bridge, link)
    BY <2>1, <2>2 DEF Informed
  <2> QED  BY <2>1, <2>3, <1>0, TouchArms
<1> QED  BY <1>1, <1>2, <1>3, <1>4, <1>5, <1>6 DEF LinkStep

\* A line that can change the arming stays on the wire until the robot reads it; a stop is
\* the last such line as long as its writer holds the lock.
LEMMA WriteArms ==
    ASSUME Base, Arms, NEW w \in Writers, Write(w)
    PROVE  Arms'
<1> DEFINE cmd == bridge.wr[w].cmd
<1>0. /\ wire \in Seq(Commands) /\ bridge \in Bridges /\ cmd \in Commands
      /\ QueueOK(bridge.queue, bridge.wr) /\ ClientsOK(teleop.pc, link, bridge)
  BY BaseHas, BridgeFields
<1>1. Head(bridge.queue) = w /\ bridge.wr[w].at = "queued" /\ UNCHANGED <<view, link, up, robot>>
  BY WriteDoes
<1>2. CASE bridge.open # "live"
  <2>1. Settles(bridge, bridge', w, "raised")
    BY <1>2, WriteDoes
  <2>2. ~ Informed(bridge', link')
    BY <2>1, <1>2 DEF Settles, Others, Informed
  <2> QED  BY <2>2, ArmsUninformed
<1>3. CASE bridge.open = "live"
  <2>1. wire' = Append(wire, cmd) /\ Settles(bridge, bridge', w, "written")
    BY <1>3, WriteDoes
  <2> HIDE DEF cmd
  <2>2. /\ cmd \in Offs => \A a : OffLast(wire', a)
        /\ Silent(wire') => Silent(wire) /\ cmd \notin Arming
    BY <2>1, <1>0, LineAppended
  <2>3. ASSUME Informed(bridge', link'), robot'.armed, Silent(wire')
        PROVE  LastSays(up') \/ (NoneTells(up') /\ view'.armed # "no")
    <3>1. w # "link"
      <4> SUFFICES ASSUME w = "link" PROVE FALSE
        OBVIOUS
      <4>1. cmd = "motors off"
        BY <1>0, <1>1 DEF ClientsOK, cmd
      <4> QED  BY <4>1, <2>2, <2>3 DEF Arming, Offs
    <3>2. bridge'.open = bridge.open /\ bridge'.wr["link"] = bridge.wr["link"]
      BY <3>1, <2>1, ClientNames DEF Settles, Others
    <3>3. Informed(bridge, link)
      BY <3>2, <2>3, <1>1 DEF Informed
    <3> QED  BY <3>3, <2>2, <2>3, <1>1 DEF Arms, Believed
  <2>4. ASSUME NEW v \in Writers, bridge'.wr[v].at = "written", bridge'.wr[v].cmd \in Offs
        PROVE  OffLast(wire', robot'.armed)
    <3>1. v = w
      <4> SUFFICES ASSUME v # w PROVE FALSE
        OBVIOUS
      <4>1. bridge.wr[v].at = "written"
        BY <2>1, <2>4 DEF Settles, Others
      <4> QED  BY <4>1, <1>0, <1>1 DEF QueueOK
    <3>2. bridge'.wr[v].cmd = cmd
      BY <3>1, <2>1 DEF Settles, cmd
    <3> QED  BY <3>2, <2>2, <2>4
  <2> QED  BY <2>3, <2>4, ArmsNext DEF Believed, Stopping
<1> QED  BY <1>2, <1>3

\* The robot obeys the next line; to an arm, a stop or a disarm it answers where the port
\* still takes it.
LEMMA ReadArms ==
    ASSUME Base, Arms, RobotReads
    PROVE  Arms'
<1> DEFINE h == Head(wire)
<1>0. wire \in Seq(Commands) /\ robot \in Robots /\ up \in Seq(Reports) /\ robot.armed \in BOOLEAN
  <2>1. wire \in Seq(Commands) /\ robot \in Robots /\ up \in Seq(Reports)
    BY BaseHas
  <2> QED  BY <2>1 DEF Robots
<1>1. /\ wire # <<>> /\ wire' = Tail(wire) /\ robot' = Obey(robot, h)
      /\ up' = IF h \in Discrete /\ bridge.open = "live"
               THEN Append(up, [kind |-> "ack", of |-> h]) ELSE up
      /\ UNCHANGED <<bridge, view, link>>
  BY DEF RobotReads
<1>2. robot'.armed = IF h = "arm" THEN TRUE ELSE IF h \in Offs THEN FALSE ELSE robot.armed
  BY <1>0, <1>1, ObeyArms
<1>3. /\ OffLast(wire, robot.armed) => OffLast(Tail(wire), robot'.armed)
      /\ Silent(Tail(wire)) /\ h \notin Arming => Silent(wire)
  <2>1. robot'.armed \in BOOLEAN
    BY <1>0, <1>2
  <2> QED  BY <2>1, <1>0, <1>1, <1>2, LineRead
<1>4. ASSUME Informed(bridge, link), robot'.armed, Silent(Tail(wire))
      PROVE  LastSays(up') \/ (NoneTells(up') /\ view.armed # "no")
  <2>1. h \notin Offs
    BY <1>2, <1>4 DEF Offs
  <2>2. CASE h = "arm"
    <3> DEFINE r == [kind |-> "ack", of |-> "arm"]
    <3>1. h \in Discrete /\ bridge.open = "live"
      BY <2>2, <1>4 DEF Discrete, Informed
    <3>2. up' = Append(up, r)
      BY <3>1, <2>2, <1>1
    <3>3. r \in Reports /\ SaysArmed(r)
      BY <3>1, <2>2, <1>0, ReportsTyped DEF SaysArmed
    <3> HIDE DEF r
    <3> QED  BY <3>2, <3>3, <1>0, ReportAppended
  <2>3. CASE h # "arm"
    <3> DEFINE r == [kind |-> "ack", of |-> h]
    <3>1. h \notin Arming
      BY <2>1, <2>3 DEF Arming
    <3>2. robot.armed /\ Silent(wire)
      BY <3>1, <2>1, <2>3, <1>2, <1>3, <1>4
    <3>3. LastSays(up) \/ (NoneTells(up) /\ view.armed # "no")
      BY <3>2, <1>4 DEF Arms, Believed
    <3>4. CASE up' = up
      BY <3>3, <3>4
    <3>5. CASE h \in Discrete /\ up' = Append(up, r)
      <4>1. r \in Reports /\ ~ Tells(r)
        BY <3>1, <3>5, <1>0, ReportsTyped DEF Tells
      <4> HIDE DEF r
      <4> QED  BY <4>1, <3>3, <3>5, <1>0, ReportAppended
    <3> QED  BY <3>4, <3>5, <1>1
  <2> QED  BY <2>2, <2>3
<1>5. ASSUME Informed(bridge, link), NEW w \in Writers, bridge.wr[w].at = "written",
             bridge.wr[w].cmd \in Offs
      PROVE  OffLast(Tail(wire), robot'.armed)
  BY <1>3, <1>5 DEF Arms, Stopping
<1> QED  BY <1>1, <1>4, <1>5, ArmsNext DEF Believed, Stopping

\* A status of an armed robot says so; the periodic lines do not speak of it.
LEMMA ReportArms ==
    ASSUME Base, Arms, RobotReports
    PROVE  Arms'
<1>0. robot \in Robots /\ up \in Seq(Reports)
  BY BaseHas
<1>1. PICK r \in {Sensed, Status} : up' = Append(up, r)
  BY DEF RobotReports
<1>2. UNCHANGED <<bridge, view, link, wire, robot>>
  BY DEF RobotReports
<1>3. r \in Reports
  BY <1>0, ReportsTyped
<1>4. r = Sensed => ~ Tells(r)
  BY DEF Sensed, Tells
<1>5. r = Status /\ robot.armed => SaysArmed(r)
  BY DEF Status, Says, SaysArmed
<1>6. ASSUME Informed(bridge, link), robot.armed, Silent(wire)
      PROVE  LastSays(up') \/ (NoneTells(up') /\ view.armed # "no")
  <2>1. LastSays(up) \/ (NoneTells(up) /\ view.armed # "no")
    BY <1>6 DEF Arms, Believed
  <2> QED  BY <2>1, <1>0, <1>1, <1>3, <1>4, <1>5, <1>6, ReportAppended
<1> QED  BY <1>2, <1>6, ArmsNext DEF Arms, Believed, Stopping

\* The reader takes the oldest report.
LEMMA IngestArms ==
    ASSUME Base, Arms, Ingest
    PROVE  Arms'
<1>0. up \in Seq(Reports) /\ view \in Views
  BY BaseHas
<1>1. /\ up # <<>> /\ view' = Merge(view, Head(up)) /\ up' = Tail(up)
      /\ UNCHANGED <<bridge, link, wire, robot>>
  BY DEF Ingest
<1>2. Head(up) \in Reports
  BY <1>0, <1>1, Tailed
<1>3. ASSUME Informed(bridge, link), robot.armed, Silent(wire)
      PROVE  LastSays(up') \/ (NoneTells(up') /\ view'.armed # "no")
  <2>1. LastSays(up) \/ (NoneTells(up) /\ view.armed # "no")
    BY <1>3 DEF Arms, Believed
  <2>2. CASE LastSays(up)
    <3>1. LastSays(up') \/ (NoneTells(up') /\ SaysArmed(Head(up)))
      BY <2>2, <1>0, <1>1, ReportTaken
    <3>2. SaysArmed(Head(up)) => view'.armed = "yes"
      BY <1>0, <1>1, <1>2, MergeArms
    <3> QED  BY <3>1, <3>2
  <2>3. CASE NoneTells(up) /\ view.armed # "no"
    <3>1. NoneTells(up') /\ ~ Tells(Head(up))
      BY <2>3, <1>0, <1>1, ReportTaken
    <3>2. view'.armed = view.armed
      BY <3>1, <1>0, <1>1, <1>2, MergeArms
    <3> QED  BY <3>1, <3>2, <2>3
  <2> QED  BY <2>1, <2>2, <2>3
<1> QED  BY <1>1, <1>3, ArmsNext DEF Arms, Believed, Stopping

\* The robot's own timers, its surroundings, the cable and a brown-out only ever disarm it.
LEMMA WorldArms ==
    ASSUME Base, Arms, \/ ReadError \/ PulseEnds \/ ArmTimeout \/ Surroundings \/ Unplug
                       \/ Plug \/ Reboot
    PROVE  Arms'
<1>0. bridge \in Bridges /\ robot \in Robots
  BY BaseHas
<1>1. CASE ReadError \/ Plug
  <2>1. /\ UNCHANGED <<link, view, wire, up, robot>>
        /\ bridge' = [bridge EXCEPT !.reading = FALSE] \/ bridge' = [bridge EXCEPT !.plugged = TRUE]
    BY <1>1 DEF ReadError, Plug
  <2>2. bridge'.open = bridge.open /\ bridge'.wr = bridge.wr
    BY <2>1, <1>0 DEF Bridges
  <2>3. Takes(view, view') /\ (Informed(bridge', link') => Informed(bridge, link))
    BY <2>1, <2>2 DEF Takes, Informed
  <2> QED  BY <2>1, <2>2, <2>3, <1>0, ArmsStay
<1>2. CASE PulseEnds \/ ArmTimeout \/ Surroundings
  <2>1. UNCHANGED <<link, view, wire, up, bridge>>
    BY <1>2 DEF PulseEnds, ArmTimeout, Surroundings
  <2>2. robot' \in Robots /\ (robot'.armed => robot.armed)
    <3>1. CASE PulseEnds
      BY <3>1, <1>0 DEF PulseEnds, Robots
    <3>2. CASE ArmTimeout
      BY <3>2, <1>0 DEF ArmTimeout, Robots
    <3>3. CASE Surroundings
      BY <3>3, <1>0 DEF Surroundings, Robots
    <3> QED  BY <3>1, <3>2, <3>3, <1>2
  <2>3. Takes(view, view') /\ (Informed(bridge', link') => Informed(bridge, link))
    BY <2>1 DEF Takes
  <2> QED  BY <2>1, <2>2, <2>3, <1>0, ArmsStay
<1>3. CASE Unplug
  <2>1. bridge' = [bridge EXCEPT !.plugged = FALSE, !.open = IF @ = "live" THEN "dead" ELSE @]
    BY <1>3 DEF Unplug
  <2>2. bridge'.open # "live"
    BY <2>1, <1>0 DEF Bridges
  <2> QED  BY <2>2, ArmsUninformed DEF Informed
<1>4. CASE Reboot
  <2>1. ~ robot'.armed
    BY <1>4 DEF Reboot, PowerOn
  <2>2. wire' = <<>>
    BY <1>4 DEF Reboot
  <2>3. OffLast(wire', robot'.armed)
    BY <2>1, <2>2 DEF OffLast
  <2> QED  BY <2>1, <2>3, ArmsNext DEF Believed, Stopping
<1> QED  BY <1>1, <1>2, <1>3, <1>4

\* Every step keeps Arms.
LEMMA ArmsStep ==
    ASSUME Base, Arms, [Next]_vars
    PROVE  Arms'
<1>0. bridge \in Bridges /\ robot \in Robots /\ "api" \in Writers \ {"link"}
  <2>1. bridge \in Bridges /\ robot \in Robots
    BY BaseHas
  <2> QED  BY <2>1 DEF Writers, Movers
<1>1. CASE UNCHANGED vars
  BY <1>1, <1>0, OthersArms DEF vars
<1>2. ASSUME NEW m \in Movers, MotionStep(m) PROVE Arms'
  BY <1>2, MotionArms
<1>3. ASSUME NEW w \in Writers, Write(w) PROVE Arms'
  BY <1>3, WriteArms
<1>4. CASE ApiDone \/ TeleopStep \/ LinkStep \/ RobotReads
  BY <1>4, ClientArms, LinkArms, ReadArms
<1>5. CASE ScheduleAfterTurn \/ ExecuteTest \/ Configure \/ CooldownEnds
  <2>1. UNCHANGED <<bridge, view, link, wire, up, robot>>
    BY <1>5 DEF ScheduleAfterTurn, ExecuteTest, Configure, CooldownEnds
  <2> QED  BY <2>1, <1>0, OthersArms
<1>6. CASE \/ ApiCommand \/ Connect \/ Disconnect \/ TeleopOpen \/ TeleopIntent \/ TeleopKill
           \/ TeleopTimeout \/ TeleopLeave
  BY <1>6, ClientArms, LinkArms
<1>7. CASE \/ Ingest \/ ReadError \/ RobotReports \/ PulseEnds \/ ArmTimeout
           \/ Surroundings \/ Unplug \/ Plug \/ Reboot
  BY <1>7, IngestArms, ReportArms, WorldArms
<1> QED  BY <1>1, <1>2, <1>3, <1>4, <1>5, <1>6, <1>7 DEF Next, Outside

LEMMA ArmsInit == Init => Arms
<1> SUFFICES ASSUME Init PROVE Arms
  OBVIOUS
<1>1. ~ robot.armed
  BY DEF Init, PowerOn
<1>2. wire = <<>>
  BY DEF Init
<1>3. OffLast(wire, robot.armed)
  BY <1>1, <1>2 DEF OffLast
<1> QED  BY <1>1, <1>3 DEF Arms, Believed, Stopping

\* Once everything written has been read and everything printed ingested, a body that the
\* store calls disarmed is disarmed: the store takes a stop for done when it is written, the
\* robot's own acks and the 60 s after which it disarms itself notwithstanding.
THEOREM DisarmedIsDisarmed == Spec => []DisarmedViewIsTrue
<1>1. Base /\ Arms /\ [Next]_vars => Arms'
  BY ArmsStep
<1>2. Base /\ Arms => DisarmedViewIsTrue
  <2> SUFFICES ASSUME Base, Arms, Quiet, bridge.open = "live", view.armed = "no" PROVE ~ robot.armed
    BY DEF DisarmedViewIsTrue
  <2>1. wire = <<>> /\ up = <<>> /\ bridge.queue = <<>>
    BY DEF Quiet
  <2>2. Silent(wire) /\ ~ LastSays(up)
    BY <2>1 DEF Silent, LastSays
  <2>3. bridge.wr["link"].at = "none"
    <3>1. QueueOK(bridge.queue, bridge.wr)
      BY BaseHas
    <3>2. \A w \in Writers : bridge.wr[w].at # "none" <=> \E i \in DOMAIN bridge.queue : bridge.queue[i] = w
      BY <3>1 DEF QueueOK
    <3>3. bridge.queue # <<>> \/ \A i \in DOMAIN bridge.queue : FALSE
      BY <2>1
    <3>4. bridge.wr["link"].at # "none" <=> \E i \in DOMAIN bridge.queue : bridge.queue[i] = "link"
      BY <3>2, ClientNames
    <3> QED  BY <3>3, <3>4, <2>1
  <2>4. Informed(bridge, link)
    BY <2>3 DEF Informed
  <2> QED  BY <2>2, <2>4 DEF Arms, Believed
<1> QED  BY BaseHolds, ArmsInit, <1>1, <1>2, PTL DEF Spec
=============================================================================
