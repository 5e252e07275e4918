----------------------- MODULE ManagedMemory_proofs ------------------------
(***************************************************************************)
(* Proofs about ManagedMemory, for any proposals, any direct orders and    *)
(* any number of turns, tasks, requests and restarts: types; the mark      *)
(* never outlives the effect; the influence log names memories only; a     *)
(* proposal is decided once; a reply's proposals are committed at once.    *)
(*                                                                         *)
(* Inv says of the committed tables and of the view of the open            *)
(* transaction alike that marks have been earned; that the view has        *)
(* everything the committed tables have, so that neither a commit nor a    *)
(* rollback takes a trace from under a mark; that a thread about to mark a *)
(* proposal has its traces in front of it, on its own connection; and that *)
(* the turn has what it recalled in front of it, too.                      *)
(*                                                                         *)
(* OnceInv says of a proposal that no two have had in hand that it is      *)
(* pending and without a trace until its one thread has begun with it.     *)
(* ReplyInv says that the worker has all proposals of its batch in hand,   *)
(* pending until it commits, and that meanwhile nobody else has changed    *)
(* one, unless the developer has handled it.                               *)
(***************************************************************************)
EXTENDS ManagedMemory, TLAPS, FiniteSetTheorems, WellFoundedInduction

Lasting == {"add", "update", "supersede", "archive"}

HasLog(T, i) == \E k \in 1 .. Len(T.log) : T.log[k].prop = i
HasSuccessor(T, target) == \E m \in 1 .. Len(T.mem) : T.mem[m].replaces = target
Applied(T, i) ==
    HasLog(T, i) /\ (T.prop[i].op = "supersede" => HasSuccessor(T, T.prop[i].target))

Earned(T) ==
    \A i \in 1 .. Len(T.prop) :
        T.prop[i].status = "committed" /\ T.prop[i].op \in Lasting => Applied(T, i)

Sound(T) == Earned(T) /\ T.infl \subseteq 1 .. Len(T.mem)

\* The tables U have everything that the tables T have.
Before(T, U) ==
    /\ Len(T.log) <= Len(U.log) /\ \A k \in 1 .. Len(T.log) : U.log[k] = T.log[k]
    /\ Len(T.mem) <= Len(U.mem)
    /\ \A m \in 1 .. Len(T.mem) : U.mem[m].replaces = T.mem[m].replaces
    /\ Len(T.prop) <= Len(U.prop)
    /\ \A i \in 1 .. Len(T.prop) :
          /\ U.prop[i].op = T.prop[i].op /\ U.prop[i].target = T.prop[i].target
          /\ U.prop[i].batch = T.prop[i].batch

-----------------------------------------------------------------------------
(* Tables *)

LEMMA Lengths ==
    ASSUME NEW T \in Tables
    PROVE  Len(T.log) \in Nat /\ Len(T.mem) \in Nat /\ Len(T.prop) \in Nat
  BY DEF Tables

\* Everything grows with itself and in turn.
LEMMA BeforeSelf == ASSUME NEW T \in Tables PROVE Before(T, T)
  BY Lengths DEF Before

LEMMA BeforeInTurn ==
    ASSUME NEW T \in Tables, NEW U \in Tables, NEW V \in Tables, Before(T, U), Before(U, V)
    PROVE  Before(T, V)
<1>1. \A W \in {T, U, V} : Len(W.log) \in Nat /\ Len(W.mem) \in Nat /\ Len(W.prop) \in Nat
  BY Lengths
<1>2. Len(T.log) <= Len(V.log) /\ \A k \in 1 .. Len(T.log) : V.log[k] = T.log[k]
  BY <1>1 DEF Before
<1>3. /\ Len(T.mem) <= Len(V.mem)
      /\ \A m \in 1 .. Len(T.mem) : V.mem[m].replaces = T.mem[m].replaces
  BY <1>1 DEF Before
<1>4. /\ Len(T.prop) <= Len(V.prop)
      /\ \A i \in 1 .. Len(T.prop) :
            /\ V.prop[i].op = T.prop[i].op /\ V.prop[i].target = T.prop[i].target
            /\ V.prop[i].batch = T.prop[i].batch
  BY <1>1 DEF Before
<1> QED BY <1>2, <1>3, <1>4 DEF Before

\* What has been applied stays applied.
LEMMA AppliedStays ==
    ASSUME NEW T \in Tables, NEW U \in Tables, Before(T, U), NEW i \in 1 .. Len(T.prop)
    PROVE  /\ HasLog(T, i) => HasLog(U, i)
           /\ Applied(T, i) => Applied(U, i)
<1>1. \A W \in {T, U} : Len(W.log) \in Nat /\ Len(W.mem) \in Nat /\ Len(W.prop) \in Nat
  BY Lengths
<1>2. HasLog(T, i) => HasLog(U, i)
  <2> SUFFICES ASSUME NEW k \in 1 .. Len(T.log), T.log[k].prop = i PROVE HasLog(U, i)
    BY DEF HasLog
  <2>1. k \in 1 .. Len(U.log) /\ U.log[k] = T.log[k]
    BY <1>1 DEF Before
  <2> QED BY <2>1 DEF HasLog
<1>3. \A target : HasSuccessor(T, target) => HasSuccessor(U, target)
  <2> SUFFICES ASSUME NEW target, NEW m \in 1 .. Len(T.mem), T.mem[m].replaces = target
               PROVE  HasSuccessor(U, target)
    BY Zenon DEF HasSuccessor
  <2>1. m \in 1 .. Len(U.mem) /\ U.mem[m].replaces = target
    <3>1. Len(T.mem) <= Len(U.mem) /\ U.mem[m].replaces = T.mem[m].replaces
      BY Zenon DEF Before
    <3> QED BY <1>1, <3>1
  <2> QED BY <2>1, Zenon DEF HasSuccessor
<1>4. U.prop[i].op = T.prop[i].op /\ U.prop[i].target = T.prop[i].target
  BY DEF Before
<1> QED BY <1>2, <1>3, <1>4 DEF Applied

\* Tables that grow and leave the proposals alone stay sound.
LEMMA SoundStays ==
    ASSUME NEW T \in Tables, NEW U \in Tables, Before(T, U), U.prop = T.prop,
           U.infl = T.infl, Sound(T)
    PROVE  Sound(U)
<1>1. Earned(U)
  BY AppliedStays DEF Sound, Earned
<1>2. U.infl \subseteq 1 .. Len(U.mem)
  BY Lengths DEF Sound, Before
<1> QED BY <1>1, <1>2 DEF Sound

\* An entry at the end of a sequence leaves the others alone.
LEMMA Appended ==
    ASSUME NEW S, NEW s \in Seq(S), NEW x \in S
    PROVE  /\ Append(s, x) \in Seq(S) /\ Len(Append(s, x)) = Len(s) + 1
           /\ \A k \in 1 .. Len(s) : Append(s, x)[k] = s[k]
           /\ Append(s, x)[Len(s) + 1] = x
  OBVIOUS

LEMMA Replaced ==
    ASSUME NEW S, NEW s \in Seq(S), NEW i \in 1 .. Len(s), NEW x \in S
    PROVE  LET t == [s EXCEPT ![i] = x] IN
           /\ t \in Seq(S) /\ Len(t) = Len(s) /\ t[i] = x
           /\ \A k \in 1 .. Len(s) : k # i => t[k] = s[k]
  OBVIOUS

LEMMA Concatenated ==
    ASSUME NEW S, NEW s \in Seq(S), NEW t \in Seq(S)
    PROVE  /\ s \o t \in Seq(S) /\ Len(s \o t) = Len(s) + Len(t)
           /\ \A k \in 1 .. Len(s) : (s \o t)[k] = s[k]
           /\ \A k \in 1 .. Len(t) : (s \o t)[Len(s) + k] = t[k]
  OBVIOUS

LEMMA HeadIsIn == ASSUME NEW S, NEW s \in Seq(S), s # <<>> PROVE Head(s) \in S
  OBVIOUS

LEMMA TailIsSeq == ASSUME NEW S, NEW s \in Seq(S), s # <<>> PROVE Tail(s) \in Seq(S)
  OBVIOUS

LEMMA FunctionIsSeq == ASSUME NEW S, NEW n \in Nat, NEW s \in [1 .. n -> S] PROVE s \in Seq(S)
  OBVIOUS

Mems == [status : {"active", "superseded", "archived"}, replaces : Nat]
Props == [op : Ops, target : Nat, batch : Nat, status : {"pending", "committed", "rejected"}]
Logs == [op : Ops, mem : Nat, prop : Nat]

\* The fields of the tables.
LEMMA Fields ==
    ASSUME NEW T
    PROVE  T \in Tables <=>
              /\ T = [mem |-> T.mem, prop |-> T.prop, log |-> T.log, infl |-> T.infl]
              /\ T.mem \in Seq(Mems) /\ T.prop \in Seq(Props) /\ T.log \in Seq(Logs)
              /\ T.infl \in SUBSET Nat
  BY DEF Tables, Mems, Props, Logs

LEMMA Updated ==
    ASSUME NEW T \in Tables, NEW x
    PROVE  /\ [T EXCEPT !.mem = x] = [mem |-> x, prop |-> T.prop, log |-> T.log, infl |-> T.infl]
           /\ [T EXCEPT !.prop = x] = [mem |-> T.mem, prop |-> x, log |-> T.log, infl |-> T.infl]
           /\ [T EXCEPT !.log = x] = [mem |-> T.mem, prop |-> T.prop, log |-> x, infl |-> T.infl]
<1>1. PICK m, p, l, f : T = [mem |-> m, prop |-> p, log |-> l, infl |-> f]
  BY DEF Tables
<1> QED BY <1>1

\* An entry in the log, for tables that have every memory they had.
LEMMA LoggedGrows ==
    ASSUME NEW T \in Tables, NEW V \in Tables, V.prop = T.prop, V.log = T.log,
           Len(T.mem) <= Len(V.mem),
           \A m \in 1 .. Len(T.mem) : V.mem[m].replaces = T.mem[m].replaces,
           NEW op \in Ops, NEW m \in Nat, NEW id \in Nat
    PROVE  LET U == Logged(V, op, m, id) IN
           /\ U \in Tables /\ U.prop = T.prop /\ U.mem = V.mem /\ U.infl = V.infl
           /\ Before(T, U) /\ HasLog(U, id)
<1> DEFINE entry == [op |-> op, mem |-> m, prop |-> id]
           U == Logged(V, op, m, id)
<1>1. V.log \in Seq(Logs) /\ entry \in Logs
  BY Fields DEF Logs
<1>3. U = [mem |-> V.mem, prop |-> V.prop, log |-> Append(V.log, entry), infl |-> V.infl]
  BY Updated DEF Logged
<1>4. /\ Append(V.log, entry) \in Seq(Logs) /\ Len(Append(V.log, entry)) = Len(V.log) + 1
      /\ \A k \in 1 .. Len(V.log) : Append(V.log, entry)[k] = V.log[k]
      /\ Append(V.log, entry)[Len(V.log) + 1] = entry
  BY <1>1, Appended
<1> HIDE DEF U
<1>5. U \in Tables
  BY <1>3, <1>4, Fields
<1>6. HasLog(U, id)
  <2>1. Len(V.log) + 1 \in 1 .. Len(U.log)
    BY <1>3, <1>4, Lengths
  <2>2. U.log[Len(V.log) + 1].prop = id
    BY <1>3, <1>4
  <2> QED BY <2>1, <2>2 DEF HasLog
<1>7. Before(T, U)
  BY <1>3, <1>4, Lengths DEF Before
<1> QED BY <1>3, <1>5, <1>6, <1>7 DEF U

\* An added memory leaves its entry in the log and names what it replaces.
LEMMA AddedGrows ==
    ASSUME NEW T \in Tables, NEW target \in Nat, NEW id \in Nat
    PROVE  LET U == Added(T, target, id) IN
           /\ U \in Tables /\ U.prop = T.prop /\ U.infl = T.infl /\ Before(T, U)
           /\ HasLog(U, id) /\ HasSuccessor(U, target)
<1> DEFINE mem == [status |-> "active", replaces |-> target]
           V == [T EXCEPT !.mem = Append(T.mem, mem)]
           U == Logged(V, "add", Len(T.mem) + 1, id)
<1>1. T.mem \in Seq(Mems) /\ mem \in Mems
  BY Fields DEF Mems
<1>2. /\ Append(T.mem, mem) \in Seq(Mems) /\ Len(Append(T.mem, mem)) = Len(T.mem) + 1
      /\ \A k \in 1 .. Len(T.mem) : Append(T.mem, mem)[k] = T.mem[k]
      /\ Append(T.mem, mem)[Len(T.mem) + 1] = mem
  BY <1>1, Appended
<1>3. V = [mem |-> Append(T.mem, mem), prop |-> T.prop, log |-> T.log, infl |-> T.infl]
  BY Updated
<1>4. U = Added(T, target, id)
  BY DEF Added
<1> HIDE DEF mem, V, U
<1>5. V \in Tables
  BY <1>2, <1>3, Fields
<1>6. /\ V.prop = T.prop /\ V.log = T.log /\ V.infl = T.infl /\ Len(V.mem) = Len(T.mem) + 1
      /\ \A m \in 1 .. Len(T.mem) : V.mem[m].replaces = T.mem[m].replaces
      /\ Len(T.mem) \in Nat
  BY <1>2, <1>3, Lengths
<1>7. /\ U \in Tables /\ U.prop = T.prop /\ U.mem = V.mem /\ U.infl = V.infl
      /\ Before(T, U) /\ HasLog(U, id)
  <2>1. "add" \in Ops /\ Len(T.mem) + 1 \in Nat /\ Len(T.mem) <= Len(V.mem)
    BY <1>6 DEF Ops
  <2>2. V.prop = T.prop /\ V.log = T.log
    BY <1>6
  <2>3. \A m \in 1 .. Len(T.mem) : V.mem[m].replaces = T.mem[m].replaces
    BY <1>6
  <2> QED BY <1>5, <2>1, <2>2, <2>3, LoggedGrows, SMTT(30) DEF U
<1>8. HasSuccessor(U, target)
  <2>1. Len(T.mem) + 1 \in 1 .. Len(U.mem)
    BY <1>6, <1>7
  <2>2. U.mem[Len(T.mem) + 1].replaces = target
    BY <1>2, <1>3, <1>7 DEF mem
  <2> QED BY <2>1, <2>2 DEF HasSuccessor
<1> QED BY <1>4, <1>6, <1>7, <1>8

\* So does every other operation on a memory that exists.
LEMMA EffectGrows ==
    ASSUME NEW T \in Tables, NEW id \in Nat, NEW op \in Ops \ {"touch"}, NEW target \in Nat,
           op # "add" => target \in DOMAIN T.mem
    PROVE  LET U == Effect(T, [id |-> id, op |-> op, target |-> target]) IN
           /\ U \in Tables /\ U.prop = T.prop /\ U.infl = T.infl
           /\ Before(T, U) /\ HasLog(U, id)
<1>1. CASE op = "add"
  <2>1. Effect(T, [id |-> id, op |-> op, target |-> target]) = Added(T, 0, id)
    BY <1>1 DEF Effect
  <2>2. 0 \in Nat
    OBVIOUS
  <2>3. LET U == Added(T, 0, id) IN
        U \in Tables /\ U.prop = T.prop /\ U.infl = T.infl /\ Before(T, U) /\ HasLog(U, id)
    BY <2>2, AddedGrows, Zenon
  <2> QED BY <2>1, <2>3, Zenon
<1>2. CASE op = "update"
  <2>1. Effect(T, [id |-> id, op |-> op, target |-> target]) = Logged(T, op, target, id)
    BY <1>2 DEF Effect
  <2>2. Len(T.mem) <= Len(T.mem)
    BY Lengths
  <2> HIDE <1>2
  <2> QED BY <2>1, <2>2, LoggedGrows
<1>3. CASE op \in {"supersede", "archive", "restore"}
  <2> DEFINE new == [T.mem[target] EXCEPT !.status = Status[op]]
             mem == [T.mem EXCEPT ![target] = new]
             V == [T EXCEPT !.mem[target].status = Status[op]]
  <2>1. T.mem \in Seq(Mems) /\ Status[op] \in {"active", "superseded", "archived"}
    BY <1>3, Fields DEF Status
  <2>2. /\ mem \in Seq(Mems) /\ Len(mem) = Len(T.mem)
        /\ \A m \in 1 .. Len(T.mem) : mem[m].replaces = T.mem[m].replaces
    <3>1. target \in 1 .. Len(T.mem) /\ T.mem[target] \in Mems
      BY <1>3, <2>1
    <3>2. new \in Mems /\ new.replaces = T.mem[target].replaces
      BY <2>1, <3>1 DEF Mems
    <3> HIDE DEF new
    <3> QED BY <2>1, <3>1, <3>2, Replaced
  <2>3. V = [mem |-> mem, prop |-> T.prop, log |-> T.log, infl |-> T.infl]
    BY Updated
  <2>4. Effect(T, [id |-> id, op |-> op, target |-> target]) = Logged(V, op, target, id)
    BY <1>3 DEF Effect
  <2> HIDE DEF mem, V
  <2>5. V \in Tables
    BY <2>2, <2>3, Fields
  <2>6. /\ V.prop = T.prop /\ V.log = T.log /\ V.infl = T.infl /\ Len(T.mem) <= Len(V.mem)
        /\ \A m \in 1 .. Len(T.mem) : V.mem[m].replaces = T.mem[m].replaces
    BY <2>2, <2>3, Lengths
  <2> QED BY <2>4, <2>5, <2>6, LoggedGrows
<1> QED BY <1>1, <1>2, <1>3 DEF Ops

\* A new status of a proposal: what has to be shown is that a mark is sound.
LEMMA StatusIsSound ==
    ASSUME NEW T \in Tables, NEW i \in 1 .. Len(T.prop), Sound(T),
           NEW new \in {"committed", "rejected"},
           new = "committed" /\ T.prop[i].op \in Lasting => Applied(T, i)
    PROVE  LET U == [T EXCEPT !.prop[i].status = new] IN
           U \in Tables /\ Len(U.prop) = Len(T.prop) /\ Before(T, U) /\ Sound(U)
<1> DEFINE row == [T.prop[i] EXCEPT !.status = new]
           prop == [T.prop EXCEPT ![i] = row]
           U == [T EXCEPT !.prop[i].status = new]
<1>1. T.prop \in Seq(Props)
  BY Fields
<1>2. /\ prop \in Seq(Props) /\ Len(prop) = Len(T.prop)
      /\ \A k \in 1 .. Len(T.prop) :
            /\ prop[k].op = T.prop[k].op /\ prop[k].target = T.prop[k].target
            /\ prop[k].batch = T.prop[k].batch
            /\ k # i => prop[k] = T.prop[k]
      /\ prop[i].status = new
  <2>1. /\ row \in Props /\ row.status = new
        /\ row.op = T.prop[i].op /\ row.target = T.prop[i].target /\ row.batch = T.prop[i].batch
    <3>1. T.prop[i] \in Props
      BY <1>1
    <3> QED BY <3>1 DEF Props
  <2> HIDE DEF row
  <2> QED BY <1>1, <2>1, Replaced
<1>3. U = [mem |-> T.mem, prop |-> prop, log |-> T.log, infl |-> T.infl]
  BY Updated
<1> HIDE DEF prop, U
<1>4. U \in Tables
  BY <1>2, <1>3, Fields
<1>5. Before(T, U)
  BY <1>2, <1>3, Lengths DEF Before
<1>6. Sound(U)
  <2>1. Earned(U)
    BY <1>2, <1>3, <1>4, <1>5, AppliedStays DEF Sound, Earned
  <2> QED BY <1>3, <2>1 DEF Sound
<1> QED BY <1>2, <1>3, <1>4, <1>5, <1>6 DEF U

\* New proposals are pending.
LEMMA ProposedIs ==
    ASSUME NEW T \in Tables, NEW batch \in Batches
    PROVE  LET U == Proposed(T, batch) IN
           /\ U \in Tables /\ Len(U.prop) = Len(T.prop) + Len(batch) /\ Len(batch) \in Nat
           /\ U.mem = T.mem /\ U.log = T.log /\ U.infl = T.infl
           /\ \A k \in 1 .. Len(T.prop) : U.prop[k] = T.prop[k]
           /\ \A k \in 1 .. Len(U.prop) : k > Len(T.prop) =>
                 U.prop[k].status = "pending" /\ U.prop[k].batch = Len(T.prop) + 1
<1> DEFINE rows == [i \in DOMAIN batch |->
                       [op |-> batch[i].op, target |-> batch[i].target, status |-> "pending",
                        batch |-> Len(T.prop) + 1]]
           prop == T.prop \o rows
           U == Proposed(T, batch)
<1>1. PICK n \in Nat : batch \in [1 .. n -> Drafts]
  BY MemoryAssumption DEF Batches, SeqOf
<1>2. T.prop \in Seq(Props) /\ Len(T.prop) \in Nat
  BY Fields, Lengths
<1>3. /\ rows \in Seq(Props) /\ Len(rows) = Len(batch) /\ Len(batch) \in Nat
      /\ \A i \in 1 .. Len(rows) :
            rows[i].status = "pending" /\ rows[i].batch = Len(T.prop) + 1
  <2>1. \A i \in 1 .. n : batch[i].op \in Ops /\ batch[i].target \in Nat
    BY <1>1, MemoryAssumption
  <2>2. rows \in [1 .. n -> Props]
    BY <1>1, <1>2, <2>1 DEF Props
  <2>3. Len(rows) = n /\ Len(batch) = n
    BY <1>1, <2>2
  <2> QED BY <1>1, <2>2, <2>3
<1>4. U = [mem |-> T.mem, prop |-> prop, log |-> T.log, infl |-> T.infl]
  BY Updated DEF Proposed
<1> HIDE DEF rows, U
<1>5. /\ prop \in Seq(Props) /\ Len(prop) = Len(T.prop) + Len(batch)
      /\ \A k \in 1 .. Len(T.prop) : prop[k] = T.prop[k]
      /\ \A k \in 1 .. Len(prop) : k > Len(T.prop) =>
            prop[k].status = "pending" /\ prop[k].batch = Len(T.prop) + 1
  <2>1. /\ prop \in Seq(Props) /\ Len(prop) = Len(T.prop) + Len(rows)
        /\ \A k \in 1 .. Len(T.prop) : prop[k] = T.prop[k]
        /\ \A k \in 1 .. Len(rows) : prop[Len(T.prop) + k] = rows[k]
    <3>1. \A s, t \in Seq(Props) :
             /\ s \o t \in Seq(Props) /\ Len(s \o t) = Len(s) + Len(t)
             /\ \A k \in 1 .. Len(s) : (s \o t)[k] = s[k]
             /\ \A k \in 1 .. Len(t) : (s \o t)[Len(s) + k] = t[k]
      BY Concatenated
    <3> HIDE DEF prop
    <3>2. prop = T.prop \o rows
      BY DEF prop
    <3> QED BY <1>2, <1>3, <3>1, <3>2, Zenon
  <2> HIDE DEF prop
  <2>2. ASSUME NEW k \in 1 .. Len(prop), k > Len(T.prop) 
               PROVE  prop[k].status = "pending" /\ prop[k].batch = Len(T.prop) + 1
    <3>1. k - Len(T.prop) \in 1 .. Len(rows) /\ Len(T.prop) + (k - Len(T.prop)) = k
      BY <1>2, <1>3, <2>1, <2>2
    <3> QED BY <1>3, <2>1, <3>1
  <2> QED BY <1>3, <2>1, <2>2
<1> HIDE DEF prop
<1>6. U \in Tables
  BY <1>4, <1>5, Fields
<1> QED BY <1>3, <1>4, <1>5, <1>6 DEF U

LEMMA ProposedIsSound ==
    ASSUME NEW T \in Tables, NEW batch \in Batches, Sound(T)
    PROVE  LET U == Proposed(T, batch) IN
           /\ U \in Tables /\ Len(U.prop) = Len(T.prop) + Len(batch) /\ Len(batch) \in Nat
           /\ Before(T, U) /\ Sound(U)
<1> DEFINE U == Proposed(T, batch)
<1>1. /\ U \in Tables /\ Len(U.prop) = Len(T.prop) + Len(batch) /\ Len(batch) \in Nat
      /\ U.mem = T.mem /\ U.log = T.log /\ U.infl = T.infl
      /\ \A k \in 1 .. Len(T.prop) : U.prop[k] = T.prop[k]
      /\ \A k \in 1 .. Len(U.prop) : k > Len(T.prop) => U.prop[k].status = "pending"
  BY ProposedIs
<1> HIDE DEF U
<1>2. Before(T, U)
  BY <1>1, Lengths DEF Before
<1>3. Earned(U)
  <2> SUFFICES ASSUME NEW k \in 1 .. Len(U.prop),
                      U.prop[k].status = "committed", U.prop[k].op \in Lasting
               PROVE  Applied(U, k)
    BY DEF Earned
  <2>1. k \in 1 .. Len(T.prop) /\ U.prop[k] = T.prop[k]
    BY <1>1, Lengths
  <2> QED BY <1>1, <1>2, <2>1, AppliedStays DEF Sound, Earned
<1> QED BY <1>1, <1>2, <1>3 DEF U, Sound

-----------------------------------------------------------------------------
(* The invariant *)

Sides == {"app", "task"}
Txs == [on : Sides \cup {"none"}, view : Tables]
Turns == [at : {"idle", "recalled", "written"}, recalled : SUBSET Nat]
Jobs == [at : {"idle", "propose", "load", "apply", "succeed", "mark", "reject"},
         ids : SUBSET Nat, todo : SUBSET Nat, orders : Seq([op : Ops, target : Nat])]

Has(j) == j.todo # {} \/ j.orders # <<>>
Current(j, T) == IF j.todo # {} THEN Item(T, Min(j.todo))
                 ELSE [id |-> 0, op |-> Head(j.orders).op, target |-> Head(j.orders).target]

\* What a thread relies on, T being the tables as its connection sees them.
JobOK(j, T) ==
    /\ j.todo \subseteq 1 .. Len(T.prop)
    /\ j.at = "reject" => j.ids \subseteq 1 .. Len(T.prop)
    /\ j.at \in {"succeed", "mark"} => Has(j)
    /\ j.at = "succeed" =>
          /\ Current(j, T).op = "supersede"
          /\ Current(j, T).id # 0 => HasLog(T, Current(j, T).id)
    /\ j.at = "mark" /\ Current(j, T).id # 0 /\ Current(j, T).op \in Lasting =>
          Applied(T, Current(j, T).id)

ViewInv ==
    /\ tx.on = "none" => tx.view = db
    /\ Before(db, tx.view) /\ Len(tx.view.prop) = Len(db.prop)
    /\ Sound(db) /\ Sound(tx.view)

TypeInv == db \in Tables /\ tx \in Txs /\ turn \in Turns /\ job \in [Workers -> Jobs]

\* What a turn has recalled is there for its connection to see.
RecallInv == turn.recalled \subseteq 1 .. Len(View("app").mem)

Inv == TypeInv /\ ViewInv /\ RecallInv /\ \A w \in Workers : JobOK(job[w], View(Conn(w)))

-----------------------------------------------------------------------------
(* What a thread is at *)

\* A set of numbers that is not empty has its least member.
LEMMA MinIsMember ==
    ASSUME NEW S \in SUBSET Nat, S # {}
    PROVE  Min(S) \in S
<1> DEFINE less == {ss \in Nat \X Nat : ss[1] < ss[2]}
<1>1. IsWellFoundedOn(less, Nat)
  BY NatLessThanWellFounded, Zenon DEF OpToRel
<1> HIDE DEF less
<1>2. PICK x \in S : \A y \in S : ~ (<<y, x>> \in less)
  BY <1>1, WFMin, Zenon
<1>3. \A y, z \in Nat : y < z => <<y, z>> \in less
  <2> SUFFICES ASSUME NEW y \in Nat, NEW z \in Nat, y < z PROVE <<y, z>> \in less
    OBVIOUS
  <2>1. <<y, z>> \in Nat \X Nat /\ <<y, z>>[1] < <<y, z>>[2]
    OBVIOUS
  <2> QED BY <2>1, Zenon DEF less
<1>4. \A y \in S : x \in Nat /\ y \in Nat /\ ~ (y < x)
  BY <1>2, <1>3, Zenon
<1>5. \A y \in S : x <= y
  BY <1>4
<1> QED BY <1>5 DEF Min

LEMMA NowIsCurrent == \A w : Now(w) = Current(job[w], View(Conn(w))) /\ More(w) = Has(job[w])
  BY DEF Now, Current, More, Has

\* A thread that has something to do has an operation and, if it has a proposal,
\* the operation is the proposal's.
LEMMA CurrentIs ==
    ASSUME NEW T \in Tables, NEW j \in Jobs, Has(j), j.todo \subseteq 1 .. Len(T.prop)
    PROVE  LET it == Current(j, T) IN
           /\ it = [id |-> it.id, op |-> it.op, target |-> it.target]
           /\ it.id \in Nat /\ it.op \in Ops /\ it.target \in Nat
           /\ it.id = 0 <=> j.todo = {}
           /\ it.id # 0 => /\ it.id \in 1 .. Len(T.prop)
                           /\ it.op = T.prop[it.id].op /\ it.target = T.prop[it.id].target
<1>1. CASE j.todo # {}
  <2>1. Min(j.todo) \in 1 .. Len(T.prop)
    BY <1>1, MinIsMember DEF Jobs
  <2>2. T.prop \in Seq(Props)
    BY Fields
  <2>3. T.prop[Min(j.todo)].op \in Ops /\ T.prop[Min(j.todo)].target \in Nat
    <3>1. T.prop[Min(j.todo)] \in Props
      BY <2>1, <2>2
    <3> QED BY <3>1 DEF Props
  <2> QED BY <1>1, <2>1, <2>3, Lengths DEF Current, Item
<1>2. CASE j.todo = {}
  <2>1. j.orders \in Seq([op : Ops, target : Nat]) /\ j.orders # <<>>
    BY <1>2 DEF Has, Jobs
  <2>2. Head(j.orders) \in [op : Ops, target : Nat]
    BY <2>1, HeadIsIn
  <2> QED BY <1>2, <2>2 DEF Current
<1> QED BY <1>1, <1>2

\* Tables that grow change nothing of what a thread is at, ...
LEMMA CurrentStays ==
    ASSUME NEW T \in Tables, NEW U \in Tables, Before(T, U), NEW j \in Jobs, Has(j),
           j.todo \subseteq 1 .. Len(T.prop)
    PROVE  Current(j, U) = Current(j, T)
<1>1. CASE j.todo # {}
  <2>1. Min(j.todo) \in 1 .. Len(T.prop)
    BY <1>1, MinIsMember DEF Jobs
  <2> QED BY <1>1, <2>1 DEF Current, Item, Before
<1>2. CASE j.todo = {}
  BY <1>2 DEF Current
<1> QED BY <1>1, <1>2

\* ... nor take from it what it relies on.
LEMMA JobStays ==
    ASSUME NEW T \in Tables, NEW U \in Tables, Before(T, U), NEW j \in Jobs, JobOK(j, T)
    PROVE  JobOK(j, U)
<1>1. 1 .. Len(T.prop) \subseteq 1 .. Len(U.prop)
  BY Lengths DEF Before
<1>2. j.todo \subseteq 1 .. Len(T.prop)
  BY DEF JobOK
<1>3. CASE j.at \notin {"succeed", "mark"}
  BY <1>1, <1>3 DEF JobOK
<1>4. CASE j.at \in {"succeed", "mark"}
  <2>1. Has(j)
    BY <1>4 DEF JobOK
  <2>2. Current(j, U) = Current(j, T)
    BY <1>2, <2>1, CurrentStays
  <2>3. Current(j, T).id # 0 => Current(j, T).id \in 1 .. Len(T.prop)
    BY <1>2, <2>1, CurrentIs
  <2> QED BY <1>1, <1>4, <2>1, <2>2, <2>3, AppliedStays DEF JobOK
<1> QED BY <1>3, <1>4

LEMMA IdleIsOK == ASSUME NEW T PROVE Idle \in Jobs /\ JobOK(Idle, T)
  BY DEF Idle, Jobs, JobOK

\* A thread with a set of proposals in hand has not begun with any.
LEMMA WithIdsIs ==
    ASSUME NEW ids \in SUBSET Nat, NEW at \in {"load", "reject"}
    PROVE  LET j == [Idle EXCEPT !.at = at, !.ids = ids] IN
           j \in Jobs /\ j.at = at /\ j.ids = ids /\ j.todo = {}
<1>1. Idle \in Jobs /\ Idle.todo = {}
  BY IdleIsOK DEF Idle
<1> QED BY <1>1 DEF Jobs

-----------------------------------------------------------------------------
(* Steps of the tables *)

\* Every connection sees sound tables, that have the committed ones; while one
\* connection may write, the others see the committed ones.
LEMMA ViewIs ==
    ASSUME TypeInv, ViewInv, NEW c
    PROVE  /\ View(c) \in Tables /\ Sound(View(c)) /\ Before(db, View(c))
           /\ Len(View(c).prop) = Len(db.prop)
           /\ CanWrite(c) => \A d \in Sides : d # c => View(d) = db
  BY BeforeSelf DEF TypeInv, ViewInv, View, Txs, CanWrite

\* The tables stay as the invariant wants them, and no connection loses anything.
Grown ==
    /\ db' \in Tables /\ tx' \in Txs /\ ViewInv'
    /\ \A d \in Sides : View(d)' \in Tables /\ Before(View(d), View(d)')

LEMMA KeepStep ==
    ASSUME TypeInv, ViewInv, UNCHANGED <<db, tx>>
    PROVE  Grown /\ \A c : View(c)' = View(c)
<1>1. \A c : View(c)' = View(c)
  BY DEF View
<1>2. \A d \in Sides : View(d) \in Tables /\ Before(View(d), View(d))
  BY ViewIs, BeforeSelf
<1>3. db' = db /\ tx' = tx
  OBVIOUS
<1>4. ViewInv'
  BY <1>3 DEF ViewInv
<1> QED BY <1>1, <1>2, <1>3, <1>4 DEF Grown, TypeInv

LEMMA WriteStep ==
    ASSUME TypeInv, ViewInv, NEW c \in Sides, CanWrite(c), NEW U \in Tables, Write(c, U),
           Before(View(c), U), Sound(U), Len(U.prop) = Len(View(c).prop)
    PROVE  Grown /\ View(c)' = U
<1>1. db' = db /\ tx' = [on |-> c, view |-> U] /\ c # "none"
  BY DEF Write, Sides
<1>2. View(c)' = U /\ \A d : d # c => View(d)' = db
  BY <1>1 DEF View
<1>3. View(c) \in Tables /\ Before(db, View(c)) /\ Len(View(c).prop) = Len(db.prop)
  BY ViewIs
<1>4. \A d \in Sides : d # c => View(d) = db
  BY ViewIs
<1>5. Before(db, U)
  BY <1>3, BeforeInTurn DEF TypeInv
<1>6. ViewInv'
  BY <1>1, <1>3, <1>5 DEF ViewInv
<1>7. \A d \in Sides : View(d)' \in Tables /\ Before(View(d), View(d)')
  BY <1>2, <1>4, BeforeSelf DEF TypeInv
<1> QED BY <1>1, <1>2, <1>6, <1>7 DEF Grown, TypeInv, Txs

\* A write that is committed at once.
LEMMA PublishStep ==
    ASSUME TypeInv, ViewInv, NEW c, CanWrite(c), NEW U \in Tables,
           db' = U, tx' = [on |-> "none", view |-> U], Before(View(c), U), Sound(U)
    PROVE  Grown /\ \A d : View(d)' = U
<1>1. \A d : View(d)' = U
  BY DEF View
<1>2. View(c) \in Tables /\ Before(db, View(c)) /\ \A d \in Sides : d # c => View(d) = db
  BY ViewIs
<1>3. Before(db, U)
  BY <1>2, BeforeInTurn DEF TypeInv
<1>4. \A d \in Sides : View(d)' \in Tables /\ Before(View(d), View(d)')
  BY <1>1, <1>2, <1>3
<1>5. ViewInv'
  BY BeforeSelf DEF ViewInv
<1> QED BY <1>1, <1>4, <1>5 DEF Grown, TypeInv, Txs

LEMMA CommitStep ==
    ASSUME TypeInv, ViewInv, NEW c \in Sides, CommitOn(c)
    PROVE  Grown
<1>1. CASE tx.on = c
  <2>1. db' = tx.view /\ tx' = [on |-> "none", view |-> tx.view]
    BY <1>1 DEF CommitOn, View
  <2>2. CanWrite(c) /\ View(c) = tx.view
    BY <1>1 DEF CanWrite, View
  <2>3. tx.view \in Tables /\ Sound(tx.view)
    BY DEF TypeInv, ViewInv, Txs
  <2> QED BY <2>1, <2>2, <2>3, PublishStep, BeforeSelf
<1>2. CASE tx.on # c
  <2>1. db' = db /\ tx' = tx
    BY <1>2 DEF CommitOn, View
  <2> QED BY <2>1, KeepStep
<1> QED BY <1>1, <1>2

-----------------------------------------------------------------------------
(* Steps of the threads *)

LEMMA RecallStays == ASSUME TypeInv, ViewInv, RecallInv, Grown, turn' = turn PROVE RecallInv'
<1>1. /\ View("app") \in Tables /\ View("app")' \in Tables
      /\ Before(View("app"), View("app")')
  BY ViewIs DEF Grown, Sides
<1>2. 1 .. Len(View("app").mem) \subseteq 1 .. Len(View("app")'.mem)
  BY <1>1, Lengths DEF Before
<1> QED BY <1>2 DEF RecallInv

\* One thread moves, and relies on no more than it sees.
LEMMA ThreadStep ==
    ASSUME Inv, Grown, turn' = turn, NEW w \in Workers, NEW j \in Jobs,
           job' = [job EXCEPT ![w] = j], JobOK(j, View(Conn(w))')
    PROVE  Inv'
<1>1. job' \in [Workers -> Jobs] /\ job'[w] = j /\ \A v \in Workers : v # w => job'[v] = job[v]
  BY DEF Inv, TypeInv
<1>2. TypeInv'
  BY <1>1 DEF Inv, TypeInv, Grown
<1>3. ASSUME NEW v \in Workers, v # w
      PROVE  JobOK(job'[v], View(Conn(v))')
  <2>1. Conn(v) \in Sides
    BY DEF Conn, Sides
  <2>2. /\ View(Conn(v)) \in Tables /\ View(Conn(v))' \in Tables
        /\ Before(View(Conn(v)), View(Conn(v))')
    BY <2>1, ViewIs DEF Grown, Inv
  <2>3. job[v] \in Jobs /\ JobOK(job[v], View(Conn(v)))
    BY DEF Inv, TypeInv
  <2> QED BY <1>1, <1>3, <2>2, <2>3, JobStays
<1>4. \A v \in Workers : JobOK(job'[v], View(Conn(v))')
  BY <1>1, <1>3
<1>5. RecallInv'
  BY RecallStays DEF Inv
<1> QED BY <1>2, <1>4, <1>5 DEF Inv, Grown

\* No thread moves, but the turn or the tables may.
LEMMA OtherStep ==
    ASSUME Inv, Grown, turn' \in Turns, RecallInv', UNCHANGED job
    PROVE  Inv'
<1>1. TypeInv'
  BY DEF TypeInv, Grown, Inv
<1>2. ASSUME NEW v \in Workers
      PROVE  JobOK(job'[v], View(Conn(v))')
  <2>1. Conn(v) \in Sides
    BY DEF Conn, Sides
  <2>2. /\ View(Conn(v)) \in Tables /\ View(Conn(v))' \in Tables
        /\ Before(View(Conn(v)), View(Conn(v))')
    BY <2>1, ViewIs DEF Grown, Inv
  <2>3. job[v] \in Jobs /\ JobOK(job[v], View(Conn(v)))
    BY DEF Inv, TypeInv
  <2> QED BY <2>2, <2>3, JobStays
<1> QED BY <1>1, <1>2 DEF Inv, Grown

-----------------------------------------------------------------------------
(* Committing *)

\* What the invariant says of one thread.
LEMMA ThreadIs ==
    ASSUME Inv, NEW w \in Workers
    PROVE  /\ Conn(w) \in Sides /\ View(Conn(w)) \in Tables /\ Sound(View(Conn(w)))
           /\ job[w] \in Jobs /\ JobOK(job[w], View(Conn(w)))
           /\ turn \in Turns /\ TypeInv /\ ViewInv
<1>1. Conn(w) \in Sides
  BY DEF Conn, Sides
<1> QED BY <1>1, ViewIs DEF Inv, TypeInv

\* A thread that only goes on to another point has the same operation in hand.
LEMMA MovedIs ==
    ASSUME NEW j \in Jobs,
           NEW at \in {"idle", "propose", "load", "apply", "succeed", "mark", "reject"}
    PROVE  LET k == [j EXCEPT !.at = at] IN
           /\ k \in Jobs /\ k.at = at /\ k.todo = j.todo /\ k.ids = j.ids
           /\ Has(k) = Has(j) /\ \A T : Current(k, T) = Current(j, T)
<1> DEFINE k == [j EXCEPT !.at = at]
<1>1. k \in Jobs /\ k.at = at /\ k.todo = j.todo /\ k.ids = j.ids /\ k.orders = j.orders
  BY DEF Jobs
<1> HIDE DEF k
<1> QED BY <1>1 DEF k, Has, Current

LEMMA LoadStep == ASSUME Inv, NEW w \in Workers, Load(w) PROVE Inv'
<1> DEFINE T == View(Conn(w))
           j == [job[w] EXCEPT !.at = "apply", !.todo = Waiting(T, job[w].ids)]
<1>1. Grown /\ View(Conn(w))' = T /\ turn' = turn
  BY KeepStep, ThreadIs DEF Load
<1>2. job' = [job EXCEPT ![w] = j]
  BY DEF Load, Inv, TypeInv
<1>3. Waiting(T, job[w].ids) \subseteq 1 .. Len(T.prop)
  BY ThreadIs, Fields DEF Waiting
<1>4. j \in Jobs /\ j.at = "apply" /\ j.todo = Waiting(T, job[w].ids)
  <2>1. job[w] \in Jobs /\ Waiting(T, job[w].ids) \in SUBSET Nat
    BY <1>3, ThreadIs
  <2> QED BY <2>1 DEF Jobs
<1> HIDE DEF j
<1>5. JobOK(j, T)
  BY <1>3, <1>4 DEF JobOK
<1> QED BY <1>1, <1>2, <1>4, <1>5, ThreadStep, ThreadIs

LEMMA ApplyStep == ASSUME Inv, NEW w \in Workers, Apply(w) PROVE Inv'
<1> DEFINE T == View(Conn(w))
           it == Current(job[w], T)
           U == Effect(T, it)
           at == IF it.op = "supersede" THEN "succeed" ELSE "mark"
           j == [job[w] EXCEPT !.at = at]
<1>1. /\ Conn(w) \in Sides /\ T \in Tables /\ Sound(T) /\ job[w] \in Jobs /\ JobOK(job[w], T)
      /\ turn \in Turns /\ TypeInv /\ ViewInv
  BY ThreadIs
<1>2. Now(w) = it /\ Has(job[w]) /\ job[w].todo \subseteq 1 .. Len(T.prop)
  BY <1>1, NowIsCurrent DEF Apply, Applies, JobOK
<1>3. /\ CanWrite(Conn(w)) /\ Write(Conn(w), U) /\ job' = [job EXCEPT ![w] = j] /\ turn' = turn
      /\ it.op # "touch" /\ (it.op # "add" => it.target \in DOMAIN T.mem)
  BY <1>2 DEF Apply, Applies, Traceless, Nameless, Missing
<1> HIDE DEF it
<1>4. /\ it = [id |-> it.id, op |-> it.op, target |-> it.target]
      /\ it.id \in Nat /\ it.op \in Ops /\ it.target \in Nat
      /\ it.id # 0 => it.id \in 1 .. Len(T.prop) /\ it.op = T.prop[it.id].op
  BY <1>1, <1>2, CurrentIs DEF it
<1> HIDE DEF T
<1>5. /\ U \in Tables /\ U.prop = T.prop /\ U.infl = T.infl
      /\ Before(T, U) /\ HasLog(U, it.id)
  <2>1. it.op \in Ops \ {"touch"}
    BY <1>3, <1>4
  <2>2. \A id \in Nat, op \in Ops \ {"touch"}, target \in Nat :
           (op # "add" => target \in DOMAIN T.mem) =>
              LET V == Effect(T, [id |-> id, op |-> op, target |-> target]) IN
              /\ V \in Tables /\ V.prop = T.prop /\ V.infl = T.infl
              /\ Before(T, V) /\ HasLog(V, id)
    BY <1>1, EffectGrows
  <2> QED BY <1>3, <1>4, <2>1, <2>2
<1> HIDE DEF U
<1>6. Sound(U)
  BY <1>1, <1>5, SoundStays
<1>7. Grown /\ View(Conn(w))' = U
  BY <1>1, <1>3, <1>5, <1>6, WriteStep DEF T
<1>8. /\ at \in {"succeed", "mark"} /\ j \in Jobs /\ j.at = at /\ j.todo = job[w].todo
      /\ Has(j) = Has(job[w]) /\ \A V : Current(j, V) = Current(job[w], V)
  <2>1. /\ at \in {"succeed", "mark"}
        /\ at \in {"idle", "propose", "load", "apply", "succeed", "mark", "reject"}
    OBVIOUS
  <2> HIDE DEF at
  <2>2. /\ j \in Jobs /\ j.at = at /\ j.todo = job[w].todo
        /\ Has(j) = Has(job[w]) /\ \A V : Current(j, V) = Current(job[w], V)
    BY <1>1, <2>1, MovedIs, ZenonT(60)
  <2> QED BY <2>1, <2>2, Zenon
<1> HIDE DEF j
<1>9. Current(j, U) = it
  BY <1>1, <1>2, <1>5, <1>8, CurrentStays DEF it
<1>10. JobOK(j, U)
  <2>1. j.todo \subseteq 1 .. Len(U.prop)
    BY <1>2, <1>5, <1>8
  <2>2. CASE it.op = "supersede"
    BY <1>2, <1>5, <1>8, <1>9, <2>1, <2>2 DEF JobOK
  <2>3. CASE it.op # "supersede"
    <3>1. it.id # 0 => Applied(U, it.id)
      BY <1>4, <1>5, <2>3 DEF Applied
    <3> QED BY <1>2, <1>8, <1>9, <2>1, <2>3, <3>1 DEF JobOK
  <2> QED BY <2>2, <2>3
<1> QED BY <1>1, <1>3, <1>7, <1>8, <1>10, ThreadStep

LEMMA SucceedStep == ASSUME Inv, NEW w \in Workers, Succeed(w) PROVE Inv'
<1> DEFINE T == View(Conn(w))
           it == Current(job[w], T)
           U == Added(T, it.target, 0)
           j == [job[w] EXCEPT !.at = "mark"]
<1>1. /\ Conn(w) \in Sides /\ T \in Tables /\ Sound(T) /\ job[w] \in Jobs /\ JobOK(job[w], T)
      /\ turn \in Turns /\ TypeInv /\ ViewInv
  BY ThreadIs
<1>2. /\ Now(w) = it /\ Has(job[w]) /\ job[w].todo \subseteq 1 .. Len(T.prop)
      /\ it.op = "supersede" /\ (it.id # 0 => HasLog(T, it.id))
  BY <1>1, NowIsCurrent DEF Succeed, JobOK
<1>3. CanWrite(Conn(w)) /\ Write(Conn(w), U) /\ job' = [job EXCEPT ![w] = j] /\ turn' = turn
  BY <1>2 DEF Succeed
<1> HIDE DEF it
<1>4. /\ it.target \in Nat
      /\ it.id # 0 => it.id \in 1 .. Len(T.prop) /\ it.target = T.prop[it.id].target
  BY <1>1, <1>2, CurrentIs DEF it
<1> HIDE DEF T
<1>5. /\ U \in Tables /\ U.prop = T.prop /\ U.infl = T.infl
      /\ Before(T, U) /\ HasSuccessor(U, it.target)
  BY <1>1, <1>4, AddedGrows
<1> HIDE DEF U
<1>6. Sound(U)
  BY <1>1, <1>5, SoundStays
<1>7. Grown /\ View(Conn(w))' = U
  BY <1>1, <1>3, <1>5, <1>6, WriteStep DEF T
<1>8. /\ j \in Jobs /\ j.at = "mark" /\ j.todo = job[w].todo
      /\ Has(j) = Has(job[w]) /\ \A V : Current(j, V) = Current(job[w], V)
  BY <1>1, MovedIs
<1> HIDE DEF j
<1>9. Current(j, U) = it
  BY <1>1, <1>2, <1>5, <1>8, CurrentStays DEF it
<1>10. it.id # 0 => Applied(U, it.id)
  BY <1>1, <1>2, <1>4, <1>5, AppliedStays DEF Applied
<1>11. JobOK(j, U)
  BY <1>2, <1>5, <1>8, <1>9, <1>10 DEF JobOK
<1> QED BY <1>1, <1>3, <1>7, <1>8, <1>11, ThreadStep

LEMMA ApplyTracelessStep == ASSUME Inv, NEW w \in Workers, ApplyTraceless(w) PROVE Inv'
<1> DEFINE T == View(Conn(w))
           j == [job[w] EXCEPT !.at = "mark"]
<1>1. /\ job[w] \in Jobs /\ JobOK(job[w], T) /\ turn \in Turns /\ TypeInv /\ ViewInv
  BY ThreadIs
<1>2. /\ Now(w) = Current(job[w], T) /\ Has(job[w]) /\ Now(w).op \in {"touch", "restore"}
      /\ job' = [job EXCEPT ![w] = j] /\ turn' = turn
  BY NowIsCurrent DEF ApplyTraceless, Applies, Traceless
<1>3. Grown /\ View(Conn(w))' = T
  BY <1>1, KeepStep DEF ApplyTraceless
<1>4. /\ j \in Jobs /\ j.at = "mark" /\ j.todo = job[w].todo
      /\ Has(j) = Has(job[w]) /\ \A V : Current(j, V) = Current(job[w], V)
  BY <1>1, MovedIs
<1> HIDE DEF j, T
<1>5. JobOK(j, T)
  BY <1>1, <1>2, <1>4 DEF JobOK, Lasting
<1> QED BY <1>1, <1>2, <1>3, <1>4, <1>5, ThreadStep

\* What is done is taken off; less is left to do.
LEMMA DoneIs ==
    ASSUME Inv, NEW w \in Workers, More(w)
    PROVE  \E j \in Jobs : /\ Done(w) = [job EXCEPT ![w] = j]
                           /\ \A T : job[w].todo \subseteq 1 .. Len(T.prop) => JobOK(j, T)
<1>1. job[w] \in Jobs /\ job \in [Workers -> Jobs]
  BY DEF Inv, TypeInv
<1>2. CASE job[w].todo # {}
  <2> DEFINE j == [job[w] EXCEPT !.at = "apply", !.todo = @ \ {Min(@)}]
  <2>1. Done(w) = [job EXCEPT ![w] = j]
    BY <1>1, <1>2 DEF Done
  <2>2. j \in Jobs /\ j.at = "apply" /\ j.todo \subseteq job[w].todo
    BY <1>1 DEF Jobs
  <2> HIDE DEF j
  <2>3. \A T : job[w].todo \subseteq 1 .. Len(T.prop) => JobOK(j, T)
    BY <2>2 DEF JobOK
  <2> QED BY <2>1, <2>2, <2>3
<1>3. CASE job[w].todo = {}
  <2> DEFINE j == [job[w] EXCEPT !.at = "apply", !.orders = Tail(@)]
  <2>1. Done(w) = [job EXCEPT ![w] = j]
    BY <1>1, <1>3 DEF Done
  <2>2. j \in Jobs /\ j.at = "apply" /\ j.todo = job[w].todo
    <3>1. job[w].orders \in Seq([op : Ops, target : Nat]) /\ job[w].orders # <<>>
      BY <1>1, <1>3 DEF Jobs, More
    <3>2. Tail(job[w].orders) \in Seq([op : Ops, target : Nat])
      BY <3>1, TailIsSeq
    <3> QED BY <1>1, <3>2 DEF Jobs
  <2> HIDE DEF j
  <2>3. \A T : job[w].todo \subseteq 1 .. Len(T.prop) => JobOK(j, T)
    BY <2>2 DEF JobOK
  <2> QED BY <2>1, <2>2, <2>3
<1> QED BY <1>2, <1>3

LEMMA SkipStep == ASSUME Inv, NEW w \in Workers, Skip(w) PROVE Inv'
<1>1. Grown /\ View(Conn(w))' = View(Conn(w)) /\ turn' = turn /\ turn \in Turns
  BY KeepStep, ThreadIs DEF Skip
<1>2. PICK j \in Jobs : /\ job' = [job EXCEPT ![w] = j]
                        /\ \A T : job[w].todo \subseteq 1 .. Len(T.prop) => JobOK(j, T)
  BY DoneIs DEF Skip
<1>3. JobOK(j, View(Conn(w)))
  BY <1>2, ThreadIs DEF JobOK
<1> QED BY <1>1, <1>2, <1>3, ThreadStep

LEMMA MarkStep == ASSUME Inv, NEW w \in Workers, Mark(w) PROVE Inv'
<1> DEFINE T == View(Conn(w))
           it == Current(job[w], T)
<1>1. /\ Conn(w) \in Sides /\ T \in Tables /\ Sound(T) /\ job[w] \in Jobs /\ JobOK(job[w], T)
      /\ turn \in Turns /\ TypeInv /\ ViewInv
  BY ThreadIs
<1>2. /\ Now(w) = it /\ More(w) /\ Has(job[w]) /\ job[w].todo \subseteq 1 .. Len(T.prop)
      /\ it.id # 0 /\ it.op \in Lasting => Applied(T, it.id)
  BY <1>1, NowIsCurrent DEF Mark, JobOK
<1>3. PICK j \in Jobs : /\ job' = [job EXCEPT ![w] = j]
                        /\ \A V : job[w].todo \subseteq 1 .. Len(V.prop) => JobOK(j, V)
  BY <1>2, DoneIs DEF Mark
<1>4. turn' = turn
  BY DEF Mark
<1>5. CASE it.id = 0
  <2>1. Grown /\ View(Conn(w))' = T
    BY <1>1, <1>2, <1>5, KeepStep DEF Mark
  <2> QED BY <1>1, <1>2, <1>3, <1>4, <2>1, ThreadStep
<1>6. CASE it.id # 0
  <2> DEFINE U == [T EXCEPT !.prop[it.id].status = "committed"]
  <2>1. CanWrite(Conn(w)) /\ Write(Conn(w), U)
    BY <1>2, <1>6 DEF Mark, Marked
  <2> HIDE DEF it
  <2>2. it.id \in 1 .. Len(T.prop) /\ it.op = T.prop[it.id].op
    BY <1>1, <1>2, <1>6, CurrentIs DEF it
  <2> HIDE DEF T
  <2>3. U \in Tables /\ Len(U.prop) = Len(T.prop) /\ Before(T, U) /\ Sound(U)
    BY <1>1, <1>2, <1>6, <2>2, StatusIsSound
  <2> HIDE DEF U
  <2>4. Grown /\ View(Conn(w))' = U
    BY <1>1, <2>1, <2>3, WriteStep DEF T
  <2>5. JobOK(j, U)
    BY <1>2, <1>3, <2>3
  <2> QED BY <1>1, <1>3, <1>4, <2>4, <2>5, ThreadStep
<1> QED BY <1>5, <1>6

LEMMA CommitIsKept == ASSUME Inv, NEW w \in Workers, Commit(w) PROVE Inv'
<1>1. Grown /\ turn' = turn /\ turn \in Turns
  BY CommitStep, ThreadIs DEF Commit
<1> QED BY <1>1, IdleIsOK, ThreadStep DEF Commit

-----------------------------------------------------------------------------
(* Failing, and starting again *)

\* What the worker has written is gone with its connection; the application's
\* connection does not notice.
LEMMA FailStep == ASSUME Inv, NEW w \in Workers, Fail(w) PROVE Inv'
<1>1. /\ turn' = turn /\ turn \in Turns /\ job' = [job EXCEPT ![w] = Idle]
      /\ TypeInv /\ ViewInv
  BY ThreadIs DEF Fail
<1>2. CASE w = "task"
  <2>1. /\ Close("task") /\ db' = db
        /\ tx' = IF tx.on = "task" THEN [on |-> "none", view |-> db] ELSE tx
    BY <1>2 DEF Fail, Close
  <2>2. db' \in Tables /\ tx' \in Txs
    BY <1>1, <2>1 DEF TypeInv, Txs
  <2>3. ViewInv'
    BY <1>1, <2>1, BeforeSelf DEF ViewInv, TypeInv
  <2>4. View("app")' = View("app")
    BY <2>1 DEF View
  <2>5. /\ job' \in [Workers -> Jobs] /\ job'["task"] = Idle /\ job'["route"] = job["route"]
    BY <1>1, <1>2, IdleIsOK DEF TypeInv, Workers
  <2>6. \A v \in Workers : JobOK(job'[v], View(Conn(v))')
    <3>1. JobOK(job'["task"], View(Conn("task"))')
      BY <2>5, IdleIsOK
    <3>2. JobOK(job["route"], View("app"))
      BY DEF Inv, Workers, Conn
    <3>3. JobOK(job'["route"], View(Conn("route"))')
      BY <2>4, <2>5, <3>2 DEF Conn
    <3> QED BY <3>1, <3>3 DEF Workers
  <2>7. RecallInv'
    BY <1>1, <2>4 DEF Inv, RecallInv
  <2> QED BY <1>1, <2>2, <2>3, <2>5, <2>6, <2>7 DEF Inv, TypeInv
<1>3. CASE w # "task"
  <2>1. Grown
    BY <1>1, <1>3, KeepStep DEF Fail
  <2> QED BY <1>1, <2>1, IdleIsOK, ThreadStep
<1> QED BY <1>2, <1>3

LEMMA RestartStep == ASSUME Inv, Restart PROVE Inv'
<1>1. /\ db' = db /\ tx' = [on |-> "none", view |-> db]
      /\ turn' = [at |-> "idle", recalled |-> {}] /\ job' = [w \in Workers |-> Idle]
  BY DEF Restart
<1>2. TypeInv'
  BY <1>1, IdleIsOK DEF Inv, TypeInv, Txs, Turns
<1>3. ViewInv'
  BY <1>1, BeforeSelf DEF Inv, TypeInv, ViewInv
<1>4. \A w \in Workers : JobOK(job'[w], View(Conn(w))')
  BY <1>1, IdleIsOK
<1>5. RecallInv'
  BY <1>1 DEF RecallInv
<1> QED BY <1>2, <1>3, <1>4, <1>5 DEF Inv

-----------------------------------------------------------------------------
(* Proposing and rejecting *)

LEMMA ProposeStep ==
    ASSUME Inv, NEW w \in Workers, NEW batch \in Batches, Propose(w, batch), UNCHANGED turn
    PROVE  Inv'
<1> DEFINE T == View(Conn(w))
           U == Proposed(T, batch)
           ids == Len(T.prop) + 1 .. Len(T.prop) + Len(batch)
           j == IF w = "route" \/ batch = <<>> THEN Idle
                ELSE [Idle EXCEPT !.at = "load", !.ids = ids]
<1>1. /\ T \in Tables /\ Sound(T) /\ turn \in Turns /\ TypeInv /\ ViewInv
  BY ThreadIs
<1>2. /\ CanWrite(Conn(w)) /\ db' = U /\ tx' = [on |-> "none", view |-> U]
      /\ job' = [job EXCEPT ![w] = j]
  BY DEF Propose
<1>3. ids \in SUBSET Nat
  <2>1. Len(batch) \in Nat /\ Len(T.prop) \in Nat
    BY <1>1, ProposedIsSound, Lengths
  <2> QED BY <2>1
<1> HIDE DEF T
<1>4. U \in Tables /\ Before(T, U) /\ Sound(U)
  BY <1>1, ProposedIsSound
<1> HIDE DEF U, ids
<1>5. Grown
  BY <1>1, <1>2, <1>4, PublishStep DEF T
<1>6. j \in Jobs /\ \A V : JobOK(j, V)
  <2>1. CASE w = "route" \/ batch = <<>>
    BY <2>1, IdleIsOK
  <2>2. CASE ~ (w = "route" \/ batch = <<>>)
    <3> DEFINE k == [Idle EXCEPT !.at = "load", !.ids = ids]
    <3>1. k \in Jobs /\ k.at = "load" /\ k.todo = {}
      BY <1>3, WithIdsIs
    <3>2. j = k
      BY <2>2
    <3> HIDE DEF k
    <3> QED BY <3>1, <3>2 DEF JobOK
  <2> QED BY <2>1, <2>2
<1> HIDE DEF j
<1> QED BY <1>1, <1>2, <1>5, <1>6, ThreadStep

LEMMA RejectStep == ASSUME Inv, Reject PROVE Inv'
<1>1. "route" \in Workers /\ Conn("route") = "app"
  BY DEF Workers, Conn
<1>2. /\ db \in Tables /\ Sound(db) /\ turn \in Turns /\ TypeInv /\ ViewInv
      /\ JobOK(job["route"], View("app")) /\ Len(View("app").prop) = Len(db.prop)
  BY <1>1, ThreadIs, ViewIs DEF TypeInv, ViewInv
<1>3. PICK i \in job["route"].ids : db' = [db EXCEPT !.prop[i].status = "rejected"]
  BY DEF Reject
<1>4. /\ CanWrite("own") /\ tx' = [on |-> "none", view |-> db'] /\ turn' = turn
      /\ job' = [job EXCEPT !["route"] = Idle]
  BY DEF Reject
<1>5. i \in 1 .. Len(db.prop)
  BY <1>2 DEF Reject, JobOK
<1>6. db' \in Tables /\ Before(db, db') /\ Sound(db')
  <2> DEFINE U == [db EXCEPT !.prop[i].status = "rejected"]
  <2>1. U \in Tables /\ Before(db, U) /\ Sound(U)
    BY <1>2, <1>5, StatusIsSound
  <2> QED BY <1>3, <2>1
<1>7. View("own") = db
  BY <1>2, <1>4 DEF View, CanWrite, ViewInv, TypeInv, Txs, Sides
<1>8. Grown
  BY <1>2, <1>4, <1>6, <1>7, PublishStep
<1> QED BY <1>1, <1>2, <1>4, <1>8, IdleIsOK, ThreadStep

LEMMA RouteStep == ASSUME Inv, Route PROVE Inv'
<1>1. "route" \in Workers /\ Conn("route") = "app"
  BY DEF Workers, Conn
<1>2. turn \in Turns /\ TypeInv /\ ViewInv
  BY <1>1, ThreadIs
<1>3. CASE RouteProposes
  BY <1>1, <1>3, ProposeStep DEF RouteProposes
<1>4. CASE RouteCommits
  <2>1. PICK ids \in SUBSET DOMAIN db.prop, orders \in SeqOf(Manual, 1) :
           job' = [job EXCEPT !["route"] =
                     [at |-> "load", ids |-> ids, todo |-> {}, orders |-> orders]]
    BY <1>4 DEF RouteCommits
  <2> DEFINE j == [at |-> "load", ids |-> ids, todo |-> {}, orders |-> orders]
  <2>2. ids \in SUBSET Nat
    BY <1>2, Fields DEF TypeInv
  <2>3. orders \in Seq([op : Ops, target : Nat])
    <3>1. PICK n \in 0 .. 1 : orders \in [1 .. n -> Manual]
      BY <2>1, Zenon DEF SeqOf
    <3>2. orders \in [1 .. n -> [op : Ops, target : Nat]]
      BY <3>1, MemoryAssumption
    <3>3. n \in Nat
      OBVIOUS
    <3> QED BY <3>2, <3>3, FunctionIsSeq
  <2>4. j \in Jobs /\ \A T : JobOK(j, T)
    BY <2>2, <2>3 DEF Jobs, JobOK
  <2>5. Grown /\ turn' = turn
    BY <1>2, <1>4, KeepStep DEF RouteCommits
  <2> QED BY <1>1, <1>2, <2>1, <2>4, <2>5, ThreadStep
<1>5. CASE RouteRejects
  <2>1. PICK i \in DOMAIN db.prop :
           job' = [job EXCEPT !["route"] = [Idle EXCEPT !.at = "reject", !.ids = {i}]]
    BY <1>5 DEF RouteRejects
  <2> DEFINE j == [Idle EXCEPT !.at = "reject", !.ids = {i}]
  <2>2. i \in 1 .. Len(db.prop) /\ i \in Nat
    BY <1>2, Fields DEF TypeInv
  <2>3. Len(View("app").prop) = Len(db.prop)
    BY <1>2, ViewIs
  <2>4. j \in Jobs /\ JobOK(j, View("app"))
    <3>1. j \in Jobs /\ j.at = "reject" /\ j.ids = {i} /\ j.todo = {}
      <4>1. {i} \in SUBSET Nat
        BY <2>2
      <4> QED BY <4>1, WithIdsIs
    <3> HIDE DEF j
    <3> QED BY <2>2, <2>3, <3>1 DEF JobOK
  <2>5. Grown /\ turn' = turn /\ View("app")' = View("app")
    BY <1>2, <1>5, KeepStep DEF RouteRejects
  <2> HIDE DEF j
  <2>6. job' = [job EXCEPT !["route"] = j]
    BY <2>1 DEF j
  <2> QED BY <1>1, <1>2, <2>4, <2>5, <2>6, ThreadStep
<1>6. CASE Reject
  BY <1>6, RejectStep
<1>7. CASE RejectFails
  <2>1. Grown /\ turn' = turn /\ job' = [job EXCEPT !["route"] = Idle]
    BY <1>2, <1>7, KeepStep DEF RejectFails
  <2> QED BY <1>1, <1>2, <2>1, IdleIsOK, ThreadStep
<1>8. CASE Committing("route")
  BY <1>1, <1>8, LoadStep, ApplyStep, SucceedStep, ApplyTracelessStep, SkipStep, MarkStep,
     CommitIsKept DEF Committing
<1>9. CASE Fail("route")
  BY <1>1, <1>9, FailStep
<1> QED BY <1>3, <1>4, <1>5, <1>6, <1>7, <1>8, <1>9 DEF Route

LEMMA TaskStep == ASSUME Inv, Task PROVE Inv'
<1>1. "task" \in Workers
  BY DEF Workers
<1>2. /\ turn \in Turns /\ TypeInv /\ ViewInv /\ job["task"] \in Jobs
      /\ JobOK(job["task"], View(Conn("task")))
  BY <1>1, ThreadIs
<1>3. CASE StartTask
  <2> DEFINE j == [job["task"] EXCEPT !.at = "propose"]
  <2>1. j \in Jobs /\ j.at = "propose" /\ j.todo = job["task"].todo
    BY <1>2, MovedIs
  <2>2. job' = [job EXCEPT !["task"] = j]
    BY <1>3 DEF StartTask
  <2> HIDE DEF j
  <2>3. JobOK(j, View(Conn("task")))
    BY <1>2, <2>1 DEF JobOK
  <2>4. Grown /\ turn' = turn /\ View(Conn("task"))' = View(Conn("task"))
    BY <1>2, <1>3, KeepStep DEF StartTask
  <2> QED BY <1>1, <1>2, <2>1, <2>2, <2>3, <2>4, ThreadStep
<1>4. CASE TaskProposes
  BY <1>1, <1>4, ProposeStep DEF TaskProposes
<1>5. CASE Committing("task")
  BY <1>1, <1>5, LoadStep, ApplyStep, SucceedStep, ApplyTracelessStep, SkipStep, MarkStep,
     CommitIsKept DEF Committing
<1>6. CASE Fail("task")
  BY <1>1, <1>6, FailStep
<1> QED BY <1>3, <1>4, <1>5, <1>6 DEF Task

-----------------------------------------------------------------------------
(* The turn *)

LEMMA LogInfluenceStep == ASSUME Inv, LogInfluence PROVE Inv'
<1> DEFINE T == View("app")
           U == [T EXCEPT !.infl = @ \cup turn.recalled]
<1>1. /\ turn \in Turns /\ TypeInv /\ ViewInv /\ "app" \in Sides
      /\ T \in Tables /\ Sound(T) /\ turn.recalled \subseteq 1 .. Len(T.mem)
  BY ViewIs DEF Inv, TypeInv, Sides, RecallInv
<1>2. CanWrite("app") /\ Write("app", U) /\ turn' = [turn EXCEPT !.at = "written"] /\ job' = job
  BY DEF LogInfluence
<1> HIDE DEF T
<1>3. /\ U \in Tables /\ U.prop = T.prop /\ U.log = T.log /\ U.mem = T.mem
      /\ U.infl = T.infl \cup turn.recalled
  BY <1>1 DEF Tables, Turns
<1> HIDE DEF U
<1>4. Before(T, U) /\ Sound(U)
  <2>1. Before(T, U)
    BY <1>1, <1>3, BeforeSelf DEF Before
  <2>2. Earned(U)
    BY <1>1, <1>3, <2>1, AppliedStays DEF Sound, Earned
  <2> QED BY <1>1, <1>3, <2>1, <2>2 DEF Sound
<1>5. Grown
  BY <1>1, <1>2, <1>3, <1>4, WriteStep DEF T
<1>6. turn' \in Turns /\ turn'.recalled = turn.recalled
  BY <1>1, <1>2 DEF Turns
<1>7. RecallInv'
  <2>1. View("app")' = U
    BY <1>1, <1>2, <1>3, <1>4, WriteStep DEF T
  <2> QED BY <1>1, <1>3, <1>6, <2>1 DEF RecallInv
<1> QED BY <1>2, <1>5, <1>6, <1>7, OtherStep

LEMMA TurnStep ==
    ASSUME Inv, Recall \/ LogInfluence \/ TurnFails \/ TurnCommits
    PROVE  Inv'
<1>1. /\ turn \in Turns /\ TypeInv /\ ViewInv /\ "app" \in Sides /\ View("app") \in Tables
  BY ViewIs DEF Inv, TypeInv, Sides
<1>2. CASE Recall
  <2>1. Candidates(View("app")) \in SUBSET Nat
    BY <1>1, Fields DEF Candidates
  <2>2. turn' \in Turns /\ turn'.recalled = Candidates(View("app"))
    BY <1>2, <2>1 DEF Recall, Turns
  <2>3. Grown /\ View("app")' = View("app")
    BY <1>1, <1>2, KeepStep DEF Recall
  <2>4. RecallInv'
    BY <1>1, <2>2, <2>3, Fields DEF RecallInv, Candidates
  <2> QED BY <1>1, <1>2, <2>2, <2>3, <2>4, OtherStep DEF Recall
<1>3. CASE LogInfluence
  BY <1>3, LogInfluenceStep
<1>4. CASE TurnFails
  <2>1. turn' \in Turns /\ RecallInv'
    BY <1>4 DEF TurnFails, Turns, RecallInv
  <2> QED BY <1>1, <1>4, <2>1, KeepStep, OtherStep DEF TurnFails
<1>5. CASE TurnCommits
  <2>1. turn' \in Turns /\ RecallInv'
    BY <1>5 DEF TurnCommits, Turns, RecallInv
  <2> QED BY <1>1, <1>5, <2>1, CommitStep, OtherStep DEF TurnCommits
<1> QED BY <1>2, <1>3, <1>4, <1>5

-----------------------------------------------------------------------------
(* The theorem *)

LEMMA InitInv == Init => Inv
<1> SUFFICES ASSUME Init PROVE Inv
  OBVIOUS
<1> DEFINE first == [status |-> "active", replaces |-> 0]
<1>1. db = [mem |-> <<first>>, prop |-> <<>>, log |-> <<>>, infl |-> {}]
  BY DEF Init
<1>2. <<first>> \in Seq(Mems) /\ <<>> \in Seq(Props) /\ <<>> \in Seq(Logs)
  <2>1. first \in Mems
    BY DEF Mems
  <2> HIDE DEF first
  <2> QED BY <2>1
<1> HIDE DEF first
<1>3. db \in Tables /\ db.prop = <<>>
  BY <1>1, <1>2, Fields
<1>4. Sound(db) /\ Before(db, db)
  BY <1>1, <1>3, BeforeSelf DEF Sound, Earned
<1>5. tx \in Txs /\ turn \in Turns /\ tx.view = db
  BY <1>3 DEF Init, Txs, Turns
<1>6. job \in [Workers -> Jobs] /\ \A w \in Workers : JobOK(job[w], View(Conn(w)))
  BY IdleIsOK DEF Init
<1>7. RecallInv
  BY DEF Init, RecallInv
<1> QED BY <1>3, <1>4, <1>5, <1>6, <1>7 DEF Inv, TypeInv, ViewInv

LEMMA StepInv == Inv /\ [Next]_vars => Inv'
<1> SUFFICES ASSUME Inv, [Next]_vars PROVE Inv'
  OBVIOUS
<1>1. CASE Recall \/ LogInfluence \/ TurnFails \/ TurnCommits
  BY <1>1, TurnStep
<1>2. CASE Task
  BY <1>2, TaskStep
<1>3. CASE Route
  BY <1>3, RouteStep
<1>4. CASE Restart
  BY <1>4, RestartStep
<1>5. CASE UNCHANGED vars
  <2>1. UNCHANGED <<db, tx>> /\ turn' = turn /\ job' = job
    BY <1>5 DEF vars
  <2>2. Grown /\ RecallInv'
    BY <2>1, KeepStep, RecallStays DEF Inv
  <2> QED BY <2>1, <2>2, OtherStep DEF Inv, TypeInv
<1> QED BY <1>1, <1>2, <1>3, <1>4, <1>5 DEF Next

LEMMA InvMeansApplied == Inv => CommittedIsApplied
<1> SUFFICES ASSUME Inv, NEW i \in DOMAIN db.prop,
                    db.prop[i].status = "committed", db.prop[i].op \in Lasting
             PROVE  /\ Times(i) > 0
                    /\ db.prop[i].op = "supersede" =>
                          \E m \in DOMAIN db.mem : db.mem[m].replaces = db.prop[i].target
  BY DEF CommittedIsApplied, Lasting
<1>1. db \in Tables /\ Sound(db)
  BY DEF Inv, TypeInv, ViewInv
<1>2. /\ DOMAIN db.prop = 1 .. Len(db.prop) /\ DOMAIN db.mem = 1 .. Len(db.mem)
      /\ DOMAIN db.log = 1 .. Len(db.log) /\ Len(db.log) \in Nat
  BY <1>1, Fields, Lengths
<1>3. Applied(db, i)
  BY <1>1, <1>2 DEF Sound, Earned
<1> DEFINE entries == {k \in DOMAIN db.log : db.log[k].prop = i}
<1>4. entries # {} /\ entries \in SUBSET (1 .. Len(db.log))
  BY <1>2, <1>3 DEF Applied, HasLog
<1>5. IsFiniteSet(1 .. Len(db.log))
  BY <1>2, FS_Interval
<1> HIDE DEF entries
<1>6. IsFiniteSet(entries)
  BY <1>4, <1>5, FS_Subset
<1>7. Cardinality(entries) \in Nat /\ Cardinality(entries) # 0
  BY <1>4, <1>6, FS_CardinalityType, FS_EmptySet
<1>8. Times(i) > 0
  BY <1>7 DEF Times, entries
<1> QED BY <1>2, <1>3, <1>8 DEF Applied, HasSuccessor

\* A proposal that the tables call committed has been carried out: managed.py marks
\* it in the transaction that carries it out, and only after that, so that neither
\* a commit of the shared connection by another thread, nor a failure, nor a
\* restart leaves a mark without its effect, for any operations and any number of
\* turns, tasks, requests and restarts.
THEOREM MarksAreEarned == Spec => []CommittedIsApplied
<1>1. Init => Inv
  BY InitInv
<1>2. Inv /\ [Next]_vars => Inv'
  BY StepInv
<1>3. Inv => CommittedIsApplied
  BY InvMeansApplied
<1> QED BY <1>1, <1>2, <1>3, PTL DEF Spec

\* The influence log names memories that are there: a turn logs what it has recalled
\* on the connection it recalled it from, which nobody rolls back under it.
THEOREM InfluenceIsThere == Spec => []InfluenceHasItsMemories
<1>1. Init => Inv
  BY InitInv
<1>2. Inv /\ [Next]_vars => Inv'
  BY StepInv
<1>3. Inv => InfluenceHasItsMemories
  BY Fields DEF Inv, TypeInv, ViewInv, Sound, InfluenceHasItsMemories
<1> QED BY <1>1, <1>2, <1>3, PTL DEF Spec

-----------------------------------------------------------------------------
(* Types *)

\* The committed tables only grow.
LEMMA CommittedGrows ==
    ASSUME Inv, [Next]_vars
    PROVE  Before(db, db') /\ Len(db.prop) <= Len(db'.prop)
<1> SUFFICES Before(db, db')
  BY DEF Before
<1>1. /\ TypeInv /\ ViewInv /\ db \in Tables /\ Sound(db)
      /\ \A c : View(c) \in Tables /\ Sound(View(c)) /\ Before(db, View(c))
  BY ViewIs DEF Inv, TypeInv, ViewInv
<1>2. CASE db' = db
  BY <1>1, <1>2, BeforeSelf
<1>3. CASE \E c : CommitOn(c)
  BY <1>1, <1>3, Zenon DEF CommitOn
<1>4. CASE \E w \in Workers, batch \in Batches : Propose(w, batch)
  <2>1. PICK w \in Workers, batch \in Batches : Propose(w, batch)
    BY <1>4
  <2> DEFINE T == View(Conn(w))
  <2>2. T \in Tables /\ Sound(T) /\ Before(db, T) /\ db' = Proposed(T, batch)
    BY <1>1, <2>1, Zenon DEF Propose
  <2> HIDE DEF T
  <2>3. Proposed(T, batch) \in Tables /\ Before(T, Proposed(T, batch))
    BY <2>2, ProposedIsSound
  <2> QED BY <1>1, <2>2, <2>3, BeforeInTurn
<1>5. CASE Reject
  <2>1. PICK i \in job["route"].ids : db' = [db EXCEPT !.prop[i].status = "rejected"]
    BY <1>5 DEF Reject
  <2>2. i \in 1 .. Len(db.prop)
    <3>1. "route" \in Workers
      BY DEF Workers
    <3>2. JobOK(job["route"], View("app")) /\ Len(View("app").prop) = Len(db.prop)
      BY <1>1, <3>1, ThreadIs, ViewIs DEF Conn
    <3> QED BY <1>5, <3>2 DEF Reject, JobOK
  <2> DEFINE U == [db EXCEPT !.prop[i].status = "rejected"]
  <2>3. Before(db, U)
    BY <1>1, <2>2, StatusIsSound
  <2> QED BY <2>1, <2>3
<1>6. db' = db \/ (\E c : CommitOn(c)) \/ Reject
      \/ \E w \in Workers, batch \in Batches : Propose(w, batch)
  <2>1. CASE Task
    BY <2>1 DEF Task, StartTask, TaskProposes, Committing, Load, Apply, Succeed, ApplyTraceless,
       Skip, Mark, Commit, Fail, Close, Write, Workers
  <2>2. CASE Route
    BY <2>2 DEF Route, RouteProposes, RouteCommits, RouteRejects, RejectFails,
       Committing, Load, Apply, Succeed, ApplyTraceless,
       Skip, Mark, Commit, Fail, Close, Write, Workers
  <2>3. CASE Recall \/ LogInfluence \/ TurnFails \/ TurnCommits \/ Restart \/ UNCHANGED vars
    BY <2>3 DEF Recall, LogInfluence, TurnFails, TurnCommits, Restart, Write, vars
  <2> QED BY <2>1, <2>2, <2>3 DEF Next
<1> QED BY <1>2, <1>3, <1>4, <1>5, <1>6

\* Turns are counted: those that may come, the one under way and those whose tasks wait.
CountInv ==
    /\ left \in [turns : Nat, requests : Nat] /\ queue \in Nat
    /\ queue + left.turns + (IF turn.at = "idle" THEN 0 ELSE 1) <= MaxTurns

SeenInv ==
    /\ seen \in [raced : SUBSET Nat, handled : SUBSET Nat]
    /\ seen.raced \cup seen.handled \subseteq 1 .. Len(db.prop)

\* What a thread has carried out and not yet marked is one of its proposals.
LEMMA HalfIs ==
    ASSUME Inv, NEW w \in Workers
    PROVE  Half(w) = IF job[w].at \in {"succeed", "mark"} /\ job[w].todo # {}
                     THEN {Min(job[w].todo)} ELSE {}
<1>1. CASE job[w].at \notin {"succeed", "mark"}
  BY <1>1 DEF Half
<1>2. CASE job[w].at \in {"succeed", "mark"} /\ job[w].todo # {}
  <2>1. Min(job[w].todo) \in job[w].todo /\ 0 \notin job[w].todo
    <3>1. job[w].todo \in SUBSET Nat /\ JobOK(job[w], View(Conn(w)))
      BY ThreadIs DEF Jobs
    <3>2. Min(job[w].todo) \in job[w].todo
      BY <1>2, <3>1, MinIsMember
    <3> QED BY <3>1, <3>2 DEF JobOK
  <2>2. Now(w).id = Min(job[w].todo)
    BY <1>2 DEF Now, Item
  <2> QED BY <1>2, <2>1, <2>2 DEF Half
<1>3. CASE job[w].at \in {"succeed", "mark"} /\ job[w].todo = {}
  <2>1. Now(w).id = 0
    BY <1>3 DEF Now
  <2> QED BY <1>3, <2>1 DEF Half
<1> QED BY <1>1, <1>2, <1>3

LEMMA CountStep == ASSUME TypeInv, CountInv, [Next]_vars PROVE CountInv'
<1>0. /\ left \in [turns : Nat, requests : Nat] /\ queue \in Nat /\ MaxTurns \in Nat
      /\ queue + left.turns + (IF turn.at = "idle" THEN 0 ELSE 1) <= MaxTurns
      /\ turn \in Turns
  BY MemoryAssumption DEF CountInv, TypeInv
<1>1. CASE Recall
  BY <1>0, <1>1 DEF Recall, CountInv
<1>2. CASE LogInfluence
  <2>1. turn'.at = "written"
    BY <1>0, <1>2 DEF LogInfluence, Turns
  <2> QED BY <1>0, <1>2, <2>1 DEF LogInfluence, CountInv
<1>3. CASE TurnFails
  BY <1>0, <1>3 DEF TurnFails, CountInv
<1>4. CASE TurnCommits
  BY <1>0, <1>4 DEF TurnCommits, CountInv
<1>5. CASE Restart
  BY <1>0, <1>5 DEF Restart, CountInv
<1>6. CASE Task
  <2>1. /\ left' = left /\ turn' = turn
        /\ (queue' = queue \/ (queue > 0 /\ queue' = queue - 1))
    BY <1>6 DEF Task, StartTask, TaskProposes, Committing, Load, Apply, Succeed,
       ApplyTraceless, Skip, Mark, Commit, Fail
  <2> QED BY <1>0, <2>1 DEF CountInv
<1>7. CASE Route
  <2>1. /\ \/ left' = left
           \/ left.requests > 0 /\ left' = [left EXCEPT !.requests = @ - 1]
        /\ turn' = turn /\ queue' = queue
    BY <1>7 DEF Route, Request, RouteProposes, RouteCommits, RouteRejects, Reject, RejectFails,
       Committing, Load, Apply, Succeed, ApplyTraceless, Skip, Mark, Commit, Fail
  <2> QED BY <1>0, <2>1 DEF CountInv
<1>8. CASE UNCHANGED vars
  BY <1>0, <1>8 DEF vars, CountInv
<1> QED BY <1>1, <1>2, <1>3, <1>4, <1>5, <1>6, <1>7, <1>8 DEF Next

LEMMA SeenStep == ASSUME Inv, SeenInv, [Next]_vars PROVE SeenInv'
<1> DEFINE Ids == 1 .. Len(db.prop)
<1>1. seen.raced \subseteq Ids /\ seen.handled \subseteq Ids
  BY DEF SeenInv
<1>2. /\ Len(db.prop) \in Nat /\ Len(db'.prop) \in Nat /\ DOMAIN db.prop = Ids
      /\ \A c : DOMAIN View(c).prop = Ids
  <2>1. db \in Tables /\ db' \in Tables /\ TypeInv /\ ViewInv
    BY StepInv DEF Inv, TypeInv
  <2>2. \A c : View(c) \in Tables /\ Len(View(c).prop) = Len(db.prop)
    BY <2>1, ViewIs
  <2> QED BY <2>1, <2>2, Fields, Lengths
<1>3. Ids \subseteq 1 .. Len(db'.prop)
  BY <1>2, CommittedGrows
<1> HIDE DEF Ids
<1>4. \E r \in SUBSET Ids, h \in SUBSET Ids : seen' = [raced |-> r, handled |-> h]
  <2>0. seen = [raced |-> seen.raced, handled |-> seen.handled]
    BY DEF SeenInv
  <2>1. ASSUME seen' = seen PROVE <1>4
    BY <1>1, <2>0, <2>1
  <2>2. ASSUME NEW w \in Workers, Load(w) PROVE <1>4
    <3> DEFINE r == seen.raced \cup (Waiting(View(Conn(w)), job[w].ids) \cap (Holds(Other(w)) \cup Unsettled))
    <3>1. r \in SUBSET Ids
      BY <1>1, <1>2 DEF Waiting
    <3>2. seen' = [seen EXCEPT !.raced = r]
      BY <2>2 DEF Load
    <3> HIDE DEF r
    <3>3. seen' = [raced |-> r, handled |-> seen.handled]
      BY <2>0, <3>2
    <3> QED BY <1>1, <3>1, <3>3
  <2>3. ASSUME TurnCommits PROVE <1>4
    <3> DEFINE r == seen.raced \cup Half("route")
    <3>1. r \in SUBSET Ids
      <4>0. "route" \in Workers
        BY DEF Workers
      <4>1. job["route"].todo \subseteq Ids /\ job["route"].todo \in SUBSET Nat
        BY <1>2, <4>0, ThreadIs, ViewIs DEF JobOK, Ids, Jobs
      <4>2. Half("route") \subseteq job["route"].todo
        BY <4>0, <4>1, HalfIs, MinIsMember
      <4> QED BY <1>1, <4>1, <4>2
    <3>2. seen' = [seen EXCEPT !.raced = r]
      BY <2>3 DEF TurnCommits
    <3> HIDE DEF r
    <3>3. seen' = [raced |-> r, handled |-> seen.handled]
      BY <2>0, <3>2
    <3> QED BY <1>1, <3>1, <3>3
  <2>4. ASSUME RouteCommits PROVE <1>4
    <3>1. PICK ids \in SUBSET Ids : seen' = [seen EXCEPT !.handled = seen.handled \cup ids]
      BY <1>2, <2>4 DEF RouteCommits
    <3>2. seen' = [raced |-> seen.raced, handled |-> seen.handled \cup ids]
      BY <2>0, <3>1
    <3> QED BY <1>1, <3>2
  <2>5. ASSUME RouteRejects PROVE <1>4
    <3>1. PICK i \in Ids :
             seen' = [handled |-> seen.handled \cup {i},
                      raced |-> seen.raced \cup ({i} \cap (Holds("task") \cup Unsettled))]
      BY <1>2, <2>5 DEF RouteRejects
    <3> DEFINE r == seen.raced \cup ({i} \cap (Holds("task") \cup Unsettled))
    <3>2. r \in SUBSET Ids /\ seen.handled \cup {i} \in SUBSET Ids
      BY <1>1
    <3>3. seen' = [raced |-> r, handled |-> seen.handled \cup {i}]
      BY <3>1
    <3> HIDE DEF r
    <3> QED BY <3>2, <3>3
  <2>6. CASE Task
    BY <2>1, <2>2, <2>6 DEF Task, StartTask, TaskProposes, Committing, Apply, Succeed,
       ApplyTraceless, Skip, Mark, Commit, Fail, Workers
  <2>7. CASE Route
    BY <2>1, <2>2, <2>4, <2>5, <2>7 DEF Route, RouteProposes, Reject, RejectFails,
       Committing, Apply, Succeed, ApplyTraceless, Skip, Mark, Commit, Fail, Workers
  <2>8. CASE Recall \/ LogInfluence \/ TurnFails \/ Restart \/ UNCHANGED vars
    BY <2>1, <2>8 DEF Recall, LogInfluence, TurnFails, Restart, vars
  <2> QED BY <2>3, <2>6, <2>7, <2>8 DEF Next
<1> QED BY <1>2, <1>3, <1>4 DEF SeenInv, Ids

LEMMA MemoryIsTyped == ASSUME Inv, CountInv, SeenInv PROVE MemoryTypeOK
<1>1. /\ db \in Tables /\ tx \in Txs /\ turn \in Turns /\ job \in [Workers -> Jobs]
      /\ tx.view \in Tables
  BY DEF Inv, TypeInv, Txs
<1>2. queue \in 0 .. MaxTurns
  BY MemoryAssumption DEF CountInv
<1>3. seen.raced \cup seen.handled \subseteq DOMAIN db.prop
  BY <1>1, Fields DEF SeenInv
<1>4. IF tx.on = "none" THEN tx.view = db
      ELSE IsPrefix(db.log, tx.view.log) /\ Len(db.mem) <= Len(tx.view.mem)
  <2>1. (tx.on = "none" => tx.view = db) /\ Before(db, tx.view)
    BY DEF Inv, ViewInv
  <2>2. db.log \in Seq(Logs) /\ tx.view.log \in Seq(Logs)
    BY <1>1, Fields
  <2>3. IsPrefix(db.log, tx.view.log)
    BY <2>1, <2>2 DEF Before, IsPrefix
  <2> QED BY <2>1, <2>3 DEF Before
<1> QED BY <1>1, <1>2, <1>3, <1>4 DEF MemoryTypeOK, Txs, Turns, Jobs, Sides

\* Type correctness of the tables, the transaction and the threads of memory/managed.py
\* and loop.py, for any operations and any number of turns, tasks, requests and
\* restarts: without a transaction everybody sees what is committed, and with one its
\* thread sees that and more.
THEOREM MemoryTypeCorrect == Spec => []MemoryTypeOK
<1>1. Init => Inv /\ CountInv /\ SeenInv
  <2> SUFFICES ASSUME Init PROVE CountInv /\ SeenInv
    BY InitInv
  <2>1. CountInv
    BY MemoryAssumption DEF Init, CountInv
  <2>2. SeenInv
    BY DEF Init, SeenInv
  <2> QED BY <2>1, <2>2
<1>2. Inv /\ CountInv /\ SeenInv /\ [Next]_vars => (Inv /\ CountInv /\ SeenInv)'
  BY StepInv, CountStep, SeenStep DEF Inv
<1>3. Inv /\ CountInv /\ SeenInv => MemoryTypeOK
  BY MemoryIsTyped
<1> QED BY <1>1, <1>2, <1>3, PTL DEF Spec

-----------------------------------------------------------------------------
(* A proposal is decided once *)

Single(T, i) == \A k, l \in 1 .. Len(T.log) : T.log[k].prop = i /\ T.log[l].prop = i => k = l
Kept(T, i) == Single(T, i) /\ (T.prop[i].status = "rejected" => ~ HasLog(T, i))
Open(T, i) == T.prop[i].status = "pending" /\ HasLog(T, i)

\* The proposals that a thread may still decide, and the one it has carried out and
\* not yet marked.
OwnOf(j) == IF j.at \in {"apply", "succeed", "mark"} THEN j.todo
            ELSE IF j.at = "reject" THEN j.ids ELSE {}
BegunOf(j) == IF j.at \in {"succeed", "mark"} /\ j.todo # {} THEN {Min(j.todo)} ELSE {}
Own(w) == OwnOf(job[w])
Begun(w) == BegunOf(job[w])

\* What holds of a proposal that no two have had in hand at once: at most one entry,
\* and none of it while it is pending, but in the transaction of the thread that has
\* begun with it; and one thread at most to decide it.
OnceAt(i) ==
    /\ Kept(db, i) /\ Kept(tx.view, i) /\ ~ Open(db, i)
    /\ Open(tx.view, i) => \E w \in Workers : tx.on = Conn(w) /\ i \in Begun(w)
    /\ \A w \in Workers : i \in Own(w) =>
          db.prop[i].status = "pending" /\ tx.view.prop[i].status = "pending"
    /\ ~ (i \in Own("task") /\ i \in Own("route"))

LogOK(T) == \A k \in 1 .. Len(T.log) : T.log[k].prop <= Len(T.prop)

HoldInv == \A w \in Workers : job[w].todo \subseteq job[w].ids
LogInv == LogOK(db) /\ LogOK(tx.view)
OnceInv == \A i \in 1 .. Len(db.prop) : i \notin seen.raced => OnceAt(i)

-----------------------------------------------------------------------------
(* A proposal in tables that change *)

\* Tables that have about the same of a proposal.
Same(T, U, i) ==
    /\ U.prop[i].status = T.prop[i].status /\ (HasLog(U, i) <=> HasLog(T, i))
    /\ Single(T, i) => Single(U, i)

LEMMA SameKeeps ==
    ASSUME NEW T, NEW U, NEW i, Same(T, U, i)
    PROVE  (Kept(T, i) => Kept(U, i)) /\ (Open(U, i) <=> Open(T, i))
  BY DEF Same, Kept, Open

\* An entry of another proposal, and one of its own.
LEMMA LoggedOther ==
    ASSUME NEW T \in Tables, NEW U, NEW e, U.log = Append(T.log, e), NEW i,
           U.prop[i].status = T.prop[i].status
    PROVE  /\ e.prop # i => Same(T, U, i)
           /\ e.prop = i /\ ~ HasLog(T, i) => Single(U, i)
<1>1. Len(T.log) \in Nat /\ T.log \in Seq(Logs)
  BY Lengths, Fields
<1>2. /\ Len(U.log) = Len(T.log) + 1 /\ U.log[Len(T.log) + 1] = e
      /\ \A k \in 1 .. Len(T.log) : U.log[k] = T.log[k]
  BY <1>1
<1>3. ASSUME e.prop # i PROVE Same(T, U, i)
  <2>1. \A k \in 1 .. Len(U.log) : U.log[k].prop = i => k \in 1 .. Len(T.log)
    BY <1>1, <1>2, <1>3
  <2>2. \A k \in 1 .. Len(T.log) : k \in 1 .. Len(U.log)
    BY <1>1, <1>2
  <2>3. HasLog(U, i) <=> HasLog(T, i)
    BY <1>2, <2>1, <2>2 DEF HasLog
  <2>4. Single(T, i) => Single(U, i)
    BY <1>2, <2>1 DEF Single
  <2> QED BY <2>3, <2>4 DEF Same
<1>4. ASSUME e.prop = i, ~ HasLog(T, i) PROVE Single(U, i)
  <2>1. \A k \in 1 .. Len(U.log) : U.log[k].prop = i => k = Len(T.log) + 1
    BY <1>1, <1>2, <1>4 DEF HasLog
  <2> QED BY <2>1 DEF Single
<1> QED BY <1>3, <1>4

\* The tables T of a proposal's operation, or of an added memory, get one entry, its own.
LogsFor(T, U, id) == U.prop = T.prop /\ \E e : U.log = Append(T.log, e) /\ e.prop = id

LEMMA LoggedLogs ==
    ASSUME NEW T \in Tables, NEW mem, NEW op, NEW m, NEW id
    PROVE  LogsFor(T, Logged([T EXCEPT !.mem = mem], op, m, id), id)
<1> DEFINE V == [T EXCEPT !.mem = mem]
           e == [op |-> op, mem |-> m, prop |-> id]
           U == Logged(V, op, m, id)
<1>1. V = [mem |-> mem, prop |-> T.prop, log |-> T.log, infl |-> T.infl]
  BY Updated
<1> HIDE DEF V
<1>2. U = [V EXCEPT !.log = Append(V.log, e)]
  BY DEF Logged
<1>3. U.prop = T.prop /\ U.log = Append(T.log, e) /\ e.prop = id
  BY <1>1, <1>2
<1> HIDE DEF e, U
<1>4. LogsFor(T, U, id)
  BY <1>3, Zenon DEF LogsFor
<1> QED BY <1>4 DEF U, V

LEMMA AddedLogs ==
    ASSUME NEW T \in Tables, NEW target, NEW id
    PROVE  LogsFor(T, Added(T, target, id), id)
  BY LoggedLogs DEF Added

LEMMA EffectLogs ==
    ASSUME NEW T \in Tables, NEW id, NEW op, NEW target
    PROVE  LogsFor(T, Effect(T, [id |-> id, op |-> op, target |-> target]), id)
<1> DEFINE it == [id |-> id, op |-> op, target |-> target]
<1>1. CASE op = "add"
  <2>1. Effect(T, it) = Added(T, 0, id)
    BY <1>1 DEF Effect
  <2> QED BY <2>1, AddedLogs
<1>2. CASE op = "update"
  <2>1. Effect(T, it) = Logged(T, op, target, id)
    BY <1>2 DEF Effect
  <2>2. [T EXCEPT !.mem = T.mem] = T
    BY DEF Tables
  <2>3. LogsFor(T, Logged([T EXCEPT !.mem = T.mem], op, target, id), id)
    BY LoggedLogs
  <2> QED BY <2>1, <2>2, <2>3
<1>3. CASE op \notin {"add", "update"}
  <2> DEFINE mem == [T.mem EXCEPT ![target].status = Status[op]]
  <2>1. Effect(T, it) = Logged([T EXCEPT !.mem = mem], op, target, id)
    BY <1>3 DEF Effect
  <2> HIDE DEF mem
  <2> QED BY <2>1, LoggedLogs
<1> QED BY <1>1, <1>2, <1>3

-----------------------------------------------------------------------------
(* Steps and a proposal they are not about *)

\* No thread takes the proposal in hand, and those that have begun with it on the
\* connection c, if any, go on.
Minds(i, c) ==
    /\ \A w \in Workers : i \in Own(w)' => i \in Own(w)
    /\ \A w \in Workers : Conn(w) = c /\ i \in Begun(w) => i \in Begun(w)'

LEMMA OnceKeeps ==
    ASSUME NEW i, OnceAt(i), UNCHANGED <<db, tx>>, Minds(i, tx.on)
    PROVE  OnceAt(i)'
<1>1. /\ (Kept(db, i) /\ Kept(tx.view, i) /\ ~ Open(db, i))'
      /\ (Open(tx.view, i) <=> Open(tx.view, i)')
  BY DEF OnceAt
<1>2. Open(tx.view, i)' => \E w \in Workers : tx'.on = Conn(w) /\ i \in Begun(w)'
  BY <1>1 DEF OnceAt, Minds
<1> QED BY <1>1, <1>2 DEF OnceAt, Minds, Workers

\* A connection sees what holds of the proposal.
LEMMA OnceSeen ==
    ASSUME TypeInv, ViewInv, NEW i, OnceAt(i), NEW c, CanWrite(c)
    PROVE  /\ Kept(View(c), i)
           /\ Open(View(c), i) => \E w \in Workers : tx.on = c /\ tx.on = Conn(w) /\ i \in Begun(w)
           /\ \A w \in Workers : i \in Own(w) => View(c).prop[i].status = "pending"
  BY DEF OnceAt, View

LEMMA OnceWrites ==
    ASSUME TypeInv, ViewInv, NEW i, OnceAt(i), NEW c \in Sides, CanWrite(c), NEW U, Write(c, U),
           Same(View(c), U, i), Minds(i, c)
    PROVE  OnceAt(i)'
<1>1. db' = db /\ tx'.view = U /\ tx'.on = c
  BY DEF Write
<1>2. Kept(U, i) /\ (Open(U, i) <=> Open(View(c), i))
  BY OnceSeen, SameKeeps
<1>3. Open(U, i) => \E w \in Workers : c = Conn(w) /\ i \in Begun(w)'
  BY <1>2, OnceSeen DEF Minds
<1>4. \A w \in Workers : i \in Own(w)' => U.prop[i].status = "pending"
  BY OnceSeen DEF Minds, Same
<1>5. OnceAt(i)' <=>
         /\ Kept(db, i) /\ Kept(U, i) /\ ~ Open(db, i)
         /\ Open(U, i) => \E w \in Workers : c = Conn(w) /\ i \in Begun(w)'
         /\ \A w \in Workers : i \in Own(w)' =>
               db.prop[i].status = "pending" /\ U.prop[i].status = "pending"
         /\ ~ (i \in Own("task")' /\ i \in Own("route")')
  BY <1>1 DEF OnceAt
<1> QED BY <1>2, <1>3, <1>4, <1>5 DEF OnceAt, Minds, Workers

LEMMA OncePublishes ==
    ASSUME TypeInv, ViewInv, NEW i, OnceAt(i), NEW c, CanWrite(c), NEW U,
           db' = U, tx' = [on |-> "none", view |-> U], Same(View(c), U, i),
           \A w \in Workers : Conn(w) = c => i \notin Begun(w),
           \A w \in Workers : i \in Own(w)' => i \in Own(w)
    PROVE  OnceAt(i)'
<1>1. Kept(U, i) /\ ~ Open(U, i)
  BY OnceSeen, SameKeeps
<1>2. \A w \in Workers : i \in Own(w)' => U.prop[i].status = "pending"
  BY OnceSeen DEF Same
<1>5. OnceAt(i)' <=>
         /\ Kept(U, i) /\ ~ Open(U, i)
         /\ Open(U, i) => \E w \in Workers : "none" = Conn(w) /\ i \in Begun(w)'
         /\ \A w \in Workers : i \in Own(w)' => U.prop[i].status = "pending"
         /\ ~ (i \in Own("task")' /\ i \in Own("route")')
  BY DEF OnceAt
<1> QED BY <1>1, <1>2, <1>5 DEF OnceAt, Workers

LEMMA OnceDiscards ==
    ASSUME NEW i, OnceAt(i), db' = db, tx' = [on |-> "none", view |-> db],
           \A w \in Workers : i \in Own(w)' => i \in Own(w)
    PROVE  OnceAt(i)'
<1>1. OnceAt(i)' <=>
         /\ Kept(db, i) /\ ~ Open(db, i)
         /\ Open(db, i) => \E w \in Workers : "none" = Conn(w) /\ i \in Begun(w)'
         /\ \A w \in Workers : i \in Own(w)' => db.prop[i].status = "pending"
         /\ ~ (i \in Own("task")' /\ i \in Own("route")')
  BY DEF OnceAt
<1> QED BY <1>1 DEF OnceAt, Workers

\* Every connection has its own thread.
LEMMA OneThread ==
    ASSUME NEW w \in Workers, NEW v \in Workers, Conn(v) = Conn(w) PROVE v = w
  BY DEF Workers, Conn

\* One thread moves: the other has in hand what it had.
LEMMA MoveMinds ==
    ASSUME TypeInv, NEW w \in Workers, NEW j, job' = [job EXCEPT ![w] = j], NEW i, NEW c,
           i \in OwnOf(j) => i \in Own(w), Conn(w) = c /\ i \in Begun(w) => i \in BegunOf(j)
    PROVE  Minds(i, c)
<1>1. job'[w] = j /\ \A v \in Workers : v # w => job'[v] = job[v]
  BY DEF TypeInv
<1> QED BY <1>1 DEF Minds, Own, Begun

LEMMA StayMinds == ASSUME job' = job, NEW i, NEW c PROVE Minds(i, c)
  BY DEF Minds, Own, Begun

\* A thread takes a proposal in hand that nobody else has and no transaction has changed.
LEMMA OnceTakes ==
    ASSUME TypeInv, ViewInv, HoldInv, NEW w \in Workers, NEW j, job' = [job EXCEPT ![w] = j],
           UNCHANGED <<db, tx>>, NEW i \in 1 .. Len(db.prop), OnceAt(i), Begun(w) = {},
           db.prop[i].status = "pending" \/ View(Conn(w)).prop[i].status = "pending",
           i \notin Holds(Other(w)) \cup Unsettled
    PROVE  OnceAt(i)'
<1>1. job'[w] = j /\ \A v \in Workers : v # w => job'[v] = job[v]
  BY DEF TypeInv
<1>2. Other(w) \in Workers /\ Other(w) # w /\ \A v \in Workers : v = w \/ v = Other(w)
  BY DEF Other, Workers
<1>3. i \notin Own(Other(w))
  BY <1>2 DEF HoldInv, Holds, Own, OwnOf
<1>4. i \notin Own(Other(w))'
  BY <1>1, <1>2, <1>3 DEF Own
<1>5. db.prop[i].status = "pending" /\ tx.view.prop[i].status = "pending"
  <2>1. DOMAIN db.prop = 1 .. Len(db.prop)
    BY Fields DEF TypeInv
  <2>2. tx.view.prop[i].status = db.prop[i].status
    BY <2>1 DEF Unsettled, ViewInv
  <2> QED BY <2>2 DEF View
<1>6. Open(tx.view, i) => \E v \in Workers : tx.on = Conn(v) /\ i \in Begun(v)'
  BY <1>1 DEF OnceAt, Begun
<1>7. (~ (i \in Own("task") /\ i \in Own("route")))'
  BY <1>2, <1>4 DEF Workers
<1>8. OnceAt(i)' <=>
         /\ Kept(db, i) /\ Kept(tx.view, i) /\ ~ Open(db, i)
         /\ Open(tx.view, i) => \E v \in Workers : tx.on = Conn(v) /\ i \in Begun(v)'
         /\ \A v \in Workers : i \in Own(v)' =>
               db.prop[i].status = "pending" /\ tx.view.prop[i].status = "pending"
         /\ (~ (i \in Own("task") /\ i \in Own("route")))'
  BY DEF OnceAt
<1> QED BY <1>5, <1>6, <1>7, <1>8 DEF OnceAt

LEMMA OnceApply ==
    ASSUME Inv, NEW w \in Workers, Apply(w), NEW i \in 1 .. Len(db.prop), OnceAt(i)
    PROVE  OnceAt(i)'
<1> DEFINE T == View(Conn(w))
           it == Now(w)
           U == Effect(T, it)
           j == [job[w] EXCEPT !.at = IF it.op = "supersede" THEN "succeed" ELSE "mark"]
<1>1. /\ Conn(w) \in Sides /\ T \in Tables /\ job[w] \in Jobs /\ JobOK(job[w], T)
      /\ TypeInv /\ ViewInv
  BY ThreadIs
<1>2. /\ CanWrite(Conn(w)) /\ Write(Conn(w), U) /\ job' = [job EXCEPT ![w] = j]
      /\ job[w].at = "apply" /\ More(w)
  BY DEF Apply, Applies
<1>3. j.at \in {"succeed", "mark"} /\ j.todo = job[w].todo
  BY <1>1 DEF Jobs
<1>4. /\ it = [id |-> it.id, op |-> it.op, target |-> it.target]
      /\ job[w].todo # {} => it.id = Min(job[w].todo) /\ it.id \in job[w].todo
      /\ job[w].todo = {} => it.id = 0
  <2>1. job[w].todo # {} => Min(job[w].todo) \in job[w].todo
    BY <1>1, MinIsMember DEF Jobs
  <2> QED BY <2>1 DEF Now, Item
<1> HIDE DEF it, j
<1>5. LogsFor(T, U, it.id)
  <2>1. LogsFor(T, Effect(T, [id |-> it.id, op |-> it.op, target |-> it.target]), it.id)
    BY <1>1, EffectLogs
  <2> QED BY <1>4, <2>1
<1> HIDE DEF U
<1>6. PICK e : U.prop = T.prop /\ U.log = Append(T.log, e) /\ e.prop = it.id
  BY <1>5 DEF LogsFor
<1>7. /\ e.prop # i => Same(T, U, i)
      /\ e.prop = i /\ ~ HasLog(T, i) => Single(U, i)
  <2>1. U.prop[i].status = T.prop[i].status
    BY <1>6
  <2> HIDE DEF T
  <2> QED BY <1>1, <1>6, <2>1, LoggedOther
<1>8. Begun(w) = {} /\ OwnOf(j) = Own(w)
  BY <1>2, <1>3 DEF Begun, BegunOf, Own, OwnOf
<1>9. Minds(i, Conn(w))
  BY <1>1, <1>2, <1>8, MoveMinds
<1>10. CASE it.id # i
  BY <1>1, <1>2, <1>6, <1>7, <1>9, <1>10, OnceWrites
<1>11. CASE it.id = i
  <2>1. job[w].todo # {} /\ i = Min(job[w].todo) /\ i \in Own(w)
    BY <1>2, <1>4, <1>11 DEF Own, OwnOf
  <2>2. T.prop[i].status = "pending" /\ ~ Open(T, i)
    <3>1. /\ Open(T, i) => \E v \in Workers : Conn(w) = Conn(v) /\ i \in Begun(v)
          /\ T.prop[i].status = "pending"
      BY <1>1, <1>2, <2>1, OnceSeen
    <3> QED BY <1>8, <3>1, OneThread
  <2>3. Kept(U, i) /\ U.prop[i].status = "pending"
    BY <1>6, <1>7, <1>11, <2>2 DEF Kept, Open
  <2>4. i \in Begun(w)'
    <3>1. job'[w] = j
      BY <1>1, <1>2 DEF TypeInv
    <3> QED BY <1>3, <2>1, <3>1 DEF Begun, BegunOf
  <2>5. OnceAt(i)' <=>
           /\ Kept(db, i) /\ Kept(U, i) /\ ~ Open(db, i)
           /\ Open(U, i) => \E v \in Workers : Conn(w) = Conn(v) /\ i \in Begun(v)'
           /\ \A v \in Workers : i \in Own(v)' =>
                 db.prop[i].status = "pending" /\ U.prop[i].status = "pending"
           /\ ~ (i \in Own("task")' /\ i \in Own("route")')
    BY <1>2 DEF OnceAt, Write
  <2> QED BY <1>9, <2>1, <2>3, <2>4, <2>5 DEF OnceAt, Minds, Workers
<1> QED BY <1>10, <1>11

LEMMA OnceSucceed ==
    ASSUME Inv, NEW w \in Workers, Succeed(w), NEW i \in 1 .. Len(db.prop), OnceAt(i)
    PROVE  OnceAt(i)'
<1> DEFINE T == View(Conn(w))
           U == Added(T, Now(w).target, 0)
           j == [job[w] EXCEPT !.at = "mark"]
<1>1. /\ Conn(w) \in Sides /\ T \in Tables /\ job[w] \in Jobs /\ TypeInv /\ ViewInv
  BY ThreadIs
<1>2. /\ CanWrite(Conn(w)) /\ Write(Conn(w), U) /\ job' = [job EXCEPT ![w] = j]
      /\ job[w].at = "succeed"
  BY DEF Succeed
<1>3. j.at = "mark" /\ j.todo = job[w].todo
  BY <1>1 DEF Jobs
<1> HIDE DEF j
<1>4. LogsFor(T, U, 0)
  BY <1>1, AddedLogs
<1> HIDE DEF U
<1>5. PICK e : U.prop = T.prop /\ U.log = Append(T.log, e) /\ e.prop = 0
  BY <1>4 DEF LogsFor
<1>6. Same(T, U, i)
  <2>1. U.prop[i].status = T.prop[i].status /\ e.prop # i
    BY <1>5
  <2> HIDE DEF T
  <2> QED BY <1>1, <1>5, <2>1, LoggedOther
<1>7. Minds(i, Conn(w))
  <2>1. OwnOf(j) = Own(w) /\ BegunOf(j) = Begun(w)
    BY <1>2, <1>3 DEF Begun, BegunOf, Own, OwnOf
  <2> QED BY <1>1, <1>2, <2>1, MoveMinds
<1> QED BY <1>1, <1>2, <1>6, <1>7, OnceWrites

\* What is done is taken out of hand.
LEMMA DoneOwns ==
    ASSUME Inv, NEW w \in Workers, More(w)
    PROVE  \E j : /\ Done(w) = [job EXCEPT ![w] = j] /\ j.ids = job[w].ids /\ BegunOf(j) = {}
                  /\ OwnOf(j) = job[w].todo \ {Min(job[w].todo)} /\ j.todo = OwnOf(j)
                  /\ j.at = "apply"
<1>1. job[w] \in Jobs /\ job \in [Workers -> Jobs]
  BY DEF Inv, TypeInv
<1>2. CASE job[w].todo # {}
  <2> DEFINE j == [job[w] EXCEPT !.at = "apply", !.todo = @ \ {Min(@)}]
  <2>1. Done(w) = [job EXCEPT ![w] = j]
    BY <1>1, <1>2 DEF Done
  <2>2. j.at = "apply" /\ j.todo = job[w].todo \ {Min(job[w].todo)} /\ j.ids = job[w].ids
    BY <1>1 DEF Jobs
  <2> HIDE DEF j
  <2> QED BY <2>1, <2>2 DEF OwnOf, BegunOf
<1>3. CASE job[w].todo = {}
  <2> DEFINE j == [job[w] EXCEPT !.at = "apply", !.orders = Tail(@)]
  <2>1. Done(w) = [job EXCEPT ![w] = j]
    BY <1>1, <1>3 DEF Done
  <2>2. j.at = "apply" /\ j.todo = {} /\ j.ids = job[w].ids
    BY <1>1, <1>3 DEF Jobs
  <2> HIDE DEF j
  <2> QED BY <1>3, <2>1, <2>2 DEF OwnOf, BegunOf
<1> QED BY <1>2, <1>3

\* A status that is written is that of one proposal, and leaves the log alone.
Restated(T, U, n, new) ==
    /\ U.log = T.log /\ U.prop[n].status = new
    /\ \A i : i # n => U.prop[i] = T.prop[i]

LEMMA StatusIs ==
    ASSUME NEW T \in Tables, NEW n \in 1 .. Len(T.prop), NEW new
    PROVE  Restated(T, [T EXCEPT !.prop[n].status = new], n, new)
<1> DEFINE row == [T.prop[n] EXCEPT !.status = new]
           prop == [T.prop EXCEPT ![n] = row]
           U == [T EXCEPT !.prop[n].status = new]
<1>1. U = [mem |-> T.mem, prop |-> prop, log |-> T.log, infl |-> T.infl]
  BY Updated
<1>2. T.prop \in Seq(Props) /\ T.prop[n] \in Props
  BY Fields
<1>3. row.status = new
  BY <1>2 DEF Props
<1> HIDE DEF row, U
<1>4. prop[n] = row /\ \A i : i # n => prop[i] = T.prop[i]
  BY <1>2
<1> HIDE DEF prop
<1>5. U.log = T.log /\ U.prop = prop
  BY <1>1
<1>6. Restated(T, U, n, new)
  BY <1>3, <1>4, <1>5 DEF Restated
<1> QED BY <1>6 DEF U

-----------------------------------------------------------------------------
(* A step and a proposal *)

LEMMA OnceMark ==
    ASSUME Inv, NEW w \in Workers, Mark(w), NEW i \in 1 .. Len(db.prop), OnceAt(i)
    PROVE  OnceAt(i)'
<1> DEFINE T == View(Conn(w))
           id == Now(w).id
           U == [T EXCEPT !.prop[id].status = "committed"]
<1>1. /\ Conn(w) \in Sides /\ T \in Tables /\ job[w] \in Jobs /\ JobOK(job[w], T)
      /\ TypeInv /\ ViewInv
  BY ThreadIs
<1>2. job' = Done(w) /\ job[w].at = "mark" /\ More(w)
  BY <1>1, NowIsCurrent DEF Mark, JobOK
<1>3. /\ job[w].todo # {} => id = Min(job[w].todo) /\ id \in 1 .. Len(T.prop)
      /\ job[w].todo = {} => id = 0
  <2>1. job[w].todo # {} => Min(job[w].todo) \in job[w].todo
    BY <1>1, MinIsMember DEF Jobs
  <2> QED BY <1>1, <2>1 DEF Now, Item, JobOK
<1>4. PICK j : /\ job' = [job EXCEPT ![w] = j] /\ BegunOf(j) = {}
               /\ OwnOf(j) = job[w].todo \ {Min(job[w].todo)}
  BY <1>2, DoneOwns
<1>5. Own(w) = job[w].todo
  BY <1>2 DEF Own, OwnOf
<1>6. job[w].todo # {} => Begun(w) = {id}
  BY <1>2, <1>3 DEF Begun, BegunOf
<1>7. job[w].todo = {} => Begun(w) = {}
  BY DEF Begun, BegunOf
<1>8. i # id \/ job[w].todo = {} => Minds(i, Conn(w)) /\ Minds(i, tx.on)
  <2> SUFFICES ASSUME i # id \/ job[w].todo = {}, NEW c PROVE Minds(i, c)
    OBVIOUS
  <2> QED BY <1>1, <1>4, <1>5, <1>6, <1>7, MoveMinds
<1>9. CASE job[w].todo = {}
  <2>1. UNCHANGED <<db, tx>>
    BY <1>3, <1>9 DEF Mark
  <2> QED BY <1>8, <1>9, <2>1, OnceKeeps
<1>10. CASE job[w].todo # {}
  <2>0. id # 0 /\ id \in 1 .. Len(T.prop)
    BY <1>3, <1>10
  <2>1. CanWrite(Conn(w)) /\ Write(Conn(w), U)
    BY <2>0 DEF Mark, Marked
  <2> HIDE DEF id, T
  <2>2. /\ U.prop[id].status = "committed" /\ \A k : k # id => U.prop[k] = T.prop[k]
        /\ (HasLog(U, i) <=> HasLog(T, i)) /\ (Single(U, i) <=> Single(T, i))
    <3>1. Restated(T, U, id, "committed")
      BY <1>1, <2>0, StatusIs
    <3> QED BY <3>1, Zenon DEF Restated, HasLog, Single
  <2> HIDE DEF U
  <2>3. CASE i # id
    <3>1. Same(T, U, i)
      BY <2>2, <2>3 DEF Same
    <3> QED BY <1>1, <1>8, <2>1, <2>3, <3>1, OnceWrites DEF T
  <2>4. CASE i = id
    <3>1. i \in Own(w) /\ i \notin OwnOf(j)
      BY <1>1, <1>3, <1>4, <1>5, <1>10, <2>4, MinIsMember DEF Jobs
    <3>2. \A v \in Workers : i \notin Own(v)'
      <4>1. \A v \in Workers : v # w => i \notin Own(v)
        BY <3>1 DEF OnceAt, Workers
      <4>2. job'[w] = j /\ \A v \in Workers : v # w => job'[v] = job[v]
        BY <1>1, <1>4 DEF TypeInv
      <4> QED BY <3>1, <4>1, <4>2 DEF Own
    <3>3. Kept(U, i) /\ ~ Open(U, i)
      <4>1. Kept(T, i)
        BY <1>1, <2>1, OnceSeen DEF T
      <4> QED BY <2>2, <2>4, <4>1 DEF Kept, Open
    <3>4. OnceAt(i)' <=>
             /\ Kept(db, i) /\ Kept(U, i) /\ ~ Open(db, i)
             /\ Open(U, i) => \E v \in Workers : Conn(w) = Conn(v) /\ i \in Begun(v)'
             /\ \A v \in Workers : i \in Own(v)' =>
                   db.prop[i].status = "pending" /\ U.prop[i].status = "pending"
             /\ ~ (i \in Own("task")' /\ i \in Own("route")')
      BY <2>1 DEF OnceAt, Write
    <3> QED BY <3>2, <3>3, <3>4 DEF OnceAt, Workers
  <2> QED BY <2>3, <2>4
<1> QED BY <1>9, <1>10

LEMMA SameSelf == ASSUME NEW T, NEW i PROVE Same(T, T, i)
  BY DEF Same

\* A commit of the connection c makes of its view the committed tables.
LEMMA OnceCommits ==
    ASSUME TypeInv, ViewInv, NEW c \in Sides, CommitOn(c), NEW i, OnceAt(i), Minds(i, tx.on),
           \A w \in Workers : Conn(w) = c => i \notin Begun(w)
    PROVE  OnceAt(i)'
<1>1. CASE tx.on = c
  <2>1. db' = View(c) /\ tx' = [on |-> "none", view |-> View(c)] /\ CanWrite(c)
    BY <1>1 DEF CommitOn, View, CanWrite
  <2> QED BY <2>1, SameSelf, OncePublishes DEF Minds
<1>2. CASE tx.on # c
  <2>1. db' = db /\ tx' = tx
    BY <1>2 DEF CommitOn, View
  <2> QED BY <2>1, OnceKeeps
<1> QED BY <1>1, <1>2

LEMMA OnceCommitting ==
    ASSUME Inv, HoldInv, NEW w \in Workers, Committing(w),
           NEW i \in 1 .. Len(db.prop), OnceAt(i), i \notin seen'.raced, SeenInv
    PROVE  OnceAt(i)'
<1>1. /\ Conn(w) \in Sides /\ View(Conn(w)) \in Tables /\ job[w] \in Jobs
      /\ JobOK(job[w], View(Conn(w))) /\ TypeInv /\ ViewInv
  BY ThreadIs
<1>2. CASE Load(w)
  <2> DEFINE T == View(Conn(w))
             j == [job[w] EXCEPT !.at = "apply", !.todo = Waiting(T, job[w].ids)]
  <2>1. job' = [job EXCEPT ![w] = j] /\ job[w].at = "load" /\ UNCHANGED <<db, tx>>
    BY <1>1, <1>2 DEF Load, TypeInv
  <2>2. OwnOf(j) = Waiting(T, job[w].ids) /\ BegunOf(j) = {}
    BY <1>1 DEF OwnOf, BegunOf, Jobs
  <2>3. Begun(w) = {}
    BY <2>1 DEF Begun, BegunOf
  <2> HIDE DEF j
  <2>4. CASE i \in Waiting(T, job[w].ids)
    <3>1. T.prop[i].status = "pending"
      BY <2>4 DEF Waiting
    <3>2. i \notin Holds(Other(w)) \cup Unsettled
      <4>1. seen' = [seen EXCEPT !.raced =
                       @ \cup (Waiting(T, job[w].ids) \cap (Holds(Other(w)) \cup Unsettled))]
        BY <1>2 DEF Load
      <4>2. seen'.raced = seen.raced \cup
                             (Waiting(T, job[w].ids) \cap (Holds(Other(w)) \cup Unsettled))
        BY <4>1 DEF SeenInv
      <4> QED BY <2>4, <4>2
    <3> QED BY <1>1, <2>1, <2>3, <3>1, <3>2, OnceTakes
  <2>5. CASE i \notin Waiting(T, job[w].ids)
    <3>1. Minds(i, tx.on)
      BY <1>1, <2>1, <2>2, <2>3, <2>5, MoveMinds
    <3> QED BY <2>1, <3>1, OnceKeeps
  <2> QED BY <2>4, <2>5
<1>3. CASE Apply(w)
  BY <1>3, OnceApply
<1>4. CASE Succeed(w)
  BY <1>4, OnceSucceed
<1>5. CASE ApplyTraceless(w)
  <2> DEFINE j == [job[w] EXCEPT !.at = "mark"]
  <2>1. job' = [job EXCEPT ![w] = j] /\ job[w].at = "apply" /\ UNCHANGED <<db, tx>>
    BY <1>5 DEF ApplyTraceless, Applies
  <2>2. OwnOf(j) = Own(w) /\ Begun(w) = {}
    BY <1>1, <2>1 DEF OwnOf, Own, Begun, BegunOf, Jobs
  <2> HIDE DEF j
  <2>3. Minds(i, tx.on)
    BY <1>1, <2>1, <2>2, MoveMinds
  <2> QED BY <2>1, <2>3, OnceKeeps
<1>6. CASE Skip(w)
  <2>1. job' = Done(w) /\ job[w].at = "apply" /\ More(w) /\ UNCHANGED <<db, tx>>
    BY <1>6 DEF Skip
  <2>2. PICK j : /\ job' = [job EXCEPT ![w] = j]
                 /\ OwnOf(j) = job[w].todo \ {Min(job[w].todo)}
    BY <2>1, DoneOwns
  <2>3. Own(w) = job[w].todo /\ Begun(w) = {}
    BY <2>1 DEF OwnOf, Own, Begun, BegunOf
  <2>4. Minds(i, tx.on)
    BY <1>1, <2>2, <2>3, MoveMinds
  <2> QED BY <2>1, <2>4, OnceKeeps
<1>7. CASE Mark(w)
  BY <1>7, OnceMark
<1>8. CASE Commit(w)
  <2>1. job' = [job EXCEPT ![w] = Idle] /\ job[w].at = "apply" /\ CommitOn(Conn(w))
    BY <1>8 DEF Commit
  <2>2. Begun(w) = {} /\ OwnOf(Idle) = {}
    BY <2>1 DEF Begun, BegunOf, OwnOf, Idle
  <2>3. Minds(i, tx.on)
    BY <1>1, <2>1, <2>2, MoveMinds
  <2>4. \A v \in Workers : Conn(v) = Conn(w) => i \notin Begun(v)
    BY <2>2, OneThread
  <2> QED BY <1>1, <2>1, <2>3, <2>4, OnceCommits
<1> QED BY <1>2, <1>3, <1>4, <1>5, <1>6, <1>7, <1>8 DEF Committing

LEMMA OnceFail ==
    ASSUME Inv, NEW w \in Workers, Fail(w), NEW i, OnceAt(i)
    PROVE  OnceAt(i)'
<1>1. TypeInv /\ ViewInv /\ job' = [job EXCEPT ![w] = Idle] /\ OwnOf(Idle) = {}
  BY DEF Inv, Fail, OwnOf, Idle
<1>2. tx.on # Conn(w) => Minds(i, tx.on)
  BY <1>1, MoveMinds
<1>3. \A v \in Workers : i \in Own(v)' => i \in Own(v)
  <2>1. job'[w] = Idle /\ \A v \in Workers : v # w => job'[v] = job[v]
    BY <1>1 DEF TypeInv
  <2> QED BY <1>1, <2>1 DEF Own
<1>4. CASE w = "task"
  <2>1. /\ db' = db /\ (tx.on # "task" => tx' = tx)
        /\ tx.on = "task" => tx' = [on |-> "none", view |-> db]
    BY <1>4 DEF Fail, Close
  <2>2. CASE tx.on = "task"
    BY <1>3, <2>1, <2>2, OnceDiscards
  <2>3. CASE tx.on # "task"
    BY <1>2, <1>4, <2>1, <2>3, OnceKeeps DEF Conn
  <2> QED BY <2>2, <2>3
<1>5. CASE w # "task"
  <2>1. UNCHANGED <<db, tx>>
    BY <1>5 DEF Fail
  <2>2. CASE tx.on # Conn(w)
    BY <1>2, <2>1, <2>2, OnceKeeps
  <2>3. CASE tx.on = Conn(w)
    <3>1. CanWrite(Conn(w))
      BY <2>3 DEF CanWrite
    <3>2. job[w].at = "apply"
      BY <3>1 DEF Fail, Blocked
    <3>3. Begun(w) = {}
      BY <3>2 DEF Begun, BegunOf
    <3>4. Minds(i, tx.on)
      BY <1>1, <3>3, MoveMinds
    <3> QED BY <2>1, <3>4, OnceKeeps
  <2> QED BY <2>2, <2>3
<1> QED BY <1>4, <1>5

\* Proposals that are there already, and new ones.
LEMMA OncePropose ==
    ASSUME Inv, LogInv, NEW w \in Workers, NEW batch \in Batches, Propose(w, batch),
           job[w].at \in {"idle", "propose"},
           NEW i \in 1 .. Len(db'.prop), i \in 1 .. Len(db.prop) => OnceAt(i)
    PROVE  OnceAt(i)'
<1> DEFINE T == View(Conn(w))
           U == Proposed(T, batch)
           rows == [k \in DOMAIN batch |->
                       [op |-> batch[k].op, target |-> batch[k].target, status |-> "pending",
                        batch |-> Len(T.prop) + 1]]
           j == IF w = "route" \/ batch = <<>> THEN Idle
                ELSE [Idle EXCEPT !.at = "load",
                                  !.ids = Len(T.prop) + 1 .. Len(T.prop) + Len(batch)]
<1>1. /\ T \in Tables /\ TypeInv /\ ViewInv /\ Len(T.prop) = Len(db.prop)
      /\ Sound(T) /\ Len(T.prop) \in Nat
  BY ThreadIs, ViewIs, Lengths
<1>2. /\ CanWrite(Conn(w)) /\ db' = U /\ tx' = [on |-> "none", view |-> U]
      /\ job' = [job EXCEPT ![w] = j]
  BY DEF Propose
<1>3. OwnOf(j) = {} /\ BegunOf(j) = {}
  BY DEF OwnOf, BegunOf, Idle
<1>4. Begun(w) = {} /\ Own(w) = {}
  BY DEF Own, OwnOf, Begun, BegunOf
<1>5. /\ \A k \in 1 .. Len(T.prop) : U.prop[k] = T.prop[k]
      /\ \A k \in 1 .. Len(U.prop) : k \notin 1 .. Len(T.prop) => U.prop[k].status = "pending"
      /\ U.log = T.log
  <2>1. \A k \in 1 .. Len(U.prop) : k \notin 1 .. Len(T.prop) => k > Len(T.prop)
    BY <1>1
  <2> HIDE DEF T
  <2> QED BY <1>1, <2>1, ProposedIs
<1> HIDE DEF j, rows, T, U
<1>6. Minds(i, "none")
  BY <1>1, <1>2, <1>3, <1>4, MoveMinds
<1>7. CASE i \in 1 .. Len(db.prop)
  <2>1. Same(T, U, i)
    BY <1>1, <1>5, <1>7 DEF Same, HasLog, Single
  <2>2. \A v \in Workers : Conn(v) = Conn(w) => i \notin Begun(v)
    BY <1>4, OneThread
  <2> QED BY <1>1, <1>2, <1>6, <1>7, <2>1, <2>2, OncePublishes DEF T, Minds
<1>8. CASE i \notin 1 .. Len(db.prop)
  <2>1. ~ HasLog(U, i)
    <3>1. LogOK(T) /\ i > Len(T.prop)
      BY <1>1, <1>2, <1>8 DEF LogInv, T, View
    <3>2. ~ HasLog(T, i)
      BY <1>1, <3>1, Fields DEF LogOK, HasLog
    <3> QED BY <1>5, <3>2 DEF HasLog
  <2>2. U.prop[i].status = "pending" /\ Single(U, i)
    BY <1>1, <1>2, <1>5, <1>8, <2>1 DEF HasLog, Single
  <2>3. \A v \in Workers : i \notin Own(v)
    <3> SUFFICES ASSUME NEW v \in Workers PROVE i \notin Own(v)
      OBVIOUS
    <3>1. JobOK(job[v], View(Conn(v))) /\ Len(View(Conn(v)).prop) = Len(db.prop)
      BY <1>1, ThreadIs, ViewIs
    <3> QED BY <1>8, <3>1 DEF JobOK, Own, OwnOf
  <2>4. OnceAt(i)' <=>
           /\ Kept(U, i) /\ ~ Open(U, i)
           /\ Open(U, i) => \E v \in Workers : "none" = Conn(v) /\ i \in Begun(v)'
           /\ \A v \in Workers : i \in Own(v)' => U.prop[i].status = "pending"
           /\ ~ (i \in Own("task")' /\ i \in Own("route")')
    BY <1>2 DEF OnceAt
  <2> QED BY <1>6, <2>1, <2>2, <2>3, <2>4 DEF Kept, Open, Minds, Workers
<1> QED BY <1>7, <1>8

LEMMA OnceReject ==
    ASSUME Inv, Reject, NEW i \in 1 .. Len(db.prop), OnceAt(i)
    PROVE  OnceAt(i)'
<1>1. "route" \in Workers /\ Conn("route") = "app"
  BY DEF Workers, Conn
<1>2. /\ db \in Tables /\ TypeInv /\ ViewInv
      /\ JobOK(job["route"], View("app")) /\ Len(View("app").prop) = Len(db.prop)
  BY <1>1, ThreadIs, ViewIs DEF TypeInv
<1>3. PICK n \in job["route"].ids : db' = [db EXCEPT !.prop[n].status = "rejected"]
  BY DEF Reject
<1> DEFINE U == [db EXCEPT !.prop[n].status = "rejected"]
<1>4. /\ CanWrite("own") /\ tx' = [on |-> "none", view |-> U] /\ db' = U
      /\ job' = [job EXCEPT !["route"] = Idle] /\ job["route"].at = "reject"
  BY <1>3 DEF Reject
<1>5. n \in 1 .. Len(db.prop)
  BY <1>2, <1>4 DEF JobOK
<1>6. /\ U.prop[n].status = "rejected" /\ \A k : k # n => U.prop[k] = db.prop[k]
      /\ (HasLog(U, i) <=> HasLog(db, i)) /\ (Single(U, i) <=> Single(db, i))
  <2>1. Restated(db, U, n, "rejected")
    BY <1>2, <1>5, StatusIs
  <2> QED BY <2>1, Zenon DEF Restated, HasLog, Single
<1> HIDE DEF U
<1>7. View("own") = db
  BY <1>2, <1>4 DEF View, CanWrite, ViewInv, TypeInv, Txs, Sides
<1>8. /\ job'["route"] = Idle /\ \A v \in Workers : v # "route" => job'[v] = job[v]
      /\ OwnOf(Idle) = {}
  BY <1>1, <1>2, <1>4 DEF TypeInv, OwnOf, Idle
<1>9. \A v \in Workers : i \in Own(v)' => i \in Own(v)
  BY <1>8 DEF Own
<1>10. CASE i # n
  <2>1. Same(View("own"), U, i)
    BY <1>6, <1>7, <1>10 DEF Same
  <2>2. \A v \in Workers : Conn(v) # "own"
    BY DEF Conn
  <2> QED BY <1>2, <1>4, <1>9, <2>1, <2>2, OncePublishes
<1>11. CASE i = n
  <2>1. i \in Own("route")
    BY <1>4, <1>11 DEF Own, OwnOf
  <2>2. \A v \in Workers : i \notin Own(v)'
    BY <1>8, <2>1 DEF OnceAt, Workers, Own
  <2>3. Kept(U, i) /\ ~ Open(U, i)
    BY <1>1, <1>6, <1>11, <2>1 DEF OnceAt, Kept, Open
  <2>4. OnceAt(i)' <=>
           /\ Kept(U, i) /\ ~ Open(U, i)
           /\ Open(U, i) => \E v \in Workers : "none" = Conn(v) /\ i \in Begun(v)'
           /\ \A v \in Workers : i \in Own(v)' => U.prop[i].status = "pending"
           /\ ~ (i \in Own("task")' /\ i \in Own("route")')
    BY <1>4 DEF OnceAt
  <2> QED BY <2>2, <2>3, <2>4 DEF Workers
<1> QED BY <1>10, <1>11

-----------------------------------------------------------------------------
(* What a thread does is among what it was given; what is logged is proposed *)

LEMMA HoldMoves ==
    ASSUME HoldInv, TypeInv, NEW w \in Workers, NEW j, job' = [job EXCEPT ![w] = j],
           j.todo \subseteq j.ids
    PROVE  HoldInv'
  BY DEF HoldInv, TypeInv

LEMMA HoldCommitting ==
    ASSUME Inv, HoldInv, NEW w \in Workers, Committing(w)
    PROVE  HoldInv'
<1>1. TypeInv /\ job[w] \in Jobs /\ job[w].todo \subseteq job[w].ids
  BY DEF Inv, TypeInv, HoldInv
<1>2. CASE Load(w)
  <2> DEFINE j == [job[w] EXCEPT !.at = "apply",
                                 !.todo = Waiting(View(Conn(w)), job[w].ids)]
  <2>1. job' = [job EXCEPT ![w] = j] /\ j.todo \subseteq j.ids
    BY <1>1, <1>2 DEF Load, TypeInv, Jobs, Waiting
  <2> QED BY <1>1, <2>1, HoldMoves
<1>3. CASE Apply(w) \/ Succeed(w) \/ ApplyTraceless(w)
  <2>1. PICK at : job' = [job EXCEPT ![w].at = at]
    BY <1>3 DEF Apply, Succeed, ApplyTraceless
  <2> DEFINE j == [job[w] EXCEPT !.at = at]
  <2>2. job' = [job EXCEPT ![w] = j] /\ j.todo \subseteq j.ids
    BY <1>1, <2>1 DEF TypeInv, Jobs
  <2> QED BY <1>1, <2>2, HoldMoves
<1>4. CASE Skip(w) \/ Mark(w)
  <2>1. job' = Done(w) /\ More(w)
    BY <1>4, ThreadIs, NowIsCurrent DEF Skip, Mark, JobOK
  <2>2. PICK j : /\ job' = [job EXCEPT ![w] = j] /\ j.ids = job[w].ids
                 /\ j.todo = job[w].todo \ {Min(job[w].todo)}
    BY <2>1, DoneOwns
  <2> QED BY <1>1, <2>2, HoldMoves
<1>5. CASE Commit(w)
  BY <1>1, <1>5, HoldMoves DEF Commit, Idle
<1> QED BY <1>2, <1>3, <1>4, <1>5 DEF Committing

LEMMA HoldStep == ASSUME Inv, HoldInv, [Next]_vars PROVE HoldInv'
<1>1. TypeInv /\ Idle.todo = {} /\ "task" \in Workers /\ "route" \in Workers
  BY DEF Inv, Idle, Workers
<1>2. ASSUME NEW w \in Workers, Committing(w) \/ Fail(w) PROVE HoldInv'
  BY <1>1, <1>2, HoldCommitting, HoldMoves DEF Fail
<1>3. ASSUME NEW w \in Workers, NEW batch, Propose(w, batch) PROVE HoldInv'
  <2> DEFINE ids == Len(View(Conn(w)).prop) + 1 .. Len(View(Conn(w)).prop) + Len(batch)
             j == IF w = "route" \/ batch = <<>> THEN Idle
                  ELSE [Idle EXCEPT !.at = "load", !.ids = ids]
  <2>1. job' = [job EXCEPT ![w] = j]
    BY <1>3 DEF Propose
  <2>2. j.todo = {}
    BY DEF Idle
  <2> QED BY <1>1, <2>1, <2>2, HoldMoves
<1>4. CASE Task
  <2>1. CASE StartTask
    <3> DEFINE j == [job["task"] EXCEPT !.at = "propose"]
    <3>1. job' = [job EXCEPT !["task"] = j] /\ j.todo \subseteq j.ids
      BY <1>1, <2>1 DEF StartTask, TypeInv, HoldInv, Jobs
    <3> QED BY <1>1, <3>1, HoldMoves
  <2>2. CASE TaskProposes
    BY <1>1, <1>3, <2>2, Zenon DEF TaskProposes
  <2>3. CASE Committing("task") \/ Fail("task")
    BY <1>1, <1>2, <2>3, Zenon
  <2> QED BY <1>4, <2>1, <2>2, <2>3 DEF Task
<1>5. CASE Route
  <2>1. CASE RouteCommits \/ RouteRejects
    <3>1. CASE RouteCommits
      <4>1. PICK ids, orders :
               job' = [job EXCEPT !["route"] =
                         [at |-> "load", ids |-> ids, todo |-> {}, orders |-> orders]]
        BY <3>1 DEF RouteCommits
      <4> DEFINE j == [at |-> "load", ids |-> ids, todo |-> {}, orders |-> orders]
      <4> QED BY <1>1, <4>1, HoldMoves
    <3>2. CASE RouteRejects
      <4>1. PICK n : job' = [job EXCEPT !["route"] = [Idle EXCEPT !.at = "reject", !.ids = {n}]]
        BY <3>2 DEF RouteRejects
      <4>2. [Idle EXCEPT !.at = "reject", !.ids = {n}].todo = {}
        BY DEF Idle
      <4> QED BY <1>1, <4>1, <4>2, HoldMoves
    <3> QED BY <2>1, <3>1, <3>2
  <2>2. CASE Reject \/ RejectFails
    BY <1>1, <2>2, HoldMoves DEF Reject, RejectFails
  <2> QED BY <1>1, <1>2, <1>3, <1>5, <2>1, <2>2 DEF Route, RouteProposes
<1>6. CASE Restart
  BY <1>1, <1>6 DEF Restart, HoldInv
<1>7. CASE Recall \/ LogInfluence \/ TurnFails \/ TurnCommits \/ UNCHANGED vars
  BY <1>7 DEF Recall, LogInfluence, TurnFails, TurnCommits, vars, HoldInv
<1> QED BY <1>4, <1>5, <1>6, <1>7 DEF Next

\* Tables with one more entry, or with more proposals and other statuses.
LEMMA LogGrows ==
    ASSUME NEW T \in Tables, NEW U, NEW id, LogsFor(T, U, id), id <= Len(T.prop), LogOK(T)
    PROVE  LogOK(U)
<1>1. PICK e : U.prop = T.prop /\ U.log = Append(T.log, e) /\ e.prop = id
  BY DEF LogsFor
<1>2. Len(T.log) \in Nat /\ T.log \in Seq(Logs)
  BY Lengths, Fields
<1>3. /\ Len(U.log) = Len(T.log) + 1 /\ U.log[Len(T.log) + 1] = e
      /\ \A k \in 1 .. Len(T.log) : U.log[k] = T.log[k]
  BY <1>1, <1>2
<1> QED BY <1>1, <1>2, <1>3 DEF LogOK

LEMMA LogStays ==
    ASSUME NEW T \in Tables, NEW U, U.log = T.log, Len(U.prop) \in Nat,
           Len(T.prop) <= Len(U.prop), LogOK(T)
    PROVE  LogOK(U)
<1> SUFFICES ASSUME NEW k \in 1 .. Len(T.log) PROVE T.log[k].prop <= Len(U.prop)
  BY DEF LogOK
<1>1. T.log[k].prop \in Nat /\ T.log[k].prop <= Len(T.prop)
  <2>1. T.log[k] \in Logs
    BY Fields
  <2> QED BY <2>1 DEF LogOK, Logs
<1> QED BY <1>1, Lengths

LEMMA LogStep == ASSUME Inv, LogInv, [Next]_vars PROVE LogInv'
<1>1. /\ TypeInv /\ ViewInv /\ db \in Tables
      /\ \A c : /\ View(c) \in Tables /\ LogOK(View(c)) /\ Sound(View(c))
                /\ Len(View(c).prop) = Len(db.prop) /\ Len(View(c).prop) \in Nat
  BY ViewIs, Lengths DEF Inv, TypeInv, LogInv, View
<1>2. ASSUME db' \in {db, View("app"), View("task")},
             tx'.view \in {db, View("app"), View("task"), tx.view}
      PROVE  LogInv'
  BY <1>1, <1>2 DEF LogInv
<1>3. ASSUME NEW c, NEW U, Write(c, U), LogOK(U) PROVE LogInv'
  BY <1>3 DEF Write, LogInv
<1>4. ASSUME NEW c, CommitOn(c), c \in Sides PROVE LogInv'
  <2>1. db' = View(c) /\ tx'.view = tx.view
    BY <1>4 DEF CommitOn
  <2> QED BY <1>2, <1>4, <2>1 DEF Sides
<1>5. ASSUME NEW w \in Workers, Committing(w) \/ Fail(w) PROVE LogInv'
  <2> DEFINE T == View(Conn(w))
  <2>1. /\ T \in Tables /\ LogOK(T) /\ Conn(w) \in Sides /\ job[w] \in Jobs /\ JobOK(job[w], T)
        /\ Len(T.prop) \in Nat
    BY <1>1, ThreadIs
  <2>2. /\ Now(w) = [id |-> Now(w).id, op |-> Now(w).op, target |-> Now(w).target]
        /\ More(w) => Now(w).id <= Len(T.prop)
        /\ More(w) /\ Now(w).id # 0 => Now(w).id \in 1 .. Len(T.prop)
    <3>1. job[w].todo # {} => Min(job[w].todo) \in 1 .. Len(T.prop)
      BY <2>1, MinIsMember DEF Jobs, JobOK
    <3> QED BY <2>1, <3>1 DEF Now, Item
  <2>3. CASE Apply(w)
    <3> DEFINE U == Effect(T, Now(w))
    <3>1. Write(Conn(w), U) /\ More(w)
      BY <2>3 DEF Apply, Applies
    <3>2. LogsFor(T, U, Now(w).id)
      <4> DEFINE it == Now(w)
      <4> HIDE DEF it, T
      <4>1. LogsFor(T, Effect(T, [id |-> it.id, op |-> it.op, target |-> it.target]), it.id)
        BY <2>1, EffectLogs
      <4> QED BY <2>2, <4>1 DEF it
    <3> HIDE DEF U, T
    <3>3. LogOK(U)
      BY <2>1, <2>2, <3>1, <3>2, LogGrows
    <3> QED BY <1>3, <3>1, <3>3
  <2>4. CASE Succeed(w)
    <3> DEFINE U == Added(T, Now(w).target, 0)
    <3>1. Write(Conn(w), U)
      BY <2>4 DEF Succeed
    <3>2. LogsFor(T, U, 0)
      BY <2>1, AddedLogs
    <3> HIDE DEF U, T
    <3>3. LogOK(U)
      BY <2>1, <3>2, LogGrows
    <3> QED BY <1>3, <3>1, <3>3
  <2>5. CASE Mark(w) /\ Now(w).id # 0
    <3> DEFINE n == Now(w).id
               U == [T EXCEPT !.prop[n].status = "committed"]
    <3>1. Write(Conn(w), U)
      BY <2>5 DEF Mark, Marked
    <3>2. n \in 1 .. Len(T.prop)
      <4>1. More(w)
        BY <2>1, <2>5, NowIsCurrent DEF Mark, JobOK
      <4> QED BY <2>2, <2>5, <4>1
    <3> HIDE DEF n, T
    <3>3. U.log = T.log
      BY <2>1, <3>2, StatusIs DEF Restated
    <3>4. Len(U.prop) = Len(T.prop)
      <4>1. U.prop = [T.prop EXCEPT ![n] = [T.prop[n] EXCEPT !.status = "committed"]]
        BY <2>1 DEF Tables
      <4>2. T.prop \in Seq(Props)
        BY <2>1, Fields
      <4> QED BY <4>1, <4>2
    <3> HIDE DEF U
    <3>5. LogOK(U)
      BY <2>1, <3>3, <3>4, LogStays
    <3> QED BY <1>3, <3>1, <3>5
  <2>6. CASE Commit(w)
    BY <1>4, <2>1, <2>6 DEF Commit
  <2>7. CASE Load(w) \/ ApplyTraceless(w) \/ Skip(w) \/ (Mark(w) /\ Now(w).id = 0)
    BY <1>2, <2>7 DEF Load, ApplyTraceless, Skip, Mark
  <2>8. CASE Fail(w)
    BY <1>2, <2>8 DEF Fail, Close
  <2> QED BY <1>5, <2>3, <2>4, <2>5, <2>6, <2>7, <2>8 DEF Committing
<1>6. ASSUME NEW w \in Workers, NEW batch \in Batches, Propose(w, batch) PROVE LogInv'
  <2> DEFINE T == View(Conn(w))
             U == Proposed(T, batch)
  <2>1. db' = U /\ tx'.view = U /\ T \in Tables /\ LogOK(T) /\ Len(T.prop) \in Nat
    BY <1>1, <1>6 DEF Propose
  <2> HIDE DEF T
  <2>2. U.log = T.log /\ Len(U.prop) = Len(T.prop) + Len(batch) /\ Len(batch) \in Nat
    BY <2>1, ProposedIs
  <2> HIDE DEF U
  <2> QED BY <2>1, <2>2, LogStays DEF LogInv
<1>7. CASE Reject
  <2>1. PICK n \in job["route"].ids : db' = [db EXCEPT !.prop[n].status = "rejected"]
    BY <1>7 DEF Reject
  <2> DEFINE U == [db EXCEPT !.prop[n].status = "rejected"]
  <2>2. n \in 1 .. Len(db.prop)
    <3>1. "route" \in Workers
      BY DEF Workers
    <3>2. JobOK(job["route"], View("app")) /\ Len(View("app").prop) = Len(db.prop)
      BY <1>1, <3>1, ThreadIs DEF Conn
    <3> QED BY <1>7, <3>2 DEF Reject, JobOK
  <2>3. U.log = db.log
    BY <1>1, <2>2, StatusIs DEF Restated
  <2>4. Len(U.prop) = Len(db.prop) /\ Len(db.prop) \in Nat
    <3>1. U.prop = [db.prop EXCEPT ![n] = [db.prop[n] EXCEPT !.status = "rejected"]]
      BY <1>1 DEF Tables
    <3>2. db.prop \in Seq(Props)
      BY <1>1, Fields
    <3> QED BY <3>1, <3>2
  <2>5. db' = U /\ tx'.view = U
    BY <1>7, <2>1 DEF Reject
  <2> HIDE DEF U
  <2> QED BY <1>1, <2>3, <2>4, <2>5, LogStays DEF LogInv
<1>8. CASE LogInfluence
  <2> DEFINE T == View("app")
             U == [T EXCEPT !.infl = @ \cup turn.recalled]
  <2>1. Write("app", U) /\ T \in Tables /\ LogOK(T)
    BY <1>1, <1>8 DEF LogInfluence
  <2>2. U.log = T.log /\ U.prop = T.prop
    BY <1>1 DEF Tables
  <2> HIDE DEF U, T
  <2> QED BY <1>3, <2>1, <2>2 DEF LogOK
<1>9. CASE TurnCommits
  BY <1>4, <1>9 DEF TurnCommits, Sides
<1>10. CASE Task
  BY <1>2, <1>5, <1>6, <1>10 DEF Task, StartTask, TaskProposes, Workers
<1>11. CASE Route
  BY <1>2, <1>5, <1>6, <1>7, <1>11 DEF Route, RouteProposes, RouteCommits, RouteRejects,
     RejectFails, Workers
<1>12. CASE Recall \/ TurnFails \/ Restart \/ UNCHANGED vars
  BY <1>2, <1>12 DEF Recall, TurnFails, Restart, vars
<1> QED BY <1>8, <1>9, <1>10, <1>11, <1>12 DEF Next

LEMMA OnceTask ==
    ASSUME Inv, HoldInv, LogInv, SeenInv, Task, NEW i \in 1 .. Len(db'.prop),
           i \in 1 .. Len(db.prop) => OnceAt(i), i \notin seen'.raced
    PROVE  OnceAt(i)'
<1>1. "task" \in Workers /\ TypeInv /\ ViewInv /\ job["task"] \in Jobs
  BY DEF Inv, TypeInv, Workers
<1>2. CASE StartTask
  <2> DEFINE j == [job["task"] EXCEPT !.at = "propose"]
  <2>1. job' = [job EXCEPT !["task"] = j] /\ job["task"].at = "idle" /\ UNCHANGED <<db, tx>>
    BY <1>2 DEF StartTask
  <2>2. OwnOf(j) = {} /\ Begun("task") = {}
    BY <1>1, <2>1 DEF OwnOf, Begun, BegunOf, Jobs
  <2>3. Minds(i, tx.on)
    BY <1>1, <2>1, <2>2, MoveMinds
  <2> QED BY <2>1, <2>3, OnceKeeps
<1>3. CASE TaskProposes
  BY <1>1, <1>3, OncePropose DEF TaskProposes
<1>4. ASSUME i \in 1 .. Len(db.prop), Committing("task") PROVE OnceAt(i)'
  BY <1>1, <1>4, OnceCommitting
<1>5. CASE Fail("task")
  <2>1. db' = db
    BY <1>5 DEF Fail, Close
  <2> QED BY <1>1, <1>5, <2>1, OnceFail
<1>6. CASE Committing("task")
  <2>1. Len(db'.prop) = Len(db.prop)
    <3>1. db' = db \/ db' = View("task")
      BY <1>6 DEF Committing, Load, Apply, Succeed, ApplyTraceless, Skip, Mark, Commit, Write,
         CommitOn, Conn
    <3> QED BY <1>1, <3>1, ViewIs
  <2> QED BY <1>4, <1>6, <2>1
<1> QED BY <1>2, <1>3, <1>5, <1>6 DEF Task

LEMMA OnceRoute ==
    ASSUME Inv, HoldInv, LogInv, SeenInv, Route, NEW i \in 1 .. Len(db'.prop),
           i \in 1 .. Len(db.prop) => OnceAt(i), i \notin seen'.raced
    PROVE  OnceAt(i)'
<1>1. "route" \in Workers /\ TypeInv /\ ViewInv /\ job["route"] \in Jobs
  BY DEF Inv, TypeInv, Workers
<1>2. CASE RouteCommits
  <2>0. PICK ids, orders :
           job' = [job EXCEPT !["route"] =
                     [at |-> "load", ids |-> ids, todo |-> {}, orders |-> orders]]
    BY <1>2 DEF RouteCommits
  <2> DEFINE j == [at |-> "load", ids |-> ids, todo |-> {}, orders |-> orders]
  <2>1. job' = [job EXCEPT !["route"] = j] /\ j.at = "load"
    BY <2>0
  <2> HIDE DEF j
  <2>2. job["route"].at = "idle" /\ UNCHANGED <<db, tx>>
    BY <1>2 DEF RouteCommits, Request
  <2>3. OwnOf(j) = {} /\ Begun("route") = {}
    BY <2>1, <2>2 DEF OwnOf, Begun, BegunOf
  <2>4. Minds(i, tx.on)
    BY <1>1, <2>1, <2>3, MoveMinds
  <2> QED BY <2>2, <2>4, OnceKeeps
<1>3. CASE RouteProposes
  BY <1>1, <1>3, OncePropose DEF RouteProposes, Request
<1>4. CASE RouteRejects
  <2>1. PICK n \in DOMAIN db.prop :
           /\ db.prop[n].status = "pending"
           /\ job' = [job EXCEPT !["route"] = [Idle EXCEPT !.at = "reject", !.ids = {n}]]
           /\ seen' = [handled |-> seen.handled \cup {n},
                       raced |-> seen.raced \cup ({n} \cap (Holds("task") \cup Unsettled))]
    BY <1>4 DEF RouteRejects
  <2> DEFINE j == [Idle EXCEPT !.at = "reject", !.ids = {n}]
  <2>2. job["route"].at = "idle" /\ UNCHANGED <<db, tx>> /\ Begun("route") = {}
    BY <1>4 DEF RouteRejects, Request, Begun, BegunOf
  <2>3. OwnOf(j) = {n}
    BY DEF OwnOf, Idle
  <2> HIDE DEF j
  <2>4. CASE i = n
    <3>1. i \notin Holds(Other("route")) \cup Unsettled
      <4>1. seen'.raced = seen.raced \cup ({n} \cap (Holds("task") \cup Unsettled))
        BY <2>1
      <4> QED BY <2>4, <4>1 DEF Other
    <3> QED BY <1>1, <2>1, <2>2, <2>4, <3>1, OnceTakes
  <2>5. CASE i # n
    <3>1. Minds(i, tx.on)
      BY <1>1, <2>1, <2>2, <2>3, <2>5, MoveMinds DEF j
    <3> QED BY <2>2, <3>1, OnceKeeps
  <2> QED BY <2>4, <2>5
<1>5. CASE Reject
  <2>1. Len(db'.prop) = Len(db.prop)
    <3>1. PICK n \in job["route"].ids : db' = [db EXCEPT !.prop[n].status = "rejected"]
      BY <1>5 DEF Reject
    <3>2. db'.prop = [db.prop EXCEPT ![n] = [db.prop[n] EXCEPT !.status = "rejected"]]
      BY <1>1, <3>1 DEF Tables, TypeInv
    <3>3. db.prop \in Seq(Props)
      BY <1>1, Fields DEF TypeInv
    <3> QED BY <3>2, <3>3
  <2> QED BY <1>5, <2>1, OnceReject
<1>6. CASE RejectFails
  <2>1. /\ job' = [job EXCEPT !["route"] = Idle] /\ job["route"].at = "reject"
        /\ UNCHANGED <<db, tx>>
    BY <1>6 DEF RejectFails
  <2>2. OwnOf(Idle) = {} /\ Begun("route") = {}
    BY <2>1 DEF OwnOf, Begun, BegunOf, Idle
  <2>3. Minds(i, tx.on)
    BY <1>1, <2>1, <2>2, MoveMinds
  <2> QED BY <2>1, <2>3, OnceKeeps
<1>7. ASSUME i \in 1 .. Len(db.prop), Committing("route") PROVE OnceAt(i)'
  BY <1>1, <1>7, OnceCommitting
<1>8. CASE Fail("route")
  <2>1. db' = db
    BY <1>8 DEF Fail, Close
  <2> QED BY <1>1, <1>8, <2>1, OnceFail
<1>9. CASE Committing("route")
  <2>1. Len(db'.prop) = Len(db.prop)
    <3>1. db' = db \/ db' = View("app")
      BY <1>9 DEF Committing, Load, Apply, Succeed, ApplyTraceless, Skip, Mark, Commit, Write,
         CommitOn, Conn
    <3> QED BY <1>1, <3>1, ViewIs
  <2> QED BY <1>7, <1>9, <2>1
<1> QED BY <1>2, <1>3, <1>4, <1>5, <1>6, <1>8, <1>9 DEF Route

LEMMA OnceTurn ==
    ASSUME Inv, SeenInv, Recall \/ LogInfluence \/ TurnFails \/ TurnCommits \/ UNCHANGED vars,
           NEW i, OnceAt(i), i \notin seen'.raced
    PROVE  OnceAt(i)'
<1>1. TypeInv /\ ViewInv /\ job' = job /\ \A c : Minds(i, c)
  BY StayMinds DEF Inv, Recall, LogInfluence, TurnFails, TurnCommits, vars
<1>2. CASE LogInfluence
  <2> DEFINE T == View("app")
             U == [T EXCEPT !.infl = @ \cup turn.recalled]
  <2>1. Write("app", U) /\ CanWrite("app") /\ "app" \in Sides
    BY <1>2 DEF LogInfluence, Sides
  <2>2. U.log = T.log /\ U.prop = T.prop
    BY <1>1, ViewIs DEF Tables
  <2> HIDE DEF U
  <2>3. Same(View("app"), U, i)
    BY <2>2 DEF Same, HasLog, Single
  <2> QED BY <1>1, <2>1, <2>3, OnceWrites
<1>3. CASE TurnCommits
  <2>1. CommitOn("app") /\ "app" \in Sides /\ "route" \in Workers
    BY <1>3 DEF TurnCommits, Sides, Workers
  <2>2. i \notin Begun("route")
    <3>1. seen' = [seen EXCEPT !.raced = @ \cup Half("route")]
      BY <1>3 DEF TurnCommits
    <3>2. i \notin Half("route")
      BY <3>1 DEF SeenInv
    <3> QED BY <2>1, <3>2, HalfIs DEF Begun, BegunOf
  <2>3. \A w \in Workers : Conn(w) = "app" => w = "route"
    BY DEF Conn, Workers
  <2> QED BY <1>1, <2>1, <2>2, <2>3, OnceCommits
<1>4. CASE Recall \/ TurnFails \/ UNCHANGED vars
  <2>1. UNCHANGED <<db, tx>>
    BY <1>4 DEF Recall, TurnFails, vars
  <2> QED BY <1>1, <2>1, OnceKeeps
<1> QED BY <1>2, <1>3, <1>4

LEMMA OnceRestart == ASSUME Restart, NEW i, OnceAt(i) PROVE OnceAt(i)'
<1>1. db' = db /\ tx' = [on |-> "none", view |-> db] /\ \A w \in Workers : job'[w] = Idle
  BY DEF Restart
<1>2. \A w \in Workers : i \notin Own(w)'
  BY <1>1 DEF Own, OwnOf, Idle
<1> QED BY <1>1, <1>2, OnceDiscards

\* The developer handles, and two threads race for, more and more proposals.
LEMMA RacedGrows ==
    ASSUME SeenInv, [Next]_vars
    PROVE  seen.raced \subseteq seen'.raced /\ seen.handled \subseteq seen'.handled
<1>1. \A S : /\ [seen EXCEPT !.raced = S].raced = S
             /\ [seen EXCEPT !.raced = S].handled = seen.handled
             /\ [seen EXCEPT !.handled = S].handled = S
             /\ [seen EXCEPT !.handled = S].raced = seen.raced
  BY DEF SeenInv
<1>2. CASE \E w \in Workers : Committing(w) \/ Fail(w)
  <2>1. PICK w \in Workers : Committing(w) \/ Fail(w)
    BY <1>2
  <2>2. CASE Load(w)
    BY <1>1, <2>2 DEF Load
  <2>3. CASE ~ Load(w)
    BY <2>1, <2>3 DEF Committing, Apply, Succeed, ApplyTraceless, Skip, Mark, Commit, Fail
  <2> QED BY <2>2, <2>3
<1>3. CASE StartTask \/ TaskProposes
  BY <1>3 DEF StartTask, TaskProposes
<1>4. CASE RouteProposes \/ RouteCommits \/ RouteRejects \/ Reject \/ RejectFails
  <2>1. CASE RouteRejects
    <3>1. PICK n : seen' = [handled |-> seen.handled \cup {n},
                            raced |-> seen.raced \cup ({n} \cap (Holds("task") \cup Unsettled))]
      BY <2>1 DEF RouteRejects
    <3> QED BY <3>1
  <2>2. CASE RouteCommits
    <3>1. PICK ids : seen' = [seen EXCEPT !.handled = @ \cup ids]
      BY <2>2 DEF RouteCommits
    <3> QED BY <1>1, <3>1
  <2>3. CASE RouteProposes \/ Reject \/ RejectFails
    BY <2>3 DEF RouteProposes, Reject, RejectFails
  <2> QED BY <1>4, <2>1, <2>2, <2>3
<1>5. CASE Recall \/ LogInfluence \/ TurnFails \/ TurnCommits \/ Restart \/ UNCHANGED vars
  BY <1>1, <1>5 DEF Recall, LogInfluence, TurnFails, TurnCommits, Restart, vars
<1> QED BY <1>2, <1>3, <1>4, <1>5 DEF Next, Task, Route, Workers

LEMMA OnceStep ==
    ASSUME Inv, HoldInv, LogInv, SeenInv, OnceInv, [Next]_vars
    PROVE  OnceInv'
<1> SUFFICES ASSUME NEW i \in 1 .. Len(db'.prop), i \notin seen'.raced PROVE OnceAt(i)'
  BY DEF OnceInv
<1>1. i \notin seen.raced
  <2>1. seen.raced \subseteq seen'.raced
    BY RacedGrows
  <2> QED BY <2>1
<1>2. i \in 1 .. Len(db.prop) => OnceAt(i)
  BY <1>1 DEF OnceInv
<1>3. CASE Task
  BY <1>2, <1>3, OnceTask
<1>4. CASE Route
  BY <1>2, <1>4, OnceRoute
<1>5. CASE Recall \/ LogInfluence \/ TurnFails \/ TurnCommits \/ Restart \/ UNCHANGED vars
  <2>1. Len(db'.prop) = Len(db.prop)
    <3>1. db' = db \/ db' = View("app")
      BY <1>5 DEF Recall, LogInfluence, TurnFails, TurnCommits, Restart, vars, Write, CommitOn
    <3> QED BY <3>1, ViewIs DEF Inv
  <2> QED BY <1>2, <1>5, <2>1, OnceTurn, OnceRestart
<1> QED BY <1>3, <1>4, <1>5 DEF Next

LEMMA OnceMeansDecided ==
    ASSUME Inv, OnceInv
    PROVE  DecidedOnce
<1> SUFFICES ASSUME NEW i \in DOMAIN db.prop, i \notin seen.raced
             PROVE  Times(i) <= IF db.prop[i].status = "rejected" THEN 0 ELSE 1
  BY DEF DecidedOnce
<1> DEFINE entries == {k \in DOMAIN db.log : db.log[k].prop = i}
<1>1. /\ DOMAIN db.prop = 1 .. Len(db.prop) /\ DOMAIN db.log = 1 .. Len(db.log)
      /\ Len(db.log) \in Nat
  BY Fields, Lengths DEF Inv, TypeInv
<1>2. Kept(db, i)
  BY <1>1 DEF OnceInv, OnceAt
<1>3. CASE entries = {}
  <2>1. Times(i) = 0
    BY <1>3, FS_EmptySet DEF Times
  <2> QED BY <2>1
<1>4. CASE entries # {}
  <2>1. PICK k : k \in entries
    BY <1>4
  <2>2. entries = {k}
    BY <1>1, <1>2, <2>1 DEF Kept, Single
  <2>3. Times(i) = 1
    BY <2>2, FS_Singleton DEF Times
  <2>4. HasLog(db, i)
    BY <1>1, <2>1 DEF HasLog
  <2> QED BY <1>2, <2>3, <2>4 DEF Kept
<1> QED BY <1>3, <1>4

\* A proposal is carried out at most once, and not at all when it is rejected, for any
\* operations and any number of turns, tasks, requests and restarts, whenever no two
\* have read it as pending at once: managed.py reads what is pending before it begins,
\* and marks in the transaction that carries it out.
THEOREM ProposalsAreDecidedOnce == Spec => []DecidedOnce
<1> DEFINE All == Inv /\ SeenInv /\ HoldInv /\ LogInv /\ OnceInv
<1>1. Init => All
  <2> SUFFICES ASSUME Init PROVE All
    OBVIOUS
  <2>1. Inv /\ SeenInv
    BY InitInv DEF Init, SeenInv
  <2>2. HoldInv
    BY DEF Init, HoldInv, Idle
  <2>3. Len(db.log) = 0 /\ Len(db.prop) = 0 /\ tx.view = db
    BY DEF Init
  <2>4. LogInv /\ OnceInv
    BY <2>3 DEF LogInv, LogOK, OnceInv
  <2> QED BY <2>1, <2>2, <2>4
<1>2. All /\ [Next]_vars => All'
  BY StepInv, SeenStep, HoldStep, LogStep, OnceStep
<1>3. All => DecidedOnce
  BY OnceMeansDecided
<1> QED BY <1>1, <1>2, <1>3, PTL DEF Spec

-----------------------------------------------------------------------------
(* A reply's proposals are committed together *)

Proposals == 1 .. Len(db.prop)
Busy == {"apply", "succeed", "mark"}
Named(T, i) == T.prop[i].op = "add" \/ T.prop[i].target # 0

\* The proposals of a batch are numbered from the batch's name on.
BatchInv == \A i \in Proposals : db.prop[i].batch <= Len(db.prop)

\* The worker has a transaction only while it carries out, it has proposals only from
\* proposing to committing them, and the developer has none but those he handles.
HandsInv ==
    /\ tx.on = "task" => job["task"].at \in Busy
    /\ job["task"].ids # {} => job["task"].at \in {"load"} \cup Busy
    /\ job["task"].ids \subseteq Proposals
    /\ job["route"].ids \subseteq seen.handled

\* A proposal that the developer lets be: no transaction but the worker's changes it;
\* and the worker has all of its batch in hand, pending until it commits.
LeftAlone(i) ==
    /\ i \notin job["task"].ids \/ tx.on # "task" => tx.view.prop[i].status = db.prop[i].status
    /\ i \in job["task"].ids =>
          /\ db.prop[i].status = "pending"
          /\ \A k \in Proposals : db.prop[k].batch = db.prop[i].batch => k \in job["task"].ids
          /\ job["task"].at \in Busy /\ Named(db, i) /\ i \notin job["task"].todo =>
                View("task").prop[i].status = "committed"

LeftInv == \A i \in Proposals : i \notin seen.handled => LeftAlone(i)

TogetherInv ==
    \A i, k \in Proposals :
        /\ i \notin seen.handled /\ k \notin seen.handled /\ db.prop[i].batch = db.prop[k].batch
        /\ Named(db, i) /\ Named(db, k)
        => db.prop[i].status = db.prop[k].status

ReplyInv == BatchInv /\ HandsInv /\ LeftInv /\ TogetherInv

\* A new proposal has a name of its own for its batch.
NewBatch == \A i \in Proposals' : i \notin Proposals =>
               db'.prop[i].batch > Len(db.prop) /\ db'.prop[i].status = "pending"

LEMMA ProposesNew ==
    ASSUME Inv, NEW w \in Workers, NEW batch \in Batches, Propose(w, batch)
    PROVE  /\ NewBatch
           /\ \A i \in Proposals : /\ db'.prop[i] = View(Conn(w)).prop[i]
                                   /\ db'.prop[i].status = View(Conn(w)).prop[i].status
           /\ \A i \in Proposals' : i \notin Proposals => db'.prop[i].batch = Len(db.prop) + 1
           /\ Len(db'.prop) = Len(db.prop) + Len(batch) /\ Len(batch) \in Nat
<1> DEFINE T == View(Conn(w))
<1>1. T \in Tables /\ Len(T.prop) = Len(db.prop) /\ Len(T.prop) \in Nat
  BY ThreadIs, ViewIs, Lengths DEF Inv
<1>2. db' = Proposed(T, batch)
  BY DEF Propose
<1> HIDE DEF T
<1>3. /\ Len(db'.prop) = Len(T.prop) + Len(batch) /\ Len(batch) \in Nat
      /\ \A k \in 1 .. Len(T.prop) : db'.prop[k] = T.prop[k]
      /\ \A k \in 1 .. Len(db'.prop) : k > Len(T.prop) =>
            db'.prop[k].status = "pending" /\ db'.prop[k].batch = Len(T.prop) + 1
  BY <1>1, <1>2, ProposedIs
<1>4. /\ Proposals = 1 .. Len(T.prop) /\ Proposals' = 1 .. Len(db'.prop)
      /\ Proposals \subseteq Proposals'
  BY <1>1, <1>3 DEF Proposals
<1>5. ASSUME NEW i \in Proposals
      PROVE  db'.prop[i] = T.prop[i] /\ db'.prop[i].status = T.prop[i].status
  BY <1>3, <1>4
<1>6. ASSUME NEW i \in Proposals', i \notin Proposals
      PROVE  /\ db'.prop[i].batch = Len(db.prop) + 1 /\ db'.prop[i].batch > Len(db.prop)
             /\ db'.prop[i].status = "pending"
  <2>1. i \in 1 .. Len(db'.prop) /\ i > Len(T.prop)
    BY <1>1, <1>3, <1>4, <1>6
  <2> QED BY <1>1, <1>3, <2>1
<1>7. NewBatch
  BY <1>6 DEF NewBatch
<1> QED BY <1>1, <1>3, <1>5, <1>6, <1>7 DEF T

\* Without new proposals there is no new batch.
LEMMA KeepsBatches ==
    ASSUME Inv, db' = db \/ db' = View("app") \/ db' = View("task")
    PROVE  NewBatch /\ Proposals' = Proposals
  BY ViewIs DEF Inv, NewBatch, Proposals

LEMMA RejectIs ==
    ASSUME Inv, Reject
    PROVE  /\ \E n \in job["route"].ids :
                 /\ db' = [db EXCEPT !.prop[n].status = "rejected"]
                 /\ \A i : i # n => db'.prop[i] = db.prop[i]
           /\ Proposals' = Proposals
<1>1. PICK n \in job["route"].ids : db' = [db EXCEPT !.prop[n].status = "rejected"]
  BY DEF Reject
<1>2. "route" \in Workers /\ Conn("route") = "app" /\ TypeInv /\ ViewInv /\ db \in Tables
  BY DEF Workers, Conn, Inv, TypeInv
<1>3. n \in 1 .. Len(db.prop)
  <2>1. JobOK(job["route"], View("app")) /\ Len(View("app").prop) = Len(db.prop)
    BY <1>2, ThreadIs, ViewIs
  <2> QED BY <1>1, <2>1 DEF Reject, JobOK
<1>4. \A i : i # n => db'.prop[i] = db.prop[i]
  <2>1. Restated(db, [db EXCEPT !.prop[n].status = "rejected"], n, "rejected")
    BY <1>2, <1>3, StatusIs
  <2> QED BY <1>1, <2>1 DEF Restated
<1>5. Len(db'.prop) = Len(db.prop)
  <2>1. db'.prop = [db.prop EXCEPT ![n] = [db.prop[n] EXCEPT !.status = "rejected"]]
    BY <1>1, <1>2 DEF Tables
  <2>2. db.prop \in Seq(Props)
    BY <1>2, Fields
  <2> QED BY <2>1, <2>2
<1> QED BY <1>1, <1>4, <1>5 DEF Proposals

\* Nobody else adds proposals.
LEMMA NewMeansProposed ==
    ASSUME Inv, [Next]_vars
    PROVE  \/ NewBatch /\ Proposals' = Proposals
           \/ \E w \in Workers, batch \in Batches : Propose(w, batch)
<1>1. "task" \in Workers /\ "route" \in Workers
  BY DEF Workers
<1>2. ASSUME NEW w \in Workers, Committing(w) \/ Fail(w)
      PROVE  NewBatch /\ Proposals' = Proposals
  <2>1. db' = db \/ db' = View("app") \/ db' = View("task")
    BY <1>2 DEF Committing, Load, Apply, Succeed, ApplyTraceless, Skip, Mark, Commit, Write,
       CommitOn, Conn, Fail, Close
  <2> QED BY <2>1, KeepsBatches
<1>3. CASE StartTask \/ RouteCommits \/ RouteRejects \/ RejectFails
  BY <1>3, KeepsBatches DEF StartTask, RouteCommits, RouteRejects, RejectFails
<1>4. CASE TaskProposes
  BY <1>1, <1>4, Zenon DEF TaskProposes
<1>5. CASE RouteProposes
  BY <1>1, <1>5, Zenon DEF RouteProposes
<1>6. CASE Reject
  BY <1>6, RejectIs DEF NewBatch
<1>7. CASE Recall \/ LogInfluence \/ TurnFails \/ TurnCommits \/ Restart \/ UNCHANGED vars
  BY <1>7, KeepsBatches DEF Recall, LogInfluence, TurnFails, TurnCommits, Restart, vars,
     Write, CommitOn
<1>8. CASE Committing("task") \/ Fail("task") \/ Committing("route") \/ Fail("route")
  BY <1>1, <1>2, <1>8
<1> QED BY <1>3, <1>4, <1>5, <1>6, <1>7, <1>8 DEF Next, Task, Route

LEMMA BatchStep == ASSUME Inv, BatchInv, [Next]_vars PROVE NewBatch /\ BatchInv'
<1>1. NewBatch
  BY NewMeansProposed, ProposesNew
<1>2. ASSUME NEW i \in Proposals' PROVE db'.prop[i].batch <= Len(db'.prop)
  <2>1. db \in Tables /\ db' \in Tables /\ Len(db.prop) \in Nat /\ Len(db'.prop) \in Nat
    BY StepInv, Lengths DEF Inv, TypeInv
  <2>2. CASE i \in Proposals
    <3>1. db'.prop[i].batch = db.prop[i].batch /\ db.prop[i].batch <= Len(db.prop)
      BY <2>2, CommittedGrows DEF Before, BatchInv, Proposals
    <3>2. Len(db.prop) <= Len(db'.prop)
      BY CommittedGrows
    <3>3. db.prop[i].batch \in Nat
      <4>1. db.prop[i] \in Props
        BY <2>1, <2>2, Fields DEF Proposals
      <4> QED BY <4>1 DEF Props
    <3> QED BY <2>1, <3>1, <3>2, <3>3
  <2>3. CASE i \notin Proposals
    <3>1. PICK w \in Workers, batch \in Batches : Propose(w, batch)
      <4>1. Proposals' # Proposals
        BY <2>3
      <4> QED BY <4>1, NewMeansProposed
    <3>2. /\ db'.prop[i].batch = Len(db.prop) + 1
          /\ Len(db'.prop) = Len(db.prop) + Len(batch) /\ Len(batch) \in Nat
      BY <2>3, <3>1, ProposesNew
    <3> QED BY <2>1, <2>3, <3>2 DEF Proposals
  <2> QED BY <2>2, <2>3
<1> QED BY <1>1, <1>2 DEF BatchInv

-----------------------------------------------------------------------------
(* What the other threads leave alone *)

\* The status of a proposal stays with the committed tables, and with the transaction
\* unless that one is the worker's and goes on.
Quiet(i) ==
    /\ db'.prop[i].status = db.prop[i].status
    /\ \/ tx' = tx
       \/ /\ tx.on # "task" /\ tx'.on # "task"
          /\ tx'.view.prop[i].status = db.prop[i].status

\* What stays of the batches.
LEMMA BatchesStay ==
    ASSUME Inv, BatchInv, [Next]_vars
    PROVE  /\ \A i \in Proposals : /\ i \in Proposals' /\ (Named(db, i) <=> Named(db', i))
                                   /\ db'.prop[i].batch = db.prop[i].batch
           /\ \A i \in Proposals, k \in Proposals' :
                 db'.prop[k].batch = db'.prop[i].batch => k \in Proposals
<1>1. \A i \in Proposals : /\ i \in Proposals' /\ (Named(db, i) <=> Named(db', i))
                           /\ db'.prop[i].batch = db.prop[i].batch
  <2>1. Len(db.prop) \in Nat /\ Len(db'.prop) \in Nat
    BY StepInv, Lengths DEF Inv, TypeInv
  <2> QED BY <2>1, CommittedGrows DEF Before, Proposals, Named
<1>2. ASSUME NEW i \in Proposals, NEW k \in Proposals', k \notin Proposals
      PROVE  db'.prop[k].batch # db'.prop[i].batch
  <2>1. db'.prop[k].batch > Len(db.prop)
    BY <1>2, BatchStep DEF NewBatch
  <2>2. db'.prop[i].batch <= Len(db.prop)
    BY <1>1 DEF BatchInv
  <2>3. db'.prop[i].batch \in Nat /\ Len(db.prop) \in Nat /\ db'.prop[k].batch \in Nat
    <3>1. db \in Tables /\ db' \in Tables
      BY StepInv DEF Inv, TypeInv
    <3>2. db'.prop[i] \in Props /\ db'.prop[k] \in Props
      BY <1>1, <3>1, Fields DEF Proposals
    <3> QED BY <3>1, <3>2, Lengths DEF Props
  <2> QED BY <2>1, <2>2, <2>3
<1> QED BY <1>1, <1>2

\* What a step has to show: of the statuses of old proposals that are let be, that they
\* agree in a batch as they did.
LEMMA TogetherStep ==
    ASSUME Inv, SeenInv, BatchInv, TogetherInv, [Next]_vars,
           \A i \in Proposals, k \in Proposals :
              /\ i \notin seen'.handled /\ k \notin seen'.handled
              /\ db.prop[i].batch = db.prop[k].batch /\ Named(db, i) /\ Named(db, k)
              /\ db.prop[i].status = db.prop[k].status
              => db'.prop[i].status = db'.prop[k].status
    PROVE  TogetherInv'
<1> SUFFICES ASSUME NEW i \in Proposals', NEW k \in Proposals',
                    i \notin seen'.handled, k \notin seen'.handled,
                    db'.prop[i].batch = db'.prop[k].batch, Named(db', i), Named(db', k)
             PROVE  db'.prop[i].status = db'.prop[k].status
  BY DEF TogetherInv
<1>1. CASE i \in Proposals
  <2>1. k \in Proposals
    BY <1>1, BatchesStay
  <2>2. /\ Named(db, i) /\ Named(db, k) /\ db.prop[i].batch = db.prop[k].batch
        /\ i \notin seen.handled /\ k \notin seen.handled
    BY <1>1, <2>1, BatchesStay, RacedGrows
  <2> QED BY <1>1, <2>1, <2>2 DEF TogetherInv
<1>2. CASE i \notin Proposals
  <2>1. k \notin Proposals
    BY <1>2, BatchesStay
  <2> QED BY <1>2, <2>1, BatchStep DEF NewBatch
<1> QED BY <1>1, <1>2

LEMMA AloneStays ==
    ASSUME Inv, BatchInv, [Next]_vars, NEW i \in Proposals, LeftAlone(i), Quiet(i),
           job'["task"] = job["task"]
    PROVE  LeftAlone(i)'
<1>1. /\ db'.prop[i].status = db.prop[i].status
      /\ i \notin job["task"].ids \/ tx'.on # "task" =>
            tx'.view.prop[i].status = db'.prop[i].status
  BY DEF Quiet, LeftAlone
<1>2. View("task")'.prop[i].status = View("task").prop[i].status
  BY DEF Quiet, View
<1>3. ASSUME NEW k \in Proposals', db'.prop[k].batch = db'.prop[i].batch, i \in job["task"].ids
      PROVE  k \in job["task"].ids
  BY <1>3, BatchesStay DEF LeftAlone
<1>4. Named(db', i) <=> Named(db, i)
  BY BatchesStay
<1>5. LeftAlone(i)' <=>
         /\ i \notin job'["task"].ids \/ tx'.on # "task" =>
               tx'.view.prop[i].status = db'.prop[i].status
         /\ i \in job'["task"].ids =>
               /\ db'.prop[i].status = "pending"
               /\ \A k \in Proposals' :
                     db'.prop[k].batch = db'.prop[i].batch => k \in job'["task"].ids
               /\ job'["task"].at \in Busy /\ Named(db', i) /\ i \notin job'["task"].todo =>
                     View("task")'.prop[i].status = "committed"
  BY DEF LeftAlone
<1> QED BY <1>1, <1>2, <1>3, <1>4, <1>5 DEF LeftAlone

\* A step of the turn or the developer, the worker being let be.
LEMMA OthersKeep ==
    ASSUME Inv, SeenInv, ReplyInv, [Next]_vars, job'["task"] = job["task"],
           tx' = tx \/ tx'.on # "task", job'["route"].ids \subseteq seen'.handled,
           \A i \in Proposals : i \notin seen'.handled => Quiet(i),
           \A i \in Proposals' : i \notin Proposals => tx'.view = db'
    PROVE  ReplyInv'
<1>1. BatchInv'
  BY BatchStep DEF ReplyInv
<1>2. HandsInv'
  <2>1. job["task"].ids \subseteq Proposals'
    BY BatchesStay DEF ReplyInv, HandsInv
  <2> QED BY <2>1 DEF ReplyInv, HandsInv
<1>3. LeftInv'
  <2> SUFFICES ASSUME NEW i \in Proposals', i \notin seen'.handled PROVE LeftAlone(i)'
    BY DEF LeftInv
  <2>1. CASE i \in Proposals
    <3>1. LeftAlone(i) /\ Quiet(i)
      BY <2>1, RacedGrows DEF ReplyInv, LeftInv
    <3> QED BY <2>1, <3>1, AloneStays DEF ReplyInv
  <2>2. CASE i \notin Proposals
    BY <2>2 DEF LeftAlone, ReplyInv, HandsInv
  <2> QED BY <2>1, <2>2
<1>4. TogetherInv'
  BY TogetherStep DEF ReplyInv, Quiet
<1> QED BY <1>1, <1>2, <1>3, <1>4 DEF ReplyInv

\* A connection other than the worker's, while it may write, sees of a proposal that is
\* let be what is committed.
LEMMA SeenAlone ==
    ASSUME NEW i, LeftAlone(i), NEW c, c # "task", CanWrite(c)
    PROVE  tx.on # "task" /\ View(c).prop[i].status = db.prop[i].status
  BY DEF LeftAlone, View, CanWrite

LEMMA WriteIsQuiet ==
    ASSUME NEW i, LeftAlone(i), CanWrite("app"), NEW U, Write("app", U),
           U.prop[i].status = View("app").prop[i].status
    PROVE  Quiet(i)
  BY SeenAlone DEF Quiet, Write

LEMMA PublishIsQuiet ==
    ASSUME NEW i, LeftAlone(i), NEW c, c # "task", CanWrite(c), NEW U,
           db' = U, tx' = [on |-> "none", view |-> U],
           U.prop[i].status = View(c).prop[i].status
    PROVE  Quiet(i)
<1>1. tx.on # "task" /\ View(c).prop[i].status = db.prop[i].status
  BY SeenAlone
<1> QED BY <1>1 DEF Quiet

LEMMA CommitIsQuiet ==
    ASSUME NEW i, LeftAlone(i), CommitOn("app")
    PROVE  Quiet(i) /\ (tx' = tx \/ tx'.on # "task")
<1>1. CASE tx.on = "app"
  <2>1. db' = View("app") /\ tx' = [on |-> "none", view |-> View("app")] /\ CanWrite("app")
    BY <1>1 DEF CommitOn, View, CanWrite
  <2> QED BY <2>1, PublishIsQuiet
<1>2. CASE tx.on # "app"
  <2>1. db' = db /\ tx' = tx
    BY <1>2 DEF CommitOn, View
  <2> QED BY <2>1 DEF Quiet
<1> QED BY <1>1, <1>2

\* The operation in hand.
LEMMA InHand ==
    ASSUME Inv, HoldInv, NEW w \in Workers, More(w)
    PROVE  LET T == View(Conn(w)) IN
           /\ Now(w) = [id |-> Now(w).id, op |-> Now(w).op, target |-> Now(w).target]
           /\ job[w].todo = {} => Now(w).id = 0
           /\ job[w].todo # {} =>
                 /\ Now(w).id = Min(job[w].todo) /\ Now(w).id \in job[w].todo
                 /\ Now(w).id \in job[w].ids /\ Now(w).id \in 1 .. Len(T.prop) /\ Now(w).id # 0
                 /\ Now(w).op = T.prop[Now(w).id].op /\ Now(w).target = T.prop[Now(w).id].target
<1>1. job[w] \in Jobs /\ JobOK(job[w], View(Conn(w)))
  BY ThreadIs
<1>2. job[w].todo # {} => Min(job[w].todo) \in job[w].todo
  BY <1>1, MinIsMember DEF Jobs
<1>3. job[w].todo \subseteq 1 .. Len(View(Conn(w)).prop) /\ job[w].todo \subseteq job[w].ids
  BY <1>1 DEF JobOK, HoldInv
<1>4. CASE job[w].todo = {}
  BY <1>4 DEF Now
<1>5. CASE job[w].todo # {}
  <2>1. Now(w) = [id |-> Min(job[w].todo), op |-> View(Conn(w)).prop[Min(job[w].todo)].op,
                  target |-> View(Conn(w)).prop[Min(job[w].todo)].target]
    BY <1>5 DEF Now, Item
  <2>2. /\ Min(job[w].todo) \in job[w].ids /\ Min(job[w].todo) \in 1 .. Len(View(Conn(w)).prop)
        /\ Min(job[w].todo) # 0
    BY <1>2, <1>3, <1>5
  <2> QED BY <1>2, <1>5, <2>1, <2>2
<1> QED BY <1>4, <1>5

\* What carrying out and marking an operation does to the proposals.
LEMMA CarriesOut ==
    ASSUME Inv, HoldInv, NEW w \in Workers, Apply(w) \/ Succeed(w) \/ Mark(w)
    PROVE  \/ UNCHANGED <<db, tx>> /\ Mark(w) /\ job[w].todo = {}
           \/ \E U : /\ Write(Conn(w), U) /\ CanWrite(Conn(w))
                     /\ Apply(w) \/ Succeed(w) => U.prop = View(Conn(w)).prop
                     /\ Mark(w) => /\ job[w].todo # {}
                                   /\ U.prop[Now(w).id].status = "committed"
                                   /\ \A i : i # Now(w).id => U.prop[i] = View(Conn(w)).prop[i]
<1> DEFINE T == View(Conn(w))
<1>1. T \in Tables
  BY ThreadIs
<1>2. CASE Apply(w)
  <2>1. More(w) /\ Write(Conn(w), Effect(T, Now(w))) /\ CanWrite(Conn(w)) /\ ~ Mark(w)
    BY <1>2 DEF Apply, Applies, Mark
  <2>2. Effect(T, Now(w)).prop = T.prop
    <3> DEFINE it == Now(w)
    <3>1. it = [id |-> it.id, op |-> it.op, target |-> it.target]
      BY <2>1, InHand
    <3> HIDE DEF it, T
    <3>2. LogsFor(T, Effect(T, [id |-> it.id, op |-> it.op, target |-> it.target]), it.id)
      BY <1>1, EffectLogs
    <3>3. Effect(T, it).prop = T.prop
      BY <3>1, <3>2 DEF LogsFor
    <3> QED BY <3>3 DEF it
  <2> QED BY <2>1, <2>2
<1>3. CASE Succeed(w)
  <2>1. Write(Conn(w), Added(T, Now(w).target, 0)) /\ CanWrite(Conn(w)) /\ ~ Mark(w)
    BY <1>3 DEF Succeed, Mark
  <2>2. Added(T, Now(w).target, 0).prop = T.prop
    BY <1>1, AddedLogs DEF LogsFor
  <2> QED BY <2>1, <2>2
<1>4. CASE Mark(w)
  <2>1. More(w) /\ ~ Apply(w) /\ ~ Succeed(w)
    BY <1>4, ThreadIs, NowIsCurrent DEF Mark, JobOK, Apply, Applies, Succeed
  <2>2. CASE job[w].todo = {}
    BY <1>4, <2>1, <2>2, InHand DEF Mark
  <2>3. CASE job[w].todo # {}
    <3> DEFINE n == Now(w).id
               U == [T EXCEPT !.prop[n].status = "committed"]
    <3>1. n # 0 /\ n \in 1 .. Len(T.prop)
      BY <2>1, <2>3, InHand
    <3>2. CanWrite(Conn(w)) /\ Write(Conn(w), U)
      BY <1>4, <3>1 DEF Mark, Marked
    <3>3. Restated(T, U, n, "committed")
      <4> HIDE DEF T, n
      <4> QED BY <1>1, <3>1, StatusIs
    <3> HIDE DEF U
    <3> QED BY <2>1, <2>3, <3>2, <3>3 DEF Restated
  <2> QED BY <2>2, <2>3
<1> QED BY <1>2, <1>3, <1>4

\* A thread that carries out stays with the proposals it has, or is done with them.
LEMMA ThreadMoves ==
    ASSUME Inv, NEW w \in Workers, Committing(w) \/ Fail(w)
    PROVE  \E j : job' = [job EXCEPT ![w] = j] /\ j.ids \subseteq job[w].ids
<1>1. job[w] \in Jobs /\ job \in [Workers -> Jobs]
  BY DEF Inv, TypeInv
<1>2. CASE Load(w)
  <2> DEFINE j == [job[w] EXCEPT !.at = "apply", !.todo = Waiting(View(Conn(w)), job[w].ids)]
  <2>1. job' = [job EXCEPT ![w] = j] /\ j.ids = job[w].ids
    BY <1>1, <1>2 DEF Load, Jobs
  <2> QED BY <2>1
<1>3. CASE Apply(w) \/ Succeed(w) \/ ApplyTraceless(w)
  <2>1. PICK at : job' = [job EXCEPT ![w].at = at]
    BY <1>3 DEF Apply, Succeed, ApplyTraceless
  <2> DEFINE j == [job[w] EXCEPT !.at = at]
  <2>2. job' = [job EXCEPT ![w] = j] /\ j.ids = job[w].ids
    BY <1>1, <2>1 DEF Jobs
  <2> QED BY <2>2
<1>4. CASE Skip(w) \/ Mark(w)
  <2>1. job' = Done(w) /\ More(w)
    BY <1>4, ThreadIs, NowIsCurrent DEF Skip, Mark, JobOK
  <2> QED BY <2>1, DoneOwns
<1>5. CASE Commit(w) \/ Fail(w)
  BY <1>5 DEF Commit, Fail, Idle
<1> QED BY <1>2, <1>3, <1>4, <1>5 DEF Committing

LEMMA RouteMoves ==
    ASSUME Inv, SeenInv, Route, job["route"].ids \subseteq seen.handled
    PROVE  \E j : job' = [job EXCEPT !["route"] = j] /\ j.ids \subseteq seen'.handled
<1>1. "route" \in Workers /\ Idle.ids = {}
  BY DEF Workers, Idle
<1>2. CASE RouteProposes
  <2>1. job' = [job EXCEPT !["route"] = Idle]
    BY <1>2 DEF RouteProposes, Propose
  <2> QED BY <1>1, <2>1
<1>3. CASE RouteCommits
  <2>1. PICK ids, orders :
           /\ job' = [job EXCEPT !["route"] =
                        [at |-> "load", ids |-> ids, todo |-> {}, orders |-> orders]]
           /\ seen' = [seen EXCEPT !.handled = @ \cup ids]
    BY <1>3 DEF RouteCommits
  <2>2. seen'.handled = seen.handled \cup ids
    BY <2>1 DEF SeenInv
  <2> QED BY <2>1, <2>2
<1>4. CASE RouteRejects
  <2>1. PICK n :
           /\ job' = [job EXCEPT !["route"] = [Idle EXCEPT !.at = "reject", !.ids = {n}]]
           /\ seen' = [handled |-> seen.handled \cup {n},
                       raced |-> seen.raced \cup ({n} \cap (Holds("task") \cup Unsettled))]
    BY <1>4 DEF RouteRejects
  <2>2. [Idle EXCEPT !.at = "reject", !.ids = {n}].ids = {n}
    BY DEF Idle
  <2> QED BY <2>1, <2>2
<1>5. CASE Reject \/ RejectFails
  <2>1. job' = [job EXCEPT !["route"] = Idle]
    BY <1>5 DEF Reject, RejectFails
  <2> QED BY <1>1, <2>1
<1>6. CASE Committing("route") \/ Fail("route")
  <2>1. seen.handled \subseteq seen'.handled
    BY <1>6 DEF SeenInv, Committing, Load, Apply, Succeed, ApplyTraceless, Skip, Mark, Commit, Fail
  <2> QED BY <1>1, <1>6, <2>1, ThreadMoves
<1> QED BY <1>2, <1>3, <1>4, <1>5, <1>6 DEF Route

LEMMA ReplyRoute ==
    ASSUME Inv, HoldInv, SeenInv, ReplyInv, Route, [Next]_vars
    PROVE  ReplyInv'
<1>1. /\ "route" \in Workers /\ Conn("route") = "app" /\ TypeInv /\ ViewInv
  BY DEF Workers, Conn, Inv
<1>2. /\ seen.handled \subseteq seen'.handled /\ job["route"].ids \subseteq seen.handled
      /\ \A i \in Proposals : i \notin seen'.handled => LeftAlone(i) /\ i \notin job["route"].ids
  BY RacedGrows DEF ReplyInv, LeftInv, HandsInv
<1>3. job'["route"].ids \subseteq seen'.handled /\ job'["task"] = job["task"]
  <2>1. PICK j : job' = [job EXCEPT !["route"] = j] /\ j.ids \subseteq seen'.handled
    BY <1>2, RouteMoves
  <2> QED BY <1>1, <2>1 DEF TypeInv, Workers
<1>4. ASSUME tx' = tx, db' = db PROVE ReplyInv'
  <2>1. \A i : Quiet(i)
    BY <1>4 DEF Quiet
  <2> QED BY <1>3, <1>4, <2>1, OthersKeep DEF Proposals
<1>5. ASSUME tx' = tx \/ tx'.on # "task", Proposals' = Proposals,
             \A i \in Proposals : i \notin seen'.handled => Quiet(i)
      PROVE  ReplyInv'
  BY <1>3, <1>5, OthersKeep
<1>6. CASE RouteProposes
  <2>1. PICK batch \in Batches : Propose("route", batch)
    BY <1>6 DEF RouteProposes
  <2>2. db' = Proposed(View("app"), batch) /\ tx' = [on |-> "none", view |-> db'] /\ CanWrite("app")
    BY <1>1, <2>1 DEF Propose
  <2>3. \A i \in Proposals : db'.prop[i].status = View("app").prop[i].status
    BY <1>1, <2>1, ProposesNew
  <2>4. \A i \in Proposals : i \notin seen'.handled => Quiet(i)
    BY <1>2, <2>2, <2>3, PublishIsQuiet
  <2> QED BY <1>3, <2>2, <2>4, OthersKeep
<1>7. CASE Reject
  <2>1. PICK n \in job["route"].ids : \A i : i # n => db'.prop[i] = db.prop[i]
    BY <1>7, RejectIs
  <2>2. CanWrite("own") /\ tx' = [on |-> "none", view |-> db']
    BY <1>7 DEF Reject
  <2>3. View("own") = db
    BY <1>1, <2>2 DEF View, CanWrite, ViewInv, TypeInv, Txs, Sides
  <2>4. \A i \in Proposals : i \notin seen'.handled => Quiet(i)
    BY <1>2, <2>1, <2>2, <2>3, PublishIsQuiet
  <2> QED BY <1>5, <1>7, <2>2, <2>4, RejectIs
<1>8. CASE Apply("route") \/ Succeed("route") \/ Mark("route")
  <2>1. CASE UNCHANGED <<db, tx>>
    BY <1>4, <2>1
  <2>2. CASE ~ UNCHANGED <<db, tx>>
    <3>1. PICK U : /\ Write("app", U) /\ CanWrite("app")
                   /\ Apply("route") \/ Succeed("route") => U.prop = View("app").prop
                   /\ Mark("route") =>
                         /\ job["route"].todo # {}
                         /\ \A i : i # Now("route").id => U.prop[i] = View("app").prop[i]
      BY <1>1, <1>8, <2>2, CarriesOut
    <3>2. Mark("route") => Now("route").id \in job["route"].ids
      <4>1. Mark("route") => More("route")
        BY <1>1, ThreadIs, NowIsCurrent DEF Mark, JobOK
      <4> QED BY <1>1, <3>1, <4>1, InHand
    <3>3. \A i \in Proposals : i \notin seen'.handled =>
             U.prop[i].status = View("app").prop[i].status
      BY <1>2, <1>8, <3>1, <3>2
    <3>4. \A i \in Proposals : i \notin seen'.handled => Quiet(i)
      BY <1>2, <3>1, <3>3, WriteIsQuiet
    <3>5. tx'.on # "task" /\ db' = db
      BY <3>1 DEF Write
    <3> QED BY <1>5, <3>4, <3>5 DEF Proposals
  <2> QED BY <2>1, <2>2
<1>9. CASE Commit("route")
  <2>1. CommitOn("app")
    BY <1>1, <1>9 DEF Commit
  <2>2. db' = View("app")
    BY <2>1 DEF CommitOn
  <2>3. Proposals' = Proposals
    BY <2>2, KeepsBatches
  <2>4. /\ \A i \in Proposals : i \notin seen'.handled => Quiet(i)
        /\ tx' = tx \/ tx'.on # "task"
    BY <1>2, <2>1, CommitIsQuiet DEF CommitOn
  <2> QED BY <1>5, <2>3, <2>4
<1>10. CASE \/ RouteCommits \/ RouteRejects \/ RejectFails \/ Fail("route")
            \/ Load("route") \/ ApplyTraceless("route") \/ Skip("route")
  BY <1>4, <1>10 DEF RouteCommits, RouteRejects, RejectFails, Fail, Load, ApplyTraceless, Skip
<1> QED BY <1>6, <1>7, <1>8, <1>9, <1>10 DEF Route, Committing

LEMMA ReplyTurn ==
    ASSUME Inv, SeenInv, ReplyInv, [Next]_vars,
           Recall \/ LogInfluence \/ TurnFails \/ TurnCommits \/ UNCHANGED vars
    PROVE  ReplyInv'
<1>1. /\ job' = job /\ seen.handled \subseteq seen'.handled
      /\ job["route"].ids \subseteq seen.handled
      /\ \A i \in Proposals : i \notin seen'.handled => LeftAlone(i)
  BY RacedGrows DEF ReplyInv, LeftInv, HandsInv, Recall, LogInfluence, TurnFails, TurnCommits, vars
<1>2. CASE LogInfluence
  <2> DEFINE U == [View("app") EXCEPT !.infl = @ \cup turn.recalled]
  <2>1. Write("app", U) /\ CanWrite("app")
    BY <1>2 DEF LogInfluence
  <2>2. U.prop = View("app").prop
    <3>1. View("app") \in Tables
      BY ViewIs DEF Inv
    <3> QED BY <3>1 DEF Tables
  <2> HIDE DEF U
  <2>3. \A i \in Proposals : i \notin seen'.handled => Quiet(i)
    BY <1>1, <2>1, <2>2, WriteIsQuiet
  <2>4. tx'.on # "task" /\ db' = db
    BY <2>1 DEF Write
  <2> QED BY <1>1, <2>3, <2>4, OthersKeep DEF Proposals
<1>3. CASE TurnCommits
  <2>1. CommitOn("app") /\ db' = View("app")
    BY <1>3 DEF TurnCommits, CommitOn
  <2>2. Proposals' = Proposals
    BY <2>1, KeepsBatches
  <2>3. /\ \A i \in Proposals : i \notin seen'.handled => Quiet(i)
        /\ tx' = tx \/ tx'.on # "task"
    BY <1>1, <2>1, CommitIsQuiet DEF CommitOn
  <2> QED BY <1>1, <2>2, <2>3, OthersKeep
<1>4. CASE Recall \/ TurnFails \/ UNCHANGED vars
  <2>1. tx' = tx /\ db' = db
    BY <1>4 DEF Recall, TurnFails, vars
  <2>2. \A i : Quiet(i)
    BY <2>1 DEF Quiet
  <2> QED BY <1>1, <2>1, <2>2, OthersKeep DEF Proposals
<1> QED BY <1>2, <1>3, <1>4

-----------------------------------------------------------------------------
(* The worker *)

\* The worker has nothing in hand any more, or never had: what is let be is as committed.
LEMMA AloneIsFree ==
    ASSUME NEW i, job'["task"].ids = {}, tx'.view.prop[i].status = db'.prop[i].status
    PROVE  LeftAlone(i)'
  BY DEF LeftAlone

\* What a step of the worker has to show of a proposal that stays in its hands or out of them.
LEMMA AloneMoves ==
    ASSUME Inv, BatchInv, [Next]_vars, NEW i \in Proposals, LeftAlone(i),
           job'["task"].ids = job["task"].ids, db' = db,
           i \notin job["task"].ids \/ tx'.on # "task" => tx'.view.prop[i].status = db.prop[i].status,
           i \in job["task"].ids /\ job'["task"].at \in Busy /\ Named(db, i)
                /\ i \notin job'["task"].todo =>
              View("task")'.prop[i].status = "committed"
    PROVE  LeftAlone(i)'
<1>1. Proposals' = Proposals
  BY DEF Proposals
<1> QED BY <1>1 DEF LeftAlone

LEMMA ReplyTask ==
    ASSUME Inv, HoldInv, SeenInv, ReplyInv, Task, [Next]_vars
    PROVE  ReplyInv'
<1>1. /\ "task" \in Workers /\ Conn("task") = "task" /\ TypeInv /\ ViewInv
      /\ job \in [Workers -> Jobs] /\ job["task"] \in Jobs
  BY DEF Workers, Conn, Inv, TypeInv
<1>2. /\ seen.handled \subseteq seen'.handled /\ job["route"].ids \subseteq seen.handled
      /\ \A i \in Proposals : i \notin seen'.handled => LeftAlone(i) /\ i \notin seen.handled
  BY RacedGrows DEF ReplyInv, LeftInv, HandsInv
<1>3. BatchInv' /\ Proposals \subseteq Proposals'
  BY BatchStep, BatchesStay DEF ReplyInv
<1>4. ASSUME NEW j, job' = [job EXCEPT !["task"] = j]
      PROVE  job'["task"] = j /\ job'["route"] = job["route"]
  BY <1>1, <1>4 DEF Workers
<1>5. ASSUME db' = db, HandsInv', \A i \in Proposals : i \notin seen'.handled => LeftAlone(i)'
      PROVE  ReplyInv'
  <2>1. TogetherInv'
    BY <1>5, TogetherStep DEF ReplyInv
  <2> QED BY <1>3, <1>5, <2>1 DEF ReplyInv, LeftInv, Proposals
<1>6. CASE StartTask
  <2> DEFINE j == [job["task"] EXCEPT !.at = "propose"]
  <2>1. job' = [job EXCEPT !["task"] = j] /\ job["task"].at = "idle" /\ db' = db /\ tx' = tx
    BY <1>6 DEF StartTask
  <2>2. j.at = "propose" /\ j.ids = job["task"].ids
    BY <1>1 DEF Jobs
  <2> HIDE DEF j
  <2>3. job["task"].ids = {} /\ tx.on # "task"
    BY <2>1 DEF ReplyInv, HandsInv, Busy
  <2>4. HandsInv'
    BY <1>2, <1>4, <2>1, <2>2, <2>3 DEF HandsInv
  <2>5. \A i \in Proposals : i \notin seen'.handled => LeftAlone(i)'
    BY <1>2, <1>4, <2>1, <2>2, <2>3, AloneIsFree DEF LeftAlone
  <2> QED BY <1>5, <2>1, <2>4, <2>5
<1>7. CASE TaskProposes
  <2>1. PICK batch \in Batches : Propose("task", batch)
    BY <1>7 DEF TaskProposes
  <2> DEFINE ids == Len(View("task").prop) + 1 .. Len(View("task").prop) + Len(batch)
             j == IF batch = <<>> THEN Idle ELSE [Idle EXCEPT !.at = "load", !.ids = ids]
  <2>2. /\ tx.on # "task" /\ job["task"].ids = {}
    BY <1>7 DEF TaskProposes, ReplyInv, HandsInv, Busy
  <2>3. /\ View("task") = db /\ tx' = [on |-> "none", view |-> db']
        /\ job' = [job EXCEPT !["task"] = j]
    BY <1>1, <2>1, <2>2 DEF View, Propose
  <2>4. /\ \A i \in Proposals : db'.prop[i].status = db.prop[i].status
        /\ \A i \in Proposals' : i \notin Proposals =>
              db'.prop[i].batch = Len(db.prop) + 1 /\ db'.prop[i].status = "pending"
        /\ Len(db'.prop) = Len(db.prop) + Len(batch) /\ Len(batch) \in Nat
    BY <1>1, <2>1, <2>3, ProposesNew DEF NewBatch
  <2>5. /\ j.at \in {"idle", "load"} /\ j.ids \in {{}, ids} /\ (j.at = "idle" => j.ids = {})
        /\ (j.ids = {} => batch = <<>> \/ ids = {})
    BY DEF Idle
  <2>6. Len(db.prop) \in Nat /\ ids = {i \in Proposals' : i \notin Proposals}
    <3>1. Len(db.prop) \in Nat
      BY <1>1, Lengths DEF TypeInv
    <3> QED BY <2>3, <2>4, <3>1 DEF Proposals
  <2>7. j.ids = ids
    <3>1. batch = <<>> => ids = {}
      BY <2>3, <2>6
    <3> QED BY <2>5, <3>1
  <2> HIDE DEF j, ids
  <2>8. job'["task"] = j /\ job'["route"] = job["route"] /\ tx'.on # "task" /\ tx'.view = db'
    BY <1>4, <2>3
  <2>9. HandsInv'
    BY <1>2, <2>5, <2>6, <2>7, <2>8 DEF HandsInv
  <2>10. ASSUME NEW i \in Proposals' PROVE LeftAlone(i)'
    <3>1. i \in ids => db'.prop[i].status = "pending"
      BY <2>4, <2>6
    <3>2. ASSUME NEW k \in Proposals', i \in ids, db'.prop[k].batch = db'.prop[i].batch
          PROVE  k \in ids
      <4>1. k \in Proposals => i \in Proposals
        BY <3>2, BatchesStay DEF ReplyInv
      <4> QED BY <2>6, <3>2, <4>1
    <3> QED BY <2>5, <2>7, <2>8, <3>1, <3>2 DEF LeftAlone, Busy
  <2>11. TogetherInv'
    BY <2>4, TogetherStep DEF ReplyInv
  <2> QED BY <1>3, <2>9, <2>10, <2>11 DEF ReplyInv, LeftInv
<1>8. CASE Load("task")
  <2> DEFINE j == [job["task"] EXCEPT !.at = "apply",
                                      !.todo = Waiting(View("task"), job["task"].ids)]
  <2>1. job' = [job EXCEPT !["task"] = j] /\ job["task"].at = "load" /\ db' = db /\ tx' = tx
    BY <1>1, <1>8 DEF Load
  <2>2. /\ j.at = "apply" /\ j.ids = job["task"].ids
        /\ j.todo = Waiting(View("task"), job["task"].ids)
    BY <1>1 DEF Jobs
  <2> HIDE DEF j
  <2>3. tx.on # "task" /\ View("task") = db
    BY <2>1 DEF ReplyInv, HandsInv, Busy, View
  <2>4. HandsInv'
    BY <1>2, <1>4, <2>1, <2>2, <2>3 DEF ReplyInv, HandsInv, Busy, Proposals
  <2>5. ASSUME NEW i \in Proposals, i \notin seen'.handled PROVE LeftAlone(i)'
    <3>1. LeftAlone(i)
      BY <1>2, <2>5
    <3>2. i \in job["task"].ids => i \in j.todo
      <4>1. DOMAIN db.prop = Proposals
        BY <1>1, Fields DEF TypeInv, Proposals
      <4> QED BY <2>2, <2>3, <3>1, <4>1 DEF LeftAlone, Waiting
    <3> QED BY <1>4, <2>1, <2>2, <3>1, <3>2, AloneMoves DEF ReplyInv, LeftAlone
  <2> QED BY <1>5, <2>1, <2>4, <2>5
<1>9. CASE Apply("task") \/ Succeed("task")
  <2>1. PICK at \in {"succeed", "mark"} : job' = [job EXCEPT !["task"].at = at]
    BY <1>9 DEF Apply, Succeed
  <2> DEFINE j == [job["task"] EXCEPT !.at = at]
  <2>2. job' = [job EXCEPT !["task"] = j] /\ job["task"].at \in Busy
    BY <1>1, <1>9, <2>1 DEF Apply, Applies, Succeed, Busy
  <2>3. j.at \in Busy /\ j.ids = job["task"].ids /\ j.todo = job["task"].todo
    BY <1>1 DEF Jobs, Busy
  <2> HIDE DEF j
  <2>4. PICK U : Write("task", U) /\ CanWrite("task") /\ U.prop = View("task").prop
    BY <1>1, <1>9, CarriesOut DEF Mark, Apply, Applies, Succeed
  <2>5. db' = db /\ tx'.on = "task" /\ tx'.view.prop = View("task").prop
        /\ View("task")'.prop = View("task").prop
    BY <2>4 DEF Write, View
  <2>6. HandsInv'
    BY <1>2, <1>4, <2>2, <2>3, <2>5 DEF ReplyInv, HandsInv, Proposals
  <2>7. ASSUME NEW i \in Proposals, i \notin seen'.handled PROVE LeftAlone(i)'
    <3>1. LeftAlone(i)
      BY <1>2, <2>7
    <3>2. i \notin job["task"].ids => View("task").prop[i].status = db.prop[i].status
      BY <3>1 DEF LeftAlone, View
    <3> QED BY <1>4, <2>2, <2>3, <2>5, <3>1, <3>2, AloneMoves DEF ReplyInv, LeftAlone
  <2> QED BY <1>5, <2>5, <2>6, <2>7
<1>10. CASE ApplyTraceless("task")
  <2> DEFINE j == [job["task"] EXCEPT !.at = "mark"]
  <2>1. job' = [job EXCEPT !["task"] = j] /\ job["task"].at \in Busy /\ db' = db /\ tx' = tx
    BY <1>10 DEF ApplyTraceless, Applies, Busy
  <2>2. j.at \in Busy /\ j.ids = job["task"].ids /\ j.todo = job["task"].todo
    BY <1>1 DEF Jobs, Busy
  <2> HIDE DEF j
  <2>3. HandsInv'
    BY <1>2, <1>4, <2>1, <2>2 DEF ReplyInv, HandsInv, Proposals
  <2>4. ASSUME NEW i \in Proposals, i \notin seen'.handled PROVE LeftAlone(i)'
    <3>1. LeftAlone(i) /\ View("task")' = View("task")
      BY <1>2, <2>1, <2>4 DEF View
    <3> QED BY <1>4, <2>1, <2>2, <3>1, AloneMoves DEF ReplyInv, LeftAlone
  <2> QED BY <1>5, <2>1, <2>3, <2>4
<1>11. CASE Skip("task") \/ Mark("task")
  <2>1. job' = Done("task") /\ More("task") /\ job["task"].at \in Busy
    BY <1>1, <1>11, ThreadIs, NowIsCurrent DEF Skip, Mark, JobOK, Busy
  <2>2. PICK j : /\ job' = [job EXCEPT !["task"] = j] /\ j.ids = job["task"].ids /\ j.at = "apply"
                 /\ j.todo = job["task"].todo \ {Min(job["task"].todo)}
    BY <1>1, <2>1, DoneOwns
  <2>3. ASSUME NEW i, i \in job["task"].todo, i \notin j.todo, Skip("task")
        PROVE  ~ Named(db, i)
    <3>1. i = Now("task").id /\ i \in 1 .. Len(View("task").prop)
          /\ Now("task").op = View("task").prop[i].op
          /\ Now("task").target = View("task").prop[i].target
      BY <1>1, <2>1, <2>2, <2>3, InHand
    <3>2. /\ View("task").prop[i].op = db.prop[i].op
          /\ View("task").prop[i].target = db.prop[i].target
      BY <1>1, <3>1, ViewIs DEF Before
    <3> QED BY <2>3, <3>1, <3>2 DEF Skip, Nameless, Named
  <2>4. CASE UNCHANGED <<db, tx>> /\ (Skip("task") \/ job["task"].todo = {})
    <3>1. HandsInv'
      BY <1>2, <1>4, <2>1, <2>2, <2>4 DEF ReplyInv, HandsInv, Proposals, Busy
    <3>2. ASSUME NEW i \in Proposals, i \notin seen'.handled PROVE LeftAlone(i)'
      <4>1. LeftAlone(i) /\ View("task")' = View("task")
        BY <1>2, <2>4, <3>2 DEF View
      <4>2. i \notin j.todo /\ Named(db, i) => i \notin job["task"].todo
        BY <2>3, <2>4
      <4>3. /\ job'["task"].ids = job["task"].ids /\ job'["task"].todo = j.todo
            /\ db' = db /\ tx' = tx
        BY <1>4, <2>2, <2>4
      <4>4. i \notin job["task"].ids \/ tx.on # "task" => tx.view.prop[i].status = db.prop[i].status
        BY <4>1 DEF LeftAlone
      <4>5. i \in job["task"].ids /\ Named(db, i) /\ i \notin j.todo =>
              View("task").prop[i].status = "committed"
        BY <2>1, <4>1, <4>2 DEF LeftAlone
      <4>6. BatchInv
        BY DEF ReplyInv
      <4> QED BY <3>2, <4>1, <4>3, <4>4, <4>5, <4>6, AloneMoves
    <3> QED BY <1>5, <2>4, <3>1, <3>2
  <2>5. CASE ~ (UNCHANGED <<db, tx>> /\ (Skip("task") \/ job["task"].todo = {}))
    <3>1. Mark("task")
      BY <1>11, <2>5 DEF Skip
    <3>2. PICK U : /\ Write("task", U) /\ CanWrite("task") /\ job["task"].todo # {}
                   /\ U.prop[Now("task").id].status = "committed"
                   /\ \A i : i # Now("task").id => U.prop[i] = View("task").prop[i]
      BY <1>1, <2>5, <3>1, CarriesOut
    <3>3. db' = db /\ tx'.on = "task" /\ tx'.view = U /\ View("task")' = U
      BY <3>2 DEF Write, View
    <3>4. HandsInv'
      BY <1>2, <1>4, <2>1, <2>2, <3>3 DEF ReplyInv, HandsInv, Proposals, Busy
    <3>5. ASSUME NEW i \in Proposals, i \notin seen'.handled PROVE LeftAlone(i)'
      <4>1. LeftAlone(i)
        BY <1>2, <3>5
      <4>2. Now("task").id = Min(job["task"].todo) /\ Now("task").id \in job["task"].ids
        BY <1>1, <2>1, <3>2, InHand
      <4>3. CASE i = Now("task").id
        BY <1>4, <2>2, <3>2, <3>3, <4>1, <4>2, <4>3, AloneMoves DEF ReplyInv
      <4>4. CASE i # Now("task").id
        <5>1. U.prop[i] = View("task").prop[i]
          BY <3>2, <4>4
        <5>2. i \notin job["task"].ids => View("task").prop[i].status = db.prop[i].status
          BY <4>1 DEF LeftAlone, View
        <5>3. i \notin j.todo => i \notin job["task"].todo
          BY <2>2, <4>2, <4>4
        <5>4. job'["task"].ids = job["task"].ids /\ job'["task"].todo = j.todo
          BY <1>4, <2>2
        <5>5. /\ U.prop[i].status = View("task").prop[i].status
              /\ tx'.view.prop[i].status = U.prop[i].status
              /\ View("task")'.prop[i].status = U.prop[i].status
          BY <3>3, <5>1
        <5>6. i \in job["task"].ids /\ Named(db, i) /\ i \notin j.todo =>
                View("task").prop[i].status = "committed"
          BY <2>1, <4>1, <5>3 DEF LeftAlone
        <5>7. BatchInv
          BY DEF ReplyInv
        <5> QED BY <3>3, <3>5, <4>1, <5>2, <5>4, <5>5, <5>6, <5>7, AloneMoves
      <4> QED BY <4>3, <4>4
    <3> QED BY <1>5, <3>3, <3>4, <3>5
  <2> QED BY <2>4, <2>5
<1>12. CASE Commit("task")
  <2>1. /\ CommitOn("task") /\ job' = [job EXCEPT !["task"] = Idle] /\ job["task"].todo = {}
        /\ job["task"].at \in Busy
    BY <1>1, <1>12 DEF Commit, More, Busy
  <2>2. job'["task"] = Idle /\ job'["route"] = job["route"] /\ Idle.ids = {}
    BY <1>4, <2>1 DEF Idle
  <2>3. db' = View("task") /\ tx'.on # "task" /\ Proposals' = Proposals
    BY <1>1, <2>1, KeepsBatches DEF CommitOn, View
  <2>4. ASSUME NEW i \in Proposals, i \notin seen'.handled
        PROVE  /\ i \notin job["task"].ids => db'.prop[i].status = db.prop[i].status
               /\ i \in job["task"].ids /\ Named(db, i) => db'.prop[i].status = "committed"
               /\ LeftAlone(i)'
    <3>1. LeftAlone(i)
      BY <1>2, <2>4
    <3>2. tx'.view.prop[i].status = db'.prop[i].status
      BY <2>1, <3>1 DEF CommitOn, LeftAlone, View
    <3> QED BY <2>1, <2>2, <2>3, <3>1, <3>2, AloneIsFree DEF LeftAlone, View
  <2>5. HandsInv'
    BY <1>2, <2>2, <2>3 DEF HandsInv
  <2>6. TogetherInv'
    <3> SUFFICES ASSUME NEW i \in Proposals, NEW k \in Proposals,
                        i \notin seen'.handled, k \notin seen'.handled,
                        db.prop[i].batch = db.prop[k].batch, Named(db, i), Named(db, k),
                        db.prop[i].status = db.prop[k].status
                 PROVE  db'.prop[i].status = db'.prop[k].status
      BY TogetherStep DEF ReplyInv
    <3>1. i \in job["task"].ids <=> k \in job["task"].ids
      BY <1>2 DEF LeftAlone
    <3> QED BY <2>4, <3>1
  <2> QED BY <1>3, <2>3, <2>4, <2>5, <2>6 DEF ReplyInv, LeftInv
<1>13. CASE Fail("task")
  <2>1. /\ Close("task") /\ job' = [job EXCEPT !["task"] = Idle]
    BY <1>13 DEF Fail
  <2>2. /\ db' = db /\ tx'.on # "task"
        /\ tx.on = "task" => tx'.view = db
        /\ tx.on # "task" => tx' = tx
    BY <2>1 DEF Close
  <2>3. job'["task"] = Idle /\ job'["route"] = job["route"] /\ Idle.ids = {}
    BY <1>4, <2>1 DEF Idle
  <2>4. HandsInv'
    BY <1>2, <2>2, <2>3 DEF HandsInv
  <2>5. \A i \in Proposals : i \notin seen'.handled => LeftAlone(i)'
    BY <1>2, <2>2, <2>3, AloneIsFree DEF LeftAlone
  <2> QED BY <1>5, <2>2, <2>4, <2>5
<1> QED BY <1>6, <1>7, <1>8, <1>9, <1>10, <1>11, <1>12, <1>13 DEF Task, Committing

LEMMA ReplyRestart ==
    ASSUME Inv, SeenInv, ReplyInv, Restart, [Next]_vars
    PROVE  ReplyInv'
<1>1. /\ db' = db /\ tx' = [on |-> "none", view |-> db]
      /\ \A w \in Workers : job'[w] = Idle
      /\ "task" \in Workers /\ "route" \in Workers /\ Idle.ids = {}
  BY DEF Restart, Workers, Idle
<1>2. BatchInv' /\ HandsInv'
  BY <1>1, BatchStep DEF ReplyInv, HandsInv
<1>3. LeftInv'
  BY <1>1, AloneIsFree DEF LeftInv
<1>4. TogetherInv'
  BY <1>1, TogetherStep DEF ReplyInv
<1> QED BY <1>2, <1>3, <1>4 DEF ReplyInv

\* What the worker proposes for one reply it commits all together or not at all, for any
\* operations and any number of turns, tasks, requests and restarts, as far as the
\* developer's routes let the proposals be: from its first write to its commit no
\* other connection can write, and what fails or restarts takes all of it back.
THEOREM RepliesAreCommittedAtOnce == Spec => []ReplyIsCommittedAtOnce
<1> DEFINE All == Inv /\ SeenInv /\ HoldInv /\ ReplyInv
<1>1. Init => All
  <2> SUFFICES ASSUME Init PROVE All
    OBVIOUS
  <2>1. Inv /\ SeenInv
    BY InitInv DEF Init, SeenInv
  <2>2. HoldInv
    BY DEF Init, HoldInv, Idle
  <2>3. Proposals = {} /\ tx.on = "none" /\ \A w \in Workers : job[w].ids = {}
    BY DEF Init, Proposals, Idle
  <2>4. ReplyInv
    BY <2>3 DEF ReplyInv, BatchInv, HandsInv, LeftInv, TogetherInv, Workers
  <2> QED BY <2>1, <2>2, <2>4
<1>2. All /\ [Next]_vars => All'
  <2> SUFFICES ASSUME All, [Next]_vars PROVE ReplyInv'
    BY StepInv, SeenStep, HoldStep
  <2> QED BY ReplyTask, ReplyRoute, ReplyTurn, ReplyRestart DEF Next
<1>3. All => ReplyIsCommittedAtOnce
  <2> SUFFICES ASSUME All PROVE ReplyIsCommittedAtOnce
    OBVIOUS
  <2>1. DOMAIN db.prop = Proposals
    BY Fields DEF Inv, TypeInv, Proposals
  <2> QED BY <2>1 DEF ReplyIsCommittedAtOnce, ReplyInv, TogetherInv, Named
<1> QED BY <1>1, <1>2, <1>3, PTL DEF Spec

=============================================================================
