------------------------ MODULE SpeechInput_proofs -------------------------
(***************************************************************************)
(* Proofs about SpeechInput: its types and limits, that it implements      *)
(* OrderedDelivery for every page, and what that buys: whatever implements *)
(* it is heard in order.                                                   *)
(*                                                                         *)
(* The inductive invariant says of each page that the numbers in its queue *)
(* grow, that they lie between the last frame fed and the last one that    *)
(* arrived, that a frame still held is newer than all of them, and that a  *)
(* stop mark, or a consumer that has seen one, means the producer is done. *)
(***************************************************************************)
EXTENDS SpeechInput, TLAPS, FiniteSetTheorems

Grows(q) == \A i, j \in 1 .. Len(q) : i < j => q[i] < q[j]

Between(q, low, high) == \A i \in 1 .. Len(q) : low < q[i] /\ q[i] <= high

LastFed(c) == IF fed[c] = <<>> THEN 0 ELSE fed[c][Len(fed[c])]

FrameInv(c) ==
    /\ Grows(queue[c])
    /\ Between(queue[c], LastFed(c), IF held[c] THEN arrived[c] - 1 ELSE arrived[c])
    /\ LastFed(c) \in Nat
    /\ LastFed(c) <= IF held[c] THEN arrived[c] - 1 ELSE arrived[c]

TaskInv(c) ==
    /\ handler[c] = "idle" => consumer[c] = "none" /\ producer[c] = "none"
    /\ producer[c] = "none" => ~held[c]
    /\ producer[c] = "warning" => held[c] /\ ~stop[c]
    /\ producer[c] = "receiving" => ~held[c] /\ ~stop[c]
    /\ stop[c] => producer[c] = "done" /\ ~held[c]
    /\ consumer[c] \in {"finishing", "done"} => producer[c] = "done"

Inv == SpeechTypeOK /\ \A c \in Pages : FrameInv(c) /\ TaskInv(c)

-----------------------------------------------------------------------------
(* Sequences *)

\* A frame newer than everything in the queue may be appended.
LEMMA AppendGrows ==
    ASSUME NEW q \in Seq(Nat), NEW x \in Nat, NEW low \in Nat,
           Grows(q), Between(q, low, x - 1), low < x
    PROVE  Grows(Append(q, x)) /\ Between(Append(q, x), low, x)
  BY DEF Grows, Between

\* A number above all of a growing sequence may be appended, and is its last.
LEMMA AppendLast ==
    ASSUME NEW q \in Seq(Nat), NEW x \in Nat, Grows(q), \A i \in 1 .. Len(q) : q[i] < x
    PROVE  /\ Append(q, x) # <<>> /\ Append(q, x)[Len(Append(q, x))] = x
           /\ Grows(Append(q, x))
           /\ \A i \in 1 .. Len(Append(q, x)) : Append(q, x)[i] <= x
<1>1. /\ Len(Append(q, x)) = Len(q) + 1 /\ Append(q, x)[Len(q) + 1] = x /\ Len(q) \in Nat
      /\ \A i \in 1 .. Len(q) : Append(q, x)[i] = q[i] /\ q[i] \in Nat
  OBVIOUS
<1>2. \A i \in 1 .. Len(q) + 1 : i \in 1 .. Len(q) \/ i = Len(q) + 1
  BY <1>1
<1>3. Append(q, x) # <<>>
  BY <1>1
<1>4. ASSUME NEW i \in 1 .. Len(q) + 1 PROVE Append(q, x)[i] <= x
  BY <1>1, <1>2
<1>5. ASSUME NEW i \in 1 .. Len(q) + 1, NEW j \in 1 .. Len(q) + 1, i < j
      PROVE  Append(q, x)[i] < Append(q, x)[j]
  <2>1. i \in 1 .. Len(q)
    BY <1>1, <1>5
  <2>2. CASE j \in 1 .. Len(q)
    BY <1>1, <1>5, <2>1, <2>2 DEF Grows
  <2>3. CASE j = Len(q) + 1
    BY <1>1, <2>1, <2>3
  <2> QED BY <1>2, <2>2, <2>3
<1> QED BY <1>1, <1>3, <1>4, <1>5 DEF Grows

\* Dropping the oldest frame changes neither the order nor the limits.
LEMMA TailGrows ==
    ASSUME NEW q \in Seq(Nat), q # <<>>, NEW low, NEW high,
           Grows(q), Between(q, low, high)
    PROVE  Grows(Tail(q)) /\ Between(Tail(q), low, high)
  BY DEF Grows, Between

\* What is behind the head of a growing queue is newer than the head.
LEMMA TailIsNewer ==
    ASSUME NEW q \in Seq(Nat), q # <<>>, NEW low, NEW high,
           Grows(q), Between(q, low, high)
    PROVE  Between(Tail(q), Head(q), high)
  BY DEF Grows, Between

-----------------------------------------------------------------------------
(* The invariant *)

LEMMA InitInv == Init => Inv
  <1> SUFFICES ASSUME Init PROVE Inv
    OBVIOUS
  <1>1. Cardinality(sessions) <= MaxSessions
    BY FS_EmptySet, SpeechAssumption DEF SpeechAssumption, Init
  <1>2. SpeechTypeOK
    BY <1>1, SpeechAssumption DEF SpeechAssumption, Init, SpeechTypeOK
  <1>3. ASSUME NEW c \in Pages PROVE FrameInv(c) /\ TaskInv(c)
    BY DEF Init, FrameInv, TaskInv, Grows, Between, LastFed
  <1> QED
    BY <1>2, <1>3 DEF Inv

\* A page's part of the invariant depends on that page's state alone.
LEMMA OtherPages ==
    ASSUME Inv, NEW c \in Pages,
           handler'[c] = handler[c], producer'[c] = producer[c],
           consumer'[c] = consumer[c], arrived'[c] = arrived[c],
           queue'[c] = queue[c], stop'[c] = stop[c], held'[c] = held[c],
           fed'[c] = fed[c]
    PROVE  FrameInv(c)' /\ TaskInv(c)'
  BY DEF Inv, FrameInv, TaskInv, LastFed, Between, Grows

\* A step of one page keeps the invariant when it keeps that page's part.
LEMMA OnePage ==
    ASSUME Inv, NEW c \in Pages, SpeechTypeOK', FrameInv(c)', TaskInv(c)',
           \A d \in Pages \ {c} :
              /\ handler'[d] = handler[d] /\ producer'[d] = producer[d]
              /\ consumer'[d] = consumer[d] /\ arrived'[d] = arrived[d]
              /\ queue'[d] = queue[d] /\ stop'[d] = stop[d] /\ held'[d] = held[d]
              /\ fed'[d] = fed[d]
    PROVE  Inv'
  <1>1. ASSUME NEW d \in Pages PROVE FrameInv(d)' /\ TaskInv(d)'
    <2>1. CASE d = c
      BY <2>1
    <2>2. CASE d # c
      BY <2>2, OtherPages
    <2> QED
      BY <2>1, <2>2
  <1> QED
    BY <1>1 DEF Inv

\* Steps that leave the frames alone keep what is said of them.
LEMMA FramesKept ==
    ASSUME Inv, NEW c \in Pages, UNCHANGED frames
    PROVE  FrameInv(c)'
  BY DEF Inv, FrameInv, LastFed, Between, Grows, frames

\* A page's queue has room for what is in it and what is still to come.
Fits(c) == Len(queue[c]) + (IF stop[c] \/ held[c] THEN 1 ELSE 0) <= QueueMax

LEMMA InvFits == Inv => \A c \in Pages : Fits(c)
  BY DEF Inv, SpeechTypeOK, Fits

LEMMA LimitKept ==
    ASSUME Inv, NEW c \in Pages, NEW d \in Pages, Finish(c), UNCHANGED frames
    PROVE  sessions' \subseteq Pages /\ Cardinality(sessions') <= MaxSessions
  <1>1. IsFiniteSet(sessions) /\ sessions \subseteq Pages
    BY FS_Subset, SpeechAssumption DEF SpeechAssumption, Inv, SpeechTypeOK
  <1>2. Cardinality(sessions') <= Cardinality(sessions) /\ Cardinality(sessions) \in Nat
        /\ Cardinality(sessions') \in Nat
    BY <1>1, FS_Subset, FS_CardinalityType DEF Finish
  <1> QED
    BY <1>1, <1>2, SpeechAssumption DEF SpeechAssumption, Finish, Inv, SpeechTypeOK

-----------------------------------------------------------------------------
(* The steps of one page *)

\* Connecting, leaving, and the steps of the handler and the tasks that neither
\* open a session nor touch a frame.
Quiet(c) == \/ Connect(c) \/ Leave(c) \/ Refuse(c) \/ Serve(c)
            \/ WarningFails(c) \/ Finished(c) \/ Closed(c) \/ Failed(c)

LEMMA QuietInv ==
    ASSUME Inv, NEW c \in Pages, Quiet(c)
    PROVE  Inv'
  <1>1. UNCHANGED frames
    BY DEF Quiet, Connect, Leave, Refuse, Serve, Join, Joined, ProducerFailed,
           ConsumerFirst, WarningFails, Finished, Closed, Failed, frames
  <1>2. sessions' \subseteq Pages /\ Cardinality(sessions') <= MaxSessions
    <2>1. CASE sessions' = sessions
      BY <2>1 DEF Inv, SpeechTypeOK
    <2>2. CASE Finish(c)
      BY <1>1, <2>2, LimitKept
    <2>3. CASE Serve(c)
      BY <2>1, <2>2, <2>3 DEF Serve, Join, Joined, ProducerFailed, ConsumerFirst
    <2>4. CASE Connect(c) \/ Leave(c) \/ Refuse(c)
      BY <2>1, <2>4 DEF Connect, Leave, Refuse
    <2>5. CASE WarningFails(c) \/ Finished(c) \/ Closed(c) \/ Failed(c)
      BY <2>1, <2>2, <2>5 DEF WarningFails, Finished, Closed, Failed
    <2> QED
      BY <2>3, <2>4, <2>5 DEF Quiet
  <1>3. SpeechTypeOK'
    <2>1. CASE Serve(c)
      BY <1>1, <1>2, <2>1, ZenonT(60) DEF Serve, Join, Joined, ProducerFailed, ConsumerFirst, Finish,
             frames, tasks, Inv, SpeechTypeOK
    <2>2. CASE Connect(c) \/ Leave(c) \/ Refuse(c)
      BY <1>1, <1>2, <2>2 DEF Connect, Leave, Refuse, Finish, frames, tasks, Inv, SpeechTypeOK
    <2>3. CASE WarningFails(c) \/ Finished(c) \/ Closed(c) \/ Failed(c)
      BY <1>1, <1>2, <2>3 DEF WarningFails, Finished, Closed, Failed, Finish, frames, tasks,
             Inv, SpeechTypeOK
    <2> QED
      BY <2>1, <2>2, <2>3 DEF Quiet
  <1>4. ASSUME NEW d \in Pages PROVE TaskInv(d)'
    BY <1>1 DEF Quiet, Connect, Leave, Refuse, Serve, Join, Joined, ProducerFailed, Ended,
           ConsumerFirst, Finish, WarningFails, Finished, Closed, Failed, frames, tasks,
           Inv, SpeechTypeOK, TaskInv
  <1> QED
    BY <1>1, <1>3, <1>4, FramesKept DEF Inv

LEMMA StartInv ==
    ASSUME Inv, NEW c \in Pages, Start(c)
    PROVE  Inv'
  <1>1. IsFiniteSet(sessions)
    BY FS_Subset, SpeechAssumption DEF SpeechAssumption, Inv, SpeechTypeOK
  <1>2. Cardinality(sessions') <= Cardinality(sessions) + 1 /\ Cardinality(sessions) \in Nat
    <2>1. sessions' = sessions \cup {c}
      BY DEF Start
    <2>2. Cardinality(sessions) \in Nat
      BY <1>1, FS_CardinalityType
    <2>3. Cardinality(sessions \cup {c}) = IF c \in sessions THEN Cardinality(sessions)
                                                           ELSE Cardinality(sessions) + 1
      BY <1>1, FS_AddElement
    <2> QED
      BY <2>1, <2>2, <2>3
  <1>3. Cardinality(sessions') <= MaxSessions
    <2>1. Cardinality(sessions) < MaxSessions
      BY DEF Start
    <2>2. MaxSessions \in Nat /\ Cardinality(sessions') \in Int
      <3>1. IsFiniteSet(sessions')
        BY <1>1, FS_AddElement DEF Start
      <3> QED
        BY <3>1, FS_CardinalityType, SpeechAssumption DEF SpeechAssumption
    <2> QED
      BY <1>2, <2>1, <2>2
  <1>4. UNCHANGED frames
    BY DEF Start
  <1>5. SpeechTypeOK'
    BY <1>3, <1>4 DEF Start, frames, Inv, SpeechTypeOK
  <1>6. ASSUME NEW d \in Pages PROVE TaskInv(d)'
    BY <1>4 DEF Start, frames, Inv, SpeechTypeOK, TaskInv
  <1> QED
    BY <1>4, <1>5, <1>6, FramesKept DEF Inv

LEMMA FrameStepInv ==
    ASSUME Inv, NEW c \in Pages, Frame(c)
    PROVE  Inv'
  <1> DEFINE q == queue[c]
  <1>1. q \in Seq(Nat) /\ Len(q) \in Nat /\ arrived[c] \in Nat /\ LastFed(c) \in Nat
        /\ ~held[c] /\ ~stop[c] /\ Grows(q) /\ Between(q, LastFed(c), arrived[c])
        /\ LastFed(c) <= arrived[c] /\ Len(q) <= QueueMax
    BY DEF Inv, SpeechTypeOK, FrameInv, TaskInv, Frame
  <1>0. stop'[c] = FALSE
    BY <1>1 DEF Frame
  <1>2. LastFed(c)' = LastFed(c)
    BY DEF Frame, LastFed
  <1>3. arrived'[c] = arrived[c] + 1
    BY <1>1 DEF Frame, Inv, SpeechTypeOK
  <1>4. \A d \in Pages \ {c} :
          /\ handler'[d] = handler[d] /\ producer'[d] = producer[d]
          /\ consumer'[d] = consumer[d] /\ arrived'[d] = arrived[d]
          /\ queue'[d] = queue[d] /\ stop'[d] = stop[d] /\ held'[d] = held[d]
          /\ fed'[d] = fed[d]
    BY DEF Frame, Inv, SpeechTypeOK
  <1>7. arrived' \in [Pages -> Nat]
    BY <1>1 DEF Frame, Inv, SpeechTypeOK
  <1>5. CASE Full(c)
    <2>1. q # <<>>
      BY <1>1, <1>5, SpeechAssumption DEF SpeechAssumption, Full
    <2>2. /\ queue' = [queue EXCEPT ![c] = Tail(q)] /\ held' = [held EXCEPT ![c] = TRUE]
          /\ producer' = [producer EXCEPT ![c] = "warning"]
      BY <1>5 DEF Frame, Full
    <2>3. Grows(Tail(q)) /\ Between(Tail(q), LastFed(c), arrived[c])
      BY <1>1, <2>1, TailGrows
    <2>4. queue'[c] = Tail(q) /\ held'[c] = TRUE /\ producer'[c] = "warning"
      BY <2>2 DEF Inv, SpeechTypeOK
    <2>5. FrameInv(c)'
      BY <1>1, <1>2, <1>3, <2>3, <2>4 DEF FrameInv
    <2>6. Tail(q) \in Seq(Nat) /\ Len(Tail(q)) = Len(q) - 1
      BY <1>1, <2>1
    <2>7. \A d \in Pages : Fits(d)'
      <3>1. Fits(c)'
        <4>1. Len(queue'[c]) + 1 <= QueueMax
          BY <1>1, <2>4, <2>6, SpeechAssumption DEF SpeechAssumption
        <4> QED
          BY <4>1, <2>4 DEF Fits
      <3> QED
        BY <1>4, <3>1, InvFits DEF Fits
    <2>8. queue' \in [Pages -> Seq(Nat)] /\ held' \in [Pages -> BOOLEAN]
      BY <1>1, <2>2, <2>6 DEF Inv, SpeechTypeOK
    <2>9. SpeechTypeOK'
      BY <1>7, <2>2, <2>7, <2>8 DEF Frame, Inv, SpeechTypeOK, Fits
    <2>10. TaskInv(c)'
      BY <1>1, <2>4 DEF Frame, TaskInv, Inv
    <2> QED
      BY <1>4, <2>5, <2>9, <2>10, OnePage
  <1>6. CASE ~Full(c)
    <2>1. /\ queue' = [queue EXCEPT ![c] = Append(q, arrived[c] + 1)]
          /\ held' = [held EXCEPT ![c] = FALSE] /\ producer' = producer
      BY <1>6 DEF Frame, Full, Inv, SpeechTypeOK
    <2>2. queue'[c] = Append(q, arrived[c] + 1) /\ held'[c] = FALSE
          /\ producer'[c] = "receiving"
      BY <2>1 DEF Frame, Inv, SpeechTypeOK
    <2>3. Grows(Append(q, arrived[c] + 1)) /\ Between(Append(q, arrived[c] + 1), LastFed(c), arrived[c] + 1)
      BY <1>1, AppendGrows
    <2>4. FrameInv(c)'
      BY <1>1, <1>2, <1>3, <2>2, <2>3 DEF FrameInv
    <2>5. Append(q, arrived[c] + 1) \in Seq(Nat) /\ Len(Append(q, arrived[c] + 1)) = Len(q) + 1
          /\ Len(q) < QueueMax
      BY <1>1, <1>6, SpeechAssumption DEF SpeechAssumption, Full
    <2>6. \A d \in Pages : Fits(d)'
      <3>1. Fits(c)'
        <4>1. Len(queue'[c]) + 0 <= QueueMax
          BY <1>1, <2>2, <2>5, SpeechAssumption DEF SpeechAssumption
        <4>2. ~(stop'[c] \/ held'[c])
          BY <1>0, <2>2
        <4> QED
          BY <4>1, <4>2 DEF Fits
      <3> QED
        BY <1>4, <3>1, InvFits DEF Fits
    <2>7. queue' \in [Pages -> Seq(Nat)] /\ held' \in [Pages -> BOOLEAN]
      BY <1>1, <2>1, <2>5 DEF Inv, SpeechTypeOK
    <2>8. SpeechTypeOK'
      BY <1>7, <2>1, <2>6, <2>7 DEF Frame, Inv, SpeechTypeOK, Fits
    <2>9. TaskInv(c)'
      BY <1>1, <2>2 DEF Frame, TaskInv, Inv
    <2> QED
      BY <1>4, <2>4, <2>8, <2>9, OnePage
  <1> QED
    BY <1>5, <1>6

LEMMA WarnedInv ==
    ASSUME Inv, NEW c \in Pages, Warned(c)
    PROVE  Inv'
  <1> DEFINE q == queue[c]
  <1>1. q \in Seq(Nat) /\ Len(q) \in Nat /\ arrived[c] \in Nat /\ LastFed(c) \in Nat
        /\ held[c] /\ ~stop[c] /\ Grows(q) /\ Between(q, LastFed(c), arrived[c] - 1)
        /\ LastFed(c) <= arrived[c] - 1
    BY DEF Inv, SpeechTypeOK, FrameInv, TaskInv, Warned
  <1>2. LastFed(c)' = LastFed(c)
    BY DEF Warned, LastFed
  <1>3. queue' = [queue EXCEPT ![c] = Append(q, arrived[c])] /\ UNCHANGED <<arrived, stop>>
    BY DEF Warned
  <1>4. queue'[c] = Append(q, arrived[c]) /\ ~held'[c] /\ ~stop'[c]
    BY <1>1 DEF Warned, Inv, SpeechTypeOK
  <1>5. Grows(Append(q, arrived[c])) /\ Between(Append(q, arrived[c]), LastFed(c), arrived[c])
    BY <1>1, AppendGrows
  <1>6. FrameInv(c)'
    BY <1>1, <1>2, <1>3, <1>4, <1>5 DEF FrameInv
  <1>7. TaskInv(c)'
    BY <1>1 DEF Warned, TaskInv, Inv, SpeechTypeOK
  <1>8. Append(q, arrived[c]) \in Seq(Nat) /\ Len(Append(q, arrived[c])) = Len(q) + 1
    BY <1>1
  <1>9. \A d \in Pages \ {c} :
          /\ handler'[d] = handler[d] /\ producer'[d] = producer[d]
          /\ consumer'[d] = consumer[d] /\ arrived'[d] = arrived[d]
          /\ queue'[d] = queue[d] /\ stop'[d] = stop[d] /\ held'[d] = held[d]
          /\ fed'[d] = fed[d]
    BY DEF Warned, Inv, SpeechTypeOK
  <1>10. \A d \in Pages : Fits(d)'
    <2>1. Len(q) + 1 <= QueueMax
      BY <1>1, InvFits DEF Fits
    <2>2. Len(queue'[c]) + 0 <= QueueMax
      BY <1>1, <1>4, <1>8, <2>1
    <2>3. ~(stop'[c] \/ held'[c])
      BY <1>4
    <2> QED
      BY <1>9, <2>2, <2>3, InvFits DEF Fits
  <1>11. queue' \in [Pages -> Seq(Nat)]
    BY <1>3, <1>8 DEF Inv, SpeechTypeOK
  <1>12. SpeechTypeOK'
    BY <1>10, <1>11 DEF Warned, Inv, SpeechTypeOK, Fits
  <1> QED
    BY <1>6, <1>7, <1>9, <1>12, OnePage

LEMMA PutStopInv ==
    ASSUME Inv, NEW c \in Pages, PutStop(c)
    PROVE  Inv'
  <1> DEFINE q == queue[c]
             r == IF Full(c) THEN Tail(q) ELSE q
  <1>1. q \in Seq(Nat) /\ Len(q) \in Nat /\ arrived[c] \in Nat /\ LastFed(c) \in Nat
        /\ ~held[c] /\ ~stop[c] /\ Grows(q) /\ Between(q, LastFed(c), arrived[c])
        /\ LastFed(c) <= arrived[c] /\ Len(q) <= QueueMax
    BY DEF Inv, SpeechTypeOK, FrameInv, TaskInv, PutStop
  <1>2. LastFed(c)' = LastFed(c)
    BY DEF PutStop, LastFed
  <1>3. queue' = [queue EXCEPT ![c] = r] /\ UNCHANGED <<arrived, held>>
    BY DEF PutStop
  <1>4. queue'[c] = r /\ ~held'[c] /\ stop'[c]
    BY <1>1, <1>3 DEF PutStop, Inv, SpeechTypeOK
  <1>5. r \in Seq(Nat) /\ Len(r) + 1 <= QueueMax /\ Grows(r) /\ Between(r, LastFed(c), arrived[c])
    <2>1. CASE Full(c)
      <3>1. q # <<>>
        BY <1>1, <2>1, SpeechAssumption DEF Full, SpeechAssumption
      <3>2. Grows(Tail(q)) /\ Between(Tail(q), LastFed(c), arrived[c])
        BY <1>1, <3>1, TailGrows
      <3>3. Tail(q) \in Seq(Nat) /\ Len(Tail(q)) = Len(q) - 1
        BY <1>1, <3>1
      <3> QED
        BY <1>1, <2>1, <3>2, <3>3, SpeechAssumption DEF SpeechAssumption
    <2>2. CASE ~Full(c)
      BY <1>1, <2>2, SpeechAssumption DEF Full, SpeechAssumption
    <2> QED
      BY <2>1, <2>2
  <1>6. FrameInv(c)'
    <2> HIDE DEF r
    <2> QED
      BY <1>1, <1>2, <1>3, <1>4, <1>5 DEF FrameInv
  <1>7. TaskInv(c)'
    BY <1>1, <1>4 DEF PutStop, TaskInv, Inv, SpeechTypeOK
  <1>9. \A d \in Pages \ {c} :
          /\ handler'[d] = handler[d] /\ producer'[d] = producer[d]
          /\ consumer'[d] = consumer[d] /\ arrived'[d] = arrived[d]
          /\ queue'[d] = queue[d] /\ stop'[d] = stop[d] /\ held'[d] = held[d]
          /\ fed'[d] = fed[d]
    BY DEF PutStop, Inv, SpeechTypeOK
  <1>10. \A d \in Pages : Fits(d)'
    <2> HIDE DEF r
    <2>1. Len(queue'[c]) + 1 <= QueueMax
      BY <1>4, <1>5
    <2> QED
      BY <1>4, <1>9, <2>1, InvFits DEF Fits
  <1>11. queue' \in [Pages -> Seq(Nat)]
    <2> HIDE DEF r
    <2> QED
      BY <1>3, <1>5 DEF Inv, SpeechTypeOK
  <1>12. SpeechTypeOK'
    BY <1>10, <1>11 DEF PutStop, Inv, SpeechTypeOK, Fits
  <1> QED
    BY <1>6, <1>7, <1>9, <1>12, OnePage

\* What is fed is the head of the queue: newer than what was fed before it and
\* older than what stays.
LEMMA HeadIsNext ==
    ASSUME Inv, NEW c \in Pages, Feed(c)
    PROVE  /\ Head(queue[c]) \in Nat /\ LastFed(c) < Head(queue[c])
           /\ Head(queue[c]) <= IF held[c] THEN arrived[c] - 1 ELSE arrived[c]
           /\ fed'[c] = Append(fed[c], Head(queue[c]))
           /\ LastFed(c)' = Head(queue[c])
  <1>1. queue[c] \in Seq(Nat) /\ fed[c] \in Seq(Nat) /\ queue[c] # <<>>
        /\ Between(queue[c], LastFed(c), IF held[c] THEN arrived[c] - 1 ELSE arrived[c])
    BY DEF Inv, SpeechTypeOK, FrameInv, Feed
  <1>2. 1 \in 1 .. Len(queue[c]) /\ Head(queue[c]) = queue[c][1] /\ Head(queue[c]) \in Nat
    BY <1>1
  <1>3. fed'[c] = Append(fed[c], Head(queue[c]))
    BY DEF Feed, Inv, SpeechTypeOK
  <1>4. LastFed(c)' = Head(queue[c])
    BY <1>1, <1>2, <1>3 DEF LastFed
  <1> QED
    BY <1>1, <1>2, <1>3, <1>4 DEF Between

LEMMA FeedInv ==
    ASSUME Inv, NEW c \in Pages, Feed(c)
    PROVE  Inv'
  <1> DEFINE q == queue[c]
             high == IF held[c] THEN arrived[c] - 1 ELSE arrived[c]
  <1>1. q \in Seq(Nat) /\ Len(q) \in Nat /\ Grows(q) /\ Between(q, LastFed(c), high) /\ q # <<>>
    BY DEF Inv, SpeechTypeOK, FrameInv, Feed
  <1>2. /\ queue' = [queue EXCEPT ![c] = Tail(q)] /\ UNCHANGED <<arrived, stop, held>>
        /\ queue'[c] = Tail(q)
    BY DEF Feed, Inv, SpeechTypeOK
  <1>3. Grows(Tail(q)) /\ Between(Tail(q), Head(q), high)
    BY <1>1, TailGrows, TailIsNewer
  <1>4. Tail(q) \in Seq(Nat) /\ Len(Tail(q)) = Len(q) - 1
    BY <1>1
  <1>5. high' = high
    BY <1>2
  <1>6. FrameInv(c)'
    <2>1. Between(queue[c], LastFed(c), high)' /\ Grows(queue[c])'
      BY <1>2, <1>3, <1>5, HeadIsNext DEF Between, Grows
    <2>2. LastFed(c)' \in Nat /\ (LastFed(c) <= high)'
      BY <1>2, HeadIsNext
    <2> QED
      BY <2>1, <2>2 DEF FrameInv
  <1>7. TaskInv(c)'
    BY DEF Feed, tasks, TaskInv, Inv, SpeechTypeOK
  <1>9. \A d \in Pages \ {c} :
          /\ handler'[d] = handler[d] /\ producer'[d] = producer[d]
          /\ consumer'[d] = consumer[d] /\ arrived'[d] = arrived[d]
          /\ queue'[d] = queue[d] /\ stop'[d] = stop[d] /\ held'[d] = held[d]
          /\ fed'[d] = fed[d]
    BY DEF Feed, tasks, Inv, SpeechTypeOK
  <1>10. \A d \in Pages : Fits(d)'
    <2>1. Len(queue'[c]) <= Len(q) /\ Len(queue'[c]) \in Nat
      BY <1>1, <1>2, <1>4
    <2>2. Fits(c)'
      <3>1. Len(q) + (IF stop[c] \/ held[c] THEN 1 ELSE 0) <= QueueMax
        BY InvFits DEF Fits
      <3>2. Len(queue'[c]) + (IF stop[c] \/ held[c] THEN 1 ELSE 0) <= QueueMax
        <4>1. CASE stop[c] \/ held[c]
          <5>1. Len(q) + 1 <= QueueMax
            BY <3>1, <4>1
          <5>2. Len(queue'[c]) + 1 <= QueueMax
            BY <1>1, <2>1, <5>1, SpeechAssumption DEF SpeechAssumption
          <5> QED
            BY <4>1, <5>2
        <4>2. CASE ~(stop[c] \/ held[c])
          BY <1>1, <2>1, <3>1, <4>2, SpeechAssumption DEF SpeechAssumption
        <4> QED
          BY <4>1, <4>2
      <3> QED
        BY <1>2, <3>2 DEF Fits
    <2> QED
      BY <1>9, <2>2, InvFits DEF Fits
  <1>11. queue' \in [Pages -> Seq(Nat)] /\ fed' \in [Pages -> Seq(Nat)]
    <2>1. Append(fed[c], Head(q)) \in Seq(Nat)
      BY HeadIsNext DEF Inv, SpeechTypeOK
    <2>2. fed' = [fed EXCEPT ![c] = Append(fed[c], Head(q))]
      BY DEF Feed
    <2> QED
      BY <1>2, <1>4, <2>1, <2>2 DEF Inv, SpeechTypeOK
  <1>12. SpeechTypeOK'
    BY <1>10, <1>11 DEF Feed, tasks, Inv, SpeechTypeOK, Fits
  <1> QED
    BY <1>6, <1>7, <1>9, <1>12, OnePage

LEMMA TakeStopInv ==
    ASSUME Inv, NEW c \in Pages, TakeStop(c)
    PROVE  Inv'
  <1>1. queue[c] = <<>> /\ stop[c] /\ producer[c] = "done" /\ ~held[c]
    BY DEF TakeStop, Inv, TaskInv
  <1>2. UNCHANGED <<arrived, queue, held, fed>> /\ ~stop'[c]
    BY DEF TakeStop, Inv, SpeechTypeOK
  <1>3. FrameInv(c)'
    BY <1>2 DEF Inv, FrameInv, LastFed, Between, Grows
  <1>4. TaskInv(c)'
    BY <1>1, <1>2 DEF TakeStop, TaskInv, Inv, SpeechTypeOK
  <1>9. \A d \in Pages \ {c} :
          /\ handler'[d] = handler[d] /\ producer'[d] = producer[d]
          /\ consumer'[d] = consumer[d] /\ arrived'[d] = arrived[d]
          /\ queue'[d] = queue[d] /\ stop'[d] = stop[d] /\ held'[d] = held[d]
          /\ fed'[d] = fed[d]
    BY DEF TakeStop, Inv, SpeechTypeOK
  <1>10. \A d \in Pages : Fits(d)'
    <2>1. Len(queue'[c]) + 0 <= QueueMax
      BY <1>1, <1>2, SpeechAssumption DEF SpeechAssumption
    <2>2. ~(stop'[c] \/ held'[c])
      BY <1>1, <1>2
    <2> QED
      BY <1>9, <2>1, <2>2, InvFits DEF Fits
  <1>12. SpeechTypeOK'
    BY <1>10 DEF TakeStop, Inv, SpeechTypeOK, Fits
  <1> QED
    BY <1>3, <1>4, <1>9, <1>12, OnePage

LEMMA NextInv == Inv /\ [Next]_vars => Inv'
  <1> SUFFICES ASSUME Inv, [Next]_vars PROVE Inv'
    OBVIOUS
  <1>1. CASE UNCHANGED vars
    <2>1. UNCHANGED frames /\ UNCHANGED <<page, handler, tasks, sessions>>
      BY <1>1 DEF vars, frames
    <2>2. SpeechTypeOK'
      BY <2>1 DEF Inv, SpeechTypeOK, frames, tasks
    <2>3. ASSUME NEW d \in Pages PROVE FrameInv(d)' /\ TaskInv(d)'
      BY <2>1, OtherPages DEF frames, tasks
    <2> QED
      BY <2>2, <2>3 DEF Inv
  <1>2. ASSUME NEW c \in Pages,
               \/ Connect(c) \/ Leave(c) \/ Refuse(c) \/ Start(c)
               \/ Serve(c) \/ Receive(c) \/ Consume(c)
        PROVE  Inv'
    <2>1. CASE Quiet(c)
      BY <2>1, QuietInv
    <2>2. CASE Start(c)
      BY <2>2, StartInv
    <2>3. CASE Frame(c)
      BY <2>3, FrameStepInv
    <2>4. CASE Warned(c)
      BY <2>4, WarnedInv
    <2>5. CASE PutStop(c)
      BY <2>5, PutStopInv
    <2>6. CASE Feed(c)
      BY <2>6, FeedInv
    <2>7. CASE TakeStop(c)
      BY <2>7, TakeStopInv
    <2> QED
      BY <1>2, <2>1, <2>2, <2>3, <2>4, <2>5, <2>6, <2>7 DEF Receive, Consume, Quiet
  <1> QED
    BY <1>1, <1>2 DEF Next

\* The types, the queue's room for its stop mark and for a frame still held, and
\* the limit of the sessions hold for any pages and any limits.
THEOREM SpeechTypeCorrect == Spec => []SpeechTypeOK
  <1>1. Inv => SpeechTypeOK
    BY DEF Inv
  <1> QED
    BY <1>1, InitInv, NextInv, PTL DEF Spec

-----------------------------------------------------------------------------
(* The refinement *)

\* Another page's step, and a step of this page that touches neither its frames
\* nor its consumer, change nothing the recogniser's stream is made of.
LEMMA Stutters ==
    ASSUME Inv, NEW c \in Pages,
           arrived'[c] = arrived[c], fed'[c] = fed[c], consumer'[c] = consumer[c]
    PROVE  UNCHANGED Delivery(c)!vars
  BY DEF Delivery!vars, Outcome

\* Every step is, for every page, a step of OrderedDelivery or a stutter.
LEMMA StepRefines ==
    ASSUME Inv, [Next]_vars, NEW c \in Pages
    PROVE  [Delivery(c)!Next]_(Delivery(c)!vars)
  <1> USE DEF Delivery!Next
  <1>1. CASE UNCHANGED vars
    BY <1>1, Stutters DEF vars, frames, tasks
  <1>2. ASSUME NEW d \in Pages, d # c,
               \/ Connect(d) \/ Leave(d) \/ Refuse(d) \/ Start(d)
               \/ Serve(d) \/ Receive(d) \/ Consume(d)
        PROVE  UNCHANGED Delivery(c)!vars
    <2>1. arrived'[c] = arrived[c] /\ fed'[c] = fed[c] /\ consumer'[c] = consumer[c]
      BY <1>2 DEF Connect, Leave, Refuse, Start, Serve, Join, Joined, ProducerFailed,
             ConsumerFirst, Finish, Receive, Frame, Warned, WarningFails, PutStop,
             Consume, Feed, TakeStop, Finished, Closed, Failed, frames, tasks,
             Inv, SpeechTypeOK
    <2> QED
      BY <2>1, Stutters
  <1>3. CASE \/ Connect(c) \/ Leave(c) \/ Refuse(c) \/ Serve(c)
             \/ Warned(c) \/ WarningFails(c) \/ PutStop(c)
    BY <1>3, Stutters DEF Connect, Leave, Refuse, Serve, Join, Joined, ProducerFailed,
           ConsumerFirst, Finish, Warned, WarningFails, PutStop, frames, tasks
  <1>4. CASE Start(c)
    <2>1. consumer[c] = "none" /\ consumer'[c] = "running" /\ UNCHANGED <<arrived, fed>>
      BY <1>4 DEF Start, Inv, SpeechTypeOK, TaskInv, frames
    <2> QED
      BY <2>1 DEF Delivery!vars, Outcome
  <1>5. CASE Frame(c)
    <2>1. arrived'[c] = arrived[c] + 1 /\ fed'[c] = fed[c] /\ Outcome(c)' = Outcome(c)
      BY <1>5 DEF Frame, Outcome, Inv, SpeechTypeOK
    <2>2. Outcome(c) # "complete"
      BY <1>5 DEF Frame, Outcome, Inv, TaskInv
    <2> QED
      BY <2>1, <2>2 DEF Delivery!Say
  <1>6. CASE Feed(c)
    <2>1. arrived'[c] = arrived[c] /\ Outcome(c)' = Outcome(c) /\ Outcome(c) = "open"
      BY <1>6 DEF Feed, Outcome, tasks
    <2>2. Head(queue[c]) \in LastFed(c) + 1 .. arrived[c] /\ Head(queue[c]) \in 1 .. arrived[c]
      <3>1. LastFed(c) \in Nat /\ arrived[c] \in Nat
        BY DEF Inv, FrameInv, SpeechTypeOK
      <3> QED
        BY <1>6, <3>1, HeadIsNext
    <2>3. Delivery(c)!Hear(Head(queue[c]))
      BY <1>6, <2>1, <2>2, HeadIsNext DEF Delivery!Hear, Delivery!Last, LastFed
    <2> QED
      BY <2>2, <2>3
  <1>7. CASE TakeStop(c)
    <2>1. arrived'[c] = arrived[c] /\ fed'[c] = fed[c]
          /\ Outcome(c) = "open" /\ Outcome(c)' = "complete"
      BY <1>7 DEF TakeStop, Outcome, Inv, SpeechTypeOK
    <2> QED
      BY <2>1 DEF Delivery!Complete
  <1>8. CASE Finished(c)
    <2>1. arrived'[c] = arrived[c] /\ fed'[c] = fed[c] /\ Outcome(c)' = Outcome(c)
      BY <1>8 DEF Finished, Outcome, Inv, SpeechTypeOK, frames
    <2> QED
      BY <2>1 DEF Delivery!vars
  <1>9. CASE Closed(c) \/ Failed(c)
    <2>1. arrived'[c] = arrived[c] /\ fed'[c] = fed[c]
          /\ Outcome(c) = "open" /\ Outcome(c)' = "cut"
      BY <1>9 DEF Closed, Failed, Outcome, Inv, SpeechTypeOK, frames
    <2> QED
      BY <2>1 DEF Delivery!Cut
  <1> QED
    BY <1>1, <1>2, <1>3, <1>4, <1>5, <1>6, <1>7, <1>8, <1>9 DEF Next, Receive, Consume

\* For any number of pages and any size of the queue, the recogniser gets every
\* page's frames in the order of their arrival and none of them twice.
THEOREM TranscriptionIsOrdered == Spec => FramesAreOrdered
  <1>1. Init => \A c \in Pages : Delivery(c)!Init
    BY DEF Init, Delivery!Init, Outcome
  <1>2. Inv /\ [Next]_vars => \A c \in Pages : [Delivery(c)!Next]_(Delivery(c)!vars)
    BY StepRefines
  <1>3. Inv /\ [Next]_vars => [\A c \in Pages : [Delivery(c)!Next]_(Delivery(c)!vars)]_vars
    BY <1>2
  <1> QED
    BY <1>1, <1>3, InitInv, NextInv, PTL DEF Spec, FramesAreOrdered

-----------------------------------------------------------------------------
(* What the refinement buys *)

\* What the recogniser has heard are growing numbers, and the last is the largest.
OrderInv(c) ==
    /\ Delivery(c)!TypeOK /\ Delivery(c)!InOrder /\ LastFed(c) \in Nat
    /\ \A i \in 1 .. Len(fed[c]) : fed[c][i] <= LastFed(c)

\* Whoever is heard next is newer than everything heard so far: a fact about
\* OrderedDelivery alone, whatever its steps stand for.
LEMMA OrderStep ==
    ASSUME NEW c, OrderInv(c), [Delivery(c)!Next]_(Delivery(c)!vars)
    PROVE  OrderInv(c)'
<1>1. Delivery(c)!Last = LastFed(c) /\ Delivery(c)!Last' = LastFed(c)'
  BY DEF Delivery!Last, LastFed
<1>2. /\ arrived[c] \in Nat /\ fed[c] \in Seq(1 .. arrived[c]) /\ fed[c] \in Seq(Nat)
      /\ Len(fed[c]) \in Nat
  BY DEF OrderInv, Delivery!TypeOK
<1>3. CASE /\ fed'[c] = fed[c] /\ arrived'[c] \in {arrived[c], arrived[c] + 1}
           /\ Outcome(c)' \in {Outcome(c), "complete", "cut"}
  <2>1. LastFed(c)' = LastFed(c)
    BY <1>3 DEF LastFed
  <2>2. fed'[c] \in Seq(1 .. arrived'[c]) /\ arrived'[c] \in Nat
    BY <1>2, <1>3
  <2>3. Outcome(c)' \in {"open", "complete", "cut"}
    BY <1>3 DEF OrderInv, Delivery!TypeOK
  <2>4. Delivery(c)!TypeOK'
    BY <2>2, <2>3 DEF Delivery!TypeOK
  <2>5. Delivery(c)!InOrder'
    BY <1>3 DEF OrderInv, Delivery!InOrder
  <2>6. LastFed(c)' \in Nat /\ \A i \in 1 .. Len(fed'[c]) : fed'[c][i] <= LastFed(c)'
    BY <1>3, <2>1 DEF OrderInv
  <2> QED BY <2>4, <2>5, <2>6 DEF OrderInv
<1>4. ASSUME NEW k \in 1 .. arrived[c], Delivery(c)!Hear(k) PROVE OrderInv(c)'
  <2>1. /\ fed'[c] = Append(fed[c], k) /\ arrived'[c] = arrived[c] /\ Outcome(c)' = Outcome(c)
        /\ LastFed(c) < k /\ k \in Nat
    BY <1>1, <1>2, <1>4 DEF Delivery!Hear, OrderInv
  <2>2. Grows(fed[c]) /\ \A i \in 1 .. Len(fed[c]) : fed[c][i] < k
    <3>1. ASSUME NEW i \in 1 .. Len(fed[c]) PROVE fed[c][i] < k
      <4>1. fed[c][i] \in Nat /\ LastFed(c) \in Nat /\ fed[c][i] <= LastFed(c)
        BY <1>2 DEF OrderInv
      <4> QED BY <2>1, <4>1
    <3> QED BY <3>1 DEF OrderInv, Delivery!InOrder, Grows
  <2>3. LastFed(c)' = k
    <3>1. fed'[c] # <<>> /\ fed'[c][Len(fed'[c])] = k
      BY <1>2, <2>1, <2>2, AppendLast
    <3> QED BY <3>1 DEF LastFed
  <2>4. fed'[c] \in Seq(1 .. arrived[c])
    BY <1>2, <2>1
  <2>5. Delivery(c)!InOrder'
    <3>1. Grows(fed'[c])
      BY <1>2, <2>1, <2>2, AppendLast
    <3> QED BY <3>1 DEF Delivery!InOrder, Grows
  <2>6. \A i \in 1 .. Len(fed'[c]) : fed'[c][i] <= LastFed(c)'
    BY <1>2, <2>1, <2>2, <2>3, AppendLast
  <2>7. Delivery(c)!TypeOK'
    BY <1>2, <2>1, <2>4 DEF OrderInv, Delivery!TypeOK
  <2> QED BY <2>1, <2>3, <2>5, <2>6, <2>7 DEF OrderInv
<1> QED BY <1>3, <1>4 DEF Delivery!Next, Delivery!Say, Delivery!Complete, Delivery!Cut, Delivery!vars

\* What OrderedDelivery promises holds of every transcription: the recogniser never gets
\* a frame twice or behind a later one, although the queue sheds its oldest.
THEOREM FramesAreHeardInOrder == Spec => [](\A c \in Pages : Delivery(c)!InOrder)
<1> DEFINE Ordered == \A c \in Pages : OrderInv(c)
<1>1. Init => Ordered
  BY DEF Init, OrderInv, LastFed, Outcome, Delivery!TypeOK, Delivery!InOrder
<1>2. Inv /\ Ordered /\ [Next]_vars => Ordered'
  BY StepRefines, OrderStep
<1>3. Ordered => \A c \in Pages : Delivery(c)!InOrder
  BY DEF OrderInv
<1> QED BY <1>1, <1>2, <1>3, InitInv, NextInv, PTL DEF Spec
=============================================================================
