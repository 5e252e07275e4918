------------------------- MODULE SpokenReply_proofs ------------------------
(***************************************************************************)
(* The progressive reply delivers in order, keeps its limits and is heard  *)
(* whole and once, proved.                                                 *)
(*                                                                         *)
(* SpokenReply implements OrderedDelivery without loss, for any sentences, *)
(* any filters' verdicts and any number of deltas.  What the texts are     *)
(* plays no part in it: the inductive invariant speaks of the numbers      *)
(* only.  What has been heard are the numbers 1, 2, ... up to what is      *)
(* posted, posted is no more than what is said, the end of the thread is   *)
(* seen only when everything is posted, and after a complete stream the    *)
(* thread has returned and says nothing more.                              *)
(*                                                                         *)
(* The limits are about the texts: a sentence is counted by the place it   *)
(* ends at, so that no recursion is needed to count.                       *)
(*                                                                         *)
(* That the listener hears the reply once is about the deltas one after    *)
(* the other: while nothing stopped the stream they make up, with the held *)
(* piece and the begun sentence, what the filters leave of the text so     *)
(* far (Held); what stopped it leaves them the beginning of that text; and *)
(* the filters on the whole text keep that beginning (EndKeeps).           *)
(***************************************************************************)
EXTENDS SpokenReply, TLAPS, FiniteSetTheorems, WellFoundedInduction

Stages == {"start", "ready", "sdk", "http", "whole", "written", "returned", "raised"}

Inv ==
    /\ \E S : said \in Seq(S)
    /\ heard \in Seq(Nat) /\ \A i \in 1 .. Len(heard) : heard[i] = i
    /\ posted \in Nat /\ Len(heard) <= posted /\ posted <= Len(said)
    /\ stage \in Stages /\ stream \in {"open", "complete", "cut"}
    /\ settled \in BOOLEAN
    /\ settled => stage \in {"returned", "raised"} /\ posted = Len(said)
    /\ stream = "complete" => stage = "returned" /\ Len(heard) = Len(said)

-----------------------------------------------------------------------------
(* Sequences *)

LEMMA OneMore ==
    ASSUME NEW S, NEW s \in Seq(S), NEW x
    PROVE  /\ Append(s, x) \in Seq(S \cup {x})
           /\ Len(s) \in Nat /\ Len(Append(s, x)) = Len(s) + 1
  OBVIOUS

LEMMA NextNumber ==
    ASSUME NEW s \in Seq(Nat), \A i \in 1 .. Len(s) : s[i] = i
    PROVE  /\ Append(s, Len(s) + 1) \in Seq(Nat)
           /\ Len(Append(s, Len(s) + 1)) = Len(s) + 1
           /\ \A i \in 1 .. Len(s) + 1 : Append(s, Len(s) + 1)[i] = i
  OBVIOUS

-----------------------------------------------------------------------------
(* The thread and the handler *)

\* What a step of the thread does to the numbers: it says at most one thing more,
\* never after it has returned or raised, and the handler has no part in it.
Quiet == said' = said
Says == \E x : said' = Append(said, x)

LEMMA ThreadStep ==
    ASSUME Thread, stage \in Stages
    PROVE  /\ UNCHANGED <<posted, settled, heard, stream>>
           /\ stage \notin {"returned", "raised"} /\ stage' \in Stages
           /\ Quiet \/ Says
<1>1. UNCHANGED <<posted, settled, heard, stream>>
  BY DEF Thread, handler
<1>2. CASE PlanFirst
  BY <1>1, <1>2 DEF PlanFirst, Says, Stages
<1>3. CASE Skip \/ OpenStream \/ Break \/ EndStream
  BY <1>1, <1>3 DEF Skip, OpenStream, Break, EndStream, Quiet, Stages
<1>4. CASE CompleteWhole \/ Return \/ Raise
  BY <1>1, <1>4 DEF CompleteWhole, Return, Raise, Quiet, Stages
<1>5. ASSUME NEW s \in Kinds, Delta(s) PROVE /\ stage \in {"sdk", "http"} /\ stage' = stage
                                             /\ Quiet \/ Says
  <2> DEFINE e == IF s = "part" THEN [feed |-> [feed EXCEPT !.buffer = <<s>>], out |-> <<>>]
                  ELSE Emit(feed, Append(feed.buffer, s))
  <2>1. said' = IF e.out = <<>> THEN said ELSE Append(said, Event("second_delta", e.out))
    BY <1>5 DEF Delta
  <2> HIDE DEF e
  <2> QED BY <1>5, <2>1 DEF Delta, Quiet, Says
<1> QED BY <1>1, <1>2, <1>3, <1>4, <1>5 DEF Thread, Stages

LEMMA ThreadInv == ASSUME Inv, Thread PROVE Inv'
<1>1. /\ UNCHANGED <<posted, settled, heard, stream>>
      /\ stage \notin {"returned", "raised"} /\ stage' \in Stages
      /\ Quiet \/ Says
  BY ThreadStep DEF Inv
<1>2. PICK S : said \in Seq(S)
  BY DEF Inv
<1>3. (\E R : said' \in Seq(R)) /\ Len(said) \in Nat /\ Len(said) <= Len(said')
  <2>1. CASE Quiet
    BY <1>2, <2>1 DEF Quiet
  <2>2. CASE Says
    <3>1. PICK x : said' = Append(said, x)
      BY <2>2 DEF Says
    <3>2. said' \in Seq(S \cup {x}) /\ Len(said) \in Nat /\ Len(said') = Len(said) + 1
      BY <1>2, <3>1, OneMore
    <3> QED BY <3>2
  <2> QED BY <1>1, <2>1, <2>2
<1>4. ~settled /\ stream # "complete"
  BY <1>1 DEF Inv
<1>5. posted \in Nat /\ posted <= Len(said) /\ Len(said') \in Nat
  BY <1>3 DEF Inv
<1> QED BY <1>1, <1>3, <1>4, <1>5 DEF Inv

LEMMA HandlerInv == ASSUME Inv, Handler \/ Leave PROVE Inv'
<1>1. UNCHANGED <<stage, said>>
  BY DEF Handler, Leave, thread
<1>2. Len(said) \in Nat /\ Len(heard) \in Nat
  BY DEF Inv
<1>3. CASE Post
  BY <1>1, <1>2, <1>3 DEF Post, Inv
<1>4. CASE Settle
  BY <1>1, <1>2, <1>4 DEF Settle, Inv
<1>5. CASE Take
  <2>1. heard' = Append(heard, Len(heard) + 1) /\ UNCHANGED <<posted, settled, stream>>
        /\ Len(heard) < posted
    BY <1>5 DEF Take
  <2>2. heard' \in Seq(Nat) /\ Len(heard') = Len(heard) + 1
        /\ \A i \in 1 .. Len(heard') : heard'[i] = i
    BY <2>1, NextNumber DEF Inv
  <2>3. Len(heard') <= posted'
    BY <1>2, <2>1, <2>2 DEF Inv
  <2> QED BY <1>1, <2>1, <2>2, <2>3 DEF Inv
<1>6. CASE Final
  <2>1. settled /\ Len(heard) = posted
    BY <1>6 DEF Final, Drained
  <2> QED BY <1>1, <1>2, <1>6, <2>1 DEF Final, Inv
<1>7. CASE Fail \/ HangUp
  BY <1>1, <1>7 DEF Fail, HangUp, Inv
<1> QED BY <1>3, <1>4, <1>5, <1>6, <1>7 DEF Handler, Leave

LEMMA InitInv == Init => Inv
<1> SUFFICES ASSUME Init PROVE Inv
  OBVIOUS
<1>1. said \in Seq(Nat) /\ Len(said) = 0 /\ heard \in Seq(Nat) /\ Len(heard) = 0
  BY DEF Init
<1>2. \E S : said \in Seq(S)
  BY <1>1
<1>3. /\ \A i \in 1 .. Len(heard) : heard[i] = i
      /\ posted \in Nat /\ Len(heard) <= posted /\ posted <= Len(said)
  BY <1>1 DEF Init
<1>4. stage \in Stages /\ stream = "open" /\ settled = FALSE
  BY DEF Init, Stages
<1> QED BY <1>1, <1>2, <1>3, <1>4 DEF Inv

LEMMA NextInv == Inv /\ [Next]_vars => Inv'
<1> SUFFICES ASSUME Inv, [Next]_vars PROVE Inv'
  OBVIOUS
<1>1. CASE UNCHANGED vars
  BY <1>1 DEF vars, thread, handler, Inv
<1> QED BY <1>1, ThreadInv, HandlerInv DEF Next

-----------------------------------------------------------------------------
(* The refinement *)

\* The last number heard is how many have been heard.
LEMMA LastIs == Inv => Delivery!Last = Len(heard)
  BY DEF Inv, Delivery!Last

LEMMA InitRefines == Init => Delivery!Init
  BY DEF Init, Delivery!Init

LEMMA StepRefines == Inv /\ [Next]_vars => [Delivery!Next]_(Delivery!vars)
<1> SUFFICES ASSUME Inv, [Next]_vars PROVE [Delivery!Next]_(Delivery!vars)
  OBVIOUS
<1>1. Len(said) \in Nat /\ Len(heard) \in Nat /\ Delivery!Last = Len(heard)
  BY LastIs DEF Inv
<1>2. CASE UNCHANGED vars
  BY <1>2 DEF vars, thread, handler, Delivery!vars
<1>3. CASE Thread
  <2>1. /\ UNCHANGED <<heard, stream>> /\ stage \notin {"returned", "raised"}
        /\ Quiet \/ Says
    BY <1>3, ThreadStep DEF Inv
  <2>2. CASE Quiet
    BY <2>1, <2>2 DEF Quiet, Delivery!vars
  <2>3. CASE Says
    <3>1. PICK S : said \in Seq(S)
      BY DEF Inv
    <3>2. PICK x : said' = Append(said, x)
      BY <2>3 DEF Says
    <3>3. Len(said') = Len(said) + 1
      BY <3>1, <3>2, OneMore
    <3>4. stream # "complete"
      BY <2>1 DEF Inv
    <3> QED BY <2>1, <3>3, <3>4 DEF Delivery!Next, Delivery!Say
  <2> QED BY <2>1, <2>2, <2>3
<1>4. CASE Handler \/ Leave
  <2>1. said' = said
    BY <1>4 DEF Handler, Leave, thread
  <2>2. CASE Post \/ Settle
    BY <2>1, <2>2 DEF Post, Settle, Delivery!vars
  <2>3. CASE Take
    <3> DEFINE n == Len(heard) + 1
    <3>1. stream = "open" /\ Len(heard) < posted /\ heard' = Append(heard, n) /\ stream' = stream
      BY <2>3 DEF Take
    <3>2. n \in Delivery!Last + 1 .. Len(said) /\ n = Delivery!Last + 1 /\ n \in 1 .. Len(said)
      BY <1>1, <3>1 DEF Inv
    <3>3. Delivery!Hear(n)
      BY <2>1, <3>1, <3>2 DEF Delivery!Hear
    <3> QED BY <3>2, <3>3 DEF Delivery!Next
  <2>4. CASE Final
    <3>1. Len(heard) = Len(said) /\ stream = "open" /\ stream' = "complete" /\ heard' = heard
      BY <2>4 DEF Final, Drained, Inv
    <3> QED BY <1>1, <2>1, <3>1 DEF Delivery!Next, Delivery!Complete
  <2>5. CASE Fail \/ HangUp
    BY <2>1, <2>5 DEF Fail, HangUp, Delivery!Next, Delivery!Cut
  <2> QED BY <1>4, <2>2, <2>3, <2>4, <2>5 DEF Handler, Leave
<1> QED BY <1>2, <1>3, <1>4 DEF Next

\* What the handler yields is an ordered delivery without loss of what the thread
\* posts: nothing twice, nothing skipped, the final event only after the last delta
\* (run_turn_streaming and its queue in api_runtime.py), whatever is written.
THEOREM SpokenReplyDelivers == Spec => DeliveryIsOrdered
<1>1. Inv /\ [Next]_vars => Inv'
  BY NextInv
<1>2. Inv /\ [Next]_vars => [Delivery!Next]_(Delivery!vars)
  BY StepRefines
<1> QED BY <1>1, <1>2, InitInv, InitRefines, PTL DEF Spec, DeliveryIsOrdered, Delivery!Spec

\* What OrderedDelivery promises holds of the reply: the page hears its events in the
\* order in which the thread emitted them, none twice and none left out, and all of
\* them when the stream completes, whatever broke on the way.
THEOREM ReplyIsHeard == Spec => [](Delivery!InOrder /\ Delivery!NothingSkipped)
<1>1. Inv => Delivery!InOrder /\ Delivery!NothingSkipped
  BY DEF Inv, Delivery!InOrder, Delivery!NothingSkipped
<1> QED BY <1>1, InitInv, NextInv, PTL DEF Spec

-----------------------------------------------------------------------------
(* Counting sentences *)

\* A set of numbers that is not empty has its least member.
LEMMA LeastNumber ==
    ASSUME NEW S \in SUBSET Nat, S # {}
    PROVE  \E x \in S : \A y \in S : x <= y
<1> DEFINE less == {ss \in Nat \X Nat : ss[1] < ss[2]}
<1>1. IsWellFoundedOn(less, Nat)
  BY NatLessThanWellFounded, Zenon DEF OpToRel
<1> HIDE DEF less
<1>2. PICK x \in S : \A y \in S : ~ (<<y, x>> \in less)
  BY <1>1, WFMin, Zenon
<1>3. \A y, z \in Nat : y < z => <<y, z>> \in less
  <2> SUFFICES ASSUME NEW y \in Nat, NEW z \in Nat, y < z PROVE <<y, z>> \in less
    OBVIOUS
  <2>1. <<y, z>> \in Nat \X Nat /\ <<y, z>>[1] < <<y, z>>[2]
    OBVIOUS
  <2> QED BY <2>1, Zenon DEF less
<1>4. \A y \in S : x \in Nat /\ y \in Nat /\ ~ (y < x)
  BY <1>2, <1>3, Zenon
<1>5. \A y \in S : x <= y
  BY <1>4
<1> QED BY <1>5

LEMMA EndsAreFinite ==
    ASSUME NEW S, NEW t \in Seq(S)
    PROVE  /\ IsFiniteSet(SentenceEnds(t)) /\ SentenceEnds(t) \subseteq 1 .. Len(t)
           /\ Sentences(t) \in Nat
<1>1. SentenceEnds(t) \in SUBSET (1 .. Len(t)) /\ Len(t) \in Nat
  BY DEF SentenceEnds
<1>2. IsFiniteSet(1 .. Len(t))
  BY <1>1, FS_Interval
<1>3. IsFiniteSet(SentenceEnds(t))
  BY <1>1, <1>2, FS_Subset, Zenon
<1> QED BY <1>1, <1>3, FS_CardinalityType DEF Sentences

\* A sentence more adds one to what is counted.
LEMMA NextPrefix ==
    ASSUME NEW S, NEW t \in Seq(S), NEW k \in 1 .. Len(t)
    PROVE  SentenceEnds(SubSeq(t, 1, k)) =
             IF t[k] = "part" THEN SentenceEnds(SubSeq(t, 1, k - 1))
             ELSE SentenceEnds(SubSeq(t, 1, k - 1)) \cup {k}
<1>1. k \in Nat /\ Len(t) \in Nat /\ k <= Len(t)
  OBVIOUS
<1>2. /\ DOMAIN SubSeq(t, 1, k) = 1 .. k /\ \A i \in 1 .. k : SubSeq(t, 1, k)[i] = t[i]
      /\ DOMAIN SubSeq(t, 1, k - 1) = 1 .. k - 1
      /\ \A i \in 1 .. k - 1 : SubSeq(t, 1, k - 1)[i] = t[i]
  BY <1>1
<1> QED BY <1>1, <1>2 DEF SentenceEnds

\* A text with more sentences than asked has a place where just so many have ended.
LEMMA PlaceOfSentence ==
    ASSUME NEW S, NEW t \in Seq(S), NEW n \in Nat, n # 0, Sentences(t) > n
    PROVE  \E k \in SentenceEnds(t) : Sentences(SubSeq(t, 1, k)) = n
<1> DEFINE pre(k) == SubSeq(t, 1, k)
           many == {k \in 1 .. Len(t) : Sentences(pre(k)) >= n}
<1>1. \A k \in 0 .. Len(t) : pre(k) \in Seq(S)
  OBVIOUS
<1>2. \A k \in 0 .. Len(t) : IsFiniteSet(SentenceEnds(pre(k))) /\ Sentences(pre(k)) \in Nat
  BY <1>1, EndsAreFinite
<1>3. pre(Len(t)) = t /\ Len(t) \in Nat
  OBVIOUS
<1>4. Sentences(pre(0)) = 0
  <2>1. pre(0) \in Seq(S) /\ Len(pre(0)) = 0
    OBVIOUS
  <2> HIDE DEF pre
  <2>2. SentenceEnds(pre(0)) = {}
    BY <2>1, EndsAreFinite
  <2> QED BY <2>2, FS_EmptySet, Zenon DEF Sentences
<1>5. \A k \in 1 .. Len(t) :
        SentenceEnds(pre(k)) = IF t[k] = "part" THEN SentenceEnds(pre(k - 1))
                               ELSE SentenceEnds(pre(k - 1)) \cup {k}
  BY NextPrefix
<1> SUFFICES \E k \in SentenceEnds(t) : Sentences(pre(k)) = n
  BY Zenon
<1>6. many \in SUBSET Nat /\ \A k \in many : k \in 1 .. Len(t) /\ Sentences(pre(k)) >= n
  BY <1>3
<1>7. \A k \in 1 .. Len(t) : Sentences(pre(k)) >= n => k \in many
  OBVIOUS
<1> HIDE DEF pre, many
<1>8. Len(t) \in many
  <2>1. Len(t) # 0
    BY <1>3, <1>4
  <2>2. Sentences(pre(Len(t))) >= n
    BY <1>2, <1>3
  <2> QED BY <1>3, <1>7, <2>1, <2>2
<1>9. PICK k \in many : \A j \in many : k <= j
  BY <1>6, <1>8, LeastNumber
<1>10. k \in 1 .. Len(t) /\ k - 1 \in 0 .. Len(t) /\ Sentences(pre(k)) >= n /\ k \in 0 .. Len(t)
  BY <1>3, <1>6, <1>9
<1>11. Sentences(pre(k - 1)) < n
  <2>1. CASE k = 1
    BY <1>4, <2>1
  <2>2. CASE k # 1
    <3>1. k - 1 \in 1 .. Len(t) /\ ~(k <= k - 1)
      BY <1>3, <1>10, <2>2
    <3>2. k - 1 \notin many
      BY <1>9, <3>1
    <3>3. ~(Sentences(pre(k - 1)) >= n) /\ Sentences(pre(k - 1)) \in Nat
      BY <1>2, <1>7, <1>10, <3>1, <3>2, Zenon
    <3> QED BY <3>3
  <2> QED BY <2>1, <2>2
<1>12. t[k] # "part"
  <2> SUFFICES ASSUME t[k] = "part" PROVE FALSE
    OBVIOUS
  <2>1. Sentences(pre(k)) = Sentences(pre(k - 1))
    BY <1>5, <1>10, Zenon DEF Sentences
  <2> QED BY <1>2, <1>10, <1>11, <2>1
<1>13. Sentences(pre(k)) <= Sentences(pre(k - 1)) + 1
  <2>1. SentenceEnds(pre(k)) = SentenceEnds(pre(k - 1)) \cup {k}
    BY <1>5, <1>10, <1>12
  <2> DEFINE before == SentenceEnds(pre(k - 1))
  <2>2. IsFiniteSet(before) /\ Cardinality(before) \in Nat
    BY <1>2, <1>10 DEF Sentences
  <2> HIDE DEF before
  <2>3. Cardinality(before \cup {k}) = IF k \in before THEN Cardinality(before)
                                       ELSE Cardinality(before) + 1
    BY <2>2, FS_AddElement, Zenon
  <2>4. Cardinality(before \cup {k}) <= Cardinality(before) + 1
    BY <2>2, <2>3
  <2> QED BY <2>1, <2>4, Zenon DEF Sentences, before
<1>14. Sentences(pre(k)) = n
  BY <1>2, <1>10, <1>11, <1>13
<1>15. k \in SentenceEnds(t)
  <2>1. DOMAIN t = 1 .. Len(t)
    OBVIOUS
  <2> QED BY <1>10, <1>12, <2>1, Zenon DEF SentenceEnds
<1> QED BY <1>14, <1>15

\* What Cap leaves of a text has no words of its own, and no more sentences than asked.
LEMMA CapLimits ==
    ASSUME NEW S, NEW t \in Seq(S), NEW n \in Nat
    PROVE  /\ Cap(t, n) \in Seq(S) /\ Range(Cap(t, n)) \subseteq Range(t)
           /\ Sentences(Cap(t, n)) <= n
<1> DEFINE ends == {k \in SentenceEnds(t) : Sentences(SubSeq(t, 1, k)) = n}
<1>1. ASSUME NEW k \in 0 .. Len(t)
      PROVE  SubSeq(t, 1, k) \in Seq(S) /\ Range(SubSeq(t, 1, k)) \subseteq Range(t)
  BY DEF Range
<1>2. CASE n = 0
  <2>1. Cap(t, n) = <<>>
    BY <1>2 DEF Cap
  <2>2. SentenceEnds(<<>>) = {}
    BY DEF SentenceEnds
  <2>3. Sentences(<<>>) = 0
    BY <2>2, FS_EmptySet, Zenon DEF Sentences
  <2>4. <<>> \in Seq(S) /\ Range(<<>>) = {}
    BY DEF Range
  <2>5. /\ Cap(t, n) \in Seq(S) /\ Range(Cap(t, n)) \subseteq Range(t)
        /\ Sentences(Cap(t, n)) = 0
    BY <2>1, <2>3, <2>4, Zenon
  <2> QED BY <2>5
<1>3. CASE n # 0 /\ ends # {}
  <2>1. \E k \in ends : Cap(t, n) = SubSeq(t, 1, k)
    <3> DEFINE k == CHOOSE x \in ends : TRUE
    <3>1. Cap(t, n) = SubSeq(t, 1, k)
      BY <1>3 DEF Cap
    <3> HIDE DEF ends
    <3>2. k \in ends
      BY <1>3
    <3> QED BY <3>1, <3>2
  <2>2. PICK k \in ends : Cap(t, n) = SubSeq(t, 1, k)
    BY <2>1
  <2>3. k \in SentenceEnds(t) /\ Sentences(SubSeq(t, 1, k)) = n
    BY <2>2
  <2>4. k \in 0 .. Len(t)
    BY <2>3, EndsAreFinite
  <2>5. SubSeq(t, 1, k) \in Seq(S) /\ Range(SubSeq(t, 1, k)) \subseteq Range(t)
    BY <1>1, <2>4, Zenon
  <2> QED BY <2>2, <2>3, <2>5
<1>4. CASE n # 0 /\ ends = {}
  <2>1. Cap(t, n) = t
    BY <1>4 DEF Cap
  <2>2. ~(Sentences(t) > n)
    BY <1>4, PlaceOfSentence
  <2> QED BY <2>1, <2>2, EndsAreFinite
<1> QED BY <1>2, <1>3, <1>4

-----------------------------------------------------------------------------
(* One sentence of the stream *)

Words == Kinds \cup {"soft", "question", "fallback", "brief", "echo"}
               \cup UNION {Range(t) : t \in Wholes}
Texts == Seq(Words)

Feeds == [buffer : Texts, pending : Texts, dedupe : BOOLEAN, stopped : BOOLEAN,
          count : 0 .. MaxSentences]

FeedOK(f) == f \in Feeds /\ Harmless(f.pending)

LEMMA WordsAre ==
    /\ Kinds \subseteq Words
    /\ "soft" \in Words /\ "question" \in Words /\ "fallback" \in Words
    /\ "brief" \in Words /\ "echo" \in Words
    /\ \A t \in Wholes : t \in Texts
<1>1. /\ Kinds \subseteq Words /\ "soft" \in Words /\ "question" \in Words
      /\ "fallback" \in Words /\ "brief" \in Words /\ "echo" \in Words
  BY DEF Words
<1>2. ASSUME NEW t \in Wholes PROVE t \in Texts
  <2>1. t \in Seq(Range(t)) /\ Range(t) \subseteq Words
    BY WholesAssumption DEF Words
  <2> HIDE DEF Words
  <2>2. \A S, T : S \subseteq T /\ t \in Seq(S) => t \in Seq(T)
    OBVIOUS
  <2> QED BY <2>1, <2>2, Zenon DEF Texts
<1> QED BY <1>1, <1>2

LEMMA HarmlessParts ==
    ASSUME NEW t, NEW u, Range(u) \subseteq Range(t), Harmless(t)
    PROVE  Harmless(u)
  BY DEF Harmless

LEMMA NothingIsHarmless == Harmless(<<>>) /\ <<>> \in Texts
  BY DEF Harmless, Range, Texts

LEMMA SoftenIs ==
    ASSUME NEW t \in Texts
    PROVE  Soften(t) \in Texts /\ "harsh" \notin Range(Soften(t))
<1>1. DOMAIN Soften(t) = 1 .. Len(t) /\ Len(t) \in Nat
  BY DEF Soften, Texts
<1>2. \A i \in 1 .. Len(t) : Soften(t)[i] \in Words /\ Soften(t)[i] # "harsh"
  BY WordsAre DEF Soften, Texts
<1>3. Soften(t) = [i \in 1 .. Len(t) |-> Soften(t)[i]]
  BY <1>1 DEF Soften
<1>4. Soften(t) \in Texts
  BY <1>1, <1>2, <1>3 DEF Texts
<1> QED BY <1>1, <1>2, <1>4 DEF Range

LEMMA DedupeIs ==
    ASSUME NEW t \in Texts
    PROVE  Dedupe(t) \in Texts /\ Range(Dedupe(t)) \subseteq Range(t)
  BY DEF Dedupe, RepeatsFirst, Range, Texts

\* What the gate lets through can be said.
LEMMA GateIs ==
    ASSUME NEW t \in Texts, NEW dedupe \in BOOLEAN
    PROVE  /\ Gate(t, dedupe).text \in Texts /\ Harmless(Gate(t, dedupe).text)
           /\ Gate(t, dedupe).stop \in BOOLEAN /\ Gate(t, dedupe).force \in BOOLEAN
<1> DEFINE soft == Soften(t)
           mended == IF Contradicts(soft) THEN <<"question">> ELSE soft
           clean == IF dedupe THEN Dedupe(mended) ELSE mended
<1>1. Gate(t, dedupe) = IF "claim" \in Range(soft) \/ Foreign(soft)
                        THEN [text |-> <<>>, stop |-> TRUE, force |-> FALSE]
                        ELSE [text |-> clean, stop |-> mended # soft, force |-> soft # t]
  BY DEF Gate
<1>2. soft \in Texts /\ "harsh" \notin Range(soft)
  BY SoftenIs
<1>3. "claim" \notin Range(soft) => mended \in Texts /\ Harmless(mended)
  <2>1. <<"question">> \in Texts /\ Range(<<"question">>) = {"question"}
    BY WordsAre DEF Texts, Range
  <2> HIDE DEF soft
  <2>2. Contradicts(soft) => mended \in Texts /\ Harmless(mended)
    BY <2>1 DEF Harmless
  <2>3. ~Contradicts(soft) /\ "claim" \notin Range(soft) => mended \in Texts /\ Harmless(mended)
    BY <1>2 DEF Harmless, Contradicts
  <2> QED BY <2>2, <2>3
<1> HIDE DEF mended, soft
<1>4. "claim" \notin Range(soft) => clean \in Texts /\ Harmless(clean)
  BY <1>3, DedupeIs, HarmlessParts
<1> HIDE DEF clean
<1>5. CASE "claim" \in Range(soft) \/ Foreign(soft)
  <2>1. Gate(t, dedupe) = [text |-> <<>>, stop |-> TRUE, force |-> FALSE]
    BY <1>1, <1>5, Zenon
  <2> QED BY <2>1, NothingIsHarmless
<1>6. CASE ~("claim" \in Range(soft) \/ Foreign(soft))
  <2>1. Gate(t, dedupe) = [text |-> clean, stop |-> mended # soft, force |-> soft # t]
    BY <1>1, <1>6, Zenon
  <2> QED BY <1>4, <1>6, <2>1
<1> QED BY <1>5, <1>6

LEMMA JoinIs ==
    ASSUME NEW a \in Texts, NEW b \in Texts, Harmless(a), Harmless(b)
    PROVE  Join(a, b) \in Texts /\ Harmless(Join(a, b))
<1> DEFINE flat == [i \in DOMAIN a |-> IF a[i] = "gap" THEN "brief" ELSE a[i]]
<1>1. Join(a, b) = flat \o b
  BY DEF Join, Even
<1>2. DOMAIN a = 1 .. Len(a) /\ Len(a) \in Nat /\ \A i \in 1 .. Len(a) : a[i] \in Words
  BY DEF Texts
<1>3. flat \in Texts
  BY <1>2, WordsAre DEF Texts
<1>4. Range(flat) \subseteq Range(a) \cup {"brief"}
  BY DEF Range
<1> HIDE DEF flat
<1>5. flat \o b \in Texts /\ Range(flat \o b) \subseteq Range(flat) \cup Range(b)
  BY <1>3 DEF Texts, Range
<1>6. Range(flat \o b) \subseteq Range(a) \cup Range(b) \cup {"brief"}
  BY <1>4, <1>5
<1> QED BY <1>1, <1>5, <1>6 DEF Harmless

LEMMA PushIs ==
    ASSUME NEW a \in Texts, NEW b \in Texts, Harmless(a), Harmless(b), NEW force
    PROVE  /\ Push(a, b, force).out \in Texts /\ Harmless(Push(a, b, force).out)
           /\ Push(a, b, force).pending \in Texts /\ Harmless(Push(a, b, force).pending)
<1> DEFINE joined == IF a = <<>> THEN b ELSE Join(a, b)
<1>1. joined \in Texts /\ Harmless(joined)
  BY JoinIs
<1>2. Push(a, b, force) = IF ~force /\ Short(joined) THEN [out |-> <<>>, pending |-> joined]
                                                     ELSE [out |-> joined, pending |-> <<>>]
  BY DEF Push
<1> HIDE DEF joined
<1> QED BY <1>1, <1>2, NothingIsHarmless

\* A sentence leaves the buffers sound, and what is emitted of it is harmless, is
\* counted and keeps the limit.
LEMMA EmitIs ==
    ASSUME NEW f, FeedOK(f), NEW t \in Texts
    PROVE  /\ FeedOK(Emit(f, t).feed)
           /\ Emit(f, t).out \in Texts /\ Harmless(Emit(f, t).out)
           /\ Emit(f, t).feed.count = f.count + Sentences(Emit(f, t).out)
<1> DEFINE g == Gate(t, f.dedupe)
           p == Push(f.pending, g.text, g.force \/ g.stop)
           out == Cap(p.out, MaxSentences - f.count)
           count == f.count + Sentences(out)
           full == p.out # <<>> /\ (out # p.out \/ count >= MaxSentences)
           base == [f EXCEPT !.buffer = <<>>, !.stopped = g.stop]
           silent == [feed |-> [f EXCEPT !.buffer = <<>>], out |-> <<>>]
           empty == [feed |-> base, out |-> <<>>]
           spoken == [feed |-> [base EXCEPT !.pending = p.pending, !.dedupe = FALSE,
                                            !.stopped = g.stop \/ full, !.count = count],
                      out |-> out]
<1>1. Emit(f, t) \in {silent, empty, spoken}
  BY DEF Emit
<1>2. f.buffer \in Texts /\ f.pending \in Texts /\ f.dedupe \in BOOLEAN
      /\ f.stopped \in BOOLEAN /\ f.count \in 0 .. MaxSentences /\ Harmless(f.pending)
      /\ f \in Feeds
  BY DEF FeedOK, Feeds
<1>3. g.text \in Texts /\ Harmless(g.text) /\ g.stop \in BOOLEAN
  BY <1>2, GateIs
<1> HIDE DEF g
<1>4. p.out \in Texts /\ Harmless(p.out) /\ p.pending \in Texts /\ Harmless(p.pending)
  BY <1>2, <1>3, PushIs
<1> HIDE DEF p
<1>5. MaxSentences - f.count \in Nat
  BY <1>2, SpokenAssumption
<1>6. out \in Texts /\ Range(out) \subseteq Range(p.out) /\ Sentences(out) <= MaxSentences - f.count
  BY <1>4, <1>5, CapLimits DEF Texts
<1> HIDE DEF out
<1>7. Harmless(out) /\ Sentences(out) \in Nat
  BY <1>4, <1>6, HarmlessParts, EndsAreFinite DEF Texts
<1>8. count \in 0 .. MaxSentences
  BY <1>2, <1>6, <1>7, SpokenAssumption
<1>9. Sentences(<<>>) = 0
  <2>1. SentenceEnds(<<>>) = {}
    BY DEF SentenceEnds
  <2> QED BY <2>1, FS_EmptySet, Zenon DEF Sentences
<1>10. full \in BOOLEAN
  OBVIOUS
<1> HIDE DEF count, full
<1> DEFINE good(e) == /\ FeedOK(e.feed) /\ e.out \in Texts /\ Harmless(e.out)
                      /\ e.feed.count = f.count + Sentences(e.out)
<1>11. good(silent)
  BY <1>2, <1>9, NothingIsHarmless DEF FeedOK, Feeds
<1>12. good(empty)
  <2>1. empty.feed \in Feeds
    BY <1>2, <1>3, NothingIsHarmless DEF Feeds
  <2>2. empty.feed.pending = f.pending /\ empty.feed.count = f.count /\ empty.out = <<>>
    BY <1>2 DEF Feeds
  <2>3. f.count + Sentences(<<>>) = f.count
    BY <1>2, <1>9
  <2> HIDE DEF empty
  <2> QED BY <1>2, <2>1, <2>2, <2>3, NothingIsHarmless DEF FeedOK
<1>13. good(spoken)
  <2>1. spoken.feed \in Feeds
    BY <1>2, <1>3, <1>4, <1>8, <1>10, NothingIsHarmless DEF Feeds
  <2>2. spoken.feed.pending = p.pending /\ spoken.feed.count = count /\ spoken.out = out
    BY <1>2 DEF Feeds
  <2> QED BY <1>4, <1>6, <1>7, <2>1, <2>2 DEF FeedOK, count
<1> HIDE DEF silent, empty, spoken
<1>14. good(Emit(f, t))
  BY <1>1, <1>11, <1>12, <1>13, Zenon
<1> QED BY <1>14

-----------------------------------------------------------------------------
(* The turn *)

Events == [phase : {"first_unit", "second_delta"}, text : Texts]

SaidOK ==
    /\ said \in Seq(Events)
    /\ \A i \in 2 .. Len(said) : Harmless(said[i].text)
    /\ IsFiniteSet(Spoken) /\ Cardinality(Spoken) <= MaxSentences

\* The buffers of the stream count what has been said, whichever transport is at
\* work, and what they hold back may be said.
LimitInv ==
    /\ SaidOK
    /\ stage = "start" => said = <<>>
    /\ stage = "ready" => Len(said) = 1
    /\ stage \in {"sdk", "http"} =>
         Len(said) >= 1 /\ FeedOK(feed) /\ Cardinality(Spoken) = feed.count

\* A delta adds its own sentences to those said.
LEMMA SpokenGrows ==
    ASSUME said \in Seq(Events), Len(said) >= 1, IsFiniteSet(Spoken),
           NEW t \in Texts, said' = Append(said, Event("second_delta", t))
    PROVE  /\ IsFiniteSet(Spoken') /\ Cardinality(Spoken') = Cardinality(Spoken) + Sentences(t)
<1> DEFINE n == Len(said) + 1
           more == {n} \X SentenceEnds(t)
<1>1. Len(said) \in Nat /\ Len(said') = n /\ said'[n] = Event("second_delta", t)
      /\ \A i \in 1 .. Len(said) : said'[i] = said[i]
  OBVIOUS
<1>2. Spoken' = Spoken \cup more
  <2>1. \A i \in 2 .. Len(said) : said'[i].text = said[i].text
    BY <1>1
  <2>2. 2 .. Len(said') = (2 .. Len(said)) \cup {n} /\ said'[n].text = t
    BY <1>1 DEF Event
  <2> DEFINE ends(i) == {i} \X SentenceEnds(said[i].text)
             ends2(i) == {i} \X SentenceEnds(said'[i].text)
  <2>3. Spoken = UNION {ends(i) : i \in 2 .. Len(said)}
    BY DEF Spoken
  <2>4. Spoken' = UNION {ends2(i) : i \in (2 .. Len(said)) \cup {n}}
    BY <2>2, Zenon DEF Spoken
  <2>5. ends2(n) = more /\ \A i \in 2 .. Len(said) : ends2(i) = ends(i)
    BY <2>1, <2>2, Zenon
  <2> HIDE DEF n, ends, ends2, more
  <2> QED BY <2>3, <2>4, <2>5
<1>3. IsFiniteSet(SentenceEnds(t)) /\ Sentences(t) \in Nat
  BY EndsAreFinite DEF Texts
<1>4. IsFiniteSet(more) /\ Cardinality(more) = Sentences(t)
  <2>1. IsFiniteSet({n}) /\ Cardinality({n}) = 1
    BY FS_Singleton, Zenon
  <2>2. IsFiniteSet(more) /\ Cardinality(more) = 1 * Cardinality(SentenceEnds(t))
    BY <1>3, <2>1, FS_Product
  <2> QED BY <1>3, <2>2 DEF Sentences
<1>5. Spoken \cap more = {}
  BY <1>1 DEF Spoken
<1> HIDE DEF more, n
<1>6. IsFiniteSet(Spoken \cup more)
      /\ Cardinality(Spoken \cup more) = Cardinality(Spoken) + Cardinality(more) - Cardinality({})
  <2>1. \A A, B : IsFiniteSet(A) /\ IsFiniteSet(B) =>
          /\ IsFiniteSet(A \cup B)
          /\ Cardinality(A \cup B) = Cardinality(A) + Cardinality(B) - Cardinality(A \cap B)
    BY FS_Union, Zenon
  <2>2. /\ IsFiniteSet(Spoken \cup more)
        /\ Cardinality(Spoken \cup more) =
             Cardinality(Spoken) + Cardinality(more) - Cardinality(Spoken \cap more)
    BY <1>4, <2>1, Zenon
  <2> QED BY <1>5, <2>2, Zenon
<1>7. Cardinality(Spoken) \in Nat /\ Cardinality({}) = 0
  <2>1. \A A : IsFiniteSet(A) => Cardinality(A) \in Nat
    BY FS_CardinalityType, Zenon
  <2> QED BY <2>1, FS_EmptySet
<1> QED BY <1>2, <1>3, <1>4, <1>6, <1>7

LEMMA LimitInit == Init => LimitInv
<1> SUFFICES ASSUME Init PROVE LimitInv
  OBVIOUS
<1>1. stage = "start" /\ said = <<>>
  BY DEF Init
<1>2. Spoken = {}
  BY <1>1 DEF Spoken
<1>3. IsFiniteSet(Spoken) /\ Cardinality(Spoken) = 0
  BY <1>2, FS_EmptySet, Zenon
<1> QED BY <1>1, <1>3, SpokenAssumption DEF LimitInv, SaidOK

LEMMA PlanFirstLimits == ASSUME LimitInv, PlanFirst PROVE LimitInv'
<1>1. PICK f :
        said' = Append(said, Event("first_unit", IF f = "none" THEN <<>> ELSE <<"echo">>))
  <2> DEFINE firsts == {"none"} \cup {FirstOf(raw) : raw \in RawFirsts}
  <2>1. \E f \in firsts :
          /\ first' = f
          /\ said' = Append(said, Event("first_unit", IF f = "none" THEN <<>> ELSE <<"echo">>))
    BY DEF PlanFirst
  <2> HIDE DEF firsts
  <2> QED BY <2>1, Zenon
<1>2. said = <<>> /\ stage' = "ready"
  BY DEF PlanFirst, LimitInv
<1>3. Event("first_unit", IF f = "none" THEN <<>> ELSE <<"echo">>) \in Events
  <2>1. <<>> \in Texts /\ <<"echo">> \in Texts
    BY WordsAre DEF Texts
  <2>2. \A t \in Texts : Event("first_unit", t) \in Events
    BY DEF Event, Events
  <2> QED BY <2>1, <2>2
<1>4. said' \in Seq(Events) /\ Len(said') = 1
  BY <1>1, <1>2, <1>3
<1>5. Spoken' = {}
  BY <1>4 DEF Spoken
<1>6. IsFiniteSet(Spoken') /\ Cardinality(Spoken') = 0
  BY <1>5, FS_EmptySet, Zenon
<1> QED BY <1>2, <1>4, <1>6, SpokenAssumption DEF LimitInv, SaidOK

\* As long as nothing is said, and the first unit stays as it was, what has been said
\* is as it was.
LEMMA Unsaid ==
    ASSUME SaidOK, UNCHANGED <<said, first>>
    PROVE  SaidOK' /\ Spoken' = Spoken /\ (FeedOK(feed) /\ feed' = feed => FeedOK(feed)')
<1>1. Spoken' = Spoken
  BY DEF Spoken
<1> QED BY <1>1 DEF SaidOK, FeedOK, Harmless

LEMMA OpenStreamLimits == ASSUME LimitInv, OpenStream PROVE LimitInv'
<1>1. /\ UNCHANGED <<said, first>> /\ stage = "ready" /\ stage' \in {"sdk", "http"}
      /\ feed' = NewFeed
  BY DEF OpenStream
<1>2. SaidOK /\ Len(said) = 1
  BY <1>1 DEF LimitInv
<1>3. SaidOK' /\ Spoken' = Spoken
  BY <1>1, <1>2, Unsaid
<1>4. Spoken = {}
  BY <1>2 DEF Spoken
<1>5. Cardinality(Spoken') = 0
  BY <1>3, <1>4, FS_EmptySet, Zenon
<1>6. FeedOK(feed)' /\ feed'.count = 0
  BY <1>1, SpokenAssumption DEF FeedOK, Feeds, NewFeed, Texts, Harmless, Range
<1> QED BY <1>1, <1>2, <1>3, <1>5, <1>6 DEF LimitInv

LEMMA DeltaLimits == ASSUME LimitInv, NEW s \in Kinds, Delta(s) PROVE LimitInv'
<1> DEFINE e == IF s = "part" THEN [feed |-> [feed EXCEPT !.buffer = <<s>>], out |-> <<>>]
                ELSE Emit(feed, Append(feed.buffer, s))
<1>1. /\ feed' = e.feed
      /\ said' = IF e.out = <<>> THEN said ELSE Append(said, Event("second_delta", e.out))
      /\ stage \in {"sdk", "http"} /\ UNCHANGED <<stage, first>>
  BY DEF Delta
<1>2. SaidOK /\ Len(said) >= 1 /\ FeedOK(feed) /\ Cardinality(Spoken) = feed.count
  BY <1>1 DEF LimitInv
<1>3. Sentences(<<>>) = 0
  <2>1. SentenceEnds(<<>>) = {}
    BY DEF SentenceEnds
  <2> QED BY <2>1, FS_EmptySet, Zenon DEF Sentences
<1>4. /\ FeedOK(e.feed) /\ e.out \in Texts /\ Harmless(e.out)
      /\ e.feed.count = feed.count + Sentences(e.out)
  <2>1. CASE s = "part"
    <3>1. <<s>> \in Texts
      BY WordsAre DEF Texts
    <3>2. /\ [feed EXCEPT !.buffer = <<s>>] \in Feeds
          /\ [feed EXCEPT !.buffer = <<s>>].pending = feed.pending
          /\ [feed EXCEPT !.buffer = <<s>>].count = feed.count
      BY <1>2, <3>1 DEF FeedOK, Feeds
    <3>3. feed.count + Sentences(<<>>) = feed.count
      BY <1>2, <1>3 DEF FeedOK, Feeds
    <3>4. e.feed = [feed EXCEPT !.buffer = <<s>>] /\ e.out = <<>>
      BY <2>1
    <3> HIDE DEF e
    <3> QED BY <1>2, <3>2, <3>3, <3>4, NothingIsHarmless DEF FeedOK
  <2>2. CASE s # "part"
    <3>1. Append(feed.buffer, s) \in Texts
      BY <1>2, WordsAre DEF FeedOK, Feeds, Texts
    <3>2. e = Emit(feed, Append(feed.buffer, s))
      BY <2>2
    <3> HIDE DEF e
    <3> QED BY <1>2, <3>1, <3>2, EmitIs
  <2> QED BY <2>1, <2>2
<1> HIDE DEF e
<1>5. FeedOK(feed)' /\ feed'.count \in 0 .. MaxSentences
  BY <1>1, <1>4 DEF FeedOK, Feeds, Harmless
<1>6. CASE e.out = <<>>
  <2>1. feed'.count = feed.count
    BY <1>1, <1>2, <1>3, <1>4, <1>6 DEF FeedOK, Feeds
  <2>2. UNCHANGED <<said, first>>
    BY <1>1, <1>6
  <2>3. SaidOK' /\ Spoken' = Spoken
    BY <1>2, <2>2, Unsaid
  <2> QED BY <1>1, <1>2, <1>5, <2>1, <2>2, <2>3 DEF LimitInv
<1>7. CASE e.out # <<>>
  <2>1. said' = Append(said, Event("second_delta", e.out))
    BY <1>1, <1>7
  <2>2. IsFiniteSet(Spoken') /\ Cardinality(Spoken') = feed'.count
    <3>1. IsFiniteSet(Spoken') /\ Cardinality(Spoken') = Cardinality(Spoken) + Sentences(e.out)
      BY <1>2, <1>4, <2>1, SpokenGrows DEF SaidOK
    <3> QED BY <1>1, <1>2, <1>4, <3>1
  <2>3. Event("second_delta", e.out) \in Events /\ Event("second_delta", e.out).text = e.out
    BY <1>4 DEF Event, Events
  <2>4. /\ said' \in Seq(Events) /\ Len(said') = Len(said) + 1 /\ Len(said) \in Nat
        /\ \A i \in 2 .. Len(said') :
             said'[i] = IF i = Len(said') THEN Event("second_delta", e.out) ELSE said[i]
    BY <1>2, <2>1, <2>3 DEF SaidOK
  <2>5. \A i \in 2 .. Len(said') : Harmless(said'[i].text)
    <3> SUFFICES ASSUME NEW i \in 2 .. Len(said') PROVE Harmless(said'[i].text)
      OBVIOUS
    <3>1. CASE i = Len(said')
      BY <1>4, <2>3, <2>4, <3>1
    <3>2. CASE i # Len(said')
      <4>1. i \in 2 .. Len(said) /\ said'[i] = said[i]
        BY <2>4, <3>2
      <4> QED BY <1>2, <4>1 DEF SaidOK
    <3> QED BY <3>1, <3>2
  <2>6. (\A i \in 2 .. Len(said) : Harmless(said[i].text))'
    BY <1>1, <2>5 DEF Harmless
  <2>7. SaidOK'
    BY <1>5, <2>2, <2>4, <2>6 DEF SaidOK
  <2> QED BY <1>1, <1>2, <1>5, <2>2, <2>4, <2>7 DEF LimitInv
<1> QED BY <1>6, <1>7

LEMMA OthersKeepLimits ==
    ASSUME LimitInv, UNCHANGED <<said, first>>,
           \/ stage' \notin {"start", "ready", "sdk", "http"}
           \/ stage \in {"sdk", "http"} /\ stage' = "http" /\ UNCHANGED feed
           \/ UNCHANGED <<stage, feed>>
    PROVE  LimitInv'
<1>1. SaidOK' /\ Spoken' = Spoken /\ (FeedOK(feed) /\ feed' = feed => FeedOK(feed)')
  BY Unsaid DEF LimitInv
<1> QED BY <1>1 DEF LimitInv

LEMMA LimitStep == LimitInv /\ [Next]_vars => LimitInv'
<1> SUFFICES ASSUME LimitInv, [Next]_vars PROVE LimitInv'
  OBVIOUS
<1>1. CASE PlanFirst \/ OpenStream \/ \E s \in Kinds : Delta(s)
  BY <1>1, PlanFirstLimits, OpenStreamLimits, DeltaLimits
<1>2. CASE Break
  BY <1>2, OthersKeepLimits DEF Break
<1>3. CASE Skip \/ EndStream \/ CompleteWhole \/ Return \/ Raise
  BY <1>3, OthersKeepLimits DEF Skip, EndStream, CompleteWhole, Return, Raise
<1>4. CASE Handler \/ Leave \/ UNCHANGED vars
  BY <1>4, OthersKeepLimits DEF Handler, Leave, vars, thread
<1> QED BY <1>1, <1>2, <1>3, <1>4 DEF Next, Thread

\* The deltas of a turn keep the limits and the filters, for any sentences the model
\* may write, any number of deltas and however often the stream breaks.
THEOREM DeltasAreLimited == Spec => []DeltasKeepTheLimits
<1>1. LimitInv => DeltasKeepTheLimits
  BY DEF LimitInv, SaidOK, DeltasKeepTheLimits
<1> QED BY <1>1, LimitInit, LimitStep, PTL DEF Spec

-----------------------------------------------------------------------------
(* Texts one after the other *)

LEMMA JoinedTexts ==
    ASSUME NEW a \in Texts, NEW b \in Texts
    PROVE  /\ a \o b \in Texts /\ Len(a \o b) = Len(a) + Len(b)
           /\ Len(a) \in Nat /\ Len(b) \in Nat
           /\ \A i \in 1 .. Len(a) : (a \o b)[i] = a[i]
           /\ \A i \in 1 .. Len(b) : (a \o b)[Len(a) + i] = b[i]
           /\ a \o <<>> = a /\ <<>> \o a = a
  BY DEF Texts

LEMMA SameText ==
    ASSUME NEW a \in Texts, NEW b \in Texts, Len(a) = Len(b),
           \A i \in 1 .. Len(a) : a[i] = b[i]
    PROVE  a = b
  BY DEF Texts

LEMMA OneSentence ==
    ASSUME NEW t \in Texts, Len(t) = 1
    PROVE  Tail(t) = <<>> /\ t # <<>>
<1>1. Tail(t) \in Texts /\ Len(Tail(t)) = 0
  BY DEF Texts
<1>2. <<>> \in Texts /\ Len(<<>>) = 0
  BY DEF Texts
<1>3. Tail(t) = <<>>
  <2> DEFINE r == Tail(t)
  <2> HIDE DEF r
  <2>1. r \in Texts /\ Len(r) = 0
    BY <1>1 DEF r
  <2>2. r = <<>>
    BY <1>2, <2>1, SameText
  <2> QED BY <2>2 DEF r
<1> QED BY <1>2, <1>3

\* The sentences of two texts are those of the one and those of the other.
LEMMA SentencesAdd ==
    ASSUME NEW a \in Texts, NEW b \in Texts
    PROVE  Sentences(a \o b) = Sentences(a) + Sentences(b)
<1> DEFINE A == SentenceEnds(a)
           B == SentenceEnds(b)
           n == Len(a)
           shift == [i \in B |-> i + n]
           C == {i + n : i \in B}
<1>1. /\ IsFiniteSet(A) /\ A \subseteq 1 .. n /\ IsFiniteSet(B) /\ B \subseteq 1 .. Len(b)
      /\ n \in Nat /\ Len(b) \in Nat
      /\ Sentences(a) = Cardinality(A) /\ Sentences(b) = Cardinality(B)
      /\ Sentences(a) \in Nat /\ Sentences(b) \in Nat
  BY EndsAreFinite DEF Texts, Sentences
<1>2. SentenceEnds(a \o b) = A \cup C
  <2>1. DOMAIN (a \o b) = 1 .. n + Len(b) /\ DOMAIN a = 1 .. n /\ DOMAIN b = 1 .. Len(b)
    BY DEF Texts
  <2>2. ASSUME NEW j \in 1 .. n + Len(b)
        PROVE  (a \o b)[j] # "part" <=> j \in A \cup C
    <3>1. CASE j <= n
      <4>1. j \in 1 .. n /\ (a \o b)[j] = a[j]
        BY <1>1, <3>1, JoinedTexts
      <4>2. j \notin C
        BY <1>1, <3>1
      <4> QED BY <2>1, <4>1, <4>2 DEF SentenceEnds
    <3>2. CASE ~(j <= n)
      <4>1. j - n \in 1 .. Len(b) /\ n + (j - n) = j
        BY <1>1, <3>2
      <4>2. (a \o b)[j] = b[j - n]
        BY <4>1, JoinedTexts
      <4>3. j \notin A
        BY <1>1, <3>2
      <4>4. j \in C <=> j - n \in B
        BY <1>1, <4>1
      <4> QED BY <2>1, <4>1, <4>2, <4>3, <4>4 DEF SentenceEnds
    <3> QED BY <3>1, <3>2
  <2>3. A \cup C \subseteq 1 .. n + Len(b)
    BY <1>1
  <2> HIDE DEF A, C, n
  <2> QED BY <2>1, <2>2, <2>3 DEF SentenceEnds
<1>3. shift \in Bijection(B, C)
  <2>1. shift \in Injection(B, C)
    BY <1>1 DEF Injection, IsInjective
  <2>2. shift \in Surjection(B, C)
    BY DEF Surjection
  <2> QED BY <2>1, <2>2 DEF Bijection
<1>4. A \cap C = {}
  BY <1>1
<1> HIDE DEF A, B, C, shift
<1>5. IsFiniteSet(C) /\ Cardinality(C) = Cardinality(B)
  BY <1>1, <1>3, FS_Bijection DEF ExistsBijection
<1>6. Cardinality(A \cup C) = Cardinality(A) + Cardinality(C) - Cardinality(A \cap C)
  BY <1>1, <1>5, FS_Union, Zenon
<1>7. Cardinality(A \cap C) = 0
  BY <1>4, FS_EmptySet, Zenon
<1> QED BY <1>1, <1>2, <1>5, <1>6, <1>7 DEF Sentences

LEMMA BeginningIs ==
    ASSUME NEW t \in Texts, NEW k \in 0 .. Len(t)
    PROVE  /\ SubSeq(t, 1, k) \in Texts /\ Len(SubSeq(t, 1, k)) = k
           /\ \A i \in 1 .. k : SubSeq(t, 1, k)[i] = t[i]
  BY DEF Texts

LEMMA PrefixIs ==
    ASSUME NEW a \in Texts, NEW b \in Texts
    PROVE  IsPrefix(a, b) <=> Len(a) <= Len(b) /\ \A i \in 1 .. Len(a) : a[i] = b[i]
<1>1. CASE Len(a) <= Len(b)
  <2>1. SubSeq(a, 1, Len(a)) = a /\ Len(a) \in Nat /\ Len(b) \in Nat
    BY DEF Texts
  <2>2. /\ SubSeq(b, 1, Len(a)) \in Texts /\ Len(SubSeq(b, 1, Len(a))) = Len(a)
        /\ \A i \in 1 .. Len(a) : SubSeq(b, 1, Len(a))[i] = b[i]
    BY <1>1, <2>1 DEF Texts
  <2>3. a = SubSeq(b, 1, Len(a)) <=> \A i \in 1 .. Len(a) : a[i] = SubSeq(b, 1, Len(a))[i]
    <3> DEFINE d == SubSeq(b, 1, Len(a))
    <3>1. d \in Texts /\ Len(d) = Len(a)
      BY <2>2
    <3> HIDE DEF d
    <3>2. a = d <=> \A i \in 1 .. Len(a) : a[i] = d[i]
      BY <3>1 DEF Texts
    <3> QED BY <3>2 DEF d
  <2> QED BY <1>1, <2>1, <2>2, <2>3 DEF IsPrefix
<1>2. CASE ~(Len(a) <= Len(b))
  BY <1>2 DEF IsPrefix
<1> QED BY <1>1, <1>2

LEMMA PrefixOfJoined ==
    ASSUME NEW a \in Texts, NEW b \in Texts
    PROVE  IsPrefix(a, a \o b)
<1>1. a \o b \in Texts /\ Len(a) <= Len(a \o b) /\ \A i \in 1 .. Len(a) : a[i] = (a \o b)[i]
  BY JoinedTexts
<1> QED BY <1>1, PrefixIs

LEMMA NothingIsPrefix == ASSUME NEW a \in Texts PROVE IsPrefix(<<>>, a)
<1>1. <<>> \in Texts /\ Len(<<>>) = 0 /\ Len(a) \in Nat
  BY DEF Texts
<1>2. Len(<<>>) <= Len(a) /\ \A i \in 1 .. Len(<<>>) : <<>>[i] = a[i]
  BY <1>1
<1> QED BY <1>1, <1>2, PrefixIs

LEMMA PrefixIsTransitive ==
    ASSUME NEW a \in Texts, NEW b \in Texts, NEW d \in Texts, IsPrefix(a, b), IsPrefix(b, d)
    PROVE  IsPrefix(a, d)
<1>1. Len(a) \in Nat /\ Len(b) \in Nat /\ Len(d) \in Nat
  BY DEF Texts
<1> QED BY <1>1, PrefixIs

LEMMA PrefixAfter ==
    ASSUME NEW a \in Texts, NEW b \in Texts, NEW d \in Texts, IsPrefix(b, d)
    PROVE  IsPrefix(a \o b, a \o d)
<1>1. Len(b) <= Len(d) /\ \A i \in 1 .. Len(b) : b[i] = d[i]
  BY PrefixIs
<1>2. a \o b \in Texts /\ a \o d \in Texts /\ Len(a \o b) <= Len(a \o d)
  BY <1>1, JoinedTexts
<1>3. ASSUME NEW i \in 1 .. Len(a \o b) PROVE (a \o b)[i] = (a \o d)[i]
  <2>1. Len(a) \in Nat /\ Len(b) \in Nat /\ Len(d) \in Nat /\ Len(a \o b) = Len(a) + Len(b)
    BY JoinedTexts
  <2>2. CASE i <= Len(a)
    BY <2>1, <2>2, JoinedTexts
  <2>3. CASE ~(i <= Len(a))
    <3>1. i - Len(a) \in 1 .. Len(b) /\ i - Len(a) \in 1 .. Len(d) /\ Len(a) + (i - Len(a)) = i
      BY <1>1, <2>1, <2>3
    <3>2. (a \o b)[i] = b[i - Len(a)] /\ (a \o d)[i] = d[i - Len(a)]
      <4>1. \A x, y \in Texts : \A j \in 1 .. Len(y) : (x \o y)[Len(x) + j] = y[j]
        BY JoinedTexts
      <4> QED BY <3>1, <4>1
    <3> QED BY <1>1, <3>1, <3>2
  <2> QED BY <2>2, <2>3
<1> QED BY <1>2, <1>3, PrefixIs

\* What is left to say, said after what was said, makes up the whole.
LEMMA RestCompletes ==
    ASSUME NEW t \in Texts, NEW spoken \in Texts, IsPrefix(spoken, t)
    PROVE  spoken \o Remainder(t, spoken) = t
<1> DEFINE r == SubSeq(t, Len(spoken) + 1, Len(t))
<1>1. Len(spoken) <= Len(t) /\ \A i \in 1 .. Len(spoken) : spoken[i] = t[i]
  BY PrefixIs
<1>2. Len(spoken) \in Nat /\ Len(t) \in Nat
  BY DEF Texts
<1>3. /\ r \in Texts /\ Len(r) = Len(t) - Len(spoken)
      /\ \A i \in 1 .. Len(t) - Len(spoken) : r[i] = t[Len(spoken) + i]
  BY <1>1, <1>2 DEF Texts
<1>4. Remainder(t, spoken) = r
  BY DEF Remainder
<1> HIDE DEF r
<1>5. spoken \o r \in Texts /\ Len(spoken \o r) = Len(t)
  BY <1>2, <1>3, JoinedTexts
<1>6. ASSUME NEW i \in 1 .. Len(t) PROVE (spoken \o r)[i] = t[i]
  <2>1. CASE i <= Len(spoken)
    BY <1>1, <1>2, <1>3, <2>1, JoinedTexts
  <2>2. CASE ~(i <= Len(spoken))
    <3>1. i - Len(spoken) \in 1 .. Len(r) /\ Len(spoken) + (i - Len(spoken)) = i
      BY <1>1, <1>2, <1>3, <2>2
    <3>2. (spoken \o r)[Len(spoken) + (i - Len(spoken))] = r[i - Len(spoken)]
      BY <1>3, <3>1, JoinedTexts
    <3> QED BY <1>3, <3>1, <3>2
  <2> QED BY <2>1, <2>2
<1>7. spoken \o r = t
  <2> DEFINE q == spoken \o r
  <2>1. q \in Texts /\ Len(q) = Len(t) /\ \A i \in 1 .. Len(t) : q[i] = t[i]
    BY <1>5, <1>6
  <2> HIDE DEF q
  <2>2. q = t
    BY <2>1 DEF Texts
  <2> QED BY <2>2 DEF q
<1> QED BY <1>4, <1>7
-----------------------------------------------------------------------------
(* The filters on texts that grow *)

Softened(s) == IF s = "harsh" THEN "soft" ELSE s

LEMMA SoftenEach ==
    ASSUME NEW t \in Texts
    PROVE  /\ Soften(t) \in Texts /\ Len(Soften(t)) = Len(t) /\ Len(t) \in Nat
           /\ \A i \in 1 .. Len(t) : Soften(t)[i] = Softened(t[i])
<1>1. DOMAIN Soften(t) = 1 .. Len(t) /\ Len(t) \in Nat
  BY DEF Soften, Texts
<1>2. \A i \in 1 .. Len(t) : Soften(t)[i] = Softened(t[i])
  BY <1>1 DEF Soften, Softened, Texts
<1>3. Soften(t) \in Texts
  BY SoftenIs
<1>4. Len(Soften(t)) = Len(t)
  BY <1>1, <1>3 DEF Texts
<1> QED BY <1>1, <1>2, <1>3, <1>4

LEMMA SoftenJoined ==
    ASSUME NEW a \in Texts, NEW b \in Texts
    PROVE  Soften(a \o b) = Soften(a) \o Soften(b)
<1> DEFINE A == Soften(a)
           B == Soften(b)
<1>1. A \in Texts /\ B \in Texts /\ Len(A) = Len(a) /\ Len(B) = Len(b)
      /\ a \o b \in Texts /\ Len(a) \in Nat /\ Len(b) \in Nat
      /\ Len(a \o b) = Len(a) + Len(b)
  BY SoftenEach, JoinedTexts
<1>2. /\ Len(Soften(a \o b)) = Len(a) + Len(b) /\ Soften(a \o b) \in Texts
      /\ A \o B \in Texts /\ Len(A \o B) = Len(a) + Len(b)
  <2>1. Len(Soften(a \o b)) = Len(a) + Len(b) /\ Soften(a \o b) \in Texts
    BY <1>1, SoftenEach
  <2> HIDE DEF A, B
  <2>2. A \o B \in Texts /\ Len(A \o B) = Len(A) + Len(B)
    BY <1>1, JoinedTexts
  <2> QED BY <1>1, <2>1, <2>2
<1>3. ASSUME NEW i \in 1 .. Len(a) + Len(b) PROVE Soften(a \o b)[i] = (A \o B)[i]
  <2>1. Soften(a \o b)[i] = Softened((a \o b)[i])
    BY <1>1, <1>2, SoftenEach
  <2>2. CASE i <= Len(a)
    <3>1. (a \o b)[i] = a[i] /\ (A \o B)[i] = A[i]
      BY <1>1, <2>2, JoinedTexts
    <3>2. A[i] = Softened(a[i])
      BY <1>1, <2>2, SoftenEach
    <3> QED BY <2>1, <3>1, <3>2
  <2>3. CASE ~(i <= Len(a))
    <3>1. i - Len(a) \in 1 .. Len(b) /\ Len(a) + (i - Len(a)) = i
      BY <1>1, <2>3
    <3>2. \A x, y \in Texts : \A k \in 1 .. Len(y) : (x \o y)[Len(x) + k] = y[k]
      BY JoinedTexts
    <3> HIDE DEF A, B
    <3>3. (a \o b)[i] = b[i - Len(a)] /\ (A \o B)[i] = B[i - Len(a)]
      BY <1>1, <3>1, <3>2
    <3>4. B[i - Len(a)] = Softened(b[i - Len(a)])
      BY <3>1, SoftenEach DEF B
    <3> QED BY <2>1, <3>3, <3>4
  <2> QED BY <2>2, <2>3
<1> HIDE DEF A, B
<1>4. Soften(a \o b) = A \o B
  BY <1>2, <1>3, SameText
<1> QED BY <1>4 DEF A, B

\* Only the beginning of a text is compared with the first unit.
LEMMA DedupeJoined ==
    ASSUME NEW a \in Texts, NEW b \in Texts, a # <<>>
    PROVE  Dedupe(a \o b) = Dedupe(a) \o b
<1>1. a \o b \in Texts /\ (a \o b)[1] = a[1] /\ a \o b # <<>> /\ Len(a) >= 1
  BY DEF Texts
<1>2. RepeatsFirst(a \o b) <=> RepeatsFirst(a)
  BY <1>1 DEF RepeatsFirst
<1>3. Tail(a \o b) = Tail(a) \o b
  BY DEF Texts
<1> QED BY <1>2, <1>3 DEF Dedupe

LEMMA DedupeKeepsPrefix ==
    ASSUME NEW a \in Texts, NEW b \in Texts
    PROVE  IsPrefix(Dedupe(Soften(a)), Dedupe(Soften(a \o b)))
<1>1. Soften(a) \in Texts /\ Soften(b) \in Texts /\ a \o b \in Texts
  BY SoftenIs, JoinedTexts
<1>2. Soften(a \o b) = Soften(a) \o Soften(b)
  BY SoftenJoined
<1>3. CASE Soften(a) = <<>>
  <2>1. Dedupe(Soften(a)) = <<>>
    BY <1>3 DEF Dedupe, RepeatsFirst
  <2>2. Dedupe(Soften(a \o b)) \in Texts
    BY <1>1, SoftenIs, DedupeIs
  <2> QED BY <2>1, <2>2, NothingIsPrefix
<1>4. CASE Soften(a) # <<>>
  <2>1. Dedupe(Soften(a \o b)) = Dedupe(Soften(a)) \o Soften(b)
    BY <1>1, <1>2, <1>4, DedupeJoined
  <2>2. Dedupe(Soften(a)) \in Texts
    BY <1>1, DedupeIs
  <2> QED BY <1>1, <2>1, <2>2, PrefixOfJoined
<1> QED BY <1>3, <1>4

\* A text that has been spoken so far ends with a sentence.
Whole(t) == t = <<>> \/ t[Len(t)] # "part"

LEMMA CapIs ==
    ASSUME NEW t \in Texts, NEW n \in Nat
    PROVE  /\ Cap(t, n) \in Texts /\ IsPrefix(Cap(t, n), t)
           /\ \/ Cap(t, n) = t
              \/ Cap(t, n) = <<>>
              \/ \E k \in SentenceEnds(t) : /\ Cap(t, n) = SubSeq(t, 1, k)
                                            /\ Sentences(SubSeq(t, 1, k)) = n
<1> DEFINE ends == {k \in SentenceEnds(t) : Sentences(SubSeq(t, 1, k)) = n}
<1>1. Cap(t, n) \in Texts
  BY CapLimits DEF Texts
<1>2. \/ Cap(t, n) = t
      \/ Cap(t, n) = <<>>
      \/ \E k \in SentenceEnds(t) : /\ Cap(t, n) = SubSeq(t, 1, k)
                                    /\ Sentences(SubSeq(t, 1, k)) = n
  <2>1. CASE n = 0 \/ ends = {}
    BY <2>1 DEF Cap
  <2>2. CASE n # 0 /\ ends # {}
    <3> DEFINE k == CHOOSE x \in ends : TRUE
    <3>1. Cap(t, n) = SubSeq(t, 1, k)
      BY <2>2 DEF Cap
    <3>2. k \in ends
      <4> HIDE DEF ends
      <4> QED BY <2>2
    <3>3. k \in SentenceEnds(t) /\ Sentences(SubSeq(t, 1, k)) = n
      BY <3>2
    <3> HIDE DEF k, ends
    <3> QED BY <3>1, <3>3
  <2> QED BY <2>1, <2>2
<1>3. IsPrefix(t, t) /\ IsPrefix(<<>>, t)
  BY NothingIsPrefix, PrefixIs DEF Texts
<1>4. ASSUME NEW k \in SentenceEnds(t) PROVE IsPrefix(SubSeq(t, 1, k), t)
  <2>1. k \in 1 .. Len(t) /\ Len(t) \in Nat
    BY EndsAreFinite DEF Texts
  <2>2. /\ SubSeq(t, 1, k) \in Texts /\ Len(SubSeq(t, 1, k)) = k
        /\ \A i \in 1 .. k : SubSeq(t, 1, k)[i] = t[i]
    BY <2>1 DEF Texts
  <2>3. ASSUME NEW u \in Texts, Len(u) = k, \A i \in 1 .. k : u[i] = t[i]
        PROVE  IsPrefix(u, t)
    BY <2>1, <2>3, PrefixIs
  <2> QED BY <2>2, <2>3
<1> QED BY <1>1, <1>2, <1>3, <1>4

\* What was spoken and keeps the limit is in what the limit leaves.
LEMMA PrefixOfCap ==
    ASSUME NEW e \in Texts, NEW d \in Texts, NEW n \in Nat, n # 0,
           IsPrefix(e, d), Whole(e), Sentences(e) <= n
    PROVE  IsPrefix(e, Cap(d, n))
<1>1. /\ Len(e) \in Nat /\ Len(d) \in Nat /\ Len(e) <= Len(d)
      /\ \A i \in 1 .. Len(e) : e[i] = d[i]
  BY PrefixIs DEF Texts
<1>2. CASE e = <<>>
  BY <1>2, CapIs, NothingIsPrefix
<1>3. CASE Cap(d, n) = d
  BY <1>3
<1>4. CASE e # <<>> /\ Cap(d, n) = <<>>
  <2>1. n # 0 /\ Cap(d, n) = <<>> => d = <<>> \/ \E k \in SentenceEnds(d) : SubSeq(d, 1, k) = <<>>
    <3> DEFINE ends == {k \in SentenceEnds(d) : Sentences(SubSeq(d, 1, k)) = n}
    <3>1. CASE ends = {}
      BY <3>1 DEF Cap
    <3>2. CASE ends # {}
      <4> DEFINE k == CHOOSE x \in ends : TRUE
      <4>1. n # 0 => Cap(d, n) = SubSeq(d, 1, k)
        BY <3>2 DEF Cap
      <4>2. k \in ends
        <5> HIDE DEF ends
        <5> QED BY <3>2
      <4>3. k \in SentenceEnds(d)
        BY <4>2
      <4> HIDE DEF k, ends
      <4> QED BY <4>1, <4>3
    <3> QED BY <3>1, <3>2
  <2>2. \A k \in SentenceEnds(d) : SubSeq(d, 1, k) # <<>>
    <3> SUFFICES ASSUME NEW k \in SentenceEnds(d) PROVE SubSeq(d, 1, k) # <<>>
      OBVIOUS
    <3>1. k \in 1 .. Len(d)
      BY EndsAreFinite DEF Texts
    <3>2. Len(SubSeq(d, 1, k)) = k
      BY <1>1, <3>1 DEF Texts
    <3> QED BY <3>1, <3>2
  <2>3. d # <<>>
    BY <1>1, <1>4 DEF Texts
  <2> QED BY <1>4, <2>1, <2>2, <2>3
<1>5. CASE e # <<>> /\ \E k \in SentenceEnds(d) : /\ Cap(d, n) = SubSeq(d, 1, k)
                                                  /\ Sentences(SubSeq(d, 1, k)) = n
  <2>1. PICK k \in SentenceEnds(d) : Cap(d, n) = SubSeq(d, 1, k) /\ Sentences(SubSeq(d, 1, k)) = n
    BY <1>5
  <2> DEFINE pre == SubSeq(d, 1, k)
  <2>2. k \in 1 .. Len(d) /\ d[k] # "part"
    BY EndsAreFinite DEF SentenceEnds, Texts
  <2>3. pre \in Texts /\ Len(pre) = k /\ \A i \in 1 .. k : pre[i] = d[i]
    BY <1>1, <2>2 DEF Texts
  <2>4. Cap(d, n) = pre /\ Sentences(pre) = n
    BY <2>1
  <2> HIDE DEF pre
  <2>5. CASE Len(e) <= k
    <3>1. \A i \in 1 .. Len(e) : e[i] = pre[i]
      BY <1>1, <2>2, <2>3, <2>5
    <3> QED BY <2>3, <2>4, <2>5, <3>1, PrefixIs
  <2>6. CASE ~(Len(e) <= k)
    <3>1. Len(e) > k /\ Len(e) \in 1 .. Len(e) /\ e[Len(e)] # "part" /\ k \in Nat
      BY <1>1, <1>5, <2>2, <2>6 DEF Whole
    <3>2. DOMAIN e = 1 .. Len(e) /\ DOMAIN pre = 1 .. k
      BY <2>3 DEF Texts
    <3>3. SentenceEnds(pre) \cup {Len(e)} \subseteq SentenceEnds(e)
      BY <1>1, <2>3, <3>1, <3>2 DEF SentenceEnds
    <3>4. Len(e) \notin SentenceEnds(pre)
      BY <3>1, <3>2 DEF SentenceEnds
    <3>5. IsFiniteSet(SentenceEnds(pre)) /\ IsFiniteSet(SentenceEnds(e))
          /\ Sentences(pre) \in Nat /\ Sentences(e) \in Nat
      BY <2>3, EndsAreFinite DEF Texts
    <3>6. Cardinality(SentenceEnds(pre) \cup {Len(e)}) = Cardinality(SentenceEnds(pre)) + 1
      BY <3>4, <3>5, FS_AddElement, Zenon
    <3>7. Cardinality(SentenceEnds(pre) \cup {Len(e)}) <= Cardinality(SentenceEnds(e))
      BY <3>3, <3>5, FS_Subset, Zenon
    <3>8. Sentences(e) >= n + 1
      BY <2>4, <3>5, <3>6, <3>7 DEF Sentences
    <3> QED BY <3>5, <3>8
  <2> QED BY <2>5, <2>6
<1> QED BY <1>2, <1>3, <1>4, <1>5, CapIs

LEMMA TrimIs ==
    ASSUME NEW t \in Texts
    PROVE  /\ Trim(t) \in Texts /\ Range(Trim(t)) \subseteq Range(t)
           /\ \A i \in 1 .. Len(Trim(t)) : Trim(t)[i] = t[i]
           /\ Trim(t) = t \/ (t # <<>> /\ t[Len(t)] = "part" /\ Len(Trim(t)) = Len(t) - 1)
<1>1. CASE t # <<>> /\ t[Len(t)] = "part"
  <2>1. Len(t) \in Nat /\ Len(t) >= 1
    BY <1>1 DEF Texts
  <2>2. Trim(t) = SubSeq(t, 1, Len(t) - 1)
    BY <1>1 DEF Trim, Front
  <2>3. /\ Trim(t) \in Texts /\ Len(Trim(t)) = Len(t) - 1
        /\ \A i \in 1 .. Len(t) - 1 : Trim(t)[i] = t[i]
    <3>1. Len(t) - 1 \in 0 .. Len(t)
      BY <2>1
    <3> QED BY <2>2, <3>1, BeginningIs
  <2>4. DOMAIN Trim(t) = 1 .. Len(t) - 1 /\ DOMAIN t = 1 .. Len(t)
    BY <2>3 DEF Texts
  <2>5. Range(Trim(t)) \subseteq Range(t)
    <3> SUFFICES ASSUME NEW i \in 1 .. Len(t) - 1 PROVE Trim(t)[i] \in Range(t)
      BY <2>4 DEF Range
    <3>1. i \in 1 .. Len(t) /\ Trim(t)[i] = t[i]
      BY <2>1, <2>3
    <3> QED BY <2>4, <3>1 DEF Range
  <2> QED BY <1>1, <2>3, <2>5
<1>2. CASE ~(t # <<>> /\ t[Len(t)] = "part")
  BY <1>2 DEF Trim
<1> QED BY <1>1, <1>2

\* What was spoken ends with a sentence and is not touched by the trimming.
LEMMA PrefixOfTrimmed ==
    ASSUME NEW e \in Texts, NEW t \in Texts, IsPrefix(e, Dedupe(t)), Whole(e)
    PROVE  IsPrefix(e, Dedupe(Trim(t)))
<1>1. CASE Trim(t) = t
  BY <1>1
<1>2. CASE e = <<>>
  BY <1>2, TrimIs, DedupeIs, NothingIsPrefix
<1>3. CASE Trim(t) # t /\ e # <<>>
  <2>1. /\ Len(t) \in Nat /\ Len(t) >= 1 /\ t[Len(t)] = "part" /\ Trim(t) \in Texts
        /\ Len(Trim(t)) = Len(t) - 1 /\ \A i \in 1 .. Len(t) - 1 : Trim(t)[i] = t[i]
    BY <1>3, TrimIs DEF Texts
  <2>2. /\ Dedupe(t) \in Texts /\ Len(e) \in Nat /\ Len(e) <= Len(Dedupe(t))
        /\ \A i \in 1 .. Len(e) : e[i] = Dedupe(t)[i]
    BY DedupeIs, PrefixIs DEF Texts
  <2>3. Len(e) >= 1 /\ e[Len(e)] # "part"
    BY <1>3 DEF Whole, Texts
  <2>4. CASE RepeatsFirst(t)
    <3>1. t[1] = "echo" /\ Len(t) >= 2
      BY <2>1, <2>4 DEF RepeatsFirst
    <3>2. RepeatsFirst(Trim(t))
      BY <2>1, <2>4, <3>1 DEF RepeatsFirst, Texts
    <3>3. /\ Dedupe(t) = Tail(t) /\ Dedupe(Trim(t)) = Tail(Trim(t))
      BY <2>4, <3>2 DEF Dedupe
    <3>4. /\ Len(Tail(t)) = Len(t) - 1 /\ \A i \in 1 .. Len(t) - 1 : Tail(t)[i] = t[i + 1]
      BY <2>1, <3>1 DEF Texts
    <3>5. /\ Tail(Trim(t)) \in Texts /\ Len(Tail(Trim(t))) = Len(t) - 2
          /\ \A i \in 1 .. Len(t) - 2 : Tail(Trim(t))[i] = Trim(t)[i + 1]
      BY <2>1, <3>1 DEF Texts
    <3>6. Len(e) # Len(t) - 1
      BY <2>1, <2>2, <2>3, <3>3, <3>4
    <3>7. Len(e) <= Len(t) - 2 /\ \A i \in 1 .. Len(e) : e[i] = t[i + 1]
      BY <2>1, <2>2, <3>3, <3>4, <3>6
    <3>8. \A i \in 1 .. Len(e) : e[i] = Tail(Trim(t))[i]
      <4> SUFFICES ASSUME NEW i \in 1 .. Len(e) PROVE e[i] = Tail(Trim(t))[i]
        OBVIOUS
      <4>1. i \in 1 .. Len(t) - 2 /\ i + 1 \in 1 .. Len(t) - 1
        BY <2>1, <2>2, <3>1, <3>7
      <4>2. Tail(Trim(t))[i] = Trim(t)[i + 1] /\ Trim(t)[i + 1] = t[i + 1]
        BY <2>1, <3>5, <4>1
      <4> QED BY <3>7, <4>2
    <3> QED BY <3>3, <3>5, <3>7, <3>8, PrefixIs
  <2>5. CASE ~RepeatsFirst(t)
    <3>1. ~RepeatsFirst(Trim(t))
      BY <2>1, <2>5 DEF RepeatsFirst, Texts
    <3>2. Dedupe(t) = t /\ Dedupe(Trim(t)) = Trim(t)
      BY <2>5, <3>1 DEF Dedupe
    <3>3. Len(e) # Len(t)
      BY <2>1, <2>2, <2>3, <3>2
    <3>4. Len(e) <= Len(t) - 1 /\ \A i \in 1 .. Len(e) : e[i] = Trim(t)[i]
      BY <2>1, <2>2, <3>2, <3>3
    <3> QED BY <2>1, <3>2, <3>4, PrefixIs
  <2> QED BY <2>4, <2>5
<1> QED BY <1>1, <1>2, <1>3
-----------------------------------------------------------------------------
(* What the listener is told, and what is held back *)

Native(t) == t # <<>> /\ setup.tongue = "zh" => t[1] # "foreign"

\* What of a text is to be told, and the texts HeardOnce says nothing of.
Told(t) == Dedupe(Soften(t))
Excepted(t) == \/ Contradicts(t) \/ "gap" \in Range(t)
               \/ Len(t) > 1 /\ t[1] = "echo" /\ t[2] = "echo"

\* The sentence that a delta completes.
LEMMA SentenceIs ==
    ASSUME NEW b \in Texts, b \in {<<>>, <<"part">>}, NEW s \in Words, s # "part"
    PROVE  LET u == b \o <<s>>
           IN  /\ u \in Texts /\ Soften(u) \in Texts /\ Soften(u) # <<>>
               /\ Whole(Soften(u)) /\ (~Foreign(Soften(u)) => Native(Soften(u)))
               /\ RepeatsFirst(Soften(u)) => b = <<>> /\ s = "echo"
<1> DEFINE u == b \o <<s>>
<1>1. u \in Texts /\ Len(u) = Len(b) + 1 /\ Len(b) \in {0, 1}
      /\ u[Len(u)] = s /\ (b # <<>> => u[1] = "part") /\ (b = <<>> => u[1] = s /\ Len(u) = 1)
      /\ (b # <<>> => Len(b) = 1)
  BY DEF Texts
<1>2. Soften(u) \in Texts /\ Len(Soften(u)) = Len(u)
      /\ \A i \in 1 .. Len(u) : Soften(u)[i] = Softened(u[i])
  BY <1>1, SoftenEach
<1> DEFINE v == Soften(u)
<1>3. v \in Texts /\ Len(v) = Len(b) + 1 /\ v[Len(v)] = Softened(s)
      /\ (b # <<>> => v[1] = "part") /\ (b = <<>> => v[1] = Softened(s) /\ Len(v) = 1)
  <2>1. 1 \in 1 .. Len(u) /\ Len(u) \in 1 .. Len(u)
    BY <1>1
  <2> HIDE DEF u
  <2>2. v[1] = Softened(u[1]) /\ v[Len(u)] = Softened(u[Len(u)]) /\ Softened("part") = "part"
    BY <1>2, <2>1 DEF Softened
  <2> HIDE DEF v
  <2>3. v \in Texts /\ Len(v) = Len(u)
    BY <1>2 DEF v
  <2> QED BY <1>1, <2>2, <2>3
<1> HIDE DEF u, v
<1>4. v # <<>> /\ Whole(v)
  BY <1>1, <1>3 DEF Whole, Softened
<1>5. ~Foreign(v) => Native(v)
  <2>1. CASE b # <<>>
    BY <1>3, <2>1 DEF Native
  <2>2. CASE b = <<>>
    <3>1. Range(v) = {v[1]}
      BY <1>3, <2>2 DEF Range, Texts
    <3> QED BY <1>4, <3>1 DEF Native, Foreign
  <2> QED BY <2>1, <2>2
<1>6. RepeatsFirst(v) => b = <<>> /\ s = "echo"
  BY <1>3 DEF RepeatsFirst, Softened
<1>7. u \in Texts
  BY <1>1
<1> QED BY <1>3, <1>4, <1>5, <1>6, <1>7 DEF u, v

LEMMA GateSays ==
    ASSUME NEW u, NEW dedupe, ~Contradicts(Soften(u))
    PROVE  \/ Gate(u, dedupe).text = <<>> /\ Gate(u, dedupe).stop = TRUE
           \/ /\ ~Foreign(Soften(u)) /\ Gate(u, dedupe).stop = FALSE
              /\ Gate(u, dedupe).text = IF dedupe THEN Dedupe(Soften(u)) ELSE Soften(u)
<1> DEFINE soft == Soften(u)
           clean == IF dedupe THEN Dedupe(soft) ELSE soft
<1>1. Gate(u, dedupe) = IF "claim" \in Range(soft) \/ Foreign(soft)
                        THEN [text |-> <<>>, stop |-> TRUE, force |-> FALSE]
                        ELSE [text |-> clean, stop |-> FALSE, force |-> soft # u]
  BY DEF Gate
<1> HIDE DEF soft, clean
<1>2. \/ Gate(u, dedupe).text = <<>> /\ Gate(u, dedupe).stop = TRUE
      \/ ~Foreign(soft) /\ Gate(u, dedupe).stop = FALSE /\ Gate(u, dedupe).text = clean
  BY <1>1
<1> QED BY <1>2 DEF soft, clean

LEMMA JoinedIs ==
    ASSUME NEW a \in Texts, NEW b \in Texts, "gap" \notin Range(a)
    PROVE  (IF a = <<>> THEN b ELSE Join(a, b)) = a \o b
<1>1. DOMAIN a = 1 .. Len(a) /\ \A i \in DOMAIN a : a[i] # "gap"
  BY DEF Texts, Range
<1>2. [i \in DOMAIN a |-> IF a[i] = "gap" THEN "brief" ELSE a[i]] = a
  <2>1. a = [i \in DOMAIN a |-> a[i]]
    BY DEF Texts
  <2> QED BY <1>1, <2>1
<1>3. Join(a, b) = a \o b
  BY <1>2, Zenon DEF Join, Even
<1>4. <<>> \o b = b
  BY DEF Texts
<1> QED BY <1>3, <1>4

\* What Emit makes of a sentence that passes the gate, and of one that does not.
LEMMA EmitSays ==
    ASSUME NEW f, FeedOK(f), NEW u \in Texts, ~f.stopped
    PROVE  LET g == Gate(u, f.dedupe)
               joined == IF f.pending = <<>> THEN g.text ELSE Join(f.pending, g.text)
               r == Emit(f, u)
           IN  /\ r.feed.buffer = <<>>
               /\ g.text = <<>> => /\ r.out = <<>> /\ r.feed.pending = f.pending
                                   /\ r.feed.dedupe = f.dedupe /\ r.feed.stopped = g.stop
               /\ g.text # <<>> /\ ~g.stop =>
                    /\ ~r.feed.dedupe
                    /\ \/ r.out = <<>> /\ r.feed.pending = joined /\ ~r.feed.stopped
                       \/ /\ r.out = Cap(joined, MaxSentences - f.count)
                          /\ r.feed.pending = <<>> /\ (~r.feed.stopped => r.out = joined)
<1> DEFINE g == Gate(u, f.dedupe)
           joined == IF f.pending = <<>> THEN g.text ELSE Join(f.pending, g.text)
           p == Push(f.pending, g.text, g.force \/ g.stop)
           out == Cap(p.out, MaxSentences - f.count)
           count == f.count + Sentences(out)
           full == p.out # <<>> /\ (out # p.out \/ count >= MaxSentences)
           base == [f EXCEPT !.buffer = <<>>, !.stopped = g.stop]
           spoken == [base EXCEPT !.pending = p.pending, !.dedupe = FALSE,
                                  !.stopped = g.stop \/ full, !.count = count]
<1>1. /\ g.text = <<>> => Emit(f, u) = [feed |-> base, out |-> <<>>]
      /\ g.text # <<>> => Emit(f, u) = [feed |-> spoken, out |-> out]
  BY DEF Emit
<1>2. \/ p = [out |-> <<>>, pending |-> joined]
      \/ p = [out |-> joined, pending |-> <<>>]
  BY DEF Push
<1>3. f \in Feeds
  BY DEF FeedOK
<1>4. Cap(<<>>, MaxSentences - f.count) = <<>>
  <2>1. SentenceEnds(<<>>) = {}
    BY DEF SentenceEnds
  <2> QED BY <2>1 DEF Cap
<1>5. p.out = <<>> => out = <<>> /\ ~full
  BY <1>4
<1>6. ~full => out = p.out
  BY <1>4
<1> HIDE DEF g, joined, p, out, count, full
<1>7. base.buffer = <<>> /\ base.pending = f.pending /\ base.dedupe = f.dedupe
      /\ base.stopped = g.stop
  BY <1>3 DEF Feeds
<1>8. spoken.buffer = <<>> /\ spoken.pending = p.pending /\ spoken.dedupe = FALSE
      /\ spoken.stopped = (g.stop \/ full)
  BY <1>3 DEF Feeds
<1> HIDE DEF base, spoken
<1>9. CASE g.text = <<>>
  BY <1>1, <1>7, <1>9 DEF g
<1>10. CASE g.text # <<>>
  <2>1. Emit(f, u).feed = spoken /\ Emit(f, u).out = out
    BY <1>1, <1>10
  <2>2. \/ p.out = <<>> /\ p.pending = joined
        \/ p.out = joined /\ p.pending = <<>>
    BY <1>2
  <2>3. ~g.stop => \/ out = <<>> /\ spoken.pending = joined /\ ~spoken.stopped
                   \/ /\ out = Cap(joined, MaxSentences - f.count)
                      /\ spoken.pending = <<>> /\ (~spoken.stopped => out = joined)
    BY <1>5, <1>6, <1>8, <2>2 DEF out
  <2> QED BY <1>8, <1>10, <2>1, <2>3 DEF g, joined
<1> QED BY <1>9, <1>10

LEMMA RangeJoined ==
    ASSUME NEW a \in Texts, NEW b \in Texts
    PROVE  Range(a) \subseteq Range(a \o b) /\ Range(b) \subseteq Range(a \o b)
<1>1. DOMAIN a = 1 .. Len(a) /\ DOMAIN b = 1 .. Len(b) /\ Len(a) \in Nat /\ Len(b) \in Nat
  BY DEF Texts
<1>2. DOMAIN (a \o b) = 1 .. Len(a) + Len(b)
  BY DEF Texts
<1>3. ASSUME NEW i \in 1 .. Len(a) PROVE a[i] \in Range(a \o b)
  <2>1. i \in 1 .. Len(a) + Len(b) /\ (a \o b)[i] = a[i]
    BY <1>1, JoinedTexts
  <2> QED BY <1>2, <2>1 DEF Range
<1>4. ASSUME NEW i \in 1 .. Len(b) PROVE b[i] \in Range(a \o b)
  <2>1. (a \o b)[Len(a) + i] = b[i]
    BY JoinedTexts
  <2>2. Len(a) + i \in 1 .. Len(a) + Len(b)
    BY <1>1
  <2> QED BY <1>2, <2>1, <2>2 DEF Range
<1> QED BY <1>1, <1>3, <1>4 DEF Range

\* Softening makes no line break and no denial of its own.
LEMMA SoftenKeeps ==
    ASSUME NEW t \in Texts, NEW w, w \in Range(Soften(t)), w # "soft"
    PROVE  w \in Range(t)
<1>1. DOMAIN t = 1 .. Len(t) /\ DOMAIN Soften(t) = 1 .. Len(t)
  BY DEF Texts, Soften
<1>2. PICK i \in 1 .. Len(t) : w = Soften(t)[i]
  BY <1>1 DEF Range
<1>3. Soften(t)[i] = Softened(t[i])
  BY <1>2, SoftenEach
<1>4. t[i] = w
  BY <1>2, <1>3 DEF Softened
<1> QED BY <1>1, <1>4 DEF Range

LEMMA ToldIs ==
    ASSUME NEW t \in Texts
    PROVE  Told(t) \in Texts /\ ("gap" \in Range(Told(t)) => "gap" \in Range(t))
<1>1. Soften(t) \in Texts
  BY SoftenIs
<1>2. Told(t) \in Texts /\ Range(Told(t)) \subseteq Range(Soften(t))
  BY <1>1, DedupeIs DEF Told
<1> QED BY <1>2, SoftenKeeps

LEMMA ToldGrows ==
    ASSUME NEW e \in Texts, NEW t \in Texts, NEW b \in Texts, IsPrefix(e, Told(t))
    PROVE  IsPrefix(e, Told(t \o b))
<1>1. t \o b \in Texts
  BY JoinedTexts
<1>2. Told(t) \in Texts /\ Told(t \o b) \in Texts
  BY <1>1, ToldIs
<1>3. IsPrefix(Told(t), Told(t \o b))
  BY DedupeKeepsPrefix DEF Told
<1> QED BY <1>2, <1>3, PrefixIsTransitive

\* A text with a sentence more has no exception that the shorter one does not have.
LEMMA ExceptedStays ==
    ASSUME NEW t \in Texts, NEW b \in Texts, ~Excepted(t \o b)
    PROVE  ~Excepted(t)
<1>1. Range(t) \subseteq Range(t \o b)
  BY RangeJoined
<1>2. Len(t) > 1 => Len(t \o b) > 1 /\ (t \o b)[1] = t[1] /\ (t \o b)[2] = t[2]
  <2>1. Len(t \o b) = Len(t) + Len(b) /\ Len(t) \in Nat /\ Len(b) \in Nat
    BY JoinedTexts
  <2>2. Len(t) > 1 => 1 \in 1 .. Len(t) /\ 2 \in 1 .. Len(t) /\ Len(t \o b) > 1
    BY <2>1
  <2> QED BY <2>2, JoinedTexts
<1> QED BY <1>1, <1>2 DEF Excepted, Contradicts

LEMMA SayJoined ==
    ASSUME NEW e \in Texts, NEW x \in Texts, NEW n \in Nat, Whole(e), Native(e),
           x # <<>>, Whole(x), Native(x)
    PROVE  LET y == e \o Cap(x, n)
           IN  /\ y \in Texts /\ Whole(y) /\ Native(y) /\ IsPrefix(y, e \o x)
<1> DEFINE c == Cap(x, n)
<1>1. c \in Texts /\ IsPrefix(c, x)
  BY CapIs
<1>2. Whole(c)
  <2>1. CASE c = x \/ c = <<>>
    BY <2>1 DEF Whole
  <2>2. CASE \E k \in SentenceEnds(x) : c = SubSeq(x, 1, k)
    <3>1. PICK k \in SentenceEnds(x) : c = SubSeq(x, 1, k)
      BY <2>2
    <3>2. k \in 1 .. Len(x) /\ x[k] # "part"
      BY EndsAreFinite DEF SentenceEnds, Texts
    <3>3. k \in 0 .. Len(x) /\ k \in 1 .. k /\ k \in Nat
      BY <3>2 DEF Texts
    <3>4. Len(c) = k /\ c[k] = x[k]
      BY <3>1, <3>3, BeginningIs
    <3> QED BY <3>2, <3>4 DEF Whole
  <2> QED BY <2>1, <2>2, CapIs
<1> HIDE DEF c
<1>3. c # <<>> => c[1] = x[1] /\ Len(c) >= 1 /\ Len(x) \in Nat
  <2>1. Len(c) \in Nat /\ Len(x) \in Nat /\ (c # <<>> => Len(c) >= 1)
    BY <1>1 DEF Texts
  <2>2. \A i \in 1 .. Len(c) : c[i] = x[i]
    BY <1>1, PrefixIs
  <2> QED BY <2>1, <2>2
<1>4. e \o c \in Texts /\ IsPrefix(e \o c, e \o x)
  BY <1>1, JoinedTexts, PrefixAfter
<1>5. CASE c = <<>>
  <2>1. e \o c = e
    BY <1>5, JoinedTexts
  <2> QED BY <1>4, <2>1 DEF c
<1>6. CASE c # <<>>
  <2>1. Len(e \o c) = Len(e) + Len(c) /\ Len(e) \in Nat /\ Len(c) \in Nat
        /\ \A i \in 1 .. Len(c) : (e \o c)[Len(e) + i] = c[i]
    BY <1>1, JoinedTexts
  <2>2. (e \o c)[Len(e \o c)] = c[Len(c)] /\ c[Len(c)] # "part"
    BY <1>2, <1>3, <1>6, <2>1 DEF Whole
  <2>3. e = <<>> => (e \o c)[1] = x[1]
    BY <1>1, <1>3, <1>6, JoinedTexts
  <2>4. e # <<>> => (e \o c)[1] = e[1]
    <3>1. e # <<>> => 1 \in 1 .. Len(e)
      BY <2>1 DEF Texts
    <3> QED BY <1>1, <3>1, JoinedTexts
  <2>5. Whole(e \o c)
    BY <2>2 DEF Whole
  <2>6. Native(e \o c)
    BY <2>3, <2>4 DEF Native
  <2> QED BY <1>4, <2>5, <2>6 DEF c
<1> QED BY <1>5, <1>6

-----------------------------------------------------------------------------
(* The buffers and the text *)

\* While nothing stopped the stream, what has been told, the held piece and the
\* begun sentence make up what is to be told of the text.
Held(e, f, t) ==
    /\ e \o (f.pending \o f.buffer) = Told(t) /\ Native(f.pending)
    /\ ~f.dedupe => t # <<>>
    /\ f.dedupe => /\ e = <<>> /\ f.pending = <<>>
                   /\ t = f.buffer \/ (first # "none" /\ t = <<"echo">> \o f.buffer)

Keeps(e, f, t) ==
    /\ f.buffer \in {<<>>, <<"part">>}
    /\ Whole(e) /\ Native(e) /\ Sentences(e) = f.count
    /\ f.stopped => IsPrefix(e, Told(t))
    /\ ~f.stopped => Held(e, f, t)

LEMMA SoftenBegun ==
    ASSUME NEW b \in Texts, b \in {<<>>, <<"part">>}
    PROVE  Soften(b) = b
<1>1. Soften(b) \in Texts /\ Len(Soften(b)) = Len(b)
      /\ \A i \in 1 .. Len(b) : Soften(b)[i] = Softened(b[i])
  BY SoftenEach
<1>2. \A i \in 1 .. Len(b) : Softened(b[i]) = b[i]
  BY DEF Softened
<1> QED BY <1>1, <1>2, SameText

\* What the gate leaves of a sentence, after what is told and held, is what is to be
\* told of the text with that sentence.
Clean(u, dedupe) == IF dedupe THEN Dedupe(Soften(u)) ELSE Soften(u)

Follows(e, f, t, s) ==
    LET clean == Clean(f.buffer \o <<s>>, f.dedupe)
    IN  /\ clean \in Texts /\ e \o (f.pending \o clean) = Told(t \o <<s>>)
        /\ clean # <<>> => clean = Soften(f.buffer \o <<s>>)
        /\ clean = <<>> => f.dedupe /\ first # "none" /\ t = <<>> /\ s = "echo"

LEMMA HeldGrows ==
    ASSUME NEW e \in Texts, NEW f, FeedOK(f), NEW t \in Texts, NEW s \in Words, s # "part",
           f.buffer \in {<<>>, <<"part">>}, Held(e, f, t), ~Excepted(t \o <<s>>)
    PROVE  Follows(e, f, t, s)
<1> DEFINE b == f.buffer
           d == f.pending
           u == b \o <<s>>
           v == Soften(u)
           z == Soften(<<s>>)
<1>1. b \in Texts /\ d \in Texts /\ f.dedupe \in BOOLEAN /\ <<s>> \in Texts
      /\ (b = <<>> \/ b = <<"part">>)
  BY DEF FeedOK, Feeds, Texts
<1>2. u \in Texts /\ v \in Texts /\ v # <<>> /\ (RepeatsFirst(v) => b = <<>> /\ s = "echo")
  BY <1>1, SentenceIs
<1>3. z \in Texts /\ Len(z) = 1 /\ Soften(b) = b /\ v = b \o z
  <2>1. z \in Texts /\ Len(z) = Len(<<s>>)
    BY <1>1, SoftenEach
  <2>2. v = Soften(b) \o z /\ Soften(b) = b
    BY <1>1, SoftenJoined, SoftenBegun
  <2>3. Len(<<s>>) = 1
    OBVIOUS
  <2> HIDE DEF z, v
  <2> QED BY <2>1, <2>2, <2>3
<1>4. t \o <<s>> \in Texts /\ Soften(t) \in Texts /\ Len(Soften(t)) = Len(t)
      /\ Soften(t \o <<s>>) = Soften(t) \o z
  BY <1>1, JoinedTexts, SoftenEach, SoftenJoined
<1>5. CASE ~f.dedupe
  <2>1. t # <<>> /\ e \o (d \o b) = Dedupe(Soften(t))
    BY <1>5 DEF Held, Told
  <2>2. Soften(t) # <<>>
    BY <1>4, <2>1 DEF Texts
  <2> HIDE DEF z, b, d
  <2>3. Told(t \o <<s>>) = (e \o (d \o b)) \o z
    <3>1. Dedupe(Soften(t) \o z) = Dedupe(Soften(t)) \o z
      BY <1>3, <1>4, <2>2, DedupeJoined
    <3> QED BY <1>4, <2>1, <3>1, Zenon DEF Told
  <2>4. (e \o (d \o b)) \o z = e \o (d \o (b \o z))
    <3>1. d \in Texts /\ b \in Texts /\ z \in Texts
      BY <1>1, <1>3, Zenon
    <3> QED BY <3>1, SMTT(30) DEF Texts
  <2>5. Clean(f.buffer \o <<s>>, f.dedupe) = v
    BY <1>5 DEF Clean, b
  <2> HIDE DEF v
  <2> QED BY <1>2, <1>3, <2>3, <2>4, <2>5 DEF b, d, v, u, Follows
<1>6. CASE f.dedupe
  <2>1. e = <<>> /\ d = <<>> /\ (t = b \/ (first # "none" /\ t = <<"echo">> \o b))
    BY <1>6 DEF Held
  <2>2. Clean(f.buffer \o <<s>>, f.dedupe) = Dedupe(v) /\ Dedupe(v) \in Texts
    BY <1>2, <1>6, DedupeIs DEF Clean
  <2>3. e \o (d \o Dedupe(v)) = Dedupe(v)
    <3> HIDE DEF d, v
    <3> QED BY <2>1, <2>2, JoinedTexts
  <2>4. CASE t = b
    <3>1. Told(t \o <<s>>) = Dedupe(v)
      BY <2>4 DEF Told
    <3>2. Dedupe(v) # <<>> => Dedupe(v) = v
      <4> SUFFICES ASSUME RepeatsFirst(v) PROVE Tail(v) = <<>>
        BY DEF Dedupe
      <4>1. b = <<>>
        BY <1>2
      <4>2. v = z
        <5>1. <<>> \o z = z
          <6> HIDE DEF z
          <6> QED BY <1>3, JoinedTexts
        <5>2. v = <<>> \o z
          BY <1>3, <4>1, Zenon
        <5> QED BY <5>1, <5>2, Zenon
      <4> HIDE DEF v, z
      <4> QED BY <1>3, <4>2, OneSentence
    <3>3. Dedupe(v) = <<>> => first # "none" /\ b = <<>> /\ s = "echo"
      <4>1. Dedupe(v) = <<>> => RepeatsFirst(v)
        BY <1>2 DEF Dedupe
      <4> QED BY <1>2, <4>1 DEF RepeatsFirst
    <3>4. b # <<>> \/ t = <<>>
      BY <2>4
    <3> HIDE DEF b, d, v
    <3>5. Clean(f.buffer \o <<s>>, f.dedupe) = Dedupe(v)
          /\ e \o (d \o Dedupe(v)) = Told(t \o <<s>>)
      BY <2>2, <2>3, <3>1
    <3> QED BY <1>6, <2>2, <3>2, <3>3, <3>4, <3>5 DEF b, d, v, u, Follows
  <2>5. CASE first # "none" /\ t = <<"echo">> \o b
    <3> DEFINE echo == <<"echo">>
    <3>1. echo \in Texts /\ Soften(echo) = echo
      <4>1. echo \in Texts /\ Len(echo) = 1 /\ echo[1] = "echo"
        BY WordsAre DEF Texts
      <4> HIDE DEF echo
      <4>2. \A i \in 1 .. Len(echo) : Soften(echo)[i] = echo[i]
        BY <4>1, SoftenEach DEF Softened
      <4>3. Soften(echo) = echo
        BY <4>1, <4>2, SoftenEach, SameText
      <4> QED BY <4>1, <4>3
    <3>2. t \o <<s>> = echo \o u
      <4> DEFINE last == <<s>>
      <4>1. echo \in Texts /\ b \in Texts /\ last \in Texts
        BY <1>1, <3>1
      <4> HIDE DEF echo, b, last
      <4>2. (echo \o b) \o last = echo \o (b \o last)
        BY <4>1, SMTT(30) DEF Texts
      <4>3. t = echo \o b
        BY <2>5 DEF echo
      <4> QED BY <4>2, <4>3, Zenon DEF last
    <3>3. Soften(t \o <<s>>) = echo \o v
      BY <1>2, <3>1, <3>2, SoftenJoined
    <3>4. Told(t \o <<s>>) = v
      <4>1. RepeatsFirst(echo \o v) /\ Tail(echo \o v) = v
        <5> HIDE DEF v
        <5> QED BY <1>2, <2>5, <3>1 DEF RepeatsFirst, Texts
      <4> QED BY <3>3, <4>1 DEF Told, Dedupe
    <3>5. ~RepeatsFirst(v)
      <4> SUFFICES ASSUME RepeatsFirst(v) PROVE FALSE
        OBVIOUS
      <4>1. b = <<>> /\ s = "echo"
        BY <1>2
      <4>2. t = <<"echo">>
        BY <2>5, <4>1
      <4>3. Len(t) = 1 /\ t[1] = "echo" /\ Len(<<s>>) = 1 /\ <<s>>[1] = "echo"
        BY <4>1, <4>2
      <4>4. Len(t \o <<s>>) = 2 /\ (t \o <<s>>)[1] = "echo" /\ (t \o <<s>>)[2] = "echo"
        <5>1. \A x, y \in Texts : /\ Len(x \o y) = Len(x) + Len(y)
                                  /\ \A i \in 1 .. Len(x) : (x \o y)[i] = x[i]
                                  /\ \A i \in 1 .. Len(y) : (x \o y)[Len(x) + i] = y[i]
          BY JoinedTexts
        <5> DEFINE last == <<s>>
        <5>2. last \in Texts /\ Len(last) = 1 /\ last[1] = "echo"
          BY <1>1, <4>3
        <5> HIDE DEF last
        <5>3. /\ Len(t \o last) = 1 + 1 /\ (t \o last)[1] = t[1]
              /\ (t \o last)[1 + 1] = last[1]
          BY <4>3, <5>1, <5>2
        <5> QED BY <4>3, <5>2, <5>3 DEF last
      <4> QED BY <4>4 DEF Excepted
    <3>6. Dedupe(v) = v
      BY <3>5 DEF Dedupe
    <3> HIDE DEF b, d, v
    <3>7. Clean(f.buffer \o <<s>>, f.dedupe) = v /\ e \o (d \o v) = Told(t \o <<s>>)
      BY <2>2, <2>3, <3>4, <3>6
    <3> QED BY <1>2, <3>7 DEF b, d, v, u, Follows
  <2> QED BY <2>1, <2>4, <2>5
<1> QED BY <1>5, <1>6

\* A delta keeps the buffers and the text together, whatever becomes of its sentence.
LEMMA PartKeeps ==
    ASSUME NEW e \in Texts, NEW f, FeedOK(f), NEW t \in Texts, "part" \in Words,
           f.buffer = <<>>, Keeps(e, f, t)
    PROVE  Keeps(e, [f EXCEPT !.buffer = <<"part">>], t \o <<"part">>)
<1> DEFINE b == <<"part">>
           h == [f EXCEPT !.buffer = b]
<1>1. b \in Texts /\ Soften(b) = b /\ Dedupe(b) = b
  <2>1. b \in Texts /\ b[1] = "part"
    BY DEF Texts
  <2> QED BY <2>1, SoftenBegun DEF Dedupe, RepeatsFirst
<1>2. h.buffer = b /\ h.pending = f.pending /\ h.dedupe = f.dedupe /\ h.stopped = f.stopped
      /\ h.count = f.count
  BY DEF FeedOK, Feeds
<1>3. f.pending \in Texts
  BY DEF FeedOK, Feeds
<1>4. f.stopped => IsPrefix(e, Told(t \o b))
  BY <1>1, ToldGrows DEF Keeps
<1>5. ASSUME ~f.stopped PROVE Held(e, h, t \o b)
  <2>1. e \o (f.pending \o <<>>) = Told(t) /\ Held(e, f, t)
    BY <1>5 DEF Keeps, Held
  <2>2. t \o b \in Texts /\ Soften(t) \in Texts /\ Len(Soften(t)) = Len(t)
        /\ Soften(t \o b) = Soften(t) \o b
    <3>1. b \in Texts /\ Soften(b) = b
      BY <1>1
    <3> HIDE DEF b
    <3>2. Soften(t \o b) = Soften(t) \o Soften(b) /\ t \o b \in Texts
      BY <3>1, JoinedTexts, SoftenJoined
    <3> QED BY <3>1, <3>2, SoftenEach
  <2>3. CASE t # <<>>
    <3>1. Soften(t) # <<>>
      BY <2>2, <2>3 DEF Texts
    <3>2. Told(t \o b) = Told(t) \o b
      BY <1>1, <2>2, <3>1, DedupeJoined DEF Told
    <3> DEFINE d == f.pending
    <3>3. (e \o (d \o <<>>)) \o b = e \o (d \o b)
      <4>1. d \in Texts /\ d \o <<>> = d
        BY <1>3, JoinedTexts
      <4>2. b \in Texts
        BY <1>1
      <4> HIDE DEF d, b
      <4>3. (e \o d) \o b = e \o (d \o b)
        BY <4>1, <4>2 DEF Texts
      <4> QED BY <4>1, <4>3, Zenon
    <3>4. e \o (f.pending \o b) = Told(t \o b)
      BY <2>1, <3>2, <3>3, Zenon
    <3>5. f.dedupe => first # "none" /\ t \o b = <<"echo">> \o b
      <4>1. f.dedupe => first # "none" /\ t = <<"echo">> \o <<>>
        BY <2>1, <2>3 DEF Held
      <4>2. <<"echo">> \o <<>> = <<"echo">>
        OBVIOUS
      <4> QED BY <4>1, <4>2
    <3>6. t \o b # <<>>
      BY <1>1, <2>3 DEF Texts
    <3> HIDE DEF h, b
    <3> QED BY <1>2, <2>1, <3>4, <3>5, <3>6 DEF Held
  <2>4. CASE t = <<>>
    <3>1. t \o b = b
      BY <1>1, <2>4, JoinedTexts
    <3>2. f.dedupe /\ e = <<>> /\ f.pending = <<>>
      BY <2>1, <2>4 DEF Held
    <3>3. Told(t \o b) = b
      BY <1>1, <3>1 DEF Told
    <3>4. <<>> \o (<<>> \o b) = b
      OBVIOUS
    <3> HIDE DEF h, b
    <3> QED BY <1>2, <2>1, <3>1, <3>2, <3>3, <3>4 DEF Held
  <2> QED BY <2>3, <2>4
<1> HIDE DEF h
<1> QED BY <1>2, <1>4, <1>5 DEF Keeps, h

LEMMA EmitKeeps ==
    ASSUME NEW e \in Texts, NEW f, FeedOK(f), NEW t \in Texts, NEW s \in Words, s # "part",
           Keeps(e, f, t), ~Excepted(t \o <<s>>)
    PROVE  LET r == Emit(f, f.buffer \o <<s>>)
           IN  Keeps(e \o r.out, r.feed, t \o <<s>>)
<1> DEFINE u == f.buffer \o <<s>>
           r == Emit(f, u)
           t2 == t \o <<s>>
           clean == Clean(u, f.dedupe)
           gate == Gate(u, f.dedupe)
<1>1. f.buffer \in Texts /\ f.pending \in Texts /\ f.dedupe \in BOOLEAN /\ f.stopped \in BOOLEAN
      /\ f.count \in 0 .. MaxSentences /\ <<s>> \in Texts /\ f \in Feeds
  BY DEF FeedOK, Feeds, Texts
<1>2. /\ u \in Texts /\ Soften(u) \in Texts /\ Soften(u) # <<>> /\ t2 \in Texts
      /\ Whole(Soften(u)) /\ (~Foreign(Soften(u)) => Native(Soften(u)))
  BY <1>1, SentenceIs, JoinedTexts DEF Keeps
<1>3. /\ FeedOK(r.feed) /\ r.out \in Texts
      /\ r.feed.count = f.count + Sentences(r.out)
  BY <1>2, EmitIs
<1>4. Sentences(e \o r.out) = r.feed.count /\ r.feed.stopped \in BOOLEAN
  <2>1. Sentences(e \o r.out) = Sentences(e) + Sentences(r.out)
    BY <1>3, SentencesAdd
  <2> QED BY <1>3, <2>1 DEF Keeps, FeedOK, Feeds
<1>5. e \o <<>> = e /\ Whole(e) /\ Native(e)
  BY JoinedTexts DEF Keeps
<1>6. CASE f.stopped
  <2>1. r.feed = [f EXCEPT !.buffer = <<>>] /\ r.out = <<>>
    BY <1>6 DEF Emit
  <2>2. r.feed.buffer = <<>> /\ r.feed.stopped
    BY <1>1, <1>6, <2>1 DEF Feeds
  <2>3. IsPrefix(e, Told(t2))
    BY <1>1, <1>6, ToldGrows DEF Keeps
  <2> HIDE DEF r, t2
  <2> QED BY <1>4, <1>5, <2>1, <2>2, <2>3 DEF Keeps, r, t2, u
<1>7. CASE ~f.stopped
  <2>1. Held(e, f, t)
    BY <1>7 DEF Keeps
  <2>2. /\ clean \in Texts /\ e \o (f.pending \o clean) = Told(t2)
        /\ clean # <<>> => clean = Soften(u)
        /\ clean = <<>> => f.dedupe /\ first # "none" /\ t = <<>> /\ s = "echo"
    <3>1. f.buffer \in {<<>>, <<"part">>}
      BY DEF Keeps
    <3> HIDE DEF r, gate
    <3>2. ~Excepted(t \o <<s>>) /\ FeedOK(f)
      OBVIOUS
    <3>3. Follows(e, f, t, s)
      BY <2>1, <3>1, <3>2, HeldGrows
    <3> QED BY <3>3 DEF Follows
  <2>3. ~Contradicts(Soften(u))
    <3>1. "denial" \in Range(Soften(u)) => s = "denial"
      <4>1. "denial" \in Range(Soften(u)) => "denial" \in Range(u)
        BY <1>2, SoftenKeeps
      <4>2. f.buffer = <<>> \/ f.buffer = <<"part">>
        BY DEF Keeps
      <4>3. Range(u) \subseteq {"part", s}
        BY <4>2 DEF Range
      <4> QED BY <4>1, <4>3
    <3>2. s \in Range(t2)
      <4>1. Range(<<s>>) \subseteq Range(t2)
        BY <1>1, RangeJoined
      <4>2. 1 \in DOMAIN <<s>> /\ <<s>>[1] = s
        OBVIOUS
      <4>3. s \in Range(<<s>>)
        BY <4>2, Zenon DEF Range
      <4> QED BY <4>1, <4>3, Zenon
    <3> QED BY <3>1, <3>2 DEF Excepted, Contradicts
  <2>4. \/ gate.text = <<>> /\ gate.stop = TRUE
        \/ ~Foreign(Soften(u)) /\ gate.stop = FALSE /\ gate.text = clean
    BY <2>3, GateSays DEF Clean
  <2> DEFINE joined == IF f.pending = <<>> THEN gate.text ELSE Join(f.pending, gate.text)
  <2>5. /\ r.feed.buffer = <<>>
        /\ gate.text = <<>> => /\ r.out = <<>> /\ r.feed.pending = f.pending
                               /\ r.feed.dedupe = f.dedupe /\ r.feed.stopped = gate.stop
        /\ gate.text # <<>> /\ ~gate.stop =>
             /\ ~r.feed.dedupe
             /\ \/ r.out = <<>> /\ r.feed.pending = joined /\ ~r.feed.stopped
                \/ /\ r.out = Cap(joined, MaxSentences - f.count)
                   /\ r.feed.pending = <<>> /\ (~r.feed.stopped => r.out = joined)
    BY <1>2, <1>7, EmitSays
  <2>6. CASE gate.text = <<>> /\ gate.stop = TRUE
    <3>1. IsPrefix(e, Told(t2))
      <4>1. IsPrefix(e, Told(t))
        <5>1. f.pending \o f.buffer \in Texts
          BY <1>1, JoinedTexts
        <5> QED BY <2>1, <5>1, PrefixOfJoined DEF Held
      <4> QED BY <1>1, <4>1, ToldGrows
    <3> HIDE DEF r, t2, gate, joined, clean
    <3> QED BY <1>4, <1>5, <2>5, <2>6, <3>1 DEF Keeps, r, t2, u
  <2>7. CASE gate.text = <<>> /\ gate.stop = FALSE /\ gate.text = clean
    <3>1. f.dedupe /\ first # "none" /\ t2 = <<"echo">>
      <4>1. <<>> \o <<"echo">> = <<"echo">>
        OBVIOUS
      <4> QED BY <2>2, <2>7, <4>1
    <3>2. e \o (f.pending \o <<>>) = Told(t2) /\ <<"echo">> \o <<>> = <<"echo">>
      <4>1. <<"echo">> \o <<>> = <<"echo">>
        OBVIOUS
      <4> HIDE DEF t2, gate, clean
      <4>2. clean = <<>>
        BY <2>7
      <4> QED BY <2>2, <4>1, <4>2, Zenon
    <3>3. Held(e, r.feed, t2)
      <4>1. Native(f.pending) /\ e = <<>> /\ f.pending = <<>>
        BY <2>1, <3>1 DEF Held
      <4> HIDE DEF r, t2, gate, joined, clean
      <4> QED BY <2>5, <2>7, <3>1, <3>2, <4>1 DEF Held
    <3> HIDE DEF r, t2, gate, joined, clean
    <3> QED BY <1>4, <1>5, <2>5, <2>7, <3>3 DEF Keeps, r, t2, u
  <2>8. CASE gate.text # <<>> /\ gate.stop = FALSE /\ gate.text = clean /\ ~Foreign(Soften(u))
    <3>1. Whole(clean) /\ Native(clean)
      BY <1>2, <2>2, <2>8
    <3>2. "gap" \notin Range(f.pending)
      <4>1. f.pending \o clean \in Texts
        BY <1>1, <2>2, JoinedTexts
      <4>2. Range(f.pending) \subseteq Range(f.pending \o clean)
            /\ Range(f.pending \o clean) \subseteq Range(Told(t2))
        <5> HIDE DEF clean, t2
        <5>1. Range(f.pending) \subseteq Range(f.pending \o clean)
          BY <1>1, <2>2, RangeJoined
        <5>2. Range(f.pending \o clean) \subseteq Range(e \o (f.pending \o clean))
          BY <4>1, RangeJoined
        <5> QED BY <2>2, <5>1, <5>2
      <4>3. "gap" \notin Range(t2)
        BY DEF Excepted
      <4> QED BY <1>2, <4>2, <4>3, ToldIs
    <3>3. joined = f.pending \o clean
      BY <1>1, <2>2, <2>8, <3>2, JoinedIs
    <3>4. /\ joined \in Texts /\ joined # <<>> /\ Whole(joined) /\ Native(joined)
          /\ e \o joined = Told(t2)
      <4> DEFINE d == f.pending
      <4>1. d \in Texts /\ clean \in Texts /\ clean # <<>> /\ Native(d)
        BY <1>1, <2>1, <2>2, <2>8 DEF Held
      <4> HIDE DEF clean
      <4>2. /\ d \o clean \in Texts /\ Len(d \o clean) = Len(d) + Len(clean)
            /\ Len(d) \in Nat /\ Len(clean) \in Nat
            /\ \A i \in 1 .. Len(d) : (d \o clean)[i] = d[i]
            /\ \A i \in 1 .. Len(clean) : (d \o clean)[Len(d) + i] = clean[i]
            /\ <<>> \o clean = clean
        BY <4>1, JoinedTexts
      <4>3. Len(clean) >= 1 /\ (d # <<>> => Len(d) >= 1)
        BY <4>1 DEF Texts
      <4>4. d \o clean # <<>> /\ Whole(d \o clean)
        BY <3>1, <4>1, <4>2, <4>3 DEF Whole
      <4>5. Native(d \o clean)
        <5>1. CASE d = <<>>
          BY <3>1, <4>2, <5>1
        <5>2. CASE d # <<>>
          BY <4>1, <4>2, <4>3, <5>2 DEF Native
        <5> QED BY <5>1, <5>2
      <4>6. e \o (d \o clean) = Told(t2)
        BY <2>2
      <4> HIDE DEF joined, t2
      <4> QED BY <3>3, <4>2, <4>4, <4>5, <4>6, Zenon
    <3>5. CASE r.out = <<>> /\ r.feed.pending = joined /\ ~r.feed.stopped
      <4>1. joined \o <<>> = joined /\ t2 # <<>>
        BY <1>1, <3>4, JoinedTexts DEF Texts
      <4>2. Held(e, r.feed, t2)
        <5> HIDE DEF r, t2, gate, joined, clean
        <5> QED BY <2>5, <2>8, <3>4, <3>5, <4>1 DEF Held
      <4> HIDE DEF r, t2, gate, joined, clean
      <4> QED BY <1>4, <1>5, <2>5, <3>5, <4>2 DEF Keeps, r, t2, u
    <3>6. CASE /\ r.out = Cap(joined, MaxSentences - f.count)
               /\ r.feed.pending = <<>> /\ (~r.feed.stopped => r.out = joined)
      <4>1. MaxSentences - f.count \in Nat
        BY <1>1, SpokenAssumption
      <4>2. /\ e \o r.out \in Texts /\ Whole(e \o r.out) /\ Native(e \o r.out)
            /\ IsPrefix(e \o r.out, Told(t2))
        <5> HIDE DEF r, t2, gate, joined, clean
        <5> QED BY <1>5, <3>4, <3>6, <4>1, SayJoined
      <4>3. ~r.feed.stopped => Held(e \o r.out, r.feed, t2)
        <5>1. (e \o joined) \o (<<>> \o <<>>) = e \o joined /\ Native(<<>>)
          <6> HIDE DEF joined
          <6>1. e \o joined \in Texts /\ <<>> \o <<>> = <<>>
            <7>1. joined \in Texts
              BY <3>4
            <7>2. e \o joined \in Texts
              BY <7>1, JoinedTexts
            <7> QED BY <7>2
          <6>2. (e \o joined) \o <<>> = e \o joined
            BY <6>1, JoinedTexts
          <6> QED BY <6>1, <6>2 DEF Native
        <5>2. t2 # <<>>
          BY <1>1 DEF Texts
        <5> HIDE DEF r, t2, gate, joined, clean
        <5> QED BY <2>5, <2>8, <3>4, <3>6, <5>1, <5>2 DEF Held
      <4> HIDE DEF r, t2, gate, joined, clean
      <4> QED BY <1>4, <2>5, <4>2, <4>3 DEF Keeps, r, t2, u
    <3> HIDE DEF r, t2, gate, joined, clean
    <3> QED BY <2>5, <2>8, <3>5, <3>6 DEF r, t2, u
  <2> HIDE DEF r, t2, gate, joined, clean
  <2> QED BY <2>4, <2>6, <2>7, <2>8 DEF r, t2, u
<1> QED BY <1>6, <1>7

-----------------------------------------------------------------------------
(* The whole text *)

LEMMA SecondUnitIs ==
    ASSUME NEW t \in Texts, NEW truncated
    PROVE  SecondUnit(t, truncated) \in Texts
<1> DEFINE soft == IF truncated THEN Trim(Soften(t)) ELSE Soften(t)
           native == IF Foreign(soft) THEN <<"fallback">> ELSE soft
           mended == IF Contradicts(native) THEN <<"question">> ELSE native
<1>1. SecondUnit(t, truncated) = Cap(Dedupe(mended), MaxSentences)
  BY DEF SecondUnit
<1>2. soft \in Texts
  BY SoftenIs, TrimIs
<1>3. <<"fallback">> \in Texts /\ <<"question">> \in Texts
  BY WordsAre DEF Texts
<1> HIDE DEF soft
<1>4. mended \in Texts
  BY <1>2, <1>3
<1> HIDE DEF mended
<1>5. Dedupe(mended) \in Texts
  BY <1>4, DedupeIs
<1> QED BY <1>1, <1>5, CapIs, SpokenAssumption

LEMMA FallbackIs == Fallback \in Texts
<1>1. <<"fallback">> \in Texts
  BY WordsAre DEF Texts
<1> QED BY <1>1, SecondUnitIs DEF Fallback

\* Whether anything is told that is foreign as a whole is known from its beginning.
LEMMA TrimmedIsNative ==
    ASSUME NEW e \in Texts, NEW t \in Texts, Native(e), e # <<>>, IsPrefix(e, Dedupe(t)),
           ~Foreign(t)
    PROVE  ~Foreign(Trim(t))
<1>1. Trim(t) \in Texts /\ Range(Trim(t)) \subseteq Range(t)
      /\ \A i \in 1 .. Len(Trim(t)) : Trim(t)[i] = t[i]
  BY TrimIs
<1>2. setup.tongue # "zh" => ~Foreign(Trim(t))
  BY <1>1 DEF Foreign
<1>3. ASSUME setup.tongue = "zh", Trim(t) # <<>>, Range(Trim(t)) = {"foreign"} PROVE FALSE
  <2>1. Len(Trim(t)) \in Nat /\ Len(Trim(t)) >= 1 /\ DOMAIN Trim(t) = 1 .. Len(Trim(t))
    BY <1>1, <1>3 DEF Texts
  <2>2. 1 \in 1 .. Len(Trim(t)) /\ Trim(t)[1] \in Range(Trim(t))
    BY <2>1 DEF Range
  <2>3. t[1] = "foreign"
    BY <1>1, <1>3, <2>2
  <2>4. Dedupe(t) = t
    BY <2>3 DEF Dedupe, RepeatsFirst
  <2>5. Len(e) \in Nat /\ Len(e) >= 1
    BY DEF Texts
  <2>6. e[1] = t[1]
    BY <2>4, <2>5, PrefixIs
  <2> QED BY <1>3, <2>3, <2>6 DEF Native
<1> QED BY <1>2, <1>3 DEF Foreign

LEMMA KeepsPrefix ==
    ASSUME NEW e \in Texts, NEW f, FeedOK(f), NEW t \in Texts, Keeps(e, f, t)
    PROVE  IsPrefix(e, Told(t))
<1>1. f.stopped \in BOOLEAN /\ f.pending \in Texts /\ f.buffer \in Texts
  BY DEF FeedOK, Feeds
<1>2. f.pending \o f.buffer \in Texts
  BY <1>1, JoinedTexts
<1>3. IsPrefix(e, e \o (f.pending \o f.buffer))
  BY <1>2, PrefixOfJoined
<1> QED BY <1>1, <1>3 DEF Keeps, Held

\* What the deltas have told is the beginning of the reply.
LEMMA EndKeeps ==
    ASSUME NEW e \in Texts, NEW f, FeedOK(f), NEW t \in Texts, Keeps(e, f, t),
           ~Excepted(t), ~Foreign(Soften(t)), NEW truncated \in BOOLEAN
    PROVE  IsPrefix(e, IF t = <<>> THEN Fallback ELSE SecondUnit(t, truncated))
<1>1. IsPrefix(e, Told(t)) /\ Soften(t) \in Texts /\ Told(t) \in Texts
      /\ Fallback \in Texts /\ SecondUnit(t, truncated) \in Texts
  BY KeepsPrefix, SoftenIs, ToldIs, FallbackIs, SecondUnitIs
<1>2. CASE e = <<>>
  BY <1>1, <1>2, NothingIsPrefix
<1>3. CASE e # <<>>
  <2> DEFINE soft == IF truncated THEN Trim(Soften(t)) ELSE Soften(t)
  <2>1. soft \in Texts /\ Range(soft) \subseteq Range(Soften(t))
    BY <1>1, TrimIs
  <2>2. ~Foreign(soft)
    <3>1. Native(e) /\ IsPrefix(e, Dedupe(Soften(t)))
      BY <1>1 DEF Keeps, Told
    <3>2. ~Foreign(Trim(Soften(t)))
      BY <1>1, <1>3, <3>1, TrimmedIsNative
    <3> QED BY <3>2
  <2>3. ~Contradicts(soft)
    BY <2>1, SoftenKeeps DEF Excepted, Contradicts
  <2>4. IsPrefix(e, Dedupe(soft))
    <3>1. Whole(e) /\ IsPrefix(e, Dedupe(Soften(t)))
      BY <1>1 DEF Keeps, Told
    <3>2. IsPrefix(e, Dedupe(Trim(Soften(t))))
      BY <1>1, <3>1, PrefixOfTrimmed
    <3> QED BY <3>1, <3>2
  <2>5. SecondUnit(t, truncated) = Cap(Dedupe(soft), MaxSentences)
    BY <2>2, <2>3 DEF SecondUnit
  <2>6. Sentences(e) <= MaxSentences /\ Whole(e)
    BY DEF Keeps, FeedOK, Feeds
  <2>7. t # <<>>
    <3> SUFFICES ASSUME t = <<>> PROVE FALSE
      OBVIOUS
    <3>1. Len(Soften(t)) = 0
      BY SoftenEach
    <3>2. Told(t) = <<>>
      <4>1. Soften(t) = <<>>
        BY <1>1, <3>1, NothingIsHarmless, SameText
      <4> QED BY <4>1 DEF Told, Dedupe, RepeatsFirst
    <3>3. Len(e) <= 0 /\ Len(e) \in Nat
      BY <1>1, <3>2, PrefixIs DEF Texts
    <3>4. e = <<>>
      BY <3>3, NothingIsHarmless, SameText
    <3> QED BY <1>3, <3>4
  <2> HIDE DEF soft
  <2>8. IsPrefix(e, Cap(Dedupe(soft), MaxSentences))
    BY <2>1, <2>4, <2>6, DedupeIs, PrefixOfCap, SpokenAssumption
  <2> QED BY <2>5, <2>7, <2>8
<1> QED BY <1>2, <1>3

LEMMA NewKeeps == Keeps(<<>>, NewFeed, <<>>)
<1>1. Told(<<>>) = <<>>
  BY DEF Told, Dedupe, Soften, RepeatsFirst
<1>2. Sentences(<<>>) = 0
  <2>1. SentenceEnds(<<>>) = {}
    BY DEF SentenceEnds
  <2> QED BY <2>1, FS_EmptySet, Zenon DEF Sentences
<1>3. <<>> \o (<<>> \o <<>>) = <<>>
  OBVIOUS
<1> QED BY <1>1, <1>2, <1>3 DEF Keeps, Held, NewFeed, Whole, Native

-----------------------------------------------------------------------------
(* The turn, and what has been told of it *)

After(e, ev) == IF ev.phase = "second_delta" THEN e \o ev.text ELSE e

\* What the deltas have told after each of the events.
Chain(c, q) ==
    /\ c \in [0 .. Len(q) -> Texts] /\ c[0] = <<>>
    /\ \A i \in 1 .. Len(q) : c[i] = After(c[i - 1], q[i])

\* What the stages of the turn say of the text that has been told so far.
At(e) ==
    /\ stage \in {"start", "ready"} => e = <<>> /\ deltas = 0 /\ text = <<>> /\ ~broken
    /\ stage \in {"sdk", "http"} /\ deltas = 0 => e = <<>> /\ text = <<>> /\ feed = NewFeed
    /\ stage \in {"sdk", "http"} /\ ~broken /\ ~Excepted(text) => Keeps(e, feed, text)
    /\ stage = "whole" /\ ~broken => e = <<>>
    /\ stage \in {"written", "returned"} /\ ~broken /\ ~Excepted(text)
         /\ ~Foreign(Soften(text)) => IsPrefix(e, reply)

TextOK == text \in Texts /\ reply \in Texts /\ deltas \in Nat

TellsInv ==
    \E c : Chain(c, said) /\ voiced = c[Len(heard)] /\ At(c[Len(said)])

OnceInv == Inv /\ LimitInv /\ TextOK /\ TellsInv /\ HeardOnce

\* A step of the thread tells nothing, or what one more event holds.
Tells(e, e2) ==
    \/ said' = said /\ e2 = e
    \/ \E ev \in Events : said' = Append(said, ev) /\ e2 = After(e, ev)

LEMMA AfterIs == ASSUME NEW e \in Texts, NEW ev \in Events PROVE After(e, ev) \in Texts
<1>1. ev.text \in Texts
  BY DEF Events
<1> QED BY <1>1, JoinedTexts DEF After

LEMMA ChainGrows ==
    ASSUME NEW q \in Seq(Events), NEW c, Chain(c, q), NEW ev \in Events
    PROVE  \E d : /\ Chain(d, Append(q, ev)) /\ \A i \in 0 .. Len(q) : d[i] = c[i]
                  /\ d[Len(q) + 1] = After(c[Len(q)], ev)
<1> DEFINE n == Len(q)
           more == Append(q, ev)
           d == [i \in 0 .. n + 1 |-> IF i = n + 1 THEN After(c[n], ev) ELSE c[i]]
<1>1. /\ n \in Nat /\ Len(more) = n + 1 /\ more[n + 1] = ev
      /\ \A i \in 1 .. n : more[i] = q[i]
  OBVIOUS
<1>2. c \in [0 .. n -> Texts] /\ c[0] = <<>>
      /\ \A i \in 1 .. n : c[i] = After(c[i - 1], q[i])
  BY DEF Chain
<1>3. c[n] \in Texts /\ After(c[n], ev) \in Texts
  <2>1. c[n] \in Texts
    BY <1>1, <1>2
  <2> QED BY <2>1, AfterIs
<1> HIDE DEF n, more
<1>4. /\ d \in [0 .. n + 1 -> Texts] /\ d[n + 1] = After(c[n], ev)
      /\ \A i \in 0 .. n : d[i] = c[i]
  BY <1>1, <1>2, <1>3
<1> HIDE DEF d
<1>5. d[0] = <<>>
  BY <1>1, <1>2, <1>4
<1>6. ASSUME NEW i \in 1 .. n + 1 PROVE d[i] = After(d[i - 1], more[i])
  <2>1. CASE i = n + 1
    <3>1. d[i - 1] = c[n]
      BY <1>1, <1>4, <2>1
    <3> QED BY <1>1, <1>4, <2>1, <3>1
  <2>2. CASE i # n + 1
    <3>1. i \in 1 .. n /\ i \in 0 .. n /\ i - 1 \in 0 .. n
      BY <1>1, <2>2
    <3>2. d[i] = c[i] /\ d[i - 1] = c[i - 1] /\ more[i] = q[i]
      BY <1>1, <1>4, <3>1
    <3> QED BY <1>2, <3>1, <3>2
  <2> QED BY <2>1, <2>2
<1>7. Chain(d, more)
  BY <1>1, <1>4, <1>5, <1>6 DEF Chain
<1> QED BY <1>4, <1>7 DEF n, more

-----------------------------------------------------------------------------
(* The steps *)

\* A step of the thread keeps TellsInv if it tells what Tells says.
LEMMA TellsGrows ==
    ASSUME Inv, LimitInv, UNCHANGED <<heard, voiced>>,
           NEW c, Chain(c, said), voiced = c[Len(heard)],
           NEW e2, Tells(c[Len(said)], e2), At(e2)'
    PROVE  TellsInv'
<1>1. said \in Seq(Events) /\ Len(said) \in Nat /\ Len(heard) \in Nat /\ Len(heard) <= Len(said)
  BY DEF Inv, LimitInv, SaidOK
<1>2. CASE said' = said /\ e2 = c[Len(said)]
  <2>1. Chain(c, said)' /\ (voiced = c[Len(heard)])' /\ At(c[Len(said)])'
    <3>1. Chain(c, said)'
      BY <1>2 DEF Chain, After
    <3>2. At(c[Len(said)])'
      <4>1. e2 = c[Len(said')]
        BY <1>2
      <4> QED BY <4>1
    <3> QED BY <3>1, <3>2
  <2> QED BY <2>1 DEF TellsInv
<1>3. CASE \E ev \in Events : said' = Append(said, ev) /\ e2 = After(c[Len(said)], ev)
  <2>1. PICK ev \in Events : said' = Append(said, ev) /\ e2 = After(c[Len(said)], ev)
    BY <1>3
  <2>2. PICK d : /\ Chain(d, Append(said, ev)) /\ \A i \in 0 .. Len(said) : d[i] = c[i]
                 /\ d[Len(said) + 1] = After(c[Len(said)], ev)
    BY <1>1, ChainGrows
  <2>3. Len(said') = Len(said) + 1
    BY <1>1, <2>1
  <2>4. e2 = d[Len(said')]
    BY <2>1, <2>2, <2>3
  <2>5. voiced' = d[Len(heard')]
    <3>1. Len(heard) \in 0 .. Len(said)
      BY <1>1
    <3> QED BY <2>2, <3>1
  <2>6. Chain(d, said')
    BY <2>1, <2>2
  <2>7. At(d[Len(said)])'
    BY <2>4
  <2> QED BY <2>5, <2>6, <2>7 DEF TellsInv
<1> QED BY <1>2, <1>3 DEF Tells

\* The filters depend on the visitor's language and on the first unit alone.
LEMMA FiltersStay ==
    ASSUME NEW e, UNCHANGED <<setup, first>>
    PROVE  /\ Keeps(e, feed, text)' <=> Keeps(e, feed', text')
           /\ Excepted(text)' <=> Excepted(text')
           /\ Foreign(Soften(text))' <=> Foreign(Soften(text'))
<1>1. Excepted(text)' <=> Excepted(text')
  BY DEF Excepted, Contradicts
<1>2. Foreign(Soften(text))' <=> Foreign(Soften(text'))
  BY DEF Foreign
<1>3. Told(text)' = Told(text')
  BY DEF Told, Dedupe, RepeatsFirst
<1>4. Held(e, feed, text)' <=> Held(e, feed', text')
  BY <1>3 DEF Held, Native
<1>5. Keeps(e, feed, text)' <=> Keeps(e, feed', text')
  BY <1>3, <1>4 DEF Keeps, Native
<1> QED BY <1>1, <1>2, <1>5

LEMMA PlanFirstOnce ==
    ASSUME PlanFirst, TextOK, NEW e \in Texts, At(e)
    PROVE  TextOK' /\ \E e2 : Tells(e, e2) /\ At(e2)'
<1>1. PICK f :
        said' = Append(said, Event("first_unit", IF f = "none" THEN <<>> ELSE <<"echo">>))
  <2> DEFINE firsts == {"none"} \cup {FirstOf(raw) : raw \in RawFirsts}
  <2>1. \E f \in firsts :
          /\ first' = f
          /\ said' = Append(said, Event("first_unit", IF f = "none" THEN <<>> ELSE <<"echo">>))
    BY DEF PlanFirst
  <2> HIDE DEF firsts
  <2> QED BY <2>1, Zenon
<1> DEFINE ev == Event("first_unit", IF f = "none" THEN <<>> ELSE <<"echo">>)
<1>2. ev \in Events /\ After(e, ev) = e
  <2>1. <<>> \in Texts /\ <<"echo">> \in Texts
    BY WordsAre DEF Texts
  <2>2. \A t \in Texts : Event("first_unit", t) \in Events
                         /\ Event("first_unit", t).phase = "first_unit"
    BY DEF Event, Events
  <2> QED BY <2>1, <2>2 DEF After
<1>3. Tells(e, e)
  <2> HIDE DEF ev
  <2>1. said' = Append(said, ev)
    BY <1>1 DEF ev
  <2> QED BY <1>2, <2>1 DEF Tells
<1>4. At(e)' /\ TextOK'
  BY DEF PlanFirst, At, TextOK
<1> QED BY <1>3, <1>4

LEMMA OpenStreamOnce ==
    ASSUME OpenStream, TextOK, UNCHANGED setup, NEW e \in Texts, At(e)
    PROVE  TextOK' /\ Tells(e, e) /\ At(e)'
<1>1. /\ stage' \in {"sdk", "http"} /\ feed' = NewFeed /\ UNCHANGED <<first, deltas, text, said>>
      /\ e = <<>> /\ deltas = 0 /\ text = <<>> /\ UNCHANGED <<reply, broken>>
  BY DEF OpenStream, At
<1>2. Keeps(e, feed, text)'
  <2>1. Keeps(e, feed', text')
    BY <1>1, NewKeeps
  <2> QED BY <1>1, <2>1, FiltersStay
<1> QED BY <1>1, <1>2 DEF At, TextOK, Tells

LEMMA BreakOnce ==
    ASSUME Break, TextOK, UNCHANGED setup, NEW e \in Texts, At(e)
    PROVE  TextOK' /\ Tells(e, e) /\ At(e)'
<1>1. /\ stage' \in {"http", "whole"} /\ text' = <<>> /\ broken' = (deltas > 0)
      /\ UNCHANGED <<first, deltas, feed, said, reply>> /\ stage \in {"sdk", "http"}
      /\ deltas \in Nat
  BY DEF Break, TextOK
<1>2. ~broken' => deltas = 0
  <2>1. deltas # 0 => deltas > 0
    BY <1>1
  <2> QED BY <1>1, <2>1, Zenon
<1>3. deltas = 0 => e = <<>> /\ feed = NewFeed
  BY <1>1 DEF At
<1>4. ~broken' => Keeps(e, feed, text)'
  <2>1. ~broken' => Keeps(e, feed', text')
    BY <1>1, <1>2, <1>3, NewKeeps
  <2> QED BY <1>1, <2>1, FiltersStay
<1>5. TextOK'
  BY <1>1, NothingIsHarmless DEF TextOK
<1> QED BY <1>1, <1>2, <1>3, <1>4, <1>5 DEF At, Tells

LEMMA DeltaOnce ==
    ASSUME NEW s \in Kinds, Delta(s), TextOK, UNCHANGED setup, LimitInv, NEW e \in Texts, At(e)
    PROVE  TextOK' /\ \E e2 : Tells(e, e2) /\ At(e2)'
<1> DEFINE r == IF s = "part" THEN [feed |-> [feed EXCEPT !.buffer = <<s>>], out |-> <<>>]
                ELSE Emit(feed, Append(feed.buffer, s))
           u == feed.buffer \o <<s>>
<1>0. PICK e2 : e2 = e \o r.out
  OBVIOUS
<1>1. /\ feed' = r.feed /\ stage \in {"sdk", "http"} /\ deltas' = deltas + 1
      /\ said' = IF r.out = <<>> THEN said ELSE Append(said, Event("second_delta", r.out))
      /\ text' = Append(text, s) /\ UNCHANGED <<stage, first, reply, broken>>
      /\ (s = "part" => feed.buffer = <<>>)
  BY DEF Delta
<1>2. /\ FeedOK(feed) /\ s \in Words /\ text \in Texts /\ deltas \in Nat /\ reply \in Texts
      /\ feed.buffer \in Texts /\ <<s>> \in Texts
  BY <1>1, WordsAre DEF LimitInv, FeedOK, Feeds, TextOK, Texts
<1>3. text' = text \o <<s>> /\ text' \in Texts /\ Append(feed.buffer, s) = u
      /\ Append(feed.buffer, s) \in Texts
  <2>1. \A t \in Texts : Append(t, s) = t \o <<s>> /\ Append(t, s) \in Texts
    BY <1>2 DEF Texts
  <2> QED BY <1>1, <1>2, <2>1
<1>4. r.out \in Texts
  <2>1. CASE s = "part"
    BY <2>1, NothingIsHarmless
  <2>2. CASE s # "part"
    <3>1. r = Emit(feed, Append(feed.buffer, s))
      BY <2>2
    <3> HIDE DEF r
    <3> QED BY <1>2, <1>3, <3>1, EmitIs
  <2> QED BY <2>1, <2>2
<1>5. Tells(e, e2)
  <2> HIDE DEF r
  <2>1. CASE r.out = <<>>
    BY <1>0, <1>1, <2>1, JoinedTexts DEF Tells
  <2>2. CASE r.out # <<>>
    <3>1. Event("second_delta", r.out) \in Events
          /\ After(e, Event("second_delta", r.out)) = e2
      BY <1>0, <1>4 DEF Event, Events, After
    <3> QED BY <1>1, <2>2, <3>1 DEF Tells
  <2> QED BY <2>1, <2>2
<1>6. ASSUME ~broken, ~Excepted(text') PROVE Keeps(e2, feed', text')
  <2>1. ~Excepted(text \o <<s>>)
    BY <1>3, <1>6
  <2>2. Keeps(e, feed, text)
    <3>1. ~Excepted(text)
      BY <1>2, <2>1, ExceptedStays
    <3> QED BY <1>1, <1>6, <3>1 DEF At
  <2>3. CASE s = "part"
    <3>1. r.feed = [feed EXCEPT !.buffer = <<"part">>] /\ r.out = <<>>
      BY <2>3
    <3>2. Keeps(e, [feed EXCEPT !.buffer = <<"part">>], text \o <<"part">>)
      BY <1>1, <1>2, <2>2, <2>3, PartKeeps
    <3>3. e2 = e
      <4> HIDE DEF r
      <4> QED BY <1>0, <3>1, JoinedTexts
    <3> HIDE DEF r
    <3> QED BY <1>1, <1>3, <2>3, <3>1, <3>2, <3>3, Zenon
  <2>4. CASE s # "part"
    <3>1. r = Emit(feed, u)
      BY <1>3, <2>4
    <3>2. Keeps(e \o Emit(feed, u).out, Emit(feed, u).feed, text \o <<s>>)
      BY <1>2, <2>1, <2>2, <2>4, EmitKeeps
    <3> HIDE DEF r, u
    <3> QED BY <1>0, <1>1, <1>3, <3>1, <3>2, Zenon
  <2> QED BY <2>3, <2>4
<1> HIDE DEF r
<1>7. ~broken' /\ ~Excepted(text)' => Keeps(e2, feed, text)'
  BY <1>1, <1>6, FiltersStay
<1>8. deltas' # 0 /\ deltas' \in Nat
  BY <1>1, <1>2
<1>9. TextOK' /\ At(e2)'
  BY <1>1, <1>2, <1>3, <1>7, <1>8 DEF TextOK, At
<1> QED BY <1>5, <1>9

LEMMA EndStreamOnce ==
    ASSUME EndStream, TextOK, UNCHANGED setup, LimitInv, NEW e \in Texts, At(e)
    PROVE  TextOK' /\ Tells(e, e) /\ At(e)'
<1>1. /\ stage \in {"sdk", "http"} /\ stage' = "written"
      /\ UNCHANGED <<first, deltas, text, feed, said, broken>>
  BY DEF EndStream
<1>2. PICK truncated \in BOOLEAN :
        reply' = IF text = <<>> THEN Fallback ELSE SecondUnit(text, truncated)
  BY DEF EndStream
<1>3. text \in Texts /\ deltas \in Nat /\ FeedOK(feed)
  BY <1>1 DEF TextOK, LimitInv
<1>4. reply' \in Texts
  BY <1>2, <1>3, FallbackIs, SecondUnitIs
<1>5. ~broken /\ ~Excepted(text) /\ ~Foreign(Soften(text)) => IsPrefix(e, reply')
  <2> SUFFICES ASSUME ~broken, ~Excepted(text), ~Foreign(Soften(text))
               PROVE  IsPrefix(e, reply')
    OBVIOUS
  <2>1. Keeps(e, feed, text)
    BY <1>1 DEF At
  <2> QED BY <1>2, <1>3, <2>1, EndKeeps
<1>6. ~broken' /\ ~Excepted(text)' /\ ~Foreign(Soften(text))' => IsPrefix(e, reply')
  BY <1>1, <1>5, FiltersStay
<1> QED BY <1>1, <1>3, <1>4, <1>6 DEF TextOK, At, Tells

LEMMA WholeOnce ==
    ASSUME Skip \/ CompleteWhole, TextOK, NEW e \in Texts, At(e)
    PROVE  TextOK' /\ Tells(e, e) /\ At(e)'
<1>1. stage' = "written" /\ UNCHANGED <<deltas, said, broken>> /\ (~broken => e = <<>>)
  BY DEF Skip, CompleteWhole, At
<1>2. text' \in Texts /\ reply' \in Texts
  <2>1. CASE Skip
    BY <2>1, NothingIsHarmless DEF Skip, TextOK
  <2>2. CASE CompleteWhole
    <3>1. PICK t \in Wholes \cup {<<>>} :
            text' = t /\ reply' = IF t = <<>> THEN Fallback ELSE SecondUnit(t, FALSE)
      BY <2>2 DEF CompleteWhole
    <3>2. t \in Texts
      BY WordsAre, NothingIsHarmless
    <3> QED BY <3>1, <3>2, FallbackIs, SecondUnitIs
  <2> QED BY <2>1, <2>2
<1>3. ~broken' => IsPrefix(e, reply')
  BY <1>1, <1>2, NothingIsPrefix
<1> QED BY <1>1, <1>2, <1>3 DEF TextOK, At, Tells

LEMMA RestOnce ==
    ASSUME Return \/ Raise, TextOK, UNCHANGED setup, NEW e \in Texts, At(e)
    PROVE  TextOK' /\ Tells(e, e) /\ At(e)'
<1>1. UNCHANGED <<first, deltas, text, feed, said, reply, broken>>
  BY DEF Return, Raise
<1>2. /\ Excepted(text)' <=> Excepted(text)
      /\ Foreign(Soften(text))' <=> Foreign(Soften(text))
  BY <1>1, FiltersStay
<1>3. \/ stage' = "raised"
      \/ stage = "written" /\ stage' = "returned"
  BY DEF Return, Raise
<1> QED BY <1>1, <1>2, <1>3 DEF TextOK, At, Tells

LEMMA ThreadOnce == ASSUME OnceInv, Thread PROVE TextOK' /\ TellsInv' /\ HeardOnce'
<1>1. UNCHANGED <<setup, heard, voiced>> /\ Inv /\ LimitInv /\ TextOK
  BY DEF Thread, handler, OnceInv
<1>2. PICK c : Chain(c, said) /\ voiced = c[Len(heard)] /\ At(c[Len(said)])
  BY DEF OnceInv, TellsInv
<1>3. PICK e : e = c[Len(said)]
  OBVIOUS
<1>4. e \in Texts /\ At(e)
  <2>1. Len(said) \in 0 .. Len(said)
    BY <1>1 DEF Inv
  <2>2. e \in Texts
    BY <1>2, <1>3, <2>1 DEF Chain
  <2> QED BY <1>2, <1>3, <2>2
<1>5. TextOK' /\ \E e2 : Tells(e, e2) /\ At(e2)'
  <2>1. CASE PlanFirst
    BY <1>1, <1>4, <2>1, PlanFirstOnce
  <2>2. CASE Skip \/ CompleteWhole
    BY <1>1, <1>4, <2>2, WholeOnce
  <2>3. CASE OpenStream
    BY <1>1, <1>4, <2>3, OpenStreamOnce
  <2>4. CASE Break
    BY <1>1, <1>4, <2>4, BreakOnce
  <2>5. CASE EndStream
    BY <1>1, <1>4, <2>5, EndStreamOnce
  <2>6. CASE Return \/ Raise
    BY <1>1, <1>4, <2>6, RestOnce
  <2>7. CASE \E s \in Kinds : Delta(s)
    BY <1>1, <1>4, <2>7, DeltaOnce
  <2> QED BY <2>1, <2>2, <2>3, <2>4, <2>5, <2>6, <2>7 DEF Thread
<1>6. TellsInv'
  BY <1>1, <1>2, <1>3, <1>5, TellsGrows
<1>7. stream' # "complete"
  <2>1. stream' = stream /\ stage \notin {"returned", "raised"}
    BY <1>1, ThreadStep DEF Inv
  <2> QED BY <1>1, <2>1 DEF Inv
<1> QED BY <1>5, <1>6, <1>7 DEF HeardOnce

\* The handler's own steps leave the turn as it is.
LEMMA TurnStays ==
    ASSUME UNCHANGED <<setup, thread>>, NEW e
    PROVE  /\ At(e)' <=> At(e)
           /\ Excepted(text)' <=> Excepted(text)
           /\ Foreign(Soften(text))' <=> Foreign(Soften(text))
<1>1. UNCHANGED <<setup, stage, first, deltas, text, feed, broken, said, reply>>
  BY DEF thread
<1>2. /\ Keeps(e, feed, text)' <=> Keeps(e, feed, text)
      /\ Excepted(text)' <=> Excepted(text)
      /\ Foreign(Soften(text))' <=> Foreign(Soften(text))
  BY <1>1, FiltersStay
<1> QED BY <1>1, <1>2 DEF At

LEMMA TakeTells == ASSUME OnceInv, Take, UNCHANGED <<setup, thread>> PROVE TellsInv'
<1>1. PICK c : Chain(c, said) /\ voiced = c[Len(heard)] /\ At(c[Len(said)])
  BY DEF OnceInv, TellsInv
<1>2. PICK e : e = c[Len(said)]
  OBVIOUS
<1> DEFINE n == Len(heard) + 1
<1>3. /\ n \in 1 .. Len(said) /\ n - 1 = Len(heard) /\ said \in Seq(Events)
      /\ Len(heard') = n /\ said' = said
      /\ voiced' = IF said[n].phase = "second_delta" THEN voiced \o said[n].text ELSE voiced
  BY DEF Take, OnceInv, Inv, LimitInv, SaidOK, thread
<1>4. voiced' = c[n]
  <2>1. c[n] = After(c[n - 1], said[n])
    BY <1>1, <1>3 DEF Chain
  <2> QED BY <1>1, <1>3, <2>1 DEF After
<1>5. Chain(c, said)'
  BY <1>1, <1>3 DEF Chain, After
<1>6. At(e)'
  BY <1>1, <1>2, TurnStays
<1> HIDE DEF n
<1>7. (voiced = c[Len(heard)])' /\ (e = c[Len(said)])'
  BY <1>2, <1>3, <1>4
<1>8. At(c[Len(said)])'
  BY <1>6, <1>7
<1> QED BY <1>5, <1>7, <1>8 DEF TellsInv

\* Nothing of the turn changes, nor what has been heard of it.
LEMMA QuietTells ==
    ASSUME TellsInv, UNCHANGED <<setup, thread, heard, voiced>>
    PROVE  TellsInv'
<1>1. PICK c : Chain(c, said) /\ voiced = c[Len(heard)] /\ At(c[Len(said)])
  BY DEF TellsInv
<1>2. PICK e : e = c[Len(said)]
  OBVIOUS
<1>3. said' = said /\ heard' = heard /\ voiced' = voiced
  BY DEF thread
<1>4. At(e)'
  BY <1>1, <1>2, TurnStays
<1>5. Chain(c, said)'
  BY <1>1, <1>3 DEF Chain, After
<1>6. (voiced = c[Len(heard)])' /\ (e = c[Len(said)])'
  BY <1>1, <1>2, <1>3
<1>7. At(c[Len(said)])'
  BY <1>4, <1>6
<1> QED BY <1>5, <1>6, <1>7 DEF TellsInv

LEMMA FinalOnce == ASSUME OnceInv, Final, UNCHANGED <<setup, thread>> PROVE HeardOnce'
<1>1. PICK c : Chain(c, said) /\ voiced = c[Len(heard)] /\ At(c[Len(said)])
  BY DEF OnceInv, TellsInv
<1>2. /\ stage = "returned" /\ rest' = Remainder(reply, voiced) /\ voiced' = voiced
      /\ settled /\ Len(heard) = posted /\ UNCHANGED <<text, reply, broken, first>>
  BY DEF Final, Drained, thread
<1>3. posted = Len(said) /\ reply \in Texts /\ Len(said) \in 0 .. Len(said)
  BY <1>2 DEF OnceInv, Inv, TextOK
<1>4. voiced = c[Len(said)] /\ voiced \in Texts
  BY <1>1, <1>2, <1>3 DEF Chain
<1>5. (voiced # <<>> => ~Diverges) => voiced \o rest' = reply
  <2>1. CASE voiced = <<>>
    <3>1. IsPrefix(voiced, reply)
      BY <1>3, <2>1, NothingIsPrefix
    <3>2. voiced \o Remainder(reply, voiced) = reply
      BY <1>3, <1>4, <3>1, RestCompletes
    <3> QED BY <1>2, <3>2
  <2>2. CASE ~Diverges
    <3>1. ~broken /\ ~Excepted(text) /\ ~Foreign(Soften(text))
      BY <2>2 DEF Diverges, Replaced, Excepted
    <3>2. IsPrefix(voiced, reply)
      BY <1>1, <1>2, <1>4, <3>1 DEF At
    <3>3. voiced \o Remainder(reply, voiced) = reply
      BY <1>3, <1>4, <3>2, RestCompletes
    <3> QED BY <1>2, <3>3
  <2> QED BY <2>1, <2>2
<1>6. /\ Excepted(text)' <=> Excepted(text)
      /\ Foreign(Soften(text))' <=> Foreign(Soften(text))
  BY TurnStays
<1>7. Diverges' <=> Diverges
  <2>1. Diverges <=> broken \/ Excepted(text) \/ Foreign(Soften(text))
    BY DEF Diverges, Replaced, Excepted
  <2>2. Diverges' <=> broken' \/ Excepted(text)' \/ Foreign(Soften(text))'
    BY DEF Diverges, Replaced, Excepted
  <2> QED BY <1>2, <1>6, <2>1, <2>2
<1> QED BY <1>2, <1>5, <1>7 DEF HeardOnce

LEMMA HandlerOnce ==
    ASSUME OnceInv, Handler \/ Leave PROVE TextOK' /\ TellsInv' /\ HeardOnce'
<1>1. UNCHANGED <<setup, thread>> /\ TextOK /\ TellsInv
  BY DEF Handler, Leave, OnceInv
<1>2. TextOK'
  BY <1>1 DEF TextOK, thread
<1>3. CASE Post \/ Settle
  <2>1. UNCHANGED <<heard, voiced>> /\ stream' # "complete"
    BY <1>3 DEF Post, Settle
  <2> QED BY <1>1, <1>2, <2>1, QuietTells DEF HeardOnce
<1>4. CASE Take
  <2>1. stream' # "complete"
    BY <1>4 DEF Take
  <2> QED BY <1>1, <1>2, <1>4, <2>1, TakeTells DEF HeardOnce
<1>5. CASE Final
  <2>1. UNCHANGED <<heard, voiced>>
    BY <1>5 DEF Final
  <2> QED BY <1>1, <1>2, <1>5, <2>1, QuietTells, FinalOnce
<1>6. CASE Fail \/ HangUp
  <2>1. UNCHANGED <<heard, voiced>> /\ stream' # "complete"
    BY <1>6 DEF Fail, HangUp
  <2> QED BY <1>1, <1>2, <2>1, QuietTells DEF HeardOnce
<1> QED BY <1>3, <1>4, <1>5, <1>6 DEF Handler, Leave

LEMMA OnceStep == OnceInv /\ [Next]_vars => OnceInv'
<1> SUFFICES ASSUME OnceInv, [Next]_vars PROVE OnceInv'
  OBVIOUS
<1>1. Inv' /\ LimitInv'
  BY NextInv, LimitStep DEF OnceInv
<1>2. CASE Thread
  BY <1>1, <1>2, ThreadOnce DEF OnceInv
<1>3. CASE Handler \/ Leave
  BY <1>1, <1>3, HandlerOnce DEF OnceInv
<1>4. CASE UNCHANGED vars
  <2>1. UNCHANGED <<setup, thread, handler>> /\ UNCHANGED <<setup, thread, heard, voiced>>
    BY <1>4 DEF vars, handler
  <2>2. TellsInv'
    BY <2>1, QuietTells DEF OnceInv
  <2>3. TextOK'
    BY <2>1 DEF OnceInv, TextOK, thread
  <2>4. HeardOnce'
    BY <2>1 DEF OnceInv, HeardOnce, Diverges, Replaced, Foreign, Contradicts, thread, handler
  <2> QED BY <1>1, <2>2, <2>3, <2>4 DEF OnceInv
<1> QED BY <1>2, <1>3, <1>4 DEF Next

LEMMA OnceInit == Init => OnceInv
<1> SUFFICES ASSUME Init PROVE OnceInv
  OBVIOUS
<1>1. Inv /\ LimitInv
  BY InitInv, LimitInit
<1>2. TextOK
  BY NothingIsHarmless DEF Init, TextOK
<1>3. HeardOnce
  BY DEF Init, HeardOnce
<1>4. TellsInv
  <2> DEFINE c == [i \in 0 .. 0 |-> <<>>]
  <2>1. said = <<>> /\ heard = <<>> /\ voiced = <<>> /\ Len(<<>>) = 0
    BY DEF Init
  <2>2. c \in [0 .. 0 -> Texts] /\ c[0] = <<>>
    BY NothingIsHarmless
  <2>3. At(<<>>)
    BY DEF Init, At
  <2> HIDE DEF c
  <2>4. Chain(c, said)
    BY <2>1, <2>2 DEF Chain
  <2>5. voiced = c[Len(heard)] /\ c[Len(said)] = <<>>
    BY <2>1, <2>2
  <2> QED BY <2>3, <2>4, <2>5 DEF TellsInv
<1> QED BY <1>1, <1>2, <1>3, <1>4 DEF OnceInv

\* The listener hears the second unit whole and once: the deltas and the rest that the
\* final event speaks make up the reply, whatever the filters do to its sentences, but
\* for the exceptions that HeardOnce names (api_runtime.py and the coalescer).
THEOREM ReplyIsHeardOnce == Spec => []HeardOnce
<1>1. OnceInv => HeardOnce
  BY DEF OnceInv
<1> QED BY <1>1, OnceInit, OnceStep, PTL DEF Spec

=============================================================================
