---------------------------- MODULE SpokenReply ----------------------------
(***************************************************************************)
(* One progressive reply, from the model's text deltas to the listener.    *)
(*                                                                         *)
(* The turn's thread plans a first unit, opens a stream to the language    *)
(* model, cuts the text into sentences, passes each through the safety     *)
(* gate and the coalescer, and posts what is left to the event loop        *)
(* (expression_engine.generate, claude_client).  A stream that breaks is   *)
(* tried again over another transport, from the beginning of the text and  *)
(* into the same sentence buffer.  The request handler takes the posted    *)
(* events in order, gives each delta a speech stream, and speaks what the  *)
(* deltas have not said when the whole text is known (api_runtime,         *)
(* api_audio).                                                             *)
(*                                                                         *)
(* A text is a sequence of sentences, each a word for what the filters     *)
(* see in it:                                                              *)
(*   plain, other  ordinary and long                                       *)
(*   brief         ordinary, too short to be spoken alone                  *)
(*   gap           as brief, and the text goes on after it as joining does *)
(*                 not write it: after a line break, or a space in a       *)
(*                 Chinese text, or without one in an English text         *)
(*   echo          the first unit over again                               *)
(*   harsh         rewritten by the constitution's filters, into soft      *)
(*   claim         a forbidden claim                                       *)
(*   foreign       in the other language                                   *)
(*   denial        denies the ability the first unit has just affirmed     *)
(*   part          the beginning of a sentence: no boundary yet            *)
(* fallback and question are the engine's own texts.  A sentence ends with *)
(* a mark: a line that only its break ends, which counts as a sentence of  *)
(* the whole text but not of a delta, is left out.                         *)
(***************************************************************************)
EXTENDS Naturals, FiniteSets, Sequences, SequencesExt, Functions

CONSTANTS Kinds,            \* the sentences the model may write
          Wholes,           \* the texts a call without streaming may return
          Tongues,          \* the visitors' languages: "zh", "en", "none"
          MaxDeltas,        \* bound: deltas of all streams of a turn
          MaxSentences      \* _SECOND_UNIT_MAX_SENTENCES

ASSUME SpokenAssumption == MaxDeltas \in Nat /\ MaxSentences \in Nat \ {0}
ASSUME WholesAssumption == \A t \in Wholes : t \in Seq(Range(t))

VARIABLES setup,    \* the client's transport and the visitor's language
          stage,    \* where the turn's thread is
          first,    \* the first unit: "none", "bridge" or "affirming"
          deltas,   \* deltas read so far
          text,     \* the text of this attempt
          feed,     \* the buffers of on_text_delta
          broken,   \* a stream broke after its first delta
          said,     \* the events the thread has posted
          posted,   \* how many of them the event loop has put into the queue
          settled,  \* the event loop has seen the thread's end
          heard,    \* the numbers of the events the handler has yielded
          voiced,   \* the text of the deltas that have a speech stream
          reply,    \* the second unit, once it is known
          rest,     \* what the final event speaks
          stream    \* "open", "complete" or "cut"

thread == <<stage, first, deltas, text, feed, broken, said, reply>>
handler == <<posted, settled, heard, voiced, rest, stream>>
vars == <<setup, thread, handler>>

-----------------------------------------------------------------------------
(* Texts *)

SentenceEnds(t) == {i \in DOMAIN t : t[i] # "part"}
Sentences(t) == Cardinality(SentenceEnds(t))

\* The text up to its n-th sentence end, if anything follows it.
Cap(t, n) ==
    LET ends == {k \in SentenceEnds(t) : Sentences(SubSeq(t, 1, k)) = n}
    IN  IF n = 0 THEN <<>>
        ELSE IF ends = {} THEN t ELSE SubSeq(t, 1, CHOOSE k \in ends : TRUE)

\* The text with what stands between its sentences as joining writes it.
Even(t) == [i \in DOMAIN t |-> IF t[i] = "gap" THEN "brief" ELSE t[i]]

Soften(t) == [i \in DOMAIN t |-> IF t[i] = "harsh" THEN "soft" ELSE t[i]]

\* A Chinese visitor accepts a text with any Chinese in it, an English one a
\* text without; a visitor whose language is not known accepts everything.
Foreign(t) == CASE setup.tongue = "zh" -> t # <<>> /\ Range(t) = {"foreign"}
                [] setup.tongue = "en" -> "foreign" \in Range(t)
                [] OTHER -> FALSE

Contradicts(t) == first = "affirming" /\ "denial" \in Range(t)

RepeatsFirst(t) == first # "none" /\ t # <<>> /\ t[1] = "echo"

Dedupe(t) == IF RepeatsFirst(t) THEN Tail(t) ELSE t

\* A reply that hit the token limit loses what follows its last sentence end.
Trim(t) == IF t # <<>> /\ t[Len(t)] = "part" THEN Front(t) ELSE t

\* What generate makes of the whole text.
SecondUnit(t, truncated) ==
    LET soft == IF truncated THEN Trim(Soften(t)) ELSE Soften(t)
        native == IF Foreign(soft) THEN <<"fallback">> ELSE soft
        mended == IF Contradicts(native) THEN <<"question">> ELSE native
    IN  Cap(Dedupe(mended), MaxSentences)

Fallback == SecondUnit(<<"fallback">>, FALSE)
-----------------------------------------------------------------------------
(* One sentence of the stream *)

NewFeed == [buffer |-> <<>>, pending |-> <<>>, dedupe |-> TRUE,
            stopped |-> FALSE, count |-> 0]

\* The safety gate: what may be said of a sentence, whether anything may be
\* said after it, and whether it must be said at once.
Gate(t, dedupe) ==
    LET soft == Soften(t)
        mended == IF Contradicts(soft) THEN <<"question">> ELSE soft
        clean == IF dedupe THEN Dedupe(mended) ELSE mended
    IN  IF "claim" \in Range(soft) \/ Foreign(soft)
        THEN [text |-> <<>>, stop |-> TRUE, force |-> FALSE]
        ELSE [text |-> clean, stop |-> mended # soft, force |-> soft # t]

\* Fewer than ten characters or six words: at most two short pieces.
Short(t) == Len(t) <= 2 /\ Range(t) \subseteq {"brief", "gap", "part"}

\* Both sides are stripped, and a space comes between them if the text is English.
Join(a, b) == Even(a) \o b

\* Bug: a sentence that must be said at once overtakes the held one for good.
PushForgets(pending, t, force) ==
    LET joined == IF pending = <<>> THEN t ELSE Join(pending, t)
    IN  IF force THEN [out |-> t, pending |-> <<>>]
        ELSE IF Short(joined) THEN [out |-> <<>>, pending |-> joined]
                              ELSE [out |-> joined, pending |-> <<>>]

\* The coalescer: what to say now, and what to hold until the next sentence.
Push(pending, t, force) ==
    LET joined == IF pending = <<>> THEN t ELSE Join(pending, t)
    IN  IF ~force /\ Short(joined) THEN [out |-> <<>>, pending |-> joined]
                                   ELSE [out |-> joined, pending |-> <<>>]

\* The buffers after a sentence t, and what is emitted of it.
Emit(f, t) ==
    LET g == Gate(t, f.dedupe)
        p == Push(f.pending, g.text, g.force \/ g.stop)
        out == Cap(p.out, MaxSentences - f.count)
        count == f.count + Sentences(out)
        full == p.out # <<>> /\ (out # p.out \/ count >= MaxSentences)
        base == [f EXCEPT !.buffer = <<>>, !.stopped = g.stop]
    IN  CASE f.stopped -> [feed |-> [f EXCEPT !.buffer = <<>>], out |-> <<>>]
          [] ~f.stopped /\ g.text = <<>> -> [feed |-> base, out |-> <<>>]
          [] OTHER -> [feed |-> [base EXCEPT !.pending = p.pending, !.dedupe = FALSE,
                                             !.stopped = g.stop \/ full,
                                             !.count = count],
                       out |-> out]

Event(phase, t) == [phase |-> phase, text |-> t]
-----------------------------------------------------------------------------
(* The turn's thread *)

\* What the fast model may answer: "complete" is an answer rather than a first
\* reaction, "repeated" was said a turn ago.
RawFirsts == {"empty", "json", "bridge", "affirming", "complete", "repeated",
              "claim", "foreign"}

\* Answers the engine replaces by a first unit of its own.
Rejected == {"complete", "repeated", "foreign"}

FirstOf(raw) == IF raw \in {"empty", "json", "claim"} THEN "none"
                ELSE IF raw \in Rejected THEN "bridge" ELSE raw

\* The first unit is posted even when it is empty, or suppressed by the gate.
PlanFirst ==
    /\ stage = "start"
    /\ \E f \in {"none"} \cup {FirstOf(raw) : raw \in RawFirsts} :
          /\ first' = f
          /\ said' = Append(said, Event("first_unit", IF f = "none" THEN <<>> ELSE <<"echo">>))
    /\ stage' = "ready"
    /\ UNCHANGED <<deltas, text, feed, reply, broken>>

\* Nothing more is written if the policy is silence, or if the first unit has
\* already answered a plain greeting.
Answered(silent) == silent \/ first # "none"

Skip ==
    /\ stage = "ready"
    /\ \E silent \in BOOLEAN : Answered(silent)
    /\ reply' = <<>>
    /\ stage' = "written"
    /\ UNCHANGED <<first, deltas, text, feed, said, broken>>

OpenStream ==
    /\ stage = "ready"
    /\ stage' = IF setup.client = "endpoint" THEN "http" ELSE "sdk"
    /\ feed' = NewFeed
    /\ UNCHANGED <<first, deltas, text, said, reply, broken>>

Delta(s) ==
    /\ stage \in {"sdk", "http"}
    /\ deltas < MaxDeltas
    /\ s = "part" => feed.buffer = <<>>
    /\ deltas' = deltas + 1
    /\ text' = Append(text, s)
    /\ LET e == IF s = "part" THEN [feed |-> [feed EXCEPT !.buffer = <<s>>], out |-> <<>>]
                              ELSE Emit(feed, Append(feed.buffer, s))
       IN  /\ feed' = e.feed
           /\ said' = IF e.out = <<>> THEN said
                      ELSE Append(said, Event("second_delta", e.out))
    /\ UNCHANGED <<stage, first, reply, broken>>

\* Bug: every attempt gets fresh buffers, and with them a fresh limit.
BreakAfresh ==
    /\ stage \in {"sdk", "http"}
    /\ stage' = IF stage = "sdk" /\ setup.client = "supplier" THEN "http" ELSE "whole"
    /\ text' = <<>>
    /\ broken' = (deltas > 0)
    /\ feed' = NewFeed
    /\ UNCHANGED <<first, deltas, said, reply>>

\* The next transport starts again with an empty text; the buffers of
\* on_text_delta keep what the broken stream has left in them.
Break ==
    /\ stage \in {"sdk", "http"}
    /\ stage' = IF stage = "sdk" /\ setup.client = "supplier" THEN "http" ELSE "whole"
    /\ text' = <<>>
    /\ broken' = (deltas > 0)
    /\ UNCHANGED <<first, deltas, feed, said, reply>>

EndStream ==
    /\ stage \in {"sdk", "http"}
    /\ \E truncated \in BOOLEAN :
          reply' = IF text = <<>> THEN Fallback ELSE SecondUnit(text, truncated)
    /\ stage' = "written"
    /\ UNCHANGED <<first, deltas, text, feed, said, broken>>

\* A call without streaming swallows its errors: no text, and the fallback.
CompleteWhole ==
    /\ stage = "whole"
    /\ \E t \in Wholes \cup {<<>>} :
          /\ text' = t
          /\ reply' = IF t = <<>> THEN Fallback ELSE SecondUnit(t, FALSE)
    /\ stage' = "written"
    /\ UNCHANGED <<first, deltas, feed, said, broken>>

\* The rest of the turn, which may raise, as may what precedes the reply.
Return ==
    /\ stage = "written"
    /\ stage' = "returned"
    /\ UNCHANGED <<first, deltas, text, feed, said, reply, broken>>

Raise ==
    /\ stage \in {"start", "ready", "written"}
    /\ stage' = "raised"
    /\ UNCHANGED <<first, deltas, text, feed, said, reply, broken>>

Thread == /\ \/ PlanFirst \/ Skip \/ OpenStream \/ Break \/ EndStream
             \/ CompleteWhole \/ Return \/ Raise
             \/ \E s \in Kinds : Delta(s)
          /\ UNCHANGED <<setup, handler>>
-----------------------------------------------------------------------------
(* The event loop and the request handler *)

\* call_soon_threadsafe runs the callbacks in the order they were posted; once
\* the stream is closed nobody reads the queue any more.
Post ==
    /\ stream = "open"
    /\ posted < Len(said)
    /\ posted' = posted + 1
    /\ UNCHANGED <<settled, heard, voiced, rest, stream>>

\* The future's own callback was posted last.
Settle ==
    /\ stream = "open"
    /\ stage \in {"returned", "raised"}
    /\ posted = Len(said)
    /\ ~settled
    /\ settled' = TRUE
    /\ UNCHANGED <<posted, heard, voiced, rest, stream>>

\* The handler yields the next event; a delta gets a speech stream.
Take ==
    /\ stream = "open"
    /\ Len(heard) < posted
    /\ LET n == Len(heard) + 1
       IN  /\ heard' = Append(heard, n)
           /\ voiced' = IF said[n].phase = "second_delta"
                        THEN voiced \o said[n].text ELSE voiced
    /\ UNCHANGED <<posted, settled, rest, stream>>

\* Strip the spoken deltas from the final text: one that is not a prefix of what
\* is left leaves nothing to say, so that all of them together must be a prefix.
Remainder(t, spoken) == IF IsPrefix(spoken, t)
                        THEN SubSeq(t, Len(spoken) + 1, Len(t)) ELSE <<>>

\* Bug: the handler stops when the turn is over, whatever is still queued.
DrainedAtOnce == settled

Drained == settled /\ Len(heard) = posted

Final ==
    /\ stream = "open"
    /\ Drained
    /\ stage = "returned"
    /\ rest' = Remainder(reply, voiced)
    /\ stream' = "complete"
    /\ UNCHANGED <<posted, settled, heard, voiced>>

\* A turn that raised ends the stream with an error event.
Fail ==
    /\ stream = "open"
    /\ Drained
    /\ stage = "raised"
    /\ stream' = "cut"
    /\ UNCHANGED <<posted, settled, heard, voiced, rest>>

HangUp ==
    /\ stream = "open"
    /\ stream' = "cut"
    /\ UNCHANGED <<posted, settled, heard, voiced, rest>>

Handler == /\ Post \/ Settle \/ Take \/ Final \/ Fail
           /\ UNCHANGED <<setup, thread>>

Leave == HangUp /\ UNCHANGED <<setup, thread>>

\* An official key, a supplier's token with a base URL, a messages endpoint.
Clients == {"sdk", "supplier", "endpoint"}

Init ==
    /\ setup \in [client : Clients, tongue : Tongues]
    /\ stage = "start" /\ first = "none" /\ deltas = 0 /\ text = <<>>
    /\ feed = NewFeed /\ broken = FALSE /\ said = <<>> /\ reply = <<>>
    /\ posted = 0 /\ settled = FALSE /\ heard = <<>> /\ voiced = <<>>
    /\ rest = <<>> /\ stream = "open"

Next == Thread \/ Handler \/ Leave

Spec == Init /\ [][Next]_vars

-----------------------------------------------------------------------------
(* Properties *)

\* What a delta may hold after the first unit that has been said, and the
\* sentences of all deltas, each by its delta and its place there.
Harmless(t) ==
    /\ Range(t) \cap {"claim", "harsh"} = {}
    /\ first = "affirming" => "denial" \notin Range(t)

Spoken == UNION {{i} \X SentenceEnds(said[i].text) : i \in 2 .. Len(said)}

\* Whatever breaks and is tried again, the deltas of a turn hold no forbidden
\* claim, nothing the constitution rewrites, and no more than three sentences;
\* what the first unit has just affirmed is not denied in them.  Of the rest that the
\* final event speaks nothing of the kind holds: generate only logs a forbidden claim
\* left in the whole text, which config/constitution.yaml:6 never wants to appear.
DeltasKeepTheLimits ==
    /\ \A i \in 2 .. Len(said) : Harmless(said[i].text)
    /\ Cardinality(Spoken) <= MaxSentences

\* The listener hears the second unit whole, once and in its order: what the
\* deltas have said and the rest that the final event speaks make up the reply.
\* Excepted are replies of which a delta was spoken and that do not continue it
\* letter by letter: after a stream that broke, where the whole text was replaced,
\* where a short sentence may be joined otherwise than it was written, and where
\* the text begins with the first unit twice over.  The handler then speaks no rest,
\* although docs/progress.md:864 says that what the deltas have not covered is spoken.
Replaced == Foreign(Soften(text)) \/ Contradicts(text)
Diverges ==
    \/ broken \/ Replaced
    \/ "gap" \in Range(text)
    \/ Len(text) > 1 /\ text[1] = "echo" /\ text[2] = "echo"
HeardOnce ==
    stream = "complete" /\ (voiced # <<>> => ~Diverges) => voiced \o rest = reply

\* The progressive stream is an ordered delivery without loss: events are
\* yielded in the order they were emitted, none twice, and the final event only
\* after the last of them; a stream that raised or was left is cut.
Delivery == INSTANCE OrderedDelivery
    WITH MayLose <- FALSE, said <- Len(said), heard <- heard, outcome <- stream
DeliveryIsOrdered == Delivery!Spec

=============================================================================
