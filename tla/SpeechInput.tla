---------------------------- MODULE SpeechInput ----------------------------
(***************************************************************************)
(* Transcription over a WebSocket (api_audio.audio_stt_stream): a producer *)
(* task receives audio frames into a bounded queue, a consumer task feeds  *)
(* them to the recogniser and sends back what it hears, and the handler    *)
(* waits for the first of the two to finish.  A full queue loses its       *)
(* oldest frame.  The number of sessions is limited                        *)
(* (AudioManager.create_stt_session).                                      *)
(*                                                                         *)
(* A frame is its number in the order of arrival.  The stop mark, which is *)
(* put last, is a flag beside the queue.  What the recogniser says is left *)
(* out; that a transcript may be sent to a page that has gone is not.      *)
(***************************************************************************)
EXTENDS Naturals, Sequences, FiniteSets

CONSTANTS Pages,            \* the pages that ask for transcription
          QueueMax,         \* AudioConfig.queue_max_chunks
          MaxSessions,      \* AudioConfig.max_active_sessions
          MaxFrames         \* bound: frames a page sends

ASSUME SpeechAssumption == /\ IsFiniteSet(Pages)
                           /\ QueueMax \in Nat \ {0}
                           /\ MaxSessions \in Nat
                           /\ MaxFrames \in Nat

VARIABLES page,     \* "away", "here" or "gone", as the network knows it
          handler,  \* "idle", "waiting", "joining" or "over"
          producer, \* "none", "receiving", "warning", "done", "failed" or "cancelled"
          consumer, \* "none", "running", "finishing", "done", "closed" or "failed"
          arrived,  \* frames received from the page
          queue,    \* the frames in the queue
          stop,     \* the stop mark is in the queue
          held,     \* the producer still has to put frame number arrived
          fed,      \* the frames given to the recogniser
          sessions  \* AudioManager.active_stt_sessions

tasks == <<producer, consumer>>
frames == <<arrived, queue, stop, held, fed>>
vars == <<page, handler, tasks, frames, sessions>>

Init ==
    /\ page = [c \in Pages |-> "away"] /\ handler = [c \in Pages |-> "idle"]
    /\ producer = [c \in Pages |-> "none"] /\ consumer = [c \in Pages |-> "none"]
    /\ arrived = [c \in Pages |-> 0] /\ queue = [c \in Pages |-> <<>>]
    /\ stop = [c \in Pages |-> FALSE] /\ held = [c \in Pages |-> FALSE]
    /\ fed = [c \in Pages |-> <<>>] /\ sessions = {}

-----------------------------------------------------------------------------
(* The page *)

Connect(c) ==
    /\ page[c] = "away"
    /\ page' = [page EXCEPT ![c] = "here"]
    /\ UNCHANGED <<handler, tasks, frames, sessions>>

Leave(c) ==
    /\ page[c] = "here"
    /\ page' = [page EXCEPT ![c] = "gone"]
    /\ UNCHANGED <<handler, tasks, frames, sessions>>

-----------------------------------------------------------------------------
(* The handler *)

\* The first message is no start, or too many sessions are active.
Refuse(c) ==
    /\ handler[c] = "idle" /\ page[c] # "away"
    /\ handler' = [handler EXCEPT ![c] = "over"]
    /\ UNCHANGED <<page, tasks, frames, sessions>>

Start(c) ==
    /\ handler[c] = "idle" /\ page[c] = "here"
    /\ Cardinality(sessions) < MaxSessions
    /\ sessions' = sessions \cup {c}
    /\ handler' = [handler EXCEPT ![c] = "waiting"]
    /\ producer' = [producer EXCEPT ![c] = "receiving"]
    /\ consumer' = [consumer EXCEPT ![c] = "running"]
    /\ UNCHANGED <<page, frames>>

Ended(c) == consumer[c] \in {"done", "closed", "failed"}

\* finish_stt_session, whatever the handler returns by.
Finish(c) ==
    /\ handler' = [handler EXCEPT ![c] = "over"]
    /\ sessions' = sessions \ {c}

\* The producer has finished first, or at the same time: wait for the consumer.
Join(c) ==
    /\ handler[c] = "waiting" /\ producer[c] = "done"
    /\ handler' = [handler EXCEPT ![c] = "joining"]
    /\ UNCHANGED <<page, tasks, frames, sessions>>

Joined(c) ==
    /\ handler[c] = "joining" /\ Ended(c)
    /\ Finish(c)
    /\ UNCHANGED <<page, tasks, frames>>

\* Bug: the session is given back only where the handler returns normally.
ProducerFailedKeeps(c) ==
    /\ handler[c] = "waiting" /\ producer[c] = "failed"
    /\ handler' = [handler EXCEPT ![c] = "over"]
    /\ UNCHANGED <<page, tasks, frames, sessions>>

\* A warning could not be sent: the handler returns, and nobody tells the consumer.
ProducerFailed(c) ==
    /\ handler[c] = "waiting" /\ producer[c] = "failed"
    /\ Finish(c)
    /\ UNCHANGED <<page, tasks, frames>>

\* The consumer has finished first.  The producer is cancelled, unless the
\* consumer's exception is raised before that.
ConsumerFirst(c) ==
    /\ handler[c] = "waiting" /\ Ended(c) /\ producer[c] \in {"receiving", "warning"}
    /\ producer' = IF consumer[c] = "failed" THEN producer
                   ELSE [producer EXCEPT ![c] = "cancelled"]
    /\ Finish(c)
    /\ UNCHANGED <<page, consumer, frames>>

-----------------------------------------------------------------------------
(* The producer *)

\* The socket is open at both ends.
Open(c) == page[c] = "here" /\ handler[c] # "over"

Full(c) == Len(queue[c]) = QueueMax

\* Bug: a full queue is noticed only by the warning, the frame is put all the same.
FrameAlways(c) ==
    /\ producer[c] = "receiving" /\ Open(c) /\ arrived[c] < MaxFrames
    /\ arrived' = [arrived EXCEPT ![c] = @ + 1]
    /\ queue' = [queue EXCEPT ![c] = Append(@, arrived[c] + 1)]
    /\ held' = [held EXCEPT ![c] = FALSE]
    /\ producer' = [producer EXCEPT ![c] = IF Full(c) THEN "warning" ELSE @]
    /\ UNCHANGED <<page, handler, consumer, stop, fed, sessions>>

\* A frame is put at once, or displaces the oldest one and is put when the
\* warning has been sent.
Frame(c) ==
    /\ producer[c] = "receiving" /\ Open(c) /\ arrived[c] < MaxFrames
    /\ arrived' = [arrived EXCEPT ![c] = @ + 1]
    /\ queue' = [queue EXCEPT ![c] = IF Full(c) THEN Tail(@)
                                     ELSE Append(@, arrived[c] + 1)]
    /\ held' = [held EXCEPT ![c] = Full(c)]
    /\ producer' = [producer EXCEPT ![c] = IF Full(c) THEN "warning" ELSE @]
    /\ UNCHANGED <<page, handler, consumer, stop, fed, sessions>>

Warned(c) ==
    /\ producer[c] = "warning" /\ Open(c)
    /\ queue' = [queue EXCEPT ![c] = Append(@, arrived[c])]
    /\ held' = [held EXCEPT ![c] = FALSE]
    /\ producer' = [producer EXCEPT ![c] = "receiving"]
    /\ UNCHANGED <<page, handler, consumer, arrived, stop, fed, sessions>>

WarningFails(c) ==
    /\ producer[c] = "warning" /\ ~Open(c)
    /\ producer' = [producer EXCEPT ![c] = "failed"]
    /\ UNCHANGED <<page, handler, consumer, frames, sessions>>

\* A stop message, a page that has gone, or a socket the handler has closed.
PutStop(c) ==
    /\ producer[c] = "receiving"
    /\ queue' = [queue EXCEPT ![c] = IF Full(c) THEN Tail(@) ELSE @]
    /\ stop' = [stop EXCEPT ![c] = TRUE]
    /\ producer' = [producer EXCEPT ![c] = "done"]
    /\ UNCHANGED <<page, handler, consumer, arrived, held, fed, sessions>>

-----------------------------------------------------------------------------
(* The consumer *)

\* Bug: the frame is taken off the queue only when the recogniser has confirmed it.
FeedAgain(c) ==
    /\ consumer[c] = "running" /\ queue[c] # <<>>
    /\ fed' = [fed EXCEPT ![c] = Append(@, Head(queue[c]))]
    /\ \E confirmed \in BOOLEAN :
          queue' = [queue EXCEPT ![c] = IF confirmed THEN Tail(@) ELSE @]
    /\ Len(fed[c]) < MaxFrames
    /\ UNCHANGED <<page, handler, tasks, arrived, stop, held, sessions>>

Feed(c) ==
    /\ consumer[c] = "running" /\ queue[c] # <<>>
    /\ fed' = [fed EXCEPT ![c] = Append(@, Head(queue[c]))]
    /\ queue' = [queue EXCEPT ![c] = Tail(@)]
    /\ UNCHANGED <<page, handler, tasks, arrived, stop, held, sessions>>

\* The stop mark: the final packet is sent, and its answers are awaited.
TakeStop(c) ==
    /\ consumer[c] = "running" /\ queue[c] = <<>> /\ stop[c]
    /\ stop' = [stop EXCEPT ![c] = FALSE]
    /\ consumer' = [consumer EXCEPT ![c] = "finishing"]
    /\ UNCHANGED <<page, handler, producer, arrived, queue, held, fed, sessions>>

\* A final transcript, two seconds without one, or an error.
Finished(c) ==
    /\ consumer[c] = "finishing"
    /\ consumer' = [consumer EXCEPT ![c] = "done"]
    /\ UNCHANGED <<page, handler, producer, frames, sessions>>

\* The recogniser closes the stream, or a transcript cannot be sent.
Closed(c) ==
    /\ consumer[c] = "running"
    /\ consumer' = [consumer EXCEPT ![c] = "closed"]
    /\ UNCHANGED <<page, handler, producer, frames, sessions>>

Failed(c) ==
    /\ consumer[c] = "running"
    /\ consumer' = [consumer EXCEPT ![c] = "failed"]
    /\ UNCHANGED <<page, handler, producer, frames, sessions>>

-----------------------------------------------------------------------------
Serve(c) == Join(c) \/ Joined(c) \/ ProducerFailed(c) \/ ConsumerFirst(c)
Receive(c) == Frame(c) \/ Warned(c) \/ WarningFails(c) \/ PutStop(c)
Consume(c) == Feed(c) \/ TakeStop(c) \/ Finished(c) \/ Closed(c) \/ Failed(c)

Next == \E c \in Pages :
    \/ Connect(c) \/ Leave(c) \/ Refuse(c) \/ Start(c)
    \/ Serve(c) \/ Receive(c) \/ Consume(c)

Spec == Init /\ [][Next]_vars

\* A page may stay and say nothing for ever.  The event loop runs every task
\* that can go on; a read on a socket whose page has gone returns.
Fairness == \A c \in Pages :
    /\ WF_vars(Serve(c))
    /\ WF_vars(Warned(c) \/ WarningFails(c))
    /\ WF_vars(page[c] = "gone" /\ PutStop(c))
    /\ WF_vars(Feed(c) \/ TakeStop(c) \/ Finished(c))

FairSpec == Spec /\ Fairness
-----------------------------------------------------------------------------
(* Properties *)

\* Type correctness, and the limits: queue and stop mark fit into the queue, so
\* that neither put ever waits, and the sessions fit into theirs.
SpeechTypeOK ==
    /\ page \in [Pages -> {"away", "here", "gone"}]
    /\ handler \in [Pages -> {"idle", "waiting", "joining", "over"}]
    /\ producer \in [Pages -> {"none", "receiving", "warning", "done", "failed", "cancelled"}]
    /\ consumer \in [Pages -> {"none", "running", "finishing", "done", "closed", "failed"}]
    /\ arrived \in [Pages -> Nat]
    /\ queue \in [Pages -> Seq(Nat)] /\ fed \in [Pages -> Seq(Nat)]
    /\ stop \in [Pages -> BOOLEAN] /\ held \in [Pages -> BOOLEAN]
    /\ sessions \in SUBSET Pages
    /\ \A c \in Pages : Len(queue[c]) + (IF stop[c] \/ held[c] THEN 1 ELSE 0) <= QueueMax
    /\ Cardinality(sessions) <= MaxSessions

\* How the stream of a page's frames looks to the recogniser.
Outcome(c) == CASE consumer[c] \in {"none", "running"} -> "open"
                [] consumer[c] \in {"finishing", "done"} -> "complete"
                [] OTHER -> "cut"

Delivery(c) == INSTANCE OrderedDelivery
    WITH MayLose <- TRUE, said <- arrived[c], heard <- fed[c], outcome <- Outcome(c)

\* The recogniser gets the frames in the order of their arrival, none twice,
\* whatever the queue has lost: the transcription implements OrderedDelivery.
FramesAreOrdered ==
    /\ \A c \in Pages : Delivery(c)!Init
    /\ [][\A c \in Pages : [Delivery(c)!Next]_(Delivery(c)!vars)]_vars

\* When the page has gone, its session is given back and its consumer ends; only
\* a producer whose last warning found nobody leaves a consumer behind.
LeavingEndsTheSession ==
    \A c \in Pages : page[c] = "gone" ~>
        c \notin sessions /\ (consumer[c] \in {"running", "finishing"} => producer[c] = "failed")
=============================================================================
