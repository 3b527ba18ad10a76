------------------------ MODULE ParserThread_proofs ------------------------
(***************************************************************************)
(* Proofs about ParserThread and Decoder, for any mount points, sizes and  *)
(* streams: the decoder's steps are the parser thread's, a thread that has  *)
(* ended is not subscribed, and one that is ready misses nothing of its    *)
(* source's stream and decodes every frame of it that it reads to its end, *)
(* unless junk looks like a frame's beginning.  Whatever a thread reads,    *)
(* its result is what the station said in the frames that were decoded.     *)
(***************************************************************************)
EXTENDS Decoder, FiniteSetTheorems, SequenceTheorems, WellFoundedInduction, TLAPS

(* Subscribed are threads from their subscription to their clean-up.  That  *)
(* is EndedIsUnsubscribed for the steps before the subscription as well.    *)
SubscribedIsAlive ==
    \A m \in subscribed : thread[m] \in {"subscribed", "reading", "deaf", "leaving"}

(* A mount point's correction is started before anything else is.           *)
AcceptedHasNoThread ==
    \A m \in Mount : handler[m] = "accepted" => thread[m] = "none"

IInv == TypeOK /\ AcceptedHasNoThread /\ SubscribedIsAlive

LEMMA TypeInit == Init => TypeOK
BY ParserThreadAssumption DEF Init, TypeOK

LEMMA TypeStep == TypeOK /\ [Next]_vars => TypeOK'
<1> SUFFICES ASSUME TypeOK, [Next]_vars PROVE TypeOK'
  OBVIOUS
<1> USE ParserThreadAssumption DEF TypeOK, threadVars, handlerVars, Looping, At, Complete
<1>1. CASE UNCHANGED vars
  BY <1>1 DEF vars
<1>2. ASSUME NEW m \in Mount, StartParser(m) PROVE TypeOK'
  BY <1>2 DEF StartParser
<1>3. ASSUME NEW m \in Mount, AcceptOnly(m) PROVE TypeOK'
  BY <1>3 DEF AcceptOnly
<1>4. ASSUME NEW m \in Mount, StartWeb(m) PROVE TypeOK'
  BY <1>4 DEF StartWeb
<1>5. ASSUME NEW m \in Mount, WaitForStartup(m) PROVE TypeOK'
  BY <1>5 DEF WaitForStartup
<1>6. ASSUME NEW m \in Mount, Upload(m) PROVE TypeOK'
  BY <1>6 DEF Upload
<1>7. ASSUME NEW m \in Mount, TakeLock(m) PROVE TypeOK'
  BY <1>7 DEF TakeLock
<1>8. ASSUME NEW m \in Mount, Deliver(m) PROVE TypeOK'
  BY <1>8 DEF Deliver
<1>9. ASSUME NEW m \in Mount, Starting(m) PROVE TypeOK'
  BY <1>9 DEF Starting, MakeReader, CheckRunning, Subscribe, AnnounceReady
<1>10. ASSUME NEW m \in Mount, Read(m) PROVE TypeOK'
  BY <1>10 DEF Read
<1>11. ASSUME NEW m \in Mount, Silence(m) \/ DurationOver(m) \/ LoopEnds(m) \/ Ending(m)
       PROVE  TypeOK'
  BY <1>11 DEF Silence, DurationOver, LoopEnds, Ending, Unsubscribe, ClosePair
<1>12. ASSUME NEW m \in Mount, StopClears(m) PROVE TypeOK'
  BY <1>12 DEF StopClears
<1>13. ASSUME NEW m \in Mount, StopCompletes(m) PROVE TypeOK'
  BY <1>13 DEF StopCompletes
<1> QED
  BY <1>1, <1>2, <1>3, <1>4, <1>5, <1>6, <1>7, <1>8, <1>9, <1>10, <1>11, <1>12, <1>13
     DEF Next, ThreadStep, HandlerStep

(* Only Subscribe adds to the subscribers, and whoever leaves the four      *)
(* steps of a subscribed thread has just unsubscribed.                     *)
LEMMA AliveStep == IInv /\ [Next]_vars => SubscribedIsAlive'
<1> SUFFICES ASSUME IInv, [Next]_vars PROVE SubscribedIsAlive'
  OBVIOUS
<1> USE DEF IInv, TypeOK, SubscribedIsAlive, threadVars, handlerVars, Looping, At
<1>1. CASE UNCHANGED vars
  BY <1>1 DEF vars
<1>2. ASSUME NEW m \in Mount, Starting(m) PROVE SubscribedIsAlive'
  <2>1. CASE MakeReader(m)
    BY <2>1 DEF MakeReader
  <2>2. CASE CheckRunning(m)
    BY <2>2 DEF CheckRunning
  <2>3. CASE Subscribe(m)
    BY <2>3 DEF Subscribe
  <2>4. CASE AnnounceReady(m)
    BY <2>4 DEF AnnounceReady
  <2> QED
    BY <1>2, <2>1, <2>2, <2>3, <2>4 DEF Starting
<1>3. ASSUME NEW m \in Mount, Read(m) \/ Silence(m) \/ DurationOver(m) \/ LoopEnds(m) \/ Ending(m)
      PROVE  SubscribedIsAlive'
  BY <1>3 DEF Read, Silence, DurationOver, LoopEnds, Ending, Unsubscribe, ClosePair
<1>4. ASSUME NEW m \in Mount, HandlerStep(m) PROVE SubscribedIsAlive'
  <2>1. CASE StartParser(m)
    BY <2>1 DEF StartParser, AcceptedHasNoThread
  <2>2. CASE AcceptOnly(m) \/ WaitForStartup(m) \/ TakeLock(m)
    BY <2>2 DEF AcceptOnly, WaitForStartup, TakeLock
  <2>3. CASE Deliver(m)
    BY <2>3 DEF Deliver
  <2> QED
    BY <1>4, <2>1, <2>2, <2>3 DEF HandlerStep
<1>5. ASSUME NEW m \in Mount,
             StartWeb(m) \/ Upload(m) \/ StopClears(m) \/ StopCompletes(m)
      PROVE  SubscribedIsAlive'
  BY <1>5 DEF StartWeb, Upload, StopClears, StopCompletes
<1> QED
  BY <1>1, <1>2, <1>3, <1>4, <1>5 DEF Next, ThreadStep

LEMMA AcceptedStep == IInv /\ [Next]_vars => AcceptedHasNoThread'
<1> SUFFICES ASSUME IInv, [Next]_vars PROVE AcceptedHasNoThread'
  OBVIOUS
<1> USE DEF IInv, TypeOK, AcceptedHasNoThread, threadVars, handlerVars, Looping, At
<1>1. CASE UNCHANGED vars
  BY <1>1 DEF vars
<1>2. ASSUME NEW m \in Mount, Starting(m) PROVE AcceptedHasNoThread'
  BY <1>2 DEF Starting, MakeReader, CheckRunning, Subscribe, AnnounceReady
<1>3. ASSUME NEW m \in Mount, Read(m) \/ Silence(m) \/ DurationOver(m) \/ LoopEnds(m) \/ Ending(m)
      PROVE  AcceptedHasNoThread'
  BY <1>3 DEF Read, Silence, DurationOver, LoopEnds, Ending, Unsubscribe, ClosePair
<1>4. ASSUME NEW m \in Mount, HandlerStep(m) PROVE AcceptedHasNoThread'
  BY <1>4 DEF HandlerStep, StartParser, AcceptOnly, WaitForStartup, TakeLock, Deliver
<1>5. ASSUME NEW m \in Mount,
             StartWeb(m) \/ Upload(m) \/ StopClears(m) \/ StopCompletes(m)
      PROVE  AcceptedHasNoThread'
  BY <1>5 DEF StartWeb, Upload, StopClears, StopCompletes
<1> QED
  BY <1>1, <1>2, <1>3, <1>4, <1>5 DEF Next, ThreadStep

LEMMA InvHolds == Spec => []IInv
<1>1. Init => IInv
  BY TypeInit DEF Init, IInv, AcceptedHasNoThread, SubscribedIsAlive
<1>2. IInv /\ [Next]_vars => IInv'
  BY TypeStep, AcceptedStep, AliveStep DEF IInv
<1> QED
  BY <1>1, <1>2, PTL DEF Spec

(* The variables of every parser thread have their types, whatever its      *)
(* start, the failures, stops and time-outs were.                           *)
THEOREM TypesHold == Spec => []TypeOK
<1>1. IInv => TypeOK
  BY DEF IInv
<1> QED
  BY <1>1, InvHolds, PTL

(* Nobody sends to the pair of a thread that is past its clean-up (run in   *)
(* rtcm2.py, unregister_subscriber in forwarder.py).                       *)
THEOREM EndedThreadsAreUnsubscribed == Spec => []EndedIsUnsubscribed
<1>1. IInv => EndedIsUnsubscribed
  BY DEF IInv, SubscribedIsAlive, EndedIsUnsubscribed
<1> QED
  BY <1>1, InvHolds, PTL

----------------------------------------------------------------------------
(* What a thread does with its stream: every step of Decoder is one of      *)
(* ParserThread for the same mount point, or leaves its variables alone.    *)
LEMMA DecoderStep == DecoderNext => Next \/ UNCHANGED vars
<1> SUFFICES ASSUME NEW m \in Mount,
                    \/ StartStrFix(m) \/ Accept(m) \/ StartForPage(m) \/ UploadChunk(m)
                    \/ DeliverChunk(m) \/ Reading(m) \/ TimeOut(m) \/ Control(m)
             PROVE  Next \/ UNCHANGED vars
  BY DEF DecoderNext
<1>1. CASE StartStrFix(m) \/ Accept(m) \/ StartForPage(m)
  BY <1>1 DEF StartStrFix, Accept, StartForPage, Next, HandlerStep
<1>2. CASE UploadChunk(m)
  BY <1>2 DEF UploadChunk, Next
<1>3. CASE DeliverChunk(m)
  BY <1>3 DEF DeliverChunk, Next, HandlerStep
<1>4. CASE EnterRead(m) \/ Parse(m)
  BY <1>4 DEF EnterRead, Parse
<1>5. CASE Fill(m) \/ Leave(m)
  BY <1>5 DEF Fill, Leave, Next, ThreadStep
<1>6. CASE TimeOut(m)
  BY <1>6 DEF TimeOut, Next
<1>7. CASE Control(m)
  BY <1>7 DEF Control, Next, ThreadStep, HandlerStep
<1> QED
  BY <1>1, <1>2, <1>3, <1>4, <1>5, <1>6, <1>7 DEF Reading

(* The detailed thread implements the thread of ParserThread.               *)
THEOREM DecoderIsParserThread == DecoderSpec => Spec
<1>1. DecoderInit => Init
  BY DEF DecoderInit
<1>2. [DecoderNext]_allVars => [Next]_vars
  BY DecoderStep DEF allVars
<1> QED
  BY <1>1, <1>2, PTL DEF DecoderSpec, Spec

(* So its threads are unsubscribed when they end, whatever they read.       *)
THEOREM DecoderEndsUnsubscribed == DecoderSpec => []EndedIsUnsubscribed
BY DecoderIsParserThread, EndedThreadsAreUnsubscribed, PTL

----------------------------------------------------------------------------
(* Up to the handler's wait for the start nothing has been sent, and nobody *)
(* has been told how the start went.                                       *)
NothingSentBeforeStart(m) ==
    handler[m] \in {"accepted", "waiting"} =>
        told[m] = "nothing" /\ given[m] = 0 /\ queue[m] = <<>> /\ buf[m].to = 0

(* Who was told "ready" was told what the parser's start has ended with,    *)
(* and a start that is ready is that of a thread which has subscribed.     *)
ToldIsStartup(m) == told[m] = "ready" => startup[m] = "ready"
ReadyHasSubscribed(m) ==
    startup[m] = "ready" => thread[m] \in {"reading", "deaf", "leaving", "closing", "ended"}

(* The queue is a sequence of as many chunks as the pair holds.  The        *)
(* numbers in them come from the stream, whose length is a matter of the    *)
(* station's encoder.                                                      *)
IsChunk(c) == c = [from |-> c.from, to |-> c.to]
QueueIsPipe(m) ==
    /\ queue[m] \in Seq(Range(queue[m])) /\ Len(queue[m]) = pipe[m]
    /\ \A k \in 1 .. Len(queue[m]) : IsChunk(queue[m][k])

(* ReadyMissesNothing, of one mount point.                                  *)
NothingMissed(m) == (told[m] = "ready" /\ m \in subscribed) => Adjacent(m)

(* What is said of a mount point's stream, and of the functions that hold   *)
(* the streams of all of them.                                             *)
StreamOf(m) ==
    /\ NothingSentBeforeStart(m) /\ ToldIsStartup(m) /\ ReadyHasSubscribed(m)
    /\ QueueIsPipe(m) /\ NothingMissed(m)

PerMount ==
    /\ given = [m \in Mount |-> given[m]]
    /\ queue = [m \in Mount |-> queue[m]]
    /\ buf = [m \in Mount |-> buf[m]] /\ \A m \in Mount : IsChunk(buf[m])

DecoderIInv == PerMount /\ \A m \in Mount : StreamOf(m)

(* The sequences that the queue and what lies ahead of the reader are, and  *)
(* what Fill, Deliver and Parse make of them.                              *)
LEMMA SeqOfItsRange ==
    ASSUME NEW S, NEW s \in Seq(S)
    PROVE  s \in Seq(Range(s))
<1>1. DOMAIN s = 1 .. Len(s) /\ Len(s) \in Nat
  OBVIOUS
<1>2. \A k \in 1 .. Len(s) : s[k] \in Range(s)
  BY <1>1 DEF Range
<1>3. s = [k \in 1 .. Len(s) |-> s[k]]
  OBVIOUS
<1>4. s \in [1 .. Len(s) -> Range(s)]
  BY <1>2, <1>3
<1> QED
  BY <1>1, <1>4 DEF Seq

(* Taking the first chunk, and adding one. *)
LEMMA TailIsSeq ==
    ASSUME NEW q, q \in Seq(Range(q)), Len(q) > 0
    PROVE  /\ Tail(q) \in Seq(Range(Tail(q))) /\ Len(Tail(q)) = Len(q) - 1
           /\ \A k \in 1 .. Len(q) - 1 : Tail(q)[k] = q[k + 1]
<1>1. /\ Tail(q) \in Seq(Range(q)) /\ Len(Tail(q)) = Len(q) - 1
      /\ \A k \in 1 .. Len(q) - 1 : Tail(q)[k] = q[k + 1]
  OBVIOUS
<1> QED
  BY <1>1, SeqOfItsRange

LEMMA AppendIsSeq ==
    ASSUME NEW q, NEW e, q \in Seq(Range(q))
    PROVE  /\ Append(q, e) \in Seq(Range(Append(q, e))) /\ Len(Append(q, e)) = Len(q) + 1
           /\ \A k \in 1 .. Len(q) : Append(q, e)[k] = q[k]
           /\ Append(q, e)[Len(q) + 1] = e
<1>1. q \in Seq(Range(q) \cup {e})
  <2>1. \A k \in 1 .. Len(q) : q[k] \in Range(q) \cup {e}
    OBVIOUS
  <2> QED
    BY <2>1
<1>2. /\ Append(q, e) \in Seq(Range(q) \cup {e}) /\ Len(Append(q, e)) = Len(q) + 1
      /\ \A k \in 1 .. Len(q) : Append(q, e)[k] = q[k]
      /\ Append(q, e)[Len(q) + 1] = e
  BY <1>1
<1> QED
  BY <1>2, SeqOfItsRange

(* Adjacent says that each chunk of the queue begins where the one before   *)
(* it, or the buffer, ends, and that the last one ends where the source is. *)
EndOf(b, q, k) == IF k = 0 THEN b.to ELSE q[k].to
Chained(b, q, g) ==
    /\ \A k \in 1 .. Len(q) : q[k].from = EndOf(b, q, k - 1) + 1
    /\ EndOf(b, q, Len(q)) = g

AdjacentTo(b, q, g) ==
    LET ahead == <<b>> \o q IN
    /\ \A k \in 1 .. Len(ahead) - 1 : ahead[k + 1].from = ahead[k].to + 1
    /\ Last(ahead).to = g

(* Adjacent, now and after a step, as a statement about three values.       *)
LEMMA AdjacentIs == \A m \in Mount : Adjacent(m) <=> AdjacentTo(buf[m], queue[m], given[m])
BY DEF Adjacent, Ahead, AdjacentTo

LEMMA AdjacentIsNext == \A m \in Mount : Adjacent(m)' <=> AdjacentTo(buf'[m], queue'[m], given'[m])
BY DEF Adjacent, Ahead, AdjacentTo

(* The buffer in front of the queue is a sequence, whose elements are the   *)
(* buffer and the queue's.                                                 *)
LEMMA AdjacentIsChained ==
    ASSUME NEW b, NEW q, NEW g, q \in Seq(Range(q))
    PROVE  AdjacentTo(b, q, g) <=> Chained(b, q, g)
<1> DEFINE a == <<b>> \o q
           S == Range(q) \cup {b}
<1>1. /\ a \in Seq(S) /\ Len(a) = Len(q) + 1
      /\ a[1] = b /\ \A k \in 1 .. Len(q) : a[k + 1] = q[k]
  <2>1. q \in Seq(S) /\ <<b>> \in Seq(S) /\ Len(<<b>>) = 1
    <3>1. \A k \in 1 .. Len(q) : q[k] \in S
      OBVIOUS
    <3> QED
      BY <3>1
  <2>2. a \in Seq(S) /\ Len(a) = Len(<<b>>) + Len(q)
    BY <2>1, ConcatProperties
  <2> QED
    BY <2>1, <2>2, ConcatProperties
<1>2. Last(a) = a[Len(a)]
  BY DEF Last
<1>3. \A k \in 1 .. Len(q) : a[k].to = EndOf(b, q, k - 1)
  BY <1>1 DEF EndOf
<1>4. Last(a).to = EndOf(b, q, Len(q))
  BY <1>1, <1>2 DEF EndOf
<1>5. \A k \in 1 .. Len(q) : a[k + 1].from = a[k].to + 1 <=> q[k].from = EndOf(b, q, k - 1) + 1
  BY <1>1, <1>3
<1>6. Len(a) - 1 = Len(q)
  BY <1>1
<1> QED
  BY <1>4, <1>5, <1>6 DEF Chained, AdjacentTo

(* The chain stays one when the buffer takes its first chunk, when a chunk  *)
(* is sent after it, and when the buffer is read, which moves its beginning. *)
LEMMA ChainIsTaken ==
    ASSUME NEW b, NEW q, NEW g, q \in Seq(Range(q)), Len(q) > 0, Chained(b, q, g)
    PROVE  Chained(Head(q), Tail(q), g)
<1>1. /\ Head(q) = q[1] /\ Len(Tail(q)) = Len(q) - 1
      /\ \A k \in 1 .. Len(q) - 1 : Tail(q)[k] = q[k + 1]
  BY TailIsSeq
<1>2. Len(q) \in Nat \ {0}
  OBVIOUS
<1>3. \A k \in 0 .. Len(q) - 1 : EndOf(Head(q), Tail(q), k) = EndOf(b, q, k + 1)
  BY <1>1, <1>2 DEF EndOf
<1>4. \A k \in 1 .. Len(q) - 1 : Tail(q)[k].from = EndOf(Head(q), Tail(q), k - 1) + 1
  <2> TAKE k \in 1 .. Len(q) - 1
  <2>1. q[k + 1].from = EndOf(b, q, (k + 1) - 1) + 1
    BY <1>2 DEF Chained
  <2>2. EndOf(Head(q), Tail(q), k - 1) = EndOf(b, q, k) /\ (k + 1) - 1 = k
    BY <1>2, <1>3
  <2> QED
    BY <1>1, <2>1, <2>2
<1>5. EndOf(Head(q), Tail(q), Len(q) - 1) = g
  BY <1>2, <1>3 DEF Chained
<1> QED
  BY <1>1, <1>4, <1>5 DEF Chained

LEMMA ChainIsSentTo ==
    ASSUME NEW b, NEW q, NEW g, NEW n, q \in Seq(Range(q)), Chained(b, q, g)
    PROVE  Chained(b, Append(q, [from |-> g + 1, to |-> g + n]), g + n)
<1> DEFINE c == [from |-> g + 1, to |-> g + n]
           r == Append(q, c)
<1>1. /\ Len(r) = Len(q) + 1 /\ r[Len(q) + 1] = c /\ Len(q) \in Nat
      /\ \A k \in 1 .. Len(q) : r[k] = q[k]
  BY AppendIsSeq
<1>2. c.from = g + 1 /\ c.to = g + n
  OBVIOUS
<1> HIDE DEF c, r
<1>3. \A k \in 0 .. Len(q) : EndOf(b, r, k) = EndOf(b, q, k)
  BY <1>1 DEF EndOf
<1>4. EndOf(b, r, Len(q) + 1) = g + n
  BY <1>1, <1>2 DEF EndOf
<1>5. \A k \in 1 .. Len(q) + 1 : r[k].from = EndOf(b, r, k - 1) + 1
  <2> TAKE k \in 1 .. Len(q) + 1
  <2>1. CASE k <= Len(q)
    <3>1. k \in 1 .. Len(q) /\ k - 1 \in 0 .. Len(q)
      BY <1>1, <2>1
    <3> QED
      BY <1>1, <1>3, <3>1 DEF Chained
  <2>2. CASE k = Len(q) + 1
    <3>1. k - 1 = Len(q) /\ Len(q) \in 0 .. Len(q)
      BY <1>1, <2>2
    <3> QED
      BY <1>1, <1>2, <1>3, <2>2, <3>1 DEF Chained
  <2> QED
    BY <1>1, <2>1, <2>2
<1>6. Chained(b, r, g + n)
  BY <1>1, <1>4, <1>5 DEF Chained
<1> QED
  BY <1>6 DEF c, r

LEMMA ChainIsRead ==
    ASSUME NEW b, NEW c, NEW q, NEW g, b.to = c.to, Chained(b, q, g)
    PROVE  Chained(c, q, g)
BY DEF Chained, EndOf

(* What a step of one mount point does to another: nothing. *)
Untouched(n) ==
    /\ told'[n] = told[n] /\ handler'[n] = handler[n] /\ startup'[n] = startup[n]
    /\ thread'[n] = thread[n] /\ (n \in subscribed' <=> n \in subscribed) /\ pipe'[n] = pipe[n]
    /\ given'[n] = given[n] /\ queue'[n] = queue[n] /\ buf'[n] = buf[n]

(* The steps of one mount point. *)
StepOf(m) ==
    \/ StartStrFix(m) \/ Accept(m) \/ StartForPage(m) \/ UploadChunk(m) \/ DeliverChunk(m)
    \/ Reading(m) \/ TimeOut(m) \/ Control(m)

LEMMA OthersAreUntouched ==
    ASSUME TypeOK, PerMount, NEW m \in Mount, StepOf(m), NEW n \in Mount, n # m
    PROVE  Untouched(n)
<1> USE DEF TypeOK, PerMount, Untouched, threadVars, handlerVars, decoderVars, At, Complete
<1>1. CASE StartStrFix(m) \/ Accept(m) \/ StartForPage(m) \/ UploadChunk(m)
  BY <1>1 DEF StartStrFix, Accept, StartForPage, UploadChunk, StartParser, AcceptOnly, StartWeb, Upload
<1>2. CASE DeliverChunk(m)
  <2>1. /\ told'[n] = told[n] /\ handler'[n] = handler[n] /\ startup'[n] = startup[n]
        /\ thread'[n] = thread[n] /\ subscribed' = subscribed /\ pipe'[n] = pipe[n]
    BY <1>2 DEF DeliverChunk, Deliver
  <2>2. given'[n] = given[n] /\ queue'[n] = queue[n] /\ buf'[n] = buf[n]
    BY <1>2, ZenonT(40) DEF DeliverChunk
  <2> QED
    BY <2>1, <2>2
<1>3. CASE EnterRead(m) \/ Parse(m)
  BY <1>3 DEF EnterRead, Parse, vars
<1>4. CASE Fill(m)
  BY <1>4 DEF Fill, Read
<1>5. CASE Leave(m) \/ TimeOut(m)
  BY <1>5 DEF Leave, TimeOut, LoopEnds, DurationOver, Silence
<1>6. CASE Control(m)
  <2>1. CASE Starting(m)
    <3>1. CASE MakeReader(m) \/ CheckRunning(m)
      BY <1>6, <3>1 DEF Control, MakeReader, CheckRunning
    <3>2. CASE Subscribe(m) \/ AnnounceReady(m)
      BY <1>6, <3>2 DEF Control, Subscribe, AnnounceReady
    <3> QED
      BY <2>1, <3>1, <3>2 DEF Starting
  <2>2. CASE Ending(m) \/ StopClears(m) \/ StopCompletes(m)
    BY <1>6, <2>2 DEF Control, Ending, Unsubscribe, ClosePair, StopClears, StopCompletes
  <2>3. CASE WaitForStartup(m) \/ TakeLock(m)
    BY <1>6, <2>3 DEF Control, WaitForStartup, TakeLock
  <2> QED
    BY <1>6, <2>1, <2>2, <2>3 DEF Control
<1> QED
  BY <1>1, <1>2, <1>3, <1>4, <1>5, <1>6 DEF StepOf, Reading

(* What is said of a mount point stays true while it is left alone.         *)
LEMMA UntouchedKeeps ==
    ASSUME NEW n \in Mount, Untouched(n), StreamOf(n)
    PROVE  StreamOf(n)'
<1>1. Adjacent(n)' <=> Adjacent(n)
  BY DEF Untouched, Adjacent, Ahead
<1> QED
  BY <1>1 DEF Untouched, StreamOf, NothingSentBeforeStart, ToldIsStartup, ReadyHasSubscribed,
              QueueIsPipe, NothingMissed

(* Every step keeps the functions of the mount points.                      *)
LEMMA PerMountStep ==
    ASSUME TypeOK, PerMount, NEW m \in Mount, StreamOf(m), StepOf(m)
    PROVE  PerMount'
<1> USE DEF PerMount, IsChunk, decoderVars
<1>1. CASE StartStrFix(m) \/ Accept(m) \/ StartForPage(m) \/ UploadChunk(m) \/ Leave(m) \/ Control(m)
  BY <1>1 DEF StartStrFix, Accept, StartForPage, UploadChunk, Leave, Control
<1>2. CASE DeliverChunk(m)
  BY <1>2 DEF DeliverChunk
<1>3. CASE EnterRead(m) \/ TimeOut(m)
  BY <1>3 DEF EnterRead, TimeOut
<1>4. CASE Parse(m)
  BY <1>4 DEF Parse
<1>5. CASE Fill(m)
  <2>1. queue[m] \in Seq(Range(queue[m])) /\ Len(queue[m]) > 0
    BY <1>5 DEF Fill, Read, StreamOf, QueueIsPipe, TypeOK
  <2>2. Head(queue[m]) = queue[m][1]
    BY <2>1
  <2>3. IsChunk(Head(queue[m]))
    <3> HIDE DEF IsChunk, PerMount
    <3>1. 1 \in 1 .. Len(queue[m])
      BY <2>1
    <3>2. IsChunk(queue[m][1])
      BY <3>1 DEF StreamOf, QueueIsPipe
    <3> QED
      BY <2>2, <3>2
  <2> QED
    BY <1>5, <2>3 DEF Fill
<1> QED
  BY <1>1, <1>2, <1>3, <1>4, <1>5 DEF StepOf, Reading

(* A step that moves nothing of the stream keeps what is said of it, if it  *)
(* does not make the thread a subscriber, tell the handler how the start    *)
(* went or take it back, and announces the start of subscribers only.       *)
LEMMA QuietStep ==
    ASSUME NEW m \in Mount, StreamOf(m), UNCHANGED <<given, queue, buf>>, pipe'[m] = pipe[m],
           handler'[m] \in {"accepted", "waiting"} => handler[m] \in {"accepted", "waiting"},
           told'[m] = told[m],
           startup[m] = "ready" => startup'[m] = "ready",
           startup'[m] = "ready" => thread'[m] \in {"reading", "deaf", "leaving", "closing", "ended"},
           m \in subscribed' => m \in subscribed \/ startup[m] # "ready"
    PROVE  StreamOf(m)'
<1>1. Adjacent(m)' <=> Adjacent(m)
  BY DEF Adjacent, Ahead
<1> QED
  BY <1>1 DEF StreamOf, NothingSentBeforeStart, ToldIsStartup, ReadyHasSubscribed,
              QueueIsPipe, NothingMissed

(* Before the handler is told, what lies ahead of the reader is nothing.    *)
LEMMA NothingIsAdjacent ==
    ASSUME NEW m \in Mount, handler[m] \in {"accepted", "waiting"}, StreamOf(m)
    PROVE  Adjacent(m)
<1>1. given[m] = 0 /\ queue[m] = <<>> /\ buf[m].to = 0
  BY DEF StreamOf, NothingSentBeforeStart
<1>2. Len(queue[m]) = 0 /\ queue[m] \in Seq(Range(queue[m]))
  BY <1>1 DEF StreamOf, QueueIsPipe
<1>3. Chained(buf[m], queue[m], given[m])
  BY <1>1, <1>2 DEF Chained, EndOf
<1> QED
  BY <1>2, <1>3, AdjacentIs, AdjacentIsChained

(* A step of the mount point itself: WaitForStartup tells the handler, and  *)
(* DeliverChunk, Fill and Parse move the stream; the others are quiet.      *)
LEMMA StreamStep ==
    ASSUME TypeOK, AcceptedHasNoThread, SubscribedIsAlive, PerMount,
           NEW m \in Mount, StreamOf(m), StepOf(m)
    PROVE  StreamOf(m)'
<1> USE DEF TypeOK, At, Complete, threadVars, handlerVars, decoderVars
<1>s. startup[m] = "ready" => thread[m] \in {"reading", "deaf", "leaving", "closing", "ended"}
  BY DEF StreamOf, ReadyHasSubscribed
<1>1. CASE StartStrFix(m) \/ Accept(m) \/ StartForPage(m) \/ UploadChunk(m)
  <2>1. CASE StartStrFix(m)
    <3>1. thread[m] = "none" /\ startup[m] # "ready"
      BY <1>s, <2>1 DEF StartStrFix, StartParser, AcceptedHasNoThread
    <3> QED
      BY <2>1, <3>1, QuietStep DEF StartStrFix, StartParser
  <2>2. CASE Accept(m)
    BY <1>s, <2>2, QuietStep DEF Accept, AcceptOnly
  <2>3. CASE StartForPage(m)
    BY <2>3, QuietStep DEF StartForPage, StartWeb
  <2>4. CASE UploadChunk(m)
    BY <1>s, <2>4, QuietStep DEF UploadChunk, Upload
  <2> QED
    BY <1>1, <2>1, <2>2, <2>3, <2>4
<1>2. CASE EnterRead(m)
  BY <1>s, <1>2, QuietStep DEF EnterRead, vars
<1>3. CASE Leave(m)
  BY <1>s, <1>3, QuietStep DEF Leave, LoopEnds, DurationOver
<1>4. CASE TimeOut(m)
  BY <1>s, <1>4, QuietStep DEF TimeOut, Silence
<1>5. CASE Control(m)
  <2>d. UNCHANGED decoderVars
    BY <1>5 DEF Control
  <2>1. CASE MakeReader(m) \/ CheckRunning(m)
    BY <1>s, <2>d, <2>1, QuietStep DEF MakeReader, CheckRunning
  <2>2. CASE Subscribe(m)
    BY <1>s, <2>d, <2>2, QuietStep DEF Subscribe
  <2>3. CASE AnnounceReady(m)
    BY <1>s, <2>d, <2>3, QuietStep DEF AnnounceReady
  <2>4. CASE Ending(m)
    BY <1>s, <2>d, <2>4, QuietStep DEF Ending, Unsubscribe, ClosePair
  <2>5. CASE StopClears(m) \/ StopCompletes(m)
    BY <1>s, <2>d, <2>5, QuietStep DEF StopClears, StopCompletes
  <2>6. CASE TakeLock(m)
    BY <1>s, <2>d, <2>6, QuietStep DEF TakeLock
  <2>7. CASE WaitForStartup(m)
    <3>1. Adjacent(m)'
      <4>1. Adjacent(m)
        BY <2>7, NothingIsAdjacent DEF WaitForStartup
      <4> QED
        BY <2>d, <4>1 DEF Adjacent, Ahead
    <3>2. (NothingSentBeforeStart(m) /\ ToldIsStartup(m) /\ ReadyHasSubscribed(m))'
      BY <1>s, <2>d, <2>7 DEF WaitForStartup, NothingSentBeforeStart, ToldIsStartup, ReadyHasSubscribed
    <3>3. QueueIsPipe(m)'
      BY <2>d, <2>7 DEF WaitForStartup, StreamOf, QueueIsPipe
    <3> QED
      BY <3>1, <3>2, <3>3 DEF StreamOf, NothingMissed
  <2> QED
    BY <1>5, <2>1, <2>2, <2>3, <2>4, <2>5, <2>6, <2>7 DEF Control, Starting
<1>6. CASE DeliverChunk(m)
  <2> PICK n : /\ Deliver(m)
               /\ given' = [given EXCEPT ![m] = @ + n]
               /\ queue' = IF m \in subscribed
                           THEN [queue EXCEPT ![m] = Append(@, [from |-> given[m] + 1, to |-> given[m] + n])]
                           ELSE queue
               /\ UNCHANGED <<source, buf, reader, result, got>>
    BY <1>6 DEF DeliverChunk
  <2>1. /\ handler[m] = "sending" /\ handler'[m] = "recv"
        /\ UNCHANGED <<thread, startup, subscribed, told>>
        /\ IF m \in subscribed THEN pipe'[m] = pipe[m] + 1 ELSE pipe' = pipe
    BY DEF Deliver
  <2>2. (NothingSentBeforeStart(m) /\ ToldIsStartup(m) /\ ReadyHasSubscribed(m))'
    BY <2>1 DEF StreamOf, NothingSentBeforeStart, ToldIsStartup, ReadyHasSubscribed
  <2>3. CASE m \notin subscribed
    BY <2>1, <2>2, <2>3 DEF StreamOf, QueueIsPipe, NothingMissed
  <2>4. CASE m \in subscribed
    <3> DEFINE c == [from |-> given[m] + 1, to |-> given[m] + n]
               r == Append(queue[m], c)
    <3>1. queue'[m] = r /\ given'[m] = given[m] + n /\ buf'[m] = buf[m]
      BY <2>4 DEF PerMount
    <3>2. /\ r \in Seq(Range(r)) /\ Len(r) = Len(queue[m]) + 1 /\ r[Len(queue[m]) + 1] = c
          /\ \A k \in 1 .. Len(queue[m]) : r[k] = queue[m][k]
      BY AppendIsSeq DEF StreamOf, QueueIsPipe
    <3>3. QueueIsPipe(m)'
      <4>1. IsChunk(c)
        BY DEF IsChunk
      <4>2. Len(queue[m]) \in Nat /\ Len(queue[m]) = pipe[m]
        BY DEF StreamOf, QueueIsPipe
      <4>3. \A k \in 1 .. Len(queue[m]) : IsChunk(queue[m][k])
        BY DEF StreamOf, QueueIsPipe
      <4> HIDE DEF c, r
      <4>4. \A k \in 1 .. Len(r) : IsChunk(r[k])
        <5> TAKE k \in 1 .. Len(r)
        <5>1. CASE k = Len(queue[m]) + 1
          BY <3>2, <4>1, <5>1
        <5>2. CASE k # Len(queue[m]) + 1
          <6>1. k \in 1 .. Len(queue[m])
            BY <3>2, <4>2, <5>2
          <6> QED
            BY <3>2, <4>3, <6>1
        <5> QED
          BY <5>1, <5>2
      <4> QED
        BY <2>1, <2>4, <3>1, <3>2, <4>2, <4>4 DEF QueueIsPipe
    <3>4. told[m] = "ready" => Adjacent(m)'
      <4> SUFFICES ASSUME told[m] = "ready" PROVE Adjacent(m)'
        OBVIOUS
      <4>1. Chained(buf[m], queue[m], given[m])
        BY <2>4, AdjacentIs, AdjacentIsChained DEF StreamOf, NothingMissed, QueueIsPipe
      <4>2. Chained(buf[m], r, given[m] + n)
        BY <4>1, ChainIsSentTo DEF StreamOf, QueueIsPipe
      <4> HIDE DEF r
      <4> QED
        BY <3>1, <3>2, <4>2, AdjacentIsNext, AdjacentIsChained
    <3> QED
      BY <2>1, <2>2, <3>3, <3>4 DEF StreamOf, NothingMissed
  <2> QED
    BY <2>3, <2>4
<1>7. CASE Fill(m)
  <2>1. /\ thread[m] = "reading" /\ pipe[m] > 0 /\ pipe'[m] = pipe[m] - 1
        /\ UNCHANGED <<thread, startup, subscribed, told, handler, given>>
        /\ queue'[m] = Tail(queue[m]) /\ buf'[m] = Head(queue[m])
    BY <1>7 DEF Fill, Read, PerMount
  <2>2. /\ Len(queue[m]) > 0 /\ queue[m] \in Seq(Range(queue[m]))
        /\ \A k \in 1 .. Len(queue[m]) : IsChunk(queue[m][k])
    BY <2>1 DEF StreamOf, QueueIsPipe
  <2>3. (NothingSentBeforeStart(m) /\ ToldIsStartup(m) /\ ReadyHasSubscribed(m))'
    <3>1. handler[m] \notin {"accepted", "waiting"}
      BY <2>2 DEF StreamOf, NothingSentBeforeStart
    <3> QED
      BY <2>1, <3>1 DEF StreamOf, NothingSentBeforeStart, ToldIsStartup, ReadyHasSubscribed
  <2>4. QueueIsPipe(m)'
    <3>1. /\ Tail(queue[m]) \in Seq(Range(Tail(queue[m]))) /\ Len(Tail(queue[m])) = Len(queue[m]) - 1
          /\ \A k \in 1 .. Len(queue[m]) - 1 : Tail(queue[m])[k] = queue[m][k + 1]
      BY <2>2, TailIsSeq
    <3>2. \A k \in 1 .. Len(queue[m]) - 1 : IsChunk(Tail(queue[m])[k])
      BY <2>2, <3>1
    <3>3. Len(queue[m]) = pipe[m]
      BY DEF StreamOf, QueueIsPipe
    <3> QED
      BY <2>1, <3>1, <3>2, <3>3 DEF QueueIsPipe
  <2>5. told[m] = "ready" /\ m \in subscribed => Adjacent(m)'
    <3> SUFFICES ASSUME told[m] = "ready", m \in subscribed PROVE Adjacent(m)'
      OBVIOUS
    <3>1. Chained(buf[m], queue[m], given[m])
      BY <2>2, AdjacentIs, AdjacentIsChained DEF StreamOf, NothingMissed
    <3>2. Chained(Head(queue[m]), Tail(queue[m]), given[m])
      BY <2>2, <3>1, ChainIsTaken
    <3>3. queue'[m] \in Seq(Range(queue'[m]))
      BY <2>4 DEF QueueIsPipe
    <3> QED
      BY <2>1, <3>2, <3>3, AdjacentIsNext, AdjacentIsChained
  <2> QED
    BY <2>1, <2>3, <2>4, <2>5 DEF StreamOf, NothingMissed
<1>8. CASE Parse(m)
  <2>1. UNCHANGED <<thread, startup, subscribed, told, handler, pipe, given, queue>>
    BY <1>8 DEF Parse, vars
  <2>2. buf'[m].to = buf[m].to
    BY <1>8 DEF Parse, PerMount, IsChunk
  <2>3. QueueIsPipe(m)'
    BY <2>1 DEF StreamOf, QueueIsPipe
  <2>4. told[m] = "ready" /\ m \in subscribed => Adjacent(m)'
    <3> SUFFICES ASSUME told[m] = "ready", m \in subscribed PROVE Adjacent(m)'
      OBVIOUS
    <3>1. queue[m] \in Seq(Range(queue[m]))
      BY DEF StreamOf, QueueIsPipe
    <3>2. Chained(buf[m], queue[m], given[m])
      BY <3>1, AdjacentIs, AdjacentIsChained DEF StreamOf, NothingMissed
    <3>3. Chained(buf'[m], queue[m], given[m])
      BY <2>2, <3>2, ChainIsRead
    <3> QED
      BY <2>1, <3>1, <3>3, AdjacentIsNext, AdjacentIsChained
  <2> QED
    BY <2>1, <2>2, <2>3, <2>4
       DEF StreamOf, NothingSentBeforeStart, ToldIsStartup, ReadyHasSubscribed, NothingMissed
<1> QED
  BY <1>1, <1>2, <1>3, <1>4, <1>5, <1>6, <1>7, <1>8 DEF StepOf, Reading

(* DecoderIInv holds at first and is kept by every step, with the help of   *)
(* the invariant of ParserThread, which every behaviour of Decoder has.     *)
LEMMA DecoderInvInit == DecoderInit => DecoderIInv
<1> SUFFICES ASSUME DecoderInit PROVE DecoderIInv
  OBVIOUS
<1> USE DEF DecoderInit, Init
<1>1. PerMount
  BY DEF PerMount, NoTokens, IsChunk
<1>2. ASSUME NEW m \in Mount PROVE StreamOf(m)
  <2>1. NothingSentBeforeStart(m) /\ ToldIsStartup(m) /\ ReadyHasSubscribed(m)
    BY DEF NothingSentBeforeStart, ToldIsStartup, ReadyHasSubscribed, NoTokens
  <2>2. QueueIsPipe(m)
    BY DEF QueueIsPipe
  <2>3. NothingMissed(m)
    BY DEF NothingMissed
  <2> QED
    BY <2>1, <2>2, <2>3 DEF StreamOf
<1> QED
  BY <1>1, <1>2 DEF DecoderIInv

LEMMA DecoderInvStep == IInv /\ DecoderIInv /\ [DecoderNext]_allVars => DecoderIInv'
<1> SUFFICES ASSUME IInv, DecoderIInv, [DecoderNext]_allVars PROVE DecoderIInv'
  OBVIOUS
<1> USE DEF IInv, DecoderIInv
<1>1. CASE UNCHANGED allVars
  <2>1. PerMount'
    BY <1>1 DEF allVars, vars, decoderVars, PerMount
  <2>2. ASSUME NEW n \in Mount PROVE StreamOf(n)'
    <3>1. Untouched(n)
      BY <1>1 DEF allVars, vars, threadVars, handlerVars, decoderVars, Untouched
    <3> QED
      BY <3>1, UntouchedKeeps
  <2> QED
    BY <2>1, <2>2
<1>2. ASSUME NEW m \in Mount, StepOf(m) PROVE DecoderIInv'
  <2>1. PerMount'
    BY <1>2, PerMountStep
  <2>2. StreamOf(m)'
    BY <1>2, StreamStep
  <2>3. ASSUME NEW n \in Mount, n # m PROVE StreamOf(n)'
    <3>1. Untouched(n)
      BY <1>2, <2>3, OthersAreUntouched
    <3> QED
      BY <3>1, UntouchedKeeps
  <2> QED
    BY <2>1, <2>2, <2>3
<1> QED
  BY <1>1, <1>2 DEF DecoderNext, StepOf

(* A parser that was reported ready misses nothing of its source's stream,  *)
(* for any mount points, streams, sizes of the chunks and of the pair, and  *)
(* however its thread is delayed: start_str_fix_parser and run of rtcm2.py, *)
(* _send_to_subscribers of forwarder.py.                                   *)
THEOREM ReadyParsersMissNothing == DecoderSpec => []ReadyMissesNothing
<1>1. DecoderSpec => []IInv
  BY DecoderIsParserThread, InvHolds, PTL
<1>2. DecoderSpec => []DecoderIInv
  BY <1>1, DecoderInvInit, DecoderInvStep, PTL DEF DecoderSpec
<1>3. DecoderIInv => ReadyMissesNothing
  BY DEF DecoderIInv, StreamOf, NothingMissed, ReadyMissesNothing
<1> QED
  BY <1>2, <1>3, PTL

----------------------------------------------------------------------------
(* The least of a set of naturals.                                         *)
LEMMA NatHasLeast ==
    ASSUME NEW T, T \subseteq Nat, T # {}
    PROVE  \E x \in T : \A y \in T : x <= y
<1> DEFINE R == OpToRel(<, Nat)
<1>1. IsWellFoundedOn(R, Nat)
  BY NatLessThanWellFounded
<1>2. \A x, y \in Nat : x < y => <<x, y>> \in R
  BY DEF OpToRel
<1> HIDE DEF R
<1>3. PICK x \in T : \A y \in T : <<y, x>> \notin R
  BY <1>1, WFMin
<1>4. \A y \in T : ~(y < x)
  BY <1>2, <1>3
<1> QED
  BY <1>4

(* Induction up to a bound, over a set instead of a predicate.              *)
LEMMA AllUpTo ==
    ASSUME NEW n \in Nat, NEW T, 0 \in T, \A k \in 0 .. n - 1 : k \in T => k + 1 \in T
    PROVE  \A k \in 0 .. n : k \in T
<1> DEFINE U == {k \in 0 .. n : k \notin T}
<1>1. SUFFICES ASSUME U # {} PROVE FALSE
  OBVIOUS
<1>2. PICK x \in U : \A y \in U : x <= y
  <2>1. U \subseteq Nat
    OBVIOUS
  <2> HIDE DEF U
  <2> QED
    BY <1>1, <2>1, NatHasLeast
<1>3. x \in Nat \ {0} /\ x - 1 \in 0 .. n - 1 /\ x - 1 \notin U
  BY <1>2
<1>4. x - 1 \in T /\ (x - 1) + 1 = x
  BY <1>3
<1> QED
  BY <1>2, <1>3, <1>4

(* The concatenations of the first parts of a sequence of sequences.        *)
Parts(S, V, n) == \A k \in 1 .. n : S[k] \in Seq(V)
Concats(G, S, V, n) ==
    /\ G \in [0 .. n -> Seq(V)] /\ G[0] = <<>>
    /\ \A k \in 1 .. n : G[k] = G[k - 1] \o S[k]

LEMMA ConcatsExist ==
    ASSUME NEW V, NEW n \in Nat, NEW S, Parts(S, V, n)
    PROVE  \E G : Concats(G, S, V, n)
<1> DEFINE T == {k \in 0 .. n : \E G : Concats(G, S, V, k)}
<1>1. 0 \in T
  <2> DEFINE G == [i \in 0 .. 0 |-> <<>>]
  <2>1. Concats(G, S, V, 0)
    BY DEF Concats
  <2> QED
    BY <2>1
<1>2. ASSUME NEW k \in 0 .. n - 1, k \in T PROVE k + 1 \in T
  <2>1. PICK G : Concats(G, S, V, k)
    BY <1>2
  <2> DEFINE next == G[k] \o S[k + 1]
             H == [i \in 0 .. k + 1 |-> IF i = k + 1 THEN next ELSE G[i]]
  <2>2. next \in Seq(V)
    BY <2>1, ConcatProperties DEF Concats, Parts
  <2>3. /\ H \in [0 .. k + 1 -> Seq(V)]
        /\ H[k + 1] = next /\ \A i \in 0 .. k : H[i] = G[i]
    <3> HIDE DEF next
    <3> QED
      BY <2>1, <2>2 DEF Concats
  <2>4. \A i \in 1 .. k + 1 : H[i] = H[i - 1] \o S[i]
    <3> HIDE DEF H
    <3> TAKE i \in 1 .. k + 1
    <3>1. CASE i = k + 1
      <4>1. i - 1 = k /\ k \in 0 .. k
        BY <3>1
      <4> QED
        BY <2>3, <3>1, <4>1
    <3>2. CASE i # k + 1
      <4>1. i \in 1 .. k /\ i \in 0 .. k /\ i - 1 \in 0 .. k
        BY <3>2
      <4> QED
        BY <2>1, <2>3, <4>1 DEF Concats
    <3> QED
      BY <3>1, <3>2
  <2> HIDE DEF H
  <2>5. H[0] = <<>>
    <3>1. 0 \in 0 .. k
      OBVIOUS
    <3> QED
      BY <2>1, <2>3, <3>1 DEF Concats
  <2>6. Concats(H, S, V, k + 1)
    <3> HIDE DEF next
    <3> QED
      BY <2>3, <2>4, <2>5, Zenon DEF Concats
  <2> QED
    BY <2>6
<1> HIDE DEF T
<1>3. \A k \in 0 .. n : k \in T
  BY <1>1, <1>2, AllUpTo, Zenon
<1>4. n \in 0 .. n
  OBVIOUS
<1> QED
  BY <1>3, <1>4 DEF T

(* FlattenSeq is the last of them.                                          *)
Flattened(S, k) == FlattenSeq([j \in 1 .. k |-> S[j]])
LEMMA FlattenIsConcat ==
    ASSUME NEW V, NEW n \in Nat, NEW S, Parts(S, V, n),
           NEW G, Concats(G, S, V, n), NEW k \in 0 .. n
    PROVE  Flattened(S, k) = G[k]
<1> DEFINE s == [j \in 1 .. k |-> S[j]]
<1>1. Len(s) = k /\ \A j \in 1 .. k : s[j] = S[j]
  OBVIOUS
<1>2. CASE k = 0
  <2>1. s = <<>> /\ Flattened(S, k) = FlattenSeq(s)
    BY <1>2 DEF Flattened
  <2>2. FlattenSeq(s) = s
    BY <1>1, <1>2, Zenon DEF FlattenSeq
  <2>3. G[0] = <<>>
    BY DEF Concats
  <2> QED
    BY <1>2, <2>1, <2>2, <2>3
<1>3. CASE k # 0
  <2> DEFINE Is(f) == f = [i \in 1 .. Len(s) |-> IF i = 1 THEN s[i] ELSE f[i - 1] \o s[i]]
             F == CHOOSE f : Is(f)
             W == [i \in 1 .. k |-> G[i]]
  <2>0. Flattened(S, k) = FlattenSeq(s)
    BY DEF Flattened
  <2> HIDE DEF s
  <2>1. FlattenSeq(s) = F[Len(s)]
    BY <1>1, <1>3, Zenon DEF FlattenSeq
  <2>2. G[1] = S[1]
    <3>1. 1 \in 1 .. n /\ S[1] \in Seq(V) /\ 1 - 1 = 0
      BY <1>3 DEF Parts
    <3>2. <<>> \o S[1] = S[1]
      BY <3>1, ConcatEmptySeq
    <3>3. G[1] = G[1 - 1] \o S[1]
      BY <3>1, Zenon DEF Concats
    <3>4. G[0] = <<>>
      BY Zenon DEF Concats
    <3> QED
      BY <3>1, <3>2, <3>3, <3>4, Zenon
  <2>3. Is(W)
    <3>1. \A i \in 1 .. k : W[i] = IF i = 1 THEN s[i] ELSE W[i - 1] \o s[i]
      <4> TAKE i \in 1 .. k
      <4>1. W[i] = G[i] /\ s[i] = S[i] /\ i \in 1 .. n
        BY <1>1
      <4>2. CASE i = 1
        BY <2>2, <4>1, <4>2
      <4>3. CASE i # 1
        <5>1. i - 1 \in 1 .. k
          BY <4>3
        <5>2. W[i - 1] = G[i - 1]
          BY <5>1
        <5> HIDE DEF W
        <5> QED
          BY <4>1, <4>3, <5>2 DEF Concats
      <4> QED
        BY <4>2, <4>3
    <3> DEFINE R == [i \in 1 .. Len(s) |-> IF i = 1 THEN s[i] ELSE W[i - 1] \o s[i]]
    <3>2. W = R
      BY <1>1, <3>1
    <3> QED
      BY <3>2, Zenon
  <2> HIDE DEF W
  <2>4. Is(F)
    BY <2>3, Zenon
  <2> HIDE DEF F
  <2>5. \A i \in 1 .. k : F[i] = IF i = 1 THEN s[i] ELSE F[i - 1] \o s[i]
    BY <1>1, <2>4
  <2>6. \A i \in 0 .. k : i # 0 => F[i] = G[i]
    <3> DEFINE T == {i \in 0 .. k : i # 0 => F[i] = G[i]}
    <3>1. ASSUME NEW i \in 0 .. k - 1, i \in T PROVE i + 1 \in T
      <4>0. i + 1 \in 1 .. k /\ i + 1 \in 1 .. n /\ (i + 1) - 1 = i /\ i + 1 \in 0 .. k
        OBVIOUS
      <4>1. s[i + 1] = S[i + 1]
        BY <1>1, <4>0
      <4>2. CASE i = 0
        BY <2>2, <2>5, <4>0, <4>1, <4>2
      <4>3. CASE i # 0
        <5>1. F[i + 1] = F[i] \o S[i + 1]
          <6>1. i + 1 # 1
            BY <4>3
          <6>2. F[i + 1] = F[(i + 1) - 1] \o s[i + 1]
            BY <2>5, <4>0, <6>1, Zenon
          <6> QED
            BY <4>0, <4>1, <6>2, Zenon
        <5>2. G[i + 1] = G[i] \o S[i + 1]
          BY <4>0 DEF Concats
        <5> QED
          BY <3>1, <4>0, <4>3, <5>1, <5>2
      <4> QED
        BY <4>2, <4>3
    <3>2. 0 \in T
      OBVIOUS
    <3> HIDE DEF T
    <3>3. k \in Nat
      OBVIOUS
    <3>4. \A i \in 0 .. k : i \in T
      BY <3>1, <3>2, <3>3, AllUpTo, Zenon
    <3> QED
      BY <3>4 DEF T
  <2> QED
    BY <1>1, <1>3, <2>0, <2>1, <2>6
<1> QED
  BY <1>2, <1>3

----------------------------------------------------------------------------
Scale == 2 ^ ByteBits
FrameBytes(item) ==
    <<Preamble, Len(item.bytes) \div Scale, Len(item.bytes) % Scale>> \o item.bytes

LEMMA ScaleIsNat == Scale \in Nat \ {0}
BY DecoderAssumption DEF Scale

LEMMA HeaderTellsSize ==
    ASSUME NEW n \in Nat
    PROVE  /\ n \div Scale \in Nat /\ n % Scale \in Nat
           /\ (n \div Scale) * Scale + (n % Scale) = n
           /\ n < 4 * Scale => n \div Scale < 4
<1> DEFINE d == Scale
<1>1. d \in Nat \ {0}
  BY ScaleIsNat
<1> HIDE DEF d
<1>2. n \div d \in Nat /\ n % d \in Nat /\ (n \div d) * d + (n % d) = n
  BY <1>1, Z3
<1>3. n < 4 * d => n \div d < 4
  <2> DEFINE q == n \div d
  <2>1. q \in Nat /\ q * d <= n
    BY <1>1, <1>2
  <2> HIDE DEF q
  <2>2. q >= 4 => q * d >= 4 * d
    BY <1>1, <2>1, Z3
  <2>3. n < 4 * d => q < 4
    BY <1>1, <2>1, <2>2
  <2> QED
    BY <2>3 DEF q
<1> QED
  BY <1>2, <1>3 DEF d

LEMMA FrameBytesAre ==
    ASSUME NEW item, IsItem(item)
    PROVE  /\ FrameBytes(item) \in Seq(Nat) /\ Len(FrameBytes(item)) = Len(item.bytes) + 3
           /\ FrameBytes(item)[1] = Preamble
           /\ FrameBytes(item)[2] = Len(item.bytes) \div Scale
           /\ FrameBytes(item)[3] = Len(item.bytes) % Scale
           /\ \A i \in 1 .. Len(item.bytes) : FrameBytes(item)[i + 3] = item.bytes[i]
<1> DEFINE n == Len(item.bytes)
           h == <<Preamble, n \div Scale, n % Scale>>
<1>1. n \in Nat /\ item.bytes \in Seq(Nat)
  BY DEF IsItem
<1>2. n \div Scale \in Nat /\ n % Scale \in Nat /\ Preamble \in Nat
  BY <1>1, HeaderTellsSize, DecoderAssumption
<1> DEFINE a == n \div Scale
           b == n % Scale
<1> HIDE DEF a, b
<1>3. <<Preamble, a, b>> \in Seq(Nat) /\ Len(<<Preamble, a, b>>) = 3
  BY <1>2 DEF a, b
<1>4. FrameBytes(item) = <<Preamble, a, b>> \o item.bytes
  BY DEF FrameBytes, a, b
<1>5. FrameBytes(item) \in Seq(Nat) /\ Len(FrameBytes(item)) = 3 + n
  BY <1>1, <1>3, <1>4, ConcatProperties
<1>6. \A i \in 1 .. 3 + n : FrameBytes(item)[i] =
          IF i <= 3 THEN <<Preamble, a, b>>[i] ELSE item.bytes[i - 3]
  BY <1>1, <1>3, <1>4, ConcatProperties
<1>7. /\ <<Preamble, a, b>>[1] = Preamble /\ <<Preamble, a, b>>[2] = a
      /\ <<Preamble, a, b>>[3] = b
  OBVIOUS
<1>8. \A i \in 1 .. n : FrameBytes(item)[i + 3] = item.bytes[i]
  BY <1>1, <1>6
<1>9. /\ FrameBytes(item)[1] = Preamble /\ FrameBytes(item)[2] = a
      /\ FrameBytes(item)[3] = b
  BY <1>1, <1>6, <1>7
<1> QED
  BY <1>1, <1>5, <1>8, <1>9 DEF a, b

(* Bytes as they are read, each a token of its own.                         *)
Raw(bytes) == [k \in DOMAIN bytes |-> <<bytes[k]>>]
LEMMA RawIs ==
    ASSUME NEW b \in Seq(Nat)
    PROVE  /\ Raw(b) \in Seq(Seq(Nat)) /\ Len(Raw(b)) = Len(b)
           /\ \A i \in 1 .. Len(b) : Raw(b)[i] = <<b[i]>>
<1>1. DOMAIN b = 1 .. Len(b) /\ Len(b) \in Nat /\ \A i \in 1 .. Len(b) : b[i] \in Nat
  OBVIOUS
<1>2. \A x \in Nat : <<x>> \in Seq(Nat)
  OBVIOUS
<1>3. Raw(b) = [k \in 1 .. Len(b) |-> <<b[k]>>]
  BY <1>1 DEF Raw
<1>4. Raw(b) \in [1 .. Len(b) -> Seq(Nat)]
  BY <1>1, <1>2, <1>3
<1>5. \A i \in 1 .. Len(b) : Raw(b)[i] = <<b[i]>>
  BY <1>3
<1>6. Raw(b) \in Seq(Seq(Nat))
  <2> HIDE DEF Raw
  <2> DEFINE n == Len(b)
             V == Seq(Nat)
  <2>1. Raw(b) \in [1 .. n -> V] /\ n \in Nat
    BY <1>1, <1>4
  <2> HIDE DEF n, V
  <2>2. Raw(b) \in Seq(V)
    BY <2>1, SeqDef
  <2> QED
    BY <2>2 DEF V
<1>7. Len(Raw(b)) = Len(b)
  <2>1. DOMAIN Raw(b) = 1 .. Len(b)
    BY <1>3
  <2>2. DOMAIN Raw(b) = 1 .. Len(Raw(b)) /\ Len(Raw(b)) \in Nat
    BY <1>6, LenProperties
  <2> QED
    BY <1>1, <2>1, <2>2
<1> QED
  BY <1>5, <1>6, <1>7

(* The tokens of an item.                                                   *)
LEMMA TokensOfJunk ==
    ASSUME NEW item, IsItem(item), item.kind = "junk"
    PROVE  /\ Tokens(item) \in Seq(Seq(Nat)) /\ Len(Tokens(item)) = Len(item.bytes)
           /\ \A i \in 1 .. Len(item.bytes) : Tokens(item)[i] = <<item.bytes[i]>>
<1> DEFINE b == item.bytes
           r == Raw(b)
<1>1. b \in Seq(Nat)
  BY DEF IsItem
<1>2. r \in Seq(Seq(Nat)) /\ Len(r) = Len(b) /\ \A i \in 1 .. Len(b) : r[i] = <<b[i]>>
  BY <1>1, RawIs
<1>3. Tokens(item) = r
  BY DEF Tokens, Raw
<1> QED
  BY <1>2, <1>3

LEMMA TokensOfFrame ==
    ASSUME NEW item, IsItem(item), item.kind # "junk"
    PROVE  /\ Tokens(item) \in Seq(Seq(Nat)) /\ Len(Tokens(item)) = Len(item.bytes) + 4
           /\ \A i \in 1 .. Len(item.bytes) + 3 : Tokens(item)[i] = <<FrameBytes(item)[i]>>
           /\ Tokens(item)[Len(item.bytes) + 4] =
                  IF item.kind = "frame" THEN FrameBytes(item) ELSE Tail(FrameBytes(item))
<1> DEFINE f == FrameBytes(item)
           r == Raw(f)
           c == IF item.kind = "frame" THEN f ELSE Tail(f)
<1>1. f \in Seq(Nat) /\ Len(f) = Len(item.bytes) + 3 /\ Len(item.bytes) \in Nat
  BY FrameBytesAre DEF IsItem
<1>2. Tokens(item) = Append(r, c)
  BY DEF IsItem, Tokens, FrameBytes, Scale, Raw
<1> HIDE DEF f
<1>3. r \in Seq(Seq(Nat)) /\ Len(r) = Len(f) /\ \A i \in 1 .. Len(f) : r[i] = <<f[i]>>
  BY <1>1, RawIs
<1>4. c \in Seq(Nat)
  BY <1>1
<1> HIDE DEF r, c
<1>5. /\ Append(r, c) \in Seq(Seq(Nat)) /\ Len(Append(r, c)) = Len(r) + 1
      /\ \A i \in 1 .. Len(r) : Append(r, c)[i] = r[i]
      /\ Append(r, c)[Len(r) + 1] = c
  BY <1>3, <1>4, AppendProperties
<1> HIDE DEF r, c
<1>6. Len(r) + 1 = Len(item.bytes) + 4
  BY <1>1, <1>3
<1>7. \A i \in 1 .. Len(item.bytes) + 3 : Append(r, c)[i] = <<f[i]>>
  BY <1>1, <1>3, <1>5
<1>8. c = IF item.kind = "frame" THEN f ELSE Tail(f)
  BY DEF c
<1> QED
  BY <1>2, <1>5, <1>6, <1>7, <1>8 DEF f

----------------------------------------------------------------------------
(* The stream of the first k items, and where the next one begins in it.    *)
UpTo(items, k) == FlattenSeq([j \in 1 .. k |-> Tokens(items[j])])
Off(items, k) == Len(UpTo(items, k))

LEMMA TokensAre ==
    ASSUME NEW items, IsItems(items), NEW k \in 1 .. Len(items)
    PROVE  IsItem(items[k]) /\ Tokens(items[k]) \in Seq(Seq(Nat)) /\ Len(Tokens(items[k])) \in Nat
<1>1. IsItem(items[k])
  BY DEF IsItems
<1>2. Tokens(items[k]) \in Seq(Seq(Nat))
  BY <1>1, TokensOfJunk, TokensOfFrame, Zenon
<1> QED
  BY <1>1, <1>2, LenProperties

LEMMA UpToIs ==
    ASSUME NEW items, IsItems(items)
    PROVE  /\ Len(items) \in Nat /\ UpTo(items, 0) = <<>>
           /\ \A k \in 0 .. Len(items) : UpTo(items, k) \in Seq(Seq(Nat))
           /\ \A k \in 1 .. Len(items) : UpTo(items, k) = UpTo(items, k - 1) \o Tokens(items[k])
<1> DEFINE n == Len(items)
           S == [j \in 1 .. n |-> Tokens(items[j])]
           V == Seq(Nat)
<1>1. n \in Nat
  BY DEF IsItems
<1>2. \A k \in 1 .. n : S[k] \in Seq(V) /\ S[k] = Tokens(items[k])
  BY TokensAre
<1> HIDE DEF V
<1>p. Parts(S, V, n)
  BY <1>2 DEF Parts
<1>3. PICK G : Concats(G, S, V, n)
  <2> HIDE DEF S, n
  <2> QED
    BY <1>1, <1>p, ConcatsExist
<1>4. \A k \in 0 .. n : UpTo(items, k) = G[k]
  <2> TAKE k \in 0 .. n
  <2>1. [j \in 1 .. k |-> S[j]] = [j \in 1 .. k |-> Tokens(items[j])]
    <3>1. \A j \in 1 .. k : j \in 1 .. n
      BY <1>1
    <3> QED
      BY <1>2, <3>1
  <2> HIDE DEF S, n
  <2>2. Flattened(S, k) = G[k]
    BY <1>1, <1>p, <1>3, FlattenIsConcat
  <2> QED
    BY <2>1, <2>2, Zenon DEF UpTo, Flattened
<1> HIDE DEF S, n
<1>5. G[0] = <<>> /\ G \in [0 .. n -> Seq(V)]
  BY <1>3, Zenon DEF Concats
<1>6. UpTo(items, 0) = <<>> /\ \A k \in 0 .. n : UpTo(items, k) \in Seq(V)
  BY <1>1, <1>4, <1>5
<1>7. ASSUME NEW k \in 1 .. n PROVE UpTo(items, k) = UpTo(items, k - 1) \o Tokens(items[k])
  <2>1. k \in 0 .. n /\ k - 1 \in 0 .. n
    BY <1>1
  <2>2. G[k] = G[k - 1] \o S[k]
    BY <1>3, Zenon DEF Concats
  <2> QED
    BY <1>2, <1>4, <2>1, <2>2, Zenon
<1> QED
  BY <1>1, <1>6, <1>7 DEF V, n

LEMMA OffIs ==
    ASSUME NEW items, IsItems(items)
    PROVE  /\ Len(items) \in Nat /\ Off(items, 0) = 0
           /\ \A k \in 0 .. Len(items) : Off(items, k) \in Nat
           /\ \A k \in 1 .. Len(items) : Off(items, k) = Off(items, k - 1) + Len(Tokens(items[k]))
<1>1. Len(items) \in Nat
  BY UpToIs
<1>2. Off(items, 0) = 0
  BY UpToIs, EmptySeq DEF Off
<1>3. \A k \in 0 .. Len(items) : Off(items, k) \in Nat
  BY UpToIs, LenProperties, Zenon DEF Off
<1>4. ASSUME NEW k \in 1 .. Len(items)
      PROVE  Off(items, k) = Off(items, k - 1) + Len(Tokens(items[k]))
  <2>1. k - 1 \in 0 .. Len(items)
    BY <1>1
  <2>2. UpTo(items, k - 1) \in Seq(Seq(Nat)) /\ Tokens(items[k]) \in Seq(Seq(Nat))
    BY <2>1, UpToIs, TokensAre, Zenon
  <2>3. UpTo(items, k) = UpTo(items, k - 1) \o Tokens(items[k])
    BY UpToIs
  <2> QED
    BY <2>2, <2>3, ConcatProperties, Zenon DEF Off
<1> QED
  BY <1>1, <1>2, <1>3, <1>4

LEMMA OffGrows ==
    ASSUME NEW items, IsItems(items), NEW l \in 0 .. Len(items), NEW k \in 0 .. l
    PROVE  Off(items, k) <= Off(items, l)
<1> DEFINE n == Len(items)
           T == {i \in 0 .. n : \A j \in 0 .. i : Off(items, j) <= Off(items, i)}
<1>1. n \in Nat
  BY OffIs
<1> HIDE DEF n
<1>o. \A i \in 0 .. n : Off(items, i) \in Nat
  BY OffIs DEF n
<1>2. 0 \in T
  BY <1>1, <1>o
<1>3. ASSUME NEW i \in 0 .. n - 1, i \in T PROVE i + 1 \in T
  <2>1. i + 1 \in 1 .. n /\ (i + 1) - 1 = i /\ i \in 0 .. n /\ i + 1 \in 0 .. n
    BY <1>1
  <2>2. Off(items, i + 1) = Off(items, i) + Len(Tokens(items[i + 1]))
    BY <2>1, OffIs DEF n
  <2>3. Len(Tokens(items[i + 1])) \in Nat
    BY <2>1, TokensAre DEF n
  <2>4. Off(items, i) <= Off(items, i + 1)
    BY <1>o, <2>1, <2>2, <2>3
  <2>5. ASSUME NEW j \in 0 .. i + 1 PROVE Off(items, j) <= Off(items, i + 1)
    <3>1. CASE j = i + 1
      BY <1>o, <2>1, <3>1
    <3>2. CASE j # i + 1
      <4>1. j \in 0 .. i /\ j \in 0 .. n
        <5> HIDE DEF T
        <5> QED
          BY <1>1, <2>1, <3>2
      <4>2. Off(items, j) <= Off(items, i)
        BY <1>3, <4>1
      <4> QED
        BY <1>o, <2>1, <2>4, <4>1, <4>2
    <3> QED
      BY <3>1, <3>2
  <2> QED
    BY <2>1, <2>5
<1> HIDE DEF T
<1>4. \A i \in 0 .. n : i \in T
  BY <1>1, <1>2, <1>3, AllUpTo, Zenon
<1> QED
  BY <1>4 DEF T, n

(* Every position of the stream is in an item.                              *)
LEMMA Located ==
    ASSUME NEW items, IsItems(items), NEW p \in Nat, p < Off(items, Len(items))
    PROVE  \E k \in 1 .. Len(items) : Off(items, k - 1) <= p /\ p < Off(items, k)
<1> DEFINE n == Len(items)
           U == {k \in 0 .. n : p < Off(items, k)}
<1>1. n \in Nat /\ Off(items, 0) = 0 /\ \A k \in 0 .. n : Off(items, k) \in Nat
  BY OffIs
<1>2. n \in U /\ U \subseteq Nat
  BY <1>1
<1>3. PICK k \in U : \A j \in U : k <= j
  <2> HIDE DEF U
  <2> QED
    BY <1>2, NatHasLeast
<1> HIDE DEF n
<1>4. k \in 1 .. n /\ k - 1 \in 0 .. n
  BY <1>1
<1>5. k - 1 \notin U
  BY <1>1, <1>3, <1>4
<1>6. Off(items, k - 1) <= p
  BY <1>1, <1>4, <1>5
<1> QED
  BY <1>4, <1>6 DEF n

(* And it is the item's token there.                                        *)
LEMMA TokenAt ==
    ASSUME NEW items, IsItems(items), NEW k \in 1 .. Len(items),
           NEW i \in 1 .. Len(Tokens(items[k]))
    PROVE  UpTo(items, Len(items))[Off(items, k - 1) + i] = Tokens(items[k])[i]
<1> DEFINE n == Len(items)
           Agrees(l) == UpTo(items, l)[Off(items, k - 1) + i] = Tokens(items[k])[i]
           T == {l \in 0 .. n : l >= k => Agrees(l)}
           q == Off(items, k - 1) + i
<1>1. n \in Nat /\ \A l \in 0 .. n : Off(items, l) \in Nat
  BY OffIs
<1>2. 0 \in T
  BY <1>1
<1>3. ASSUME NEW l \in 0 .. n - 1, l \in T PROVE l + 1 \in T
  <2>1. l + 1 \in 1 .. n /\ (l + 1) - 1 = l /\ l \in 0 .. n /\ l + 1 \in 0 .. n /\ k - 1 \in 0 .. n
        /\ k \in Nat
    BY <1>1
  <2>2. UpTo(items, l + 1) = UpTo(items, l) \o Tokens(items[l + 1])
    <3> HIDE DEF T
    <3> QED
      BY <2>1, UpToIs
  <2>3. /\ UpTo(items, l) \in Seq(Seq(Nat)) /\ Tokens(items[l + 1]) \in Seq(Seq(Nat))
        /\ Len(UpTo(items, l)) = Off(items, l) /\ Off(items, l) \in Nat
        /\ Len(Tokens(items[l + 1])) \in Nat
    <3> HIDE DEF T
    <3> QED
      BY <1>1, <2>1, UpToIs, TokensAre DEF Off
  <2> DEFINE a == UpTo(items, l)
             b == Tokens(items[l + 1])
  <2> HIDE DEF a, b
  <2>4. \A j \in 1 .. Len(a) + Len(b) : (a \o b)[j] = IF j <= Len(a) THEN a[j] ELSE b[j - Len(a)]
    <3>1. a \in Seq(Seq(Nat)) /\ b \in Seq(Seq(Nat))
      BY <2>3 DEF a, b
    <3> QED
      BY <3>1, ConcatProperties
  <2>5. Off(items, k - 1) \in Nat /\ i \in Nat \ {0} /\ i <= Len(Tokens(items[k]))
    <3>1. Len(Tokens(items[k])) \in Nat
      BY TokensAre
    <3> QED
      BY <1>1, <2>1, <3>1
  <2>6. CASE l + 1 = k
    <3>1. k - 1 = l /\ b = Tokens(items[k])
      BY <2>1, <2>6 DEF b
    <3>2. /\ q \in 1 .. Len(a) + Len(b) /\ ~(q <= Len(a)) /\ q - Len(a) = i
          /\ Len(a) = Off(items, l)
      <4>1. Len(a) = Off(items, l) /\ Len(a) \in Nat /\ Len(b) \in Nat
        BY <2>3 DEF a, b
      <4>2. i <= Len(b)
        BY <2>5, <3>1
      <4>3. q = Len(a) + i
        BY <3>1, <4>1
      <4> HIDE DEF q
      <4> QED
        BY <2>5, <4>1, <4>2, <4>3
    <3> HIDE DEF q
    <3>3. (a \o b)[q] = b[i]
      BY <2>4, <3>2
    <3>4. Agrees(l + 1)
      BY <2>2, <3>1, <3>3 DEF a, b, q
    <3> QED
      BY <2>1, <3>4
  <2>7. CASE l >= k
    <3>1. Agrees(l)
      BY <1>3, <2>7
    <3>2. q \in 1 .. Len(a) /\ Len(a) \in Nat /\ Len(b) \in Nat
      <4>1. Off(items, k) = Off(items, k - 1) + Len(Tokens(items[k])) /\ Len(Tokens(items[k])) \in Nat
        BY OffIs, TokensAre
      <4>2. k \in 0 .. l /\ l \in 0 .. Len(items)
        BY <2>1, <2>7
      <4>3. Off(items, k) <= Off(items, l)
        BY <4>2, OffGrows
      <4>4. Len(a) = Off(items, l) /\ Len(a) \in Nat /\ Len(b) \in Nat
        BY <2>3 DEF a, b
      <4> DEFINE x == Off(items, k - 1)
                 y == Len(Tokens(items[k]))
                 z == Off(items, l)
                 w == Off(items, k)
      <4>5. w = x + y /\ w <= z /\ x \in Nat /\ y \in Nat /\ z \in Nat /\ i <= y /\ i \in Nat \ {0}
            /\ Len(a) = z
        BY <2>3, <2>5, <4>1, <4>3, <4>4
      <4> HIDE DEF x, y, z, w
      <4>6. x + i \in 1 .. z
        BY <4>5
      <4> QED
        BY <4>4, <4>5, <4>6 DEF x
    <3> HIDE DEF q
    <3>3. (a \o b)[q] = a[q]
      BY <2>4, <3>2
    <3>4. Agrees(l + 1)
      BY <2>2, <3>1, <3>3 DEF a, b, q
    <3> QED
      BY <2>1, <3>4
  <2>8. CASE ~(l + 1 >= k)
    BY <2>1, <2>8
  <2> QED
    BY <2>1, <2>6, <2>7, <2>8
<1> HIDE DEF T
<1>4. \A l \in 0 .. n : l \in T
  BY <1>1, <1>2, <1>3, AllUpTo, Zenon
<1>5. n \in T /\ n >= k
  BY <1>1, <1>4
<1> QED
  BY <1>5 DEF T

----------------------------------------------------------------------------
LEMMA FlattenHasConcats ==
    ASSUME NEW V, NEW n \in Nat, NEW S, Parts(S, V, n)
    PROVE  \E G : Concats(G, S, V, n) /\ Flattened(S, n) = G[n]
<1> PICK G : Concats(G, S, V, n)
  BY ConcatsExist
<1>1. n \in 0 .. n
  OBVIOUS
<1>2. Flattened(S, n) = G[n]
  BY <1>1, FlattenIsConcat
<1> QED
  BY <1>2, Zenon

(* A payload has ByteBits bits for each byte.                               *)
LEMMA BitsOfBytes ==
    ASSUME NEW b \in Seq(Nat)
    PROVE  Len(Bits(b)) = Len(b) * ByteBits
<1> DEFINE n == Len(b)
           part(k) == [j \in 1 .. ByteBits |-> (b[k] \div 2 ^ (ByteBits - j)) % 2]
           S == [k \in 1 .. n |-> part(k)]
           V == UNION {{part(k)[j] : j \in 1 .. ByteBits} : k \in 1 .. n}
<1>1. n \in Nat /\ DOMAIN b = 1 .. n /\ ByteBits \in Nat
  BY LenProperties, DecoderAssumption
<1>2. ASSUME NEW k \in 1 .. n PROVE S[k] \in Seq(V) /\ Len(S[k]) = ByteBits
  <2> DEFINE s == S[k]
  <2>1. s = part(k) /\ DOMAIN s = 1 .. ByteBits
    OBVIOUS
  <2>2. \A j \in 1 .. ByteBits : s[j] \in V
    <3> TAKE j \in 1 .. ByteBits
    <3>1. s[j] = part(k)[j]
      BY <2>1, Zenon
    <3> DEFINE e(i, l) == part(i)[l]
    <3> HIDE DEF part
    <3> QED
      BY <3>1
  <2>3. s = [j \in 1 .. ByteBits |-> s[j]]
    BY <2>1
  <2> HIDE DEF s, V
  <2>4. s \in [1 .. ByteBits -> V]
    BY <2>2, <2>3
  <2>5. s \in Seq(V)
    BY <1>1, <2>4, SeqDef
  <2>6. DOMAIN s = 1 .. Len(s) /\ Len(s) \in Nat
    BY <2>5, LenProperties
  <2>7. Len(s) = ByteBits
    BY <1>1, <2>4, <2>6
  <2> QED
    BY <2>5, <2>7 DEF s
<1>3. Bits(b) = Flattened(S, n)
  <2>1. [k \in 1 .. n |-> S[k]] = [k \in DOMAIN b |-> part(k)]
    BY <1>1
  <2> QED
    BY <2>1, Zenon DEF Bits, Flattened
<1> HIDE DEF S, V, n
<1>n. n \in Nat
  BY <1>1
<1>a. \A k \in 1 .. n : S[k] \in Seq(V)
  BY <1>2
<1>p. Parts(S, V, n)
  BY <1>a DEF Parts
<1>4. PICK G : Concats(G, S, V, n) /\ Flattened(S, n) = G[n]
  BY <1>n, <1>p, FlattenHasConcats, Zenon
<1> DEFINE T == {k \in 0 .. n : Len(G[k]) = k * ByteBits}
<1>6. 0 \in T
  <2>1. G[0] = <<>>
    BY <1>4, Zenon DEF Concats
  <2>2. 0 * ByteBits = 0 /\ 0 \in 0 .. n
    BY <1>1
  <2>3. Len(<<>>) = 0
    BY EmptySeq
  <2> QED
    BY <2>1, <2>2, <2>3, Zenon
<1>7. ASSUME NEW k \in 0 .. n - 1, k \in T PROVE k + 1 \in T
  <2>1. k + 1 \in 1 .. n /\ (k + 1) - 1 = k /\ k \in 0 .. n /\ k + 1 \in 0 .. n /\ k \in Nat
    BY <1>1
  <2>2. G[k + 1] = G[k] \o S[k + 1]
    <3>1. G[k + 1] = G[(k + 1) - 1] \o S[k + 1]
      BY <1>4, <2>1, Zenon DEF Concats
    <3> QED
      BY <2>1, <3>1, Zenon
  <2>3. G[k] \in Seq(V)
    BY <1>4, <2>1 DEF Concats
  <2>4. Len(G[k + 1]) = Len(G[k]) + Len(S[k + 1])
    <3>1. S[k + 1] \in Seq(V)
      BY <1>a, <2>1
    <3>2. Len(G[k] \o S[k + 1]) = Len(G[k]) + Len(S[k + 1])
      BY <2>3, <3>1, ConcatProperties
    <3> QED
      BY <2>2, <3>2, Zenon
  <2>5. (k + 1) * ByteBits = k * ByteBits + ByteBits
    BY <1>1, <2>1
  <2> QED
    BY <1>2, <1>7, <2>1, <2>4, <2>5
<1> HIDE DEF T
<1>8. \A k \in 0 .. n : k \in T
  BY <1>1, <1>6, <1>7, AllUpTo, Zenon
<1>9. n \in 0 .. n
  BY <1>1
<1>10. Len(G[n]) = n * ByteBits
  BY <1>8, <1>9 DEF T
<1> QED
  BY <1>3, <1>4, <1>10 DEF n

(* What the reader has of an item whose first i tokens it has read.         *)
Begun(item, i) ==
    IF item.kind = "junk" \/ (Len(item.bytes) = 0 /\ i >= 3) THEN <<>>
    ELSE SubSeq(Tokens(item), 1, i)

LEMMA BegunIs ==
    ASSUME NEW s \in Seq(Seq(Nat)), NEW i \in 0 .. Len(s)
    PROVE  /\ SubSeq(s, 1, i) \in Seq(Seq(Nat)) /\ Len(SubSeq(s, 1, i)) = i
           /\ \A j \in 1 .. i : SubSeq(s, 1, i)[j] = s[j]
<1> DEFINE V == Seq(Nat)
<1>1. Len(s) \in Nat /\ \A j \in 1 .. i : s[j] \in V
  BY LenProperties, ElementOfSeq
<1> HIDE DEF V
<1>2. /\ SubSeq(s, 1, i) \in Seq(V) /\ Len(SubSeq(s, 1, i)) = IF 1 <= i THEN i - 1 + 1 ELSE 0
      /\ \A j \in 1 .. i - 1 + 1 : SubSeq(s, 1, i)[j] = s[1 + j - 1]
  <2>1. 1 \in Int /\ i \in Int
    BY <1>1
  <2>2. \A j \in 1 .. i : s[j] \in V
    BY <1>1
  <2> QED
    BY <2>1, <2>2, SubSeqProperties
<1>3. \A j \in 1 .. i : 1 + j - 1 = j
  OBVIOUS
<1>4. i - 1 + 1 = i /\ (1 <= i \/ i = 0)
  BY <1>1
<1> QED
  BY <1>2, <1>3, <1>4 DEF V

LEMMA BegunGrows ==
    ASSUME NEW s \in Seq(Seq(Nat)), NEW i \in Nat, i < Len(s)
    PROVE  Append(SubSeq(s, 1, i), s[i + 1]) = SubSeq(s, 1, i + 1)
<1> DEFINE a == SubSeq(s, 1, i)
           b == SubSeq(s, 1, i + 1)
           c == Append(a, s[i + 1])
<1>1. Len(s) \in Nat /\ i \in 0 .. Len(s) /\ i + 1 \in 0 .. Len(s) /\ s[i + 1] \in Seq(Nat)
  BY LenProperties, ElementOfSeq
<1>2. a \in Seq(Seq(Nat)) /\ Len(a) = i /\ \A j \in 1 .. i : a[j] = s[j]
  BY <1>1, BegunIs
<1>3. b \in Seq(Seq(Nat)) /\ Len(b) = i + 1 /\ \A j \in 1 .. i + 1 : b[j] = s[j]
  BY <1>1, BegunIs
<1> HIDE DEF a, b
<1>4. /\ c \in Seq(Seq(Nat)) /\ Len(c) = i + 1
      /\ \A j \in 1 .. i : c[j] = a[j] /\ c[i + 1] = s[i + 1]
  BY <1>1, <1>2, AppendProperties
<1>5. c[i + 1] = s[i + 1]
  BY <1>1, <1>2, AppendProperties
<1> HIDE DEF c
<1>6. \A j \in 1 .. Len(c) : c[j] = b[j]
  <2> TAKE j \in 1 .. Len(c)
  <2>1. j \in 1 .. i \/ j = i + 1
    BY <1>1, <1>4
  <2>2. j \in 1 .. i + 1
    BY <1>1, <1>4
  <2> QED
    BY <1>2, <1>3, <1>4, <1>5, <2>1, <2>2
<1>7. c = b
  BY <1>3, <1>4, <1>6, SeqEqual
<1> QED
  BY <1>7 DEF a, b, c

(* A new token in a frame begun, by the frame's length. *)
LEMMA NextTokenIs ==
    ASSUME NEW f, NEW t, Len(f) \in Nat
    PROVE  /\ Len(f) = 0 => NextToken(f, t) = IF t = <<Preamble>> THEN Append(f, t) ELSE <<>>
           /\ Len(f) = 1 => NextToken(f, t) = IF Len(t) = 1 /\ t[1] < 4 THEN Append(f, t) ELSE <<>>
           /\ Len(f) = 2 => NextToken(f, t) =
                  IF PayloadSize(Append(f, t)) = 0 THEN <<>> ELSE Append(f, t)
           /\ Len(f) > 2 => NextToken(f, t) = Append(f, t)
<1> DEFINE n == Len(f)
           a == Append(f, t)
           x == IF t = <<Preamble>> THEN a ELSE <<>>
           y == IF Len(t) = 1 /\ t[1] < 4 THEN a ELSE <<>>
           z == IF PayloadSize(a) = 0 THEN <<>> ELSE a
           e == CASE n = 0 -> x [] n = 1 -> y [] n = 2 -> z [] OTHER -> a
<1>1. NextToken(f, t) = e
  BY Zenon DEF NextToken
<1>2. n \in Nat
  OBVIOUS
<1> HIDE DEF n, a, x, y, z
<1>3. /\ n = 0 => e = x
      /\ n = 1 => e = y
      /\ n = 2 => e = z
      /\ n > 2 => e = a
  BY <1>2
<1> HIDE DEF e
<1> QED
  BY <1>1, <1>3, Zenon DEF n, a, x, y, z

LEMMA JunkIsDropped ==
    ASSUME NEW item, IsItem(item), item.kind = "junk", Preamble \notin Range(item.bytes),
           NEW i \in 1 .. Len(item.bytes)
    PROVE  NextToken(<<>>, Tokens(item)[i]) = <<>>
<1>1. item.bytes \in Seq(Nat)
  BY DEF IsItem
<1>2. item.bytes[i] \in Range(item.bytes)
  BY <1>1 DEF Range
<1>3. Tokens(item)[i] = <<item.bytes[i]>>
  BY TokensOfJunk
<1> DEFINE x == item.bytes[i]
<1>4. x # Preamble /\ Tokens(item)[i] = <<x>>
  BY <1>2, <1>3
<1> HIDE DEF x
<1>5. <<x>> # <<Preamble>>
  BY <1>4
<1>6. Len(<<>>) = 0
  OBVIOUS
<1>7. NextToken(<<>>, <<x>>) = <<>>
  BY <1>5, <1>6, NextTokenIs
<1> QED
  BY <1>4, <1>7, Zenon

(* Three tokens tell the length of the payload. *)
LEMMA HeaderIsRead ==
    ASSUME NEW item, IsItem(item), item.kind # "junk", NEW f,
           \A j \in 1 .. 3 : f[j] = Tokens(item)[j]
    PROVE  PayloadSize(f) = Len(item.bytes)
<1>1. Len(item.bytes) \in Nat
  BY LenProperties DEF IsItem
<1> DEFINE a == Len(item.bytes) \div Scale
           b == Len(item.bytes) % Scale
<1>2. f[2] = <<a>> /\ f[3] = <<b>>
  <2>1. 2 \in 1 .. 3 /\ 3 \in 1 .. 3 /\ 2 \in 1 .. Len(item.bytes) + 3 /\ 3 \in 1 .. Len(item.bytes) + 3
    BY <1>1
  <2>2. Tokens(item)[2] = <<FrameBytes(item)[2]>> /\ Tokens(item)[3] = <<FrameBytes(item)[3]>>
    BY <2>1, TokensOfFrame
  <2> QED
    BY <2>1, <2>2, FrameBytesAre
<1>3. a * Scale + b = Len(item.bytes)
  BY <1>1, HeaderTellsSize
<1> HIDE DEF a, b
<1>4. Last(f[2]) = a /\ Last(f[3]) = b
  BY <1>2 DEF Last
<1> QED
  BY <1>3, <1>4 DEF PayloadSize, Scale

(* The reader takes in every token of a frame with a payload. *)
LEMMA FrameGrows ==
    ASSUME NEW item, IsItem(item), item.kind # "junk", Len(item.bytes) # 0,
           NEW i \in Nat, i < Len(Tokens(item))
    PROVE  NextToken(SubSeq(Tokens(item), 1, i), Tokens(item)[i + 1]) = SubSeq(Tokens(item), 1, i + 1)
<1> DEFINE s == Tokens(item)
           f == SubSeq(s, 1, i)
           g == SubSeq(s, 1, i + 1)
           t == s[i + 1]
           n == Len(item.bytes)
<1>1. n \in Nat /\ n # 0 /\ Len(s) = n + 4 /\ s \in Seq(Seq(Nat))
  BY TokensOfFrame, LenProperties DEF IsItem
<1>2. \A j \in 1 .. n + 3 : s[j] = <<FrameBytes(item)[j]>>
  BY TokensOfFrame
<1>3. Len(f) = i
  BY <1>1, BegunIs
<1>4. \A j \in 1 .. i + 1 : g[j] = s[j]
  BY <1>1, BegunIs
<1>5. Append(f, t) = g
  BY <1>1, BegunGrows
<1>6. i = 2 => PayloadSize(g) = n
  <2> HIDE DEF g
  <2> SUFFICES ASSUME i = 2 PROVE PayloadSize(g) = n
    OBVIOUS
  <2>1. \A j \in 1 .. 3 : g[j] = Tokens(item)[j]
    BY <1>4
  <2> QED
    BY <2>1, HeaderIsRead
<1>7. i = 0 => t = <<Preamble>>
  <2>1. 1 \in 1 .. n + 3
    BY <1>1
  <2> QED
    BY <1>2, <2>1, FrameBytesAre
<1>8. i = 1 => Len(t) = 1 /\ t[1] < 4
  <2>1. 2 \in 1 .. n + 3
    BY <1>1
  <2>2. s[2] = <<n \div Scale>>
    BY <1>2, <2>1, FrameBytesAre
  <2>3. n \div Scale < 4
    <3>1. n < 4 * Scale
      BY DEF IsItem, Scale
    <3> QED
      BY <1>1, <3>1, HeaderTellsSize
  <2> DEFINE q == n \div Scale
  <2> HIDE DEF q
  <2>4. i = 1 => t = <<q>>
    BY <2>2 DEF q
  <2>5. Len(<<q>>) = 1 /\ <<q>>[1] = q /\ q < 4
    BY <2>3 DEF q
  <2> QED
    BY <2>4, <2>5
<1>9. NextToken(f, t) = g
  <2> HIDE DEF f, g, t, s, n
  <2>1. i = 0 => NextToken(f, t) = g
    BY <1>3, <1>5, <1>7, NextTokenIs
  <2>2. i = 1 => NextToken(f, t) = g
    BY <1>3, <1>5, <1>8, NextTokenIs
  <2>3. i = 2 => NextToken(f, t) = g
    BY <1>1, <1>3, <1>5, <1>6, NextTokenIs
  <2>4. i > 2 => NextToken(f, t) = g
    BY <1>3, <1>5, NextTokenIs
  <2> QED
    BY <2>1, <2>2, <2>3, <2>4
<1> QED
  BY <1>9, Zenon

LEMMA TailOfThree ==
    ASSUME NEW h \in Seq(Nat), Len(h) = 3
    PROVE  Len(Tail(h)) = 2
<1>1. h # <<>>
  <2>1. Len(<<>>) = 0
    BY EmptySeq
  <2> QED
    BY <2>1, 3 # 0, Zenon
<1>2. Len(Tail(h)) = Len(h) - 1
  BY <1>1, HeadTailProperties
<1> QED
  BY <1>2

(* And nothing of one without. *)
LEMMA EmptyFrameIsDropped ==
    ASSUME NEW item, IsItem(item), item.kind # "junk", Len(item.bytes) = 0,
           NEW i \in 0 .. 3
    PROVE  NextToken(Begun(item, i), Tokens(item)[i + 1]) = Begun(item, i + 1)
<1> DEFINE s == Tokens(item)
           f == SubSeq(s, 1, i)
           g == SubSeq(s, 1, i + 1)
           t == s[i + 1]
<1>0. 0 + 4 = 4 /\ 0 + 3 = 3
  OBVIOUS
<1>1. Len(s) = 4 /\ s \in Seq(Seq(Nat))
  BY <1>0, TokensOfFrame, Zenon
<1>2. \A j \in 1 .. 3 : s[j] = <<FrameBytes(item)[j]>>
  BY <1>0, TokensOfFrame, Zenon
<1>3. Len(f) = i
  BY <1>1, BegunIs
<1>4. \A j \in 1 .. i + 1 : g[j] = s[j]
  BY <1>1, BegunIs
<1>5. Append(f, t) = g
  BY <1>1, BegunGrows
<1>6. CASE i = 0
  <2>1. t = <<Preamble>>
    BY <1>2, <1>6, FrameBytesAre
  <2>2. Begun(item, i) = f /\ Begun(item, i + 1) = g
    BY <1>6 DEF Begun
  <2> HIDE DEF f, g, t
  <2>3. NextToken(f, t) = g
    BY <1>3, <1>5, <1>6, <2>1, NextTokenIs
  <2> QED
    BY <2>2, <2>3 DEF t, s
<1>7. CASE i = 1
  <2>1. t = <<0 \div Scale>>
    BY <1>2, <1>7, FrameBytesAre
  <2>2. Len(t) = 1 /\ t[1] < 4
    <3>1. 0 \div Scale < 4
      <4>1. 0 < 4 * Scale
        BY ScaleIsNat
      <4> QED
        BY <4>1, HeaderTellsSize
    <3> QED
      BY <2>1, <3>1
  <2>3. Begun(item, i) = f /\ Begun(item, i + 1) = g
    BY <1>7 DEF Begun
  <2> HIDE DEF f, g, t
  <2>4. NextToken(f, t) = g
    BY <1>3, <1>5, <1>7, <2>2, NextTokenIs
  <2> QED
    BY <2>3, <2>4 DEF t, s
<1>8. CASE i = 2
  <2>1. PayloadSize(g) = 0
    <3> HIDE DEF g
    <3>1. \A j \in 1 .. 3 : g[j] = Tokens(item)[j]
      BY <1>4, <1>8
    <3>2. PayloadSize(g) = Len(item.bytes)
      BY <3>1, HeaderIsRead, Zenon
    <3> QED
      BY <3>2, Zenon
  <2>2. Begun(item, i) = f /\ Begun(item, i + 1) = <<>>
    BY <1>8 DEF Begun
  <2> HIDE DEF f, g, t
  <2>3. NextToken(f, t) = <<>>
    <3>1. Len(f) = 2 /\ Len(f) \in Nat
      BY <1>3, <1>8
    <3>2. NextToken(f, t) = IF PayloadSize(Append(f, t)) = 0 THEN <<>> ELSE Append(f, t)
      BY <3>1, NextTokenIs, Zenon
    <3> QED
      BY <1>5, <2>1, <3>2, Zenon
  <2> QED
    BY <2>2, <2>3 DEF t, s
<1>9. CASE i = 3
  <2>1. t = IF item.kind = "frame" THEN FrameBytes(item) ELSE Tail(FrameBytes(item))
    BY <1>9, TokensOfFrame
  <2>2. Len(t) # 1
    <3>1. FrameBytes(item) \in Seq(Nat) /\ Len(FrameBytes(item)) = 3
      BY <1>0, FrameBytesAre, Zenon
    <3>2. Len(Tail(FrameBytes(item))) = 2
      BY <3>1, TailOfThree, Zenon
    <3>3. 3 # 1 /\ 2 # 1
      OBVIOUS
    <3> QED
      BY <2>1, <3>1, <3>2, <3>3, Zenon
  <2>3. t # <<Preamble>>
    BY <2>2
  <2>4. Begun(item, i) = <<>> /\ Begun(item, i + 1) = <<>>
    BY <1>9 DEF Begun
  <2> HIDE DEF t
  <2>5. NextToken(<<>>, t) = <<>>
    <3>1. Len(<<>>) = 0
      OBVIOUS
    <3> QED
      BY <2>3, <3>1, NextTokenIs
  <2> QED
    BY <2>4, <2>5 DEF t, s
<1> QED
  BY <1>6, <1>7, <1>8, <1>9

(* A frame is whole with the last of its tokens.                            *)
LEMMA WholeIs ==
    ASSUME NEW item, IsItem(item), item.kind # "junk",
           NEW i \in 1 .. Len(Tokens(item))
    PROVE  Whole(SubSeq(Tokens(item), 1, i)) <=> i = Len(Tokens(item))
<1> DEFINE s == Tokens(item)
           g == SubSeq(s, 1, i)
           n == Len(item.bytes)
<1>1. n \in Nat /\ Len(s) = n + 4 /\ s \in Seq(Seq(Nat))
  BY TokensOfFrame, LenProperties DEF IsItem
<1>2. i \in 0 .. Len(s)
  BY <1>1
<1>3. Len(g) = i /\ \A j \in 1 .. i : g[j] = s[j]
  BY <1>1, <1>2, BegunIs
<1>4. i >= 3 => PayloadSize(g) = n
  <2> HIDE DEF g
  <2> SUFFICES ASSUME i >= 3 PROVE PayloadSize(g) = n
    OBVIOUS
  <2>1. \A j \in 1 .. 3 : g[j] = Tokens(item)[j]
    BY <1>1, <1>3
  <2> QED
    BY <2>1, HeaderIsRead
<1> HIDE DEF g, n, s
<1> QED
  BY <1>1, <1>3, <1>4 DEF Whole, g, s

LEMMA NothingIsNotWhole == ~Whole(<<>>)
<1>1. Len(<<>>) = 0
  OBVIOUS
<1> QED
  BY <1>1 DEF Whole

(* The bytes of a frame that is whole, and its payload. *)
LEMMA BytesAreRead ==
    ASSUME NEW item, IsItem(item), item.kind # "junk"
    PROVE  /\ [k \in 1 .. Len(Tokens(item)) - 1 |-> Last(Tokens(item)[k])] = FrameBytes(item)
           /\ SubSeq(FrameBytes(item), 4, Len(FrameBytes(item))) = item.bytes
<1> DEFINE s == Tokens(item)
           n == Len(item.bytes)
           f == FrameBytes(item)
           b == item.bytes
           p == SubSeq(f, 4, Len(f))
<1>1. n \in Nat /\ Len(s) = n + 4 /\ \A k \in 1 .. n + 3 : s[k] = <<f[k]>>
  BY TokensOfFrame, LenProperties DEF IsItem
<1>2. f \in Seq(Nat) /\ Len(f) = n + 3 /\ \A i \in 1 .. n : f[i + 3] = b[i]
  BY FrameBytesAre
<1>3. b \in Seq(Nat)
  BY DEF IsItem
<1>4. [k \in 1 .. Len(s) - 1 |-> Last(s[k])] = f
  <2> HIDE DEF s, f, n
  <2>1. \A k \in 1 .. n + 3 : Last(s[k]) = f[k]
    BY <1>1 DEF Last
  <2>2. f = [k \in 1 .. n + 3 |-> f[k]]
    BY <1>1, <1>2
  <2>3. Len(s) - 1 = n + 3
    BY <1>1
  <2> QED
    BY <2>1, <2>2, <2>3
<1>5. p = b
  <2>1. p \in Seq(Nat) /\ Len(p) = n /\ \A i \in 1 .. n : p[i] = f[i + 3]
    <3> HIDE DEF f, n
    <3> QED
      BY <1>1, <1>2, SubSeqProperties
  <2> HIDE DEF p
  <2>2. Len(b) = n
    OBVIOUS
  <2> HIDE DEF b, n, f
  <2> QED
    BY <1>1, <1>2, <1>3, <2>1, <2>2, SeqEqual
<1> QED
  BY <1>4, <1>5, Zenon

LEMMA AllOfIt ==
    ASSUME NEW s \in Seq(Seq(Nat))
    PROVE  SubSeq(s, 1, Len(s)) = s
<1> DEFINE g == SubSeq(s, 1, Len(s))
<1>1. Len(s) \in Nat /\ Len(s) \in 0 .. Len(s)
  BY LenProperties
<1>2. g \in Seq(Seq(Nat)) /\ Len(g) = Len(s) /\ \A j \in 1 .. Len(s) : g[j] = s[j]
  BY <1>1, BegunIs
<1> HIDE DEF g
<1>3. \A j \in 1 .. Len(g) : g[j] = s[j]
  BY <1>2
<1>4. g = s
  BY <1>2, <1>3, SeqEqual
<1> QED
  BY <1>4 DEF g

(* A frame that is whole is decoded if it can be.                           *)
LEMMA ParseIs ==
    ASSUME NEW item, IsItem(item), item.kind # "junk"
    PROVE  /\ parse(Tokens(item)) \in {"skipped", "raised", "decoded"}
           /\ parse(Tokens(item)) = "decoded" <=> Decodable(item)
<1> DEFINE s == Tokens(item)
           n == Len(item.bytes)
           f == FrameBytes(item)
           bytes == [k \in 1 .. Len(s) - 1 |-> Last(s[k])]
           payload == Bits(SubSeq(bytes, 4, Len(bytes)))
<1>1. bytes = f
  BY BytesAreRead, Zenon
<1>2. SubSeq(bytes, 4, Len(bytes)) = item.bytes
  BY <1>1, BytesAreRead, Zenon
<1>3. payload = Bits(item.bytes)
  BY <1>2, Zenon
<1>4. Len(payload) = n * ByteBits
  BY <1>3, BitsOfBytes DEF IsItem
<1>5. n \in Nat /\ ByteBits \in Nat
  BY LenProperties, DecoderAssumption DEF IsItem
<1>6. Last(s) = IF item.kind = "frame" THEN f ELSE Tail(f)
  BY TokensOfFrame DEF Last
<1>7. item.kind \in {"frame", "broken"}
  BY DEF IsItem
<1>8. Tail(f) # f
  <2>1. f \in Seq(Nat) /\ Len(f) = n + 3
    BY FrameBytesAre
  <2> HIDE DEF f
  <2>2. f # <<>>
    <3>1. n + 3 # 0
      BY <1>5
    <3> QED
      BY <2>1, <3>1, EmptySeq
  <2>3. Len(Tail(f)) = Len(f) - 1
    BY <2>1, <2>2, HeadTailProperties
  <2>4. Len(f) - 1 # Len(f)
    BY <1>5, <2>1
  <2> QED
    BY <2>3, <2>4
<1>9. parse(s) = IF Last(s) # bytes THEN "skipped"
                 ELSE IF Len(payload) < IdBits THEN "raised"
                 ELSE IF RTCMMessage(payload).ok THEN "decoded" ELSE "skipped"
  BY Zenon DEF parse
<1>10. Decodable(item) <=> /\ item.kind = "frame" /\ Len(payload) >= IdBits
                           /\ RTCMMessage(payload).ok
  BY <1>3, <1>4 DEF Decodable
<1>11. Last(s) = bytes <=> item.kind = "frame"
  BY <1>1, <1>6, <1>7, <1>8
<1>12. Len(payload) >= IdBits <=> ~(Len(payload) < IdBits)
  <2>1. n * ByteBits \in Nat
    BY <1>5
  <2> HIDE DEF payload, bytes, s, n
  <2> QED
    BY <1>4, <2>1 DEF IdBits
<1> HIDE DEF payload, bytes, s
<1>13. parse(s) \in {"skipped", "raised", "decoded"}
  BY <1>9, Zenon
<1>14. parse(s) = "decoded" <=> /\ Last(s) = bytes /\ ~(Len(payload) < IdBits)
                                /\ RTCMMessage(payload).ok
  <2>1. "skipped" # "decoded" /\ "raised" # "decoded"
    OBVIOUS
  <2> DEFINE a == Last(s) # bytes
             b == Len(payload) < IdBits
             c == RTCMMessage(payload).ok
  <2>2. parse(s) = IF a THEN "skipped" ELSE IF b THEN "raised" ELSE IF c THEN "decoded" ELSE "skipped"
    BY <1>9, Zenon
  <2>3. CASE a
    BY <2>1, <2>2, <2>3, Zenon
  <2>4. CASE ~a /\ b
    BY <2>1, <2>2, <2>4, Zenon
  <2>5. CASE ~a /\ ~b /\ c
    BY <2>1, <2>2, <2>5, Zenon
  <2>6. CASE ~a /\ ~b /\ ~c
    BY <2>1, <2>2, <2>6, Zenon
  <2> QED
    BY <2>3, <2>4, <2>5, <2>6, Zenon
<1> QED
  BY <1>10, <1>11, <1>12, <1>13, <1>14 DEF s

(* The reader's next token is the item's i + 1st.                           *)
TokenOf(item, i) == NextToken(Begun(item, i), Tokens(item)[i + 1])
GoesOn(item, i) ==
    /\ ~Whole(TokenOf(item, i)) /\ TokenOf(item, i) = Begun(item, i + 1)
Ends(item, i) ==
    IF Whole(TokenOf(item, i))
    THEN /\ parse(TokenOf(item, i)) \in {"skipped", "raised", "decoded"}
         /\ parse(TokenOf(item, i)) = "decoded" <=> Decodable(item)
    ELSE TokenOf(item, i) = <<>> /\ ~Decodable(item)

IsClean(item) == item.kind = "junk" => Preamble \notin Range(item.bytes)

LEMMA TokenStep ==
    ASSUME NEW item, IsItem(item), IsClean(item), NEW i \in Nat, i < Len(Tokens(item))
    PROVE  IF i + 1 = Len(Tokens(item)) THEN Ends(item, i) ELSE GoesOn(item, i)
<1> DEFINE n == Len(item.bytes)
           s == Tokens(item)
<1>1. n \in Nat
  BY LenProperties DEF IsItem
<1>2. ASSUME item.kind = "junk"
      PROVE  IF i + 1 = Len(s) THEN Ends(item, i) ELSE GoesOn(item, i)
  <2>1. Begun(item, i) = <<>> /\ Begun(item, i + 1) = <<>>
    BY <1>2 DEF Begun
  <2>2. i + 1 \in 1 .. n
    BY <1>1, <1>2, TokensOfJunk
  <2>3. NextToken(<<>>, s[i + 1]) = <<>>
    BY <1>2, <2>2, JunkIsDropped DEF IsClean
  <2>4. TokenOf(item, i) = <<>>
    BY <2>1, <2>3, Zenon DEF TokenOf
  <2>5. ~Decodable(item)
    BY <1>2 DEF Decodable
  <2> QED
    BY <2>1, <2>4, <2>5, NothingIsNotWhole DEF Ends, GoesOn
<1>3. ASSUME item.kind # "junk", n = 0
      PROVE  IF i + 1 = Len(s) THEN Ends(item, i) ELSE GoesOn(item, i)
  <2>1. Len(s) = 4 /\ i \in 0 .. 3
    <3>1. 0 + 4 = 4
      OBVIOUS
    <3>2. Len(s) = 4
      BY <1>3, <3>1, TokensOfFrame, Zenon
    <3> HIDE DEF s
    <3> QED
      BY <3>2 DEF s
  <2>2. TokenOf(item, i) = Begun(item, i + 1)
    BY <1>3, <2>1, EmptyFrameIsDropped, Zenon DEF TokenOf
  <2>3. i + 1 >= 3 => Begun(item, i + 1) = <<>>
    BY <1>3 DEF Begun
  <2>4. ~Decodable(item)
    <3>1. n * ByteBits = 0
      BY <1>3, DecoderAssumption
    <3>2. ~(0 >= IdBits)
      BY DEF IdBits
    <3> QED
      BY <3>1, <3>2, Zenon DEF Decodable
  <2>5. ~Whole(Begun(item, i + 1))
    <3>1. CASE i + 1 >= 3
      BY <2>3, <3>1, NothingIsNotWhole
    <3>2. CASE ~(i + 1 >= 3)
      <4>1. Begun(item, i + 1) = SubSeq(s, 1, i + 1)
        BY <1>3, <3>2 DEF Begun
      <4>2. i + 1 \in 1 .. Len(s) /\ i + 1 # Len(s)
        BY <2>1, <3>2
      <4> QED
        BY <1>3, <4>1, <4>2, WholeIs, Zenon
    <3> QED
      BY <3>1, <3>2
  <2>6. i + 1 = Len(s) => Begun(item, i + 1) = <<>>
    BY <2>1, <2>3
  <2> QED
    BY <2>2, <2>4, <2>5, <2>6 DEF Ends, GoesOn
<1>4. ASSUME item.kind # "junk", n # 0
      PROVE  IF i + 1 = Len(s) THEN Ends(item, i) ELSE GoesOn(item, i)
  <2>1. s \in Seq(Seq(Nat)) /\ Len(s) = n + 4
    BY <1>4, TokensOfFrame
  <2>2. Begun(item, i) = SubSeq(s, 1, i) /\ Begun(item, i + 1) = SubSeq(s, 1, i + 1)
    BY <1>4 DEF Begun
  <2>3. TokenOf(item, i) = SubSeq(s, 1, i + 1)
    BY <1>4, <2>2, FrameGrows, Zenon DEF TokenOf
  <2>4. i + 1 \in 1 .. Len(s)
    BY <1>1, <2>1
  <2>5. Whole(TokenOf(item, i)) <=> i + 1 = Len(s)
    BY <1>4, <2>3, <2>4, WholeIs, Zenon
  <2>6. i + 1 = Len(s) => TokenOf(item, i) = s
    BY <2>1, <2>3, AllOfIt
  <2>7. i + 1 = Len(s) => Ends(item, i)
    BY <1>4, <2>5, <2>6, ParseIs, Zenon DEF Ends
  <2>8. i + 1 # Len(s) => GoesOn(item, i)
    BY <2>2, <2>3, <2>5 DEF GoesOn
  <2> QED
    BY <2>7, <2>8
<1> QED
  BY <1>2, <1>3, <1>4

Clean(items) == \A k \in 1 .. Len(items) : IsClean(items[k])
EndsOf(items) == {Off(items, k) : k \in {j \in 1 .. Len(items) : Decodable(items[j])}}

(* What a reader that is in step holds after p tokens of a stream.          *)
HeldAt(items, p, f) ==
    \A k \in 1 .. Len(items) :
        (Off(items, k - 1) <= p /\ p < Off(items, k)) => f = Begun(items[k], p - Off(items, k - 1))

LEMMA NothingIsBegun ==
    ASSUME NEW item
    PROVE  Begun(item, 0) = <<>>
<1>1. SubSeq(Tokens(item), 1, 0) = <<>>
  BY SubSeqEmpty
<1> QED
  BY <1>1, Zenon DEF Begun

(* Position p is in item k only, and an end in between is no end.           *)
LEMMA ItemIsUnique ==
    ASSUME NEW items, IsItems(items), NEW k \in 1 .. Len(items), NEW l \in 1 .. Len(items),
           Off(items, k - 1) <= Off(items, k), Off(items, l - 1) < Off(items, k),
           Off(items, k - 1) < Off(items, l)
    PROVE  k = l
<1>1. Len(items) \in Nat /\ \A j \in 0 .. Len(items) : Off(items, j) \in Nat
  BY OffIs
<1>2. l < k => Off(items, l) <= Off(items, k - 1)
  <2> SUFFICES ASSUME l < k PROVE Off(items, l) <= Off(items, k - 1)
    OBVIOUS
  <2>1. k - 1 \in 0 .. Len(items) /\ l \in 0 .. k - 1
    BY <1>1
  <2> QED
    BY <2>1, OffGrows
<1>3. k < l => Off(items, k) <= Off(items, l - 1)
  <2> SUFFICES ASSUME k < l PROVE Off(items, k) <= Off(items, l - 1)
    OBVIOUS
  <2>1. l - 1 \in 0 .. Len(items) /\ k \in 0 .. l - 1
    BY <1>1
  <2> QED
    BY <2>1, OffGrows
<1>4. /\ k - 1 \in 0 .. Len(items) /\ l - 1 \in 0 .. Len(items)
      /\ k \in 0 .. Len(items) /\ l \in 0 .. Len(items)
  BY <1>1
<1>5. /\ Off(items, k - 1) \in Nat /\ Off(items, l - 1) \in Nat
      /\ Off(items, k) \in Nat /\ Off(items, l) \in Nat
  BY <1>1, <1>4
<1>6. ~(l < k) /\ ~(k < l)
  BY <1>2, <1>3, <1>5
<1> QED
  BY <1>1, <1>6

(* An item that can be decoded is not empty.                                *)
LEMMA DecodableIsThere ==
    ASSUME NEW items, IsItems(items), NEW k \in 1 .. Len(items), Decodable(items[k])
    PROVE  Off(items, k - 1) < Off(items, k)
<1>1. IsItem(items[k]) /\ items[k].kind # "junk"
  BY TokensAre DEF Decodable
<1>2. Len(Tokens(items[k])) = Len(items[k].bytes) + 4 /\ Len(items[k].bytes) \in Nat
  BY <1>1, TokensOfFrame, LenProperties DEF IsItem
<1>3. Off(items, k) = Off(items, k - 1) + Len(Tokens(items[k]))
  BY OffIs
<1>4. k - 1 \in 0 .. Len(items)
  BY OffIs
<1>5. Off(items, k - 1) \in Nat
  BY <1>4, OffIs
<1> QED
  BY <1>2, <1>3, <1>5

What(g) == IF Whole(g) THEN parse(g) ELSE "skipped"
Kept(g) == IF Whole(g) THEN <<>> ELSE g

(* A reader that is in step stays so with every token, and has decoded a    *)
(* frame exactly at the end of one that can be decoded.                     *)
LEMMA TokenRead ==
    ASSUME NEW items, IsItems(items), Clean(items), NEW p \in Nat, p < Off(items, Len(items)),
           NEW f, HeldAt(items, p, f),
           NEW g, g = NextToken(f, UpTo(items, Len(items))[p + 1])
    PROVE  /\ What(g) \in {"skipped", "raised", "decoded"}
           /\ HeldAt(items, p + 1, Kept(g))
           /\ What(g) = "decoded" <=> p + 1 \in EndsOf(items)
<1> DEFINE n == Len(items)
           O(k) == Off(items, k)
<1> HIDE DEF O
<1>1. n \in Nat /\ (\A k \in 0 .. n : O(k) \in Nat)
      /\ \A k \in 1 .. n : O(k) = O(k - 1) + Len(Tokens(items[k]))
  BY OffIs DEF O
<1>2. PICK k \in 1 .. n : O(k - 1) <= p /\ p < O(k)
  BY Located DEF O
<1> DEFINE i == p - O(k - 1)
           item == items[k]
<1>3. k - 1 \in 0 .. n /\ k \in 0 .. n /\ O(k - 1) \in Nat /\ O(k) \in Nat
  BY <1>1
<1>4. IsItem(item) /\ Len(Tokens(item)) \in Nat /\ O(k) = O(k - 1) + Len(Tokens(item))
  BY <1>1, TokensAre
<1>5. i \in Nat /\ i < Len(Tokens(item)) /\ O(k - 1) + (i + 1) = p + 1
  BY <1>2, <1>3, <1>4
<1>6. i + 1 \in 1 .. Len(Tokens(item))
  BY <1>4, <1>5
<1>7. UpTo(items, n)[O(k - 1) + (i + 1)] = Tokens(item)[i + 1]
  BY <1>6, TokenAt DEF O
<1>8. f = Begun(item, i)
  BY <1>2 DEF HeldAt, O
<1>9. g = TokenOf(item, i)
  BY <1>5, <1>7, <1>8, Zenon DEF TokenOf
<1>10. IsClean(item)
  BY DEF Clean
<1>11. IF i + 1 = Len(Tokens(item)) THEN Ends(item, i) ELSE GoesOn(item, i)
  BY <1>4, <1>5, <1>10, TokenStep
<1>12. i + 1 = Len(Tokens(item)) <=> p + 1 = O(k)
  BY <1>3, <1>4, <1>5
<1> HIDE DEF i
<1>13. ASSUME NEW l \in 1 .. n, O(l - 1) <= p, p < O(l)
       PROVE  l = k
  <2>1. l - 1 \in 0 .. n /\ l \in 0 .. n /\ O(l - 1) \in Nat /\ O(l) \in Nat
    BY <1>1
  <2>2. O(k - 1) <= O(k) /\ O(l - 1) < O(k) /\ O(k - 1) < O(l)
    BY <1>2, <1>3, <1>13, <2>1
  <2> QED
    BY <2>2, ItemIsUnique DEF O
<1>14. CASE p + 1 = O(k)
  <2>1. Ends(item, i)
    BY <1>11, <1>12, <1>14
  <2>2. What(g) \in {"skipped", "raised", "decoded"} /\ (What(g) = "decoded" <=> Decodable(item))
    BY <1>9, <2>1, Zenon DEF Ends, What
  <2>3. Kept(g) = <<>>
    BY <1>9, <2>1, Zenon DEF Ends, Kept
  <2>4. HeldAt(items, p + 1, <<>>)
    <3> SUFFICES ASSUME NEW l \in 1 .. n, O(l - 1) <= p + 1, p + 1 < O(l)
                 PROVE  <<>> = Begun(items[l], (p + 1) - O(l - 1))
      BY DEF HeldAt, O
    <3>1. l - 1 \in 0 .. n /\ l \in 0 .. n /\ O(l - 1) \in Nat /\ O(l) \in Nat
      BY <1>1
    <3>2. O(l - 1) = p + 1
      <4> SUFFICES ASSUME O(l - 1) <= p PROVE FALSE
        BY <3>1
      <4>1. p < O(l)
        BY <3>1
      <4>2. l = k
        BY <1>13, <4>1
      <4> QED
        BY <1>14, <3>1, <4>2
    <3>3. (p + 1) - O(l - 1) = 0
      BY <3>1, <3>2
    <3> QED
      BY <3>3, NothingIsBegun, Zenon
  <2>5. Decodable(item) <=> p + 1 \in EndsOf(items)
    <3>1. ASSUME Decodable(item) PROVE p + 1 \in EndsOf(items)
      BY <1>14, <3>1 DEF EndsOf, O
    <3>2. ASSUME p + 1 \in EndsOf(items) PROVE Decodable(item)
      <4>1. PICK l \in 1 .. n : Decodable(items[l]) /\ p + 1 = O(l)
        BY <3>2 DEF EndsOf, O
      <4>2. O(l - 1) < O(l)
        BY <4>1, DecodableIsThere DEF O
      <4>3. l - 1 \in 0 .. n /\ l \in 0 .. n /\ O(l - 1) \in Nat /\ O(l) \in Nat
        BY <1>1
      <4>4. O(l - 1) <= p /\ p < O(l)
        BY <4>1, <4>2, <4>3
      <4>5. l = k
        BY <1>13, <4>4
      <4> QED
        BY <4>1, <4>5
    <3> QED
      BY <3>1, <3>2
  <2> QED
    BY <2>2, <2>3, <2>4, <2>5, Zenon
<1>15. CASE p + 1 # O(k)
  <2>1. GoesOn(item, i)
    BY <1>11, <1>12, <1>15
  <2>2. What(g) = "skipped" /\ Kept(g) = Begun(item, i + 1)
    BY <1>9, <2>1, Zenon DEF GoesOn, What, Kept
  <2>3. p + 1 < O(k)
    BY <1>2, <1>3, <1>15
  <2>4. \A l \in 1 .. n : O(l - 1) <= p + 1 /\ p + 1 < O(l) => l = k
    <3> SUFFICES ASSUME NEW l \in 1 .. n, O(l - 1) <= p + 1, p + 1 < O(l) PROVE l = k
      OBVIOUS
    <3>1. l - 1 \in 0 .. n /\ l \in 0 .. n /\ O(l - 1) \in Nat /\ O(l) \in Nat
      BY <1>1
    <3>2. O(k - 1) <= O(k) /\ O(l - 1) < O(k) /\ O(k - 1) < O(l)
      BY <1>2, <1>3, <2>3, <3>1
    <3> QED
      BY <3>2, ItemIsUnique DEF O
  <2>5. (p + 1) - O(k - 1) = i + 1
    BY <1>3 DEF i
  <2>6. HeldAt(items, p + 1, Begun(item, i + 1))
    <3> SUFFICES ASSUME NEW l \in 1 .. n, O(l - 1) <= p + 1, p + 1 < O(l)
                 PROVE  Begun(item, i + 1) = Begun(items[l], (p + 1) - O(l - 1))
      BY DEF HeldAt, O
    <3>1. l = k
      BY <2>4
    <3> QED
      BY <2>5, <3>1, Zenon
  <2>7. p + 1 \notin EndsOf(items)
    <3> SUFFICES ASSUME NEW l \in 1 .. n, Decodable(items[l]), p + 1 = O(l) PROVE FALSE
      BY DEF EndsOf, O
    <3>1. O(l - 1) < O(l)
      BY DecodableIsThere DEF O
    <3>2. l - 1 \in 0 .. n /\ l \in 0 .. n /\ O(l - 1) \in Nat /\ O(l) \in Nat
      BY <1>1
    <3>3. O(l - 1) <= p /\ p < O(l)
      BY <3>1, <3>2
    <3>4. l = k
      BY <1>13, <3>3
    <3> QED
      BY <1>15, <3>4
  <2>8. "skipped" # "decoded"
    OBVIOUS
  <2> QED
    BY <2>2, <2>6, <2>7, <2>8, Zenon
<1> QED
  BY <1>14, <1>15

----------------------------------------------------------------------------
(* The states of a call of next(reader), token by token.                    *)
Steps(R, base, seq, n) ==
    /\ R = [k \in 0 .. n |-> R[k]] /\ R[0] = base
    /\ \A k \in 1 .. n : R[k] = ReadToken(R[k - 1], seq[k])

LEMMA StepsExist ==
    ASSUME NEW base, NEW seq, NEW n \in Nat
    PROVE  \E R : Steps(R, base, seq, n)
<1> DEFINE T == {k \in 0 .. n : \E R : Steps(R, base, seq, k)}
<1>1. 0 \in T
  <2> DEFINE R == [i \in 0 .. 0 |-> base]
  <2>1. Steps(R, base, seq, 0)
    BY DEF Steps
  <2> QED
    BY <2>1
<1>2. ASSUME NEW k \in 0 .. n - 1, k \in T PROVE k + 1 \in T
  <2>1. PICK R : Steps(R, base, seq, k)
    BY <1>2
  <2> DEFINE next == ReadToken(R[k], seq[k + 1])
             H == [i \in 0 .. k + 1 |-> IF i = k + 1 THEN next ELSE R[i]]
  <2> HIDE DEF next
  <2>2. H = [i \in 0 .. k + 1 |-> H[i]] /\ H[k + 1] = next /\ \A i \in 0 .. k : H[i] = R[i]
    OBVIOUS
  <2> HIDE DEF H
  <2>3. \A i \in 1 .. k + 1 : H[i] = ReadToken(H[i - 1], seq[i])
    <3> TAKE i \in 1 .. k + 1
    <3>1. CASE i = k + 1
      <4>1. i - 1 = k /\ k \in 0 .. k
        BY <3>1
      <4>2. H[i] = next /\ H[i - 1] = R[k]
        BY <2>2, <3>1, <4>1
      <4> QED
        BY <3>1, <4>2 DEF next
    <3>2. CASE i # k + 1
      <4>1. i \in 1 .. k /\ i \in 0 .. k /\ i - 1 \in 0 .. k
        BY <3>2
      <4>2. H[i] = R[i] /\ H[i - 1] = R[i - 1]
        BY <2>2, <4>1
      <4>3. R[i] = ReadToken(R[i - 1], seq[i])
        BY <2>1, <4>1, Zenon DEF Steps
      <4> QED
        BY <4>2, <4>3, Zenon
    <3> QED
      BY <3>1, <3>2
  <2>4. H[0] = base
    <3>1. 0 \in 0 .. k
      OBVIOUS
    <3> QED
      BY <2>1, <2>2, <3>1 DEF Steps
  <2>5. Steps(H, base, seq, k + 1)
    BY <2>2, <2>3, <2>4, Zenon DEF Steps
  <2> QED
    BY <2>5
<1> HIDE DEF T
<1>3. \A k \in 0 .. n : k \in T
  BY <1>1, <1>2, AllUpTo, Zenon
<1>4. n \in 0 .. n
  OBVIOUS
<1> QED
  BY <1>3, <1>4 DEF T

LEMMA ReadIsSteps ==
    ASSUME NEW frame, NEW at, NEW seq, Len(seq) \in Nat,
           NEW base, base = [at |-> at, what |-> "skipped", whole |-> <<>>, frame |-> frame]
    PROVE  \E R : Steps(R, base, seq, Len(seq)) /\ read(frame, at, seq) = R[Len(seq)]
<1> DEFINE n == Len(seq)
           Is(f) == f = [k \in 0 .. n |-> IF k = 0 THEN base ELSE ReadToken(f[k - 1], seq[k])]
           F == CHOOSE f : Is(f)
<1>1. read(frame, at, seq) = F[n]
  BY Zenon DEF read, Through
<1>2. PICK R : Steps(R, base, seq, n)
  BY StepsExist
<1>3. Is(R)
  <2>1. \A k \in 0 .. n : R[k] = IF k = 0 THEN base ELSE ReadToken(R[k - 1], seq[k])
    <3> TAKE k \in 0 .. n
    <3>1. CASE k = 0
      BY <1>2, <3>1, Zenon DEF Steps
    <3>2. CASE k # 0
      <4>1. k \in 1 .. n
        BY <3>2
      <4> QED
        BY <1>2, <3>2, <4>1, Zenon DEF Steps
    <3> QED
      BY <3>1, <3>2
  <2>2. R = [k \in 0 .. n |-> R[k]]
    BY <1>2 DEF Steps
  <2> DEFINE A == [k \in 0 .. n |-> R[k]]
             B == [k \in 0 .. n |-> IF k = 0 THEN base ELSE ReadToken(R[k - 1], seq[k])]
  <2>3. A = B
    BY <2>1
  <2> QED
    BY <2>2, <2>3, Zenon
<1>4. Is(F)
  BY <1>3, Zenon
<1> HIDE DEF F
<1>5. F = [k \in 0 .. n |-> F[k]] /\ \A k \in 0 .. n : F[k] = IF k = 0 THEN base ELSE ReadToken(F[k - 1], seq[k])
  BY <1>4
<1>6. Steps(F, base, seq, n)
  <2>1. F[0] = base
    <3>1. 0 \in 0 .. n
      OBVIOUS
    <3> QED
      BY <1>5, <3>1, Zenon
  <2>2. \A k \in 1 .. n : F[k] = ReadToken(F[k - 1], seq[k])
    <3> TAKE k \in 1 .. n
    <3>1. k \in 0 .. n /\ k # 0
      OBVIOUS
    <3> QED
      BY <1>5, <3>1, Zenon
  <2> QED
    BY <1>5, <2>1, <2>2, Zenon DEF Steps
<1> QED
  BY <1>1, <1>6

(* A call of next(reader) that has begun before token "from" and is now in  *)
(* state s: it is in step, and has passed no end of a frame that can be     *)
(* decoded but the last token's, by which it was decoded.                   *)
InStep(items, from, s) ==
    /\ s.at \in Nat /\ from <= s.at
    /\ s.what \in {"skipped", "raised", "decoded"}
    /\ HeldAt(items, s.at - 1, s.frame)
    /\ s.what = "decoded" => from < s.at
    /\ \A e \in EndsOf(items) : (from <= e /\ e < s.at) <=> (s.what = "decoded" /\ e = s.at - 1)
    /\ s.what = "decoded" => s.at - 1 \in EndsOf(items)

LEMMA ReadTokenIs ==
    ASSUME NEW s, NEW t, NEW g, g = NextToken(s.frame, t)
    PROVE  /\ s.what # "skipped" => ReadToken(s, t) = s
           /\ s.what = "skipped" =>
                  /\ ReadToken(s, t).at = s.at + 1 /\ ReadToken(s, t).what = What(g)
                  /\ ReadToken(s, t).frame = Kept(g)
<1> DEFINE r == [at |-> s.at + 1, what |-> What(g), whole |-> g, frame |-> Kept(g)]
<1>1. ReadToken(s, t) = IF s.what # "skipped" THEN s ELSE r
  BY Zenon DEF ReadToken, What, Kept
<1>2. r.at = s.at + 1 /\ r.what = What(g) /\ r.frame = Kept(g)
  OBVIOUS
<1> HIDE DEF r
<1> QED
  BY <1>1, <1>2, Zenon

LEMMA EndsAreNat ==
    ASSUME NEW items, IsItems(items)
    PROVE  EndsOf(items) \subseteq Nat
<1>1. \A k \in 0 .. Len(items) : Off(items, k) \in Nat
  BY OffIs
<1>2. \A k \in 1 .. Len(items) : k \in 0 .. Len(items)
  BY OffIs
<1> QED
  BY <1>1, <1>2 DEF EndsOf

LEMMA InStepStays ==
    ASSUME NEW items, IsItems(items), Clean(items), NEW from \in Nat \ {0}, NEW s,
           InStep(items, from, s), s.what = "skipped", s.at - 1 < Off(items, Len(items))
    PROVE  LET u == ReadToken(s, UpTo(items, Len(items))[s.at]) IN
           InStep(items, from, u) /\ u.at = s.at + 1
<1> DEFINE p == s.at - 1
           t == UpTo(items, Len(items))[s.at]
           g == NextToken(s.frame, t)
           u == ReadToken(s, t)
<1>1. s.at \in Nat /\ from <= s.at /\ p \in Nat /\ p + 1 = s.at /\ HeldAt(items, p, s.frame)
  BY DEF InStep
<1>2. g = NextToken(s.frame, UpTo(items, Len(items))[p + 1])
  BY <1>1, Zenon
<1>3. u.at = s.at + 1 /\ u.what = What(g) /\ u.frame = Kept(g)
  <2>1. g = NextToken(s.frame, t)
    OBVIOUS
  <2> HIDE DEF g, t
  <2>2. ReadToken(s, t).at = s.at + 1 /\ ReadToken(s, t).what = What(g) /\ ReadToken(s, t).frame = Kept(g)
    BY <2>1, ReadTokenIs
  <2> QED
    BY <2>2
<1>4. p < Off(items, Len(items))
  OBVIOUS
<1> HIDE DEF g, u, p
<1>5. /\ What(g) \in {"skipped", "raised", "decoded"}
      /\ HeldAt(items, p + 1, Kept(g))
      /\ What(g) = "decoded" <=> p + 1 \in EndsOf(items)
  BY <1>1, <1>2, <1>4, TokenRead, Zenon
<1>6. u.at - 1 = p + 1 /\ u.at = s.at + 1 /\ u.at - 1 = s.at
  BY <1>1, <1>3
<1>7. HeldAt(items, u.at - 1, u.frame)
  BY <1>3, <1>5, <1>6, Zenon
<1>8. u.what = "decoded" <=> u.at - 1 \in EndsOf(items)
  BY <1>3, <1>5, <1>6, Zenon
<1>9. \A e \in EndsOf(items) : (from <= e /\ e < u.at) <=> (u.what = "decoded" /\ e = u.at - 1)
  <2> TAKE e \in EndsOf(items)
  <2>1. e \in Nat
    BY EndsAreNat
  <2>2. ~(from <= e /\ e < s.at)
    BY DEF InStep
  <2>3. e = u.at - 1 => u.what = "decoded"
    BY <1>8
  <2>4. (from <= e /\ e < u.at) <=> e = u.at - 1
    BY <1>1, <1>6, <2>1, <2>2
  <2> QED
    BY <2>3, <2>4
<1>10. u.at \in Nat /\ from <= u.at /\ from < u.at
  BY <1>1, <1>6
<1>11. u.what \in {"skipped", "raised", "decoded"}
  BY <1>3, <1>5, Zenon
<1>12. InStep(items, from, u)
  BY <1>7, <1>8, <1>9, <1>10, <1>11 DEF InStep
<1> QED
  BY <1>6, <1>12 DEF u

(* The call, on the tokens in the buffer, a part of the stream.             *)
IsPart(seq, tokens, from) == \A k \in 1 .. Len(seq) : seq[k] = tokens[from + k - 1]
LEMMA ReadIsInStep ==
    ASSUME NEW items, IsItems(items), Clean(items), NEW from \in Nat \ {0}, NEW frame,
           HeldAt(items, from - 1, frame), NEW seq, Len(seq) \in Nat,
           from - 1 + Len(seq) <= Off(items, Len(items)),
           IsPart(seq, UpTo(items, Len(items)), from),
           NEW now, now = read(frame, from, seq)
    PROVE  /\ InStep(items, from, now) /\ now.at <= from + Len(seq)
           /\ now.what = "skipped" => now.at = from + Len(seq)
<1> DEFINE n == Len(seq)
           base == [at |-> from, what |-> "skipped", whole |-> <<>>, frame |-> frame]
           tokens == UpTo(items, Len(items))
<1>1. PICK R : Steps(R, base, seq, n) /\ now = R[n]
  BY ReadIsSteps
<1>2. Off(items, Len(items)) \in Nat
  <2>1. Len(items) \in 0 .. Len(items)
    BY OffIs
  <2> QED
    BY <2>1, OffIs
<1> DEFINE Ok(k) == /\ InStep(items, from, R[k]) /\ R[k].at <= from + k
                    /\ R[k].what = "skipped" => R[k].at = from + k
           T == {k \in 0 .. n : Ok(k)}
<1>3. Ok(0)
  <2>1. R[0] = base
    BY <1>1 DEF Steps
  <2>2. base.at = from /\ base.what = "skipped" /\ base.frame = frame
    OBVIOUS
  <2> HIDE DEF base
  <2>3. from \in Nat /\ from <= from /\ from + 0 = from
    OBVIOUS
  <2>4. \A e \in EndsOf(items) : ~(from <= e /\ e < from)
    BY EndsAreNat
  <2>5. "skipped" # "decoded"
    OBVIOUS
  <2>6. InStep(items, from, base)
    BY <2>2, <2>3, <2>4, <2>5 DEF InStep
  <2> QED
    BY <2>1, <2>2, <2>3, <2>6
<1>4. ASSUME NEW k \in 0 .. n - 1, Ok(k) PROVE Ok(k + 1)
  <2>1. k + 1 \in 1 .. n /\ (k + 1) - 1 = k
    OBVIOUS
  <2>2. R[k + 1] = ReadToken(R[k], seq[k + 1])
    BY <1>1, <2>1, Zenon DEF Steps
  <2>3. R[k].at \in Nat
    BY <1>4 DEF InStep
  <2> DEFINE s == R[k]
             u == R[k + 1]
  <2>4. CASE s.what # "skipped"
    <3>1. u = s
      BY <2>2, <2>4, ReadTokenIs, Zenon
    <3>2. s.at <= from + (k + 1)
      BY <1>4, <2>3
    <3> QED
      BY <1>4, <2>4, <3>1, <3>2, Zenon
  <2>5. CASE s.what = "skipped"
    <3>1. s.at = from + k
      BY <1>4, <2>5
    <3>2. seq[k + 1] = tokens[from + (k + 1) - 1] /\ from + (k + 1) - 1 = from + k
      BY <2>1 DEF IsPart
    <3>3. seq[k + 1] = tokens[s.at]
      BY <3>1, <3>2, Zenon
    <3>4. s.at - 1 < Off(items, Len(items))
      BY <1>2, <3>1
    <3> HIDE DEF s, u
    <3>5. u = ReadToken(s, tokens[s.at])
      BY <2>2, <3>3, Zenon DEF s, u
    <3>6. InStep(items, from, s)
      BY <1>4 DEF s
    <3>7. InStep(items, from, u) /\ u.at = s.at + 1
      BY <2>5, <3>4, <3>5, <3>6, InStepStays
    <3>8. u.at = from + (k + 1)
      BY <3>1, <3>7
    <3>9. u.at <= from + (k + 1)
      BY <3>8
    <3> QED
      BY <3>7, <3>8, <3>9, Zenon DEF u
  <2> QED
    BY <2>4, <2>5
<1>5. \A k \in 0 .. n : k \in T
  <2>1. 0 \in T
    BY <1>3
  <2>2. \A k \in 0 .. n - 1 : k \in T => k + 1 \in T
    <3> HIDE DEF Ok
    <3> QED
      BY <1>4
  <2> HIDE DEF T
  <2> QED
    BY <2>1, <2>2, AllUpTo, Zenon
<1>6. n \in 0 .. n
  OBVIOUS
<1>7. Ok(n)
  <2> HIDE DEF Ok
  <2> QED
    BY <1>5, <1>6
<1> QED
  BY <1>1, <1>7, Zenon

----------------------------------------------------------------------------
(* A source's stream, as its items describe it.                             *)
Describes(items, src) ==
    /\ src.tokens = UpTo(items, Len(items)) /\ src.clean = Clean(items)
    /\ {f.end : f \in src.sent} = EndsOf(items) /\ src.size \in Nat \ {0}

(* A chunk of what has been uploaded. *)
IsSpan(c, uploaded) ==
    /\ c.from \in Nat \ {0} /\ c.to \in Nat
    /\ c.from <= c.to + 1 /\ c.to <= uploaded

(* What is read and queued has been uploaded, what was decoded are the      *)
(* frames that end before the buffer, and the reader is in step.            *)
Keeps(items, label, b, q, uploaded, frame, ends) ==
    /\ IsSpan(b, uploaded) /\ \A k \in 1 .. Len(q) : IsSpan(q[k], uploaded)
    /\ ends \in Seq(Nat) /\ Range(ends) = {e \in EndsOf(items) : e < b.from}
    /\ label = "reading" => HeldAt(items, b.from - 1, frame)

Following(m) == told[m] = "ready" /\ m \in subscribed /\ source[m].clean
KeepsUp(m, items) ==
    /\ Describes(items, source[m]) /\ given[m] \in 0 .. Len(Stream(m))
    /\ Following(m) => Keeps(items, thread[m], buf[m], queue[m], given[m], reader[m].frame, got[m])

(* Up to the handler's wait for the start nothing has been read.            *)
NothingReadBeforeStart(m) ==
    handler[m] \in {"accepted", "waiting"} =>
        buf[m].from = 1 /\ got[m] = <<>> /\ reader[m].frame = <<>>

ReaderOf(m) ==
    /\ reader[m] = [in |-> reader[m].in, frame |-> reader[m].frame]
    /\ NothingReadBeforeStart(m)
    /\ \E plan \in Plans : KeepsUp(m, plan[m].items)

PerReader ==
    /\ reader = [m \in Mount |-> reader[m]] /\ got = [m \in Mount |-> got[m]]

ReaderIInv == PerReader /\ \A m \in Mount : ReaderOf(m)

LEMMA SourceIs ==
    ASSUME NEW items, IsItems(items), NEW mode, NEW size \in Nat \ {0}
    PROVE  Describes(items, Source(items, mode, size))
<1> DEFINE entry(k) == [end |-> Off(items, k), id |-> items[k].id, said |-> items[k].said]
           good == {j \in DOMAIN items : Decodable(items[j])}
           frames == {entry(k) : k \in good}
           src == [mode |-> mode, size |-> size, tokens |-> UpTo(items, Len(items)),
                   sent |-> frames, clean |-> Clean(items)]
<1>1. DOMAIN items = 1 .. Len(items)
  BY DEF IsItems
<1>2. Clean(items) = (\A k \in DOMAIN items :
                          items[k].kind = "junk" => Preamble \notin Range(items[k].bytes))
  BY <1>1, Zenon DEF Clean, IsClean
<1>3. Source(items, mode, size) = src
  BY <1>2, Zenon DEF Source, Off, UpTo
<1>4. {f.end : f \in frames} = EndsOf(items)
  <2>1. \A k \in good : entry(k).end = Off(items, k)
    OBVIOUS
  <2>2. EndsOf(items) = {Off(items, k) : k \in good}
    BY <1>1, Zenon DEF EndsOf
  <2> HIDE DEF entry, good
  <2> QED
    BY <2>1, <2>2
<1>5. /\ src.tokens = UpTo(items, Len(items)) /\ src.sent = frames /\ src.size = size
      /\ src.clean = Clean(items)
  <2> DEFINE c == Clean(items)
  <2> HIDE DEF frames, c
  <2> QED
    BY Zenon DEF c
<1> HIDE DEF src, frames
<1> QED
  BY <1>3, <1>4, <1>5 DEF Describes

(* At the start of the stream, a reader that has read nothing keeps up.     *)
LEMMA KeepsAtFirst ==
    ASSUME NEW items, IsItems(items), NEW label, NEW b, b.from = 1, b.to = 0
    PROVE  Keeps(items, label, b, <<>>, 0, <<>>, <<>>)
<1>1. Len(items) \in Nat /\ Off(items, 0) = 0 /\ \A k \in 0 .. Len(items) : Off(items, k) \in Nat
  BY OffIs
<1>2. IsSpan(b, 0)
  BY DEF IsSpan
<1>3. \A e \in EndsOf(items) : ~(e < 1)
  <2> SUFFICES ASSUME NEW k \in 1 .. Len(items), Decodable(items[k]), Off(items, k) < 1 PROVE FALSE
    BY DEF EndsOf
  <2>1. Off(items, k - 1) < Off(items, k)
    BY DecodableIsThere
  <2>2. k - 1 \in 0 .. Len(items) /\ k \in 0 .. Len(items)
    BY <1>1
  <2>3. Off(items, k - 1) \in Nat /\ Off(items, k) \in Nat
    BY <1>1, <2>2
  <2> QED
    BY <2>1, <2>3
<1>4. HeldAt(items, 0, <<>>)
  <2> SUFFICES ASSUME NEW k \in 1 .. Len(items), Off(items, k - 1) <= 0, 0 < Off(items, k)
               PROVE  <<>> = Begun(items[k], 0 - Off(items, k - 1))
    BY DEF HeldAt
  <2>1. k - 1 \in 0 .. Len(items)
    BY <1>1
  <2>2. Off(items, k - 1) \in Nat
    BY <1>1, <2>1
  <2>3. 0 - Off(items, k - 1) = 0
    BY <2>2
  <2> QED
    BY <2>3, NothingIsBegun, Zenon
<1>5. b.from - 1 = 0
  OBVIOUS
<1>6. <<>> \in Seq(Nat) /\ Range(<<>>) = {}
  BY DEF Range
<1>7. Range(<<>>) = {e \in EndsOf(items) : e < b.from}
  BY <1>3, <1>6
<1>8. \A k \in 1 .. Len(<<>>) : IsSpan(<<>>[k], 0)
  OBVIOUS
<1>9. HeldAt(items, b.from - 1, <<>>)
  BY <1>4, <1>5, Zenon
<1> QED
  BY <1>2, <1>6, <1>7, <1>8, <1>9, Zenon DEF Keeps

(* It does when a chunk is sent, ...                                        *)
LEMMA KeepsWhenSent ==
    ASSUME NEW items, NEW label, NEW b, NEW q, q \in Seq(Range(q)), NEW g \in Nat, NEW n \in Nat,
           NEW f, NEW h, Keeps(items, label, b, q, g, f, h)
    PROVE  Keeps(items, label, b, Append(q, [from |-> g + 1, to |-> g + n]), g + n, f, h)
<1> DEFINE c == [from |-> g + 1, to |-> g + n]
           r == Append(q, c)
<1>1. /\ Len(r) = Len(q) + 1 /\ r[Len(q) + 1] = c /\ Len(q) \in Nat
      /\ \A k \in 1 .. Len(q) : r[k] = q[k]
  BY AppendIsSeq
<1>2. IsSpan(c, g + n)
  BY DEF IsSpan
<1>3. ASSUME NEW d, IsSpan(d, g) PROVE IsSpan(d, g + n)
  BY <1>3 DEF IsSpan
<1> HIDE DEF c, r
<1>4. \A k \in 1 .. Len(r) : IsSpan(r[k], g + n)
  <2> TAKE k \in 1 .. Len(r)
  <2>1. CASE k = Len(q) + 1
    BY <1>1, <1>2, <2>1
  <2>2. CASE k # Len(q) + 1
    <3>1. k \in 1 .. Len(q)
      BY <1>1, <2>2
    <3> QED
      BY <1>1, <1>3, <3>1 DEF Keeps
  <2> QED
    BY <2>1, <2>2
<1>5. Keeps(items, label, b, r, g + n, f, h)
  BY <1>3, <1>4, Zenon DEF Keeps
<1> QED
  BY <1>5 DEF c, r

(* ... when the buffer takes a chunk, ...                                   *)
LEMMA KeepsWhenTaken ==
    ASSUME NEW items, NEW label, NEW b, NEW q, q \in Seq(Range(q)), Len(q) > 0, NEW g,
           NEW f, NEW h, Keeps(items, label, b, q, g, f, h), Chained(b, q, g), b.from > b.to
    PROVE  Keeps(items, label, Head(q), Tail(q), g, f, h)
<1>1. /\ Len(Tail(q)) = Len(q) - 1 /\ \A k \in 1 .. Len(q) - 1 : Tail(q)[k] = q[k + 1]
  BY TailIsSeq
<1>2. Head(q) = q[1] /\ Len(q) \in Nat
  OBVIOUS
<1>3. \A k \in 1 .. Len(q) : IsSpan(q[k], g)
  BY Zenon DEF Keeps
<1>4. IsSpan(q[1], g)
  BY <1>2, <1>3
<1>5. q[1].from = b.from
  <2>1. 1 \in 1 .. Len(q) /\ 1 - 1 = 0
    BY <1>2
  <2>2. q[1].from = EndOf(b, q, 0) + 1
    BY <2>1 DEF Chained
  <2>3. EndOf(b, q, 0) = b.to
    BY DEF EndOf
  <2>4. IsSpan(b, g)
    BY DEF Keeps
  <2>5. b.from = b.to + 1
    BY <2>4 DEF IsSpan
  <2> QED
    BY <2>2, <2>3, <2>5, Zenon
<1>6. \A k \in 1 .. Len(Tail(q)) : IsSpan(Tail(q)[k], g)
  <2> DEFINE t == Tail(q)
  <2> HIDE DEF t
  <2> SUFFICES ASSUME NEW k \in 1 .. Len(t) PROVE IsSpan(t[k], g)
    BY DEF t
  <2>1. k \in 1 .. Len(q) - 1 /\ k + 1 \in 1 .. Len(q)
    BY <1>1, <1>2 DEF t
  <2>2. t[k] = q[k + 1]
    BY <1>1, <2>1 DEF t
  <2> QED
    BY <1>3, <2>1, <2>2
<1> DEFINE hd == Head(q)
           t == Tail(q)
<1>7. hd.from = b.from /\ IsSpan(hd, g)
  BY <1>2, <1>4, <1>5, Zenon
<1> HIDE DEF hd, t
<1>8. Keeps(items, label, hd, t, g, f, h)
  <2>1. {e \in EndsOf(items) : e < hd.from} = {e \in EndsOf(items) : e < b.from}
    BY <1>7, Zenon
  <2>2. hd.from - 1 = b.from - 1
    BY <1>7, Zenon
  <2>3. \A k \in 1 .. Len(t) : IsSpan(t[k], g)
    BY <1>6 DEF t
  <2> QED
    BY <1>7, <2>1, <2>2, <2>3, Zenon DEF Keeps
<1> QED
  BY <1>8 DEF hd, t

(* ... and when the buffer is read, up to the next message or its end.      *)
LEMMA KeepsWhenRead ==
    ASSUME NEW items, IsItems(items), Clean(items), NEW b, NEW q, NEW g \in Nat, NEW f, NEW h,
           Keeps(items, "reading", b, q, g, f, h), g <= Off(items, Len(items)), b.from <= b.to,
           NEW now, now = read(f, b.from, SubSeq(UpTo(items, Len(items)), b.from, b.to)),
           NEW c, c.from = now.at, c.to = b.to,
           NEW ends, ends = IF now.what = "decoded" THEN Append(h, now.at - 1) ELSE h
    PROVE  Keeps(items, "reading", c, q, g, now.frame, ends)
<1> DEFINE tokens == UpTo(items, Len(items))
           seq == SubSeq(tokens, b.from, b.to)
           E == EndsOf(items)
<1>1. /\ b.from \in Nat \ {0} /\ b.to \in Nat /\ b.to <= g
      /\ (\A k \in 1 .. Len(q) : IsSpan(q[k], g))
      /\ h \in Seq(Nat) /\ Range(h) = {e \in E : e < b.from} /\ HeldAt(items, b.from - 1, f)
  BY DEF Keeps, IsSpan
<1>2. tokens \in Seq(Seq(Nat)) /\ Len(tokens) \in Nat /\ Len(tokens) = Off(items, Len(items))
  <2>1. Len(items) \in 0 .. Len(items)
    BY OffIs
  <2>2. tokens \in Seq(Seq(Nat))
    BY <2>1, UpToIs
  <2> QED
    BY <2>2, LenProperties DEF Off
<1>3. Len(seq) = b.to - b.from + 1 /\ \A k \in 1 .. Len(seq) : seq[k] = tokens[b.from + k - 1]
  <2>1. \A k \in b.from .. b.to : tokens[k] \in Seq(Nat)
    <3> TAKE k \in b.from .. b.to
    <3>1. k \in 1 .. Len(tokens)
      BY <1>1, <1>2
    <3> HIDE DEF tokens
    <3> QED
      BY <1>2, <3>1, ElementOfSeq
  <2> HIDE DEF tokens
  <2>2. b.from \in Int /\ b.to \in Int
    BY <1>1
  <2> DEFINE V == Seq(Nat)
  <2> HIDE DEF V
  <2>3. /\ Len(SubSeq(tokens, b.from, b.to)) = IF b.from <= b.to THEN b.to - b.from + 1 ELSE 0
        /\ \A k \in 1 .. b.to - b.from + 1 : SubSeq(tokens, b.from, b.to)[k] = tokens[b.from + k - 1]
    BY <2>1, <2>2, SubSeqProperties DEF V
  <2> QED
    BY <2>3
<1>4. now = read(f, b.from, seq)
  OBVIOUS
<1> HIDE DEF seq, tokens
<1>5. Len(seq) \in Nat /\ b.from - 1 + Len(seq) <= Off(items, Len(items))
  BY <1>1, <1>2, <1>3
<1>6. /\ InStep(items, b.from, now) /\ now.at <= b.from + Len(seq)
  <2>1. IsPart(seq, UpTo(items, Len(items)), b.from)
    BY <1>3 DEF IsPart, tokens
  <2> QED
    BY <1>1, <1>4, <1>5, <2>1, ReadIsInStep
<1>7. now.at \in Nat \ {0} /\ now.at <= b.to + 1
  BY <1>1, <1>3, <1>6 DEF InStep
<1>8. IsSpan(c, g)
  BY <1>1, <1>7 DEF IsSpan
<1>9. HeldAt(items, c.from - 1, now.frame)
  BY <1>6 DEF InStep
<1>10. ends \in Seq(Nat) /\ Range(ends) = {e \in E : e < now.at}
  <2> HIDE DEF E
  <2>0. E \subseteq Nat
    BY EndsAreNat DEF E
  <2>1. /\ b.from <= now.at /\ (now.what = "decoded" => now.at - 1 \in E /\ b.from < now.at)
        /\ \A e \in E : (b.from <= e /\ e < now.at) <=> (now.what = "decoded" /\ e = now.at - 1)
    BY <1>6 DEF InStep, E
  <2>2. CASE now.what = "decoded"
    <3>1. ends = Append(h, now.at - 1) /\ now.at - 1 \in Nat
      BY <1>7, <2>2
    <3>2. ends \in Seq(Nat)
      BY <1>1, <3>1, AppendProperties
    <3>3. Range(ends) = Range(h) \cup {now.at - 1}
      <4>1. /\ Len(ends) = Len(h) + 1 /\ Len(h) \in Nat /\ ends[Len(h) + 1] = now.at - 1
            /\ \A k \in 1 .. Len(h) : ends[k] = h[k]
        BY <1>1, <3>1, AppendProperties, LenProperties
      <4>2. DOMAIN ends = 1 .. Len(h) + 1 /\ DOMAIN h = 1 .. Len(h)
        BY <1>1, <3>2, <4>1, LenProperties
      <4> HIDE DEF E
      <4> QED
        BY <4>1, <4>2 DEF Range
    <3>4. \A e \in E : e < now.at <=> (e < b.from \/ e = now.at - 1)
      BY <1>1, <1>7, <2>0, <2>1, <2>2
    <3>5. now.at - 1 \in E
      BY <2>1, <2>2
    <3> QED
      BY <1>1, <3>2, <3>3, <3>4, <3>5
  <2>3. CASE now.what # "decoded"
    <3>1. \A e \in E : e < now.at <=> e < b.from
      BY <1>1, <1>7, <2>0, <2>1, <2>3
    <3> QED
      BY <1>1, <2>3, <3>1
  <2> QED
    BY <2>2, <2>3
<1>11. Range(ends) = {e \in EndsOf(items) : e < c.from}
  BY <1>10, Zenon
<1> QED
  BY <1>1, <1>8, <1>9, <1>10, <1>11, Zenon DEF Keeps

----------------------------------------------------------------------------
(* The stream of a source does not change, and a step of one mount point    *)
(* leaves the readers of the others alone.                                 *)
LEMMA SourceStays ==
    ASSUME NEW m \in Mount, StepOf(m)
    PROVE  source' = source
<1> USE DEF decoderVars
<1>1. CASE StartStrFix(m) \/ Accept(m) \/ StartForPage(m) \/ UploadChunk(m)
  BY <1>1 DEF StartStrFix, Accept, StartForPage, UploadChunk
<1>2. CASE DeliverChunk(m)
  BY <1>2 DEF DeliverChunk
<1>3. CASE EnterRead(m) \/ Parse(m) \/ Fill(m) \/ Leave(m) \/ TimeOut(m) \/ Control(m)
  BY <1>3 DEF EnterRead, Parse, Fill, Leave, TimeOut, Control
<1> QED
  BY <1>1, <1>2, <1>3 DEF StepOf, Reading

ReaderUntouched(n) == reader'[n] = reader[n] /\ got'[n] = got[n]

LEMMA ReadersStep ==
    ASSUME PerReader, NEW m \in Mount, StepOf(m)
    PROVE  PerReader' /\ \A n \in Mount : n # m => ReaderUntouched(n)
<1> USE DEF decoderVars, PerReader, ReaderUntouched
<1>1. CASE StartStrFix(m) \/ Accept(m) \/ StartForPage(m) \/ UploadChunk(m)
  BY <1>1 DEF StartStrFix, Accept, StartForPage, UploadChunk
<1>2. CASE DeliverChunk(m) \/ Fill(m) \/ Leave(m) \/ Control(m)
  BY <1>2 DEF DeliverChunk, Fill, Leave, Control
<1>3. CASE EnterRead(m) \/ TimeOut(m)
  BY <1>3 DEF EnterRead, TimeOut
<1>4. CASE Parse(m)
  <2> PICK r, g : /\ reader' = [reader EXCEPT ![m] = r]
                  /\ got' = [got EXCEPT ![m] = g] \/ got' = got
    <3> DEFINE now == read(reader[m].frame, buf[m].from, SubSeq(Stream(m), buf[m].from, buf[m].to))
    <3>1. reader' = [reader EXCEPT ![m] = [in |-> now.what = "skipped", frame |-> now.frame]]
      BY <1>4, Zenon DEF Parse
    <3>2. got' = [got EXCEPT ![m] = Append(got[m], now.at - 1)] \/ got' = got
      BY <1>4 DEF Parse
    <3> QED
      BY <3>1, <3>2
  <2> QED
    OBVIOUS
<1> QED
  BY <1>1, <1>2, <1>3, <1>4 DEF StepOf, Reading

LEMMA ReaderUntouchedKeeps ==
    ASSUME NEW n \in Mount, Untouched(n), ReaderUntouched(n), source' = source, ReaderOf(n)
    PROVE  ReaderOf(n)'
<1>1. ASSUME NEW items, KeepsUp(n, items) PROVE KeepsUp(n, items)'
  BY <1>1, Zenon DEF Untouched, ReaderUntouched, KeepsUp, Following, Stream
<1>2. (\E plan \in Plans : KeepsUp(n, plan[n].items))'
  BY <1>1 DEF ReaderOf
<1> QED
  BY <1>2 DEF Untouched, ReaderUntouched, ReaderOf, NothingReadBeforeStart

(* A step that moves nothing of the stream, and makes no subscriber or      *)
(* reader of a thread whose start is over already.                          *)
LEMMA ReaderQuietStep ==
    ASSUME NEW m \in Mount, StreamOf(m), ReaderOf(m),
           UNCHANGED <<source, given, queue, buf, got>>,
           reader'[m] = [in |-> reader'[m].in, frame |-> reader'[m].frame],
           \/ reader'[m].frame = reader[m].frame
           \/ reader'[m].frame = <<>> /\ thread'[m] # "reading",
           handler'[m] \in {"accepted", "waiting"} => handler[m] \in {"accepted", "waiting"},
           told'[m] = told[m],
           m \in subscribed' => m \in subscribed \/ startup[m] # "ready",
           thread'[m] = "reading" => thread[m] = "reading" \/ startup[m] # "ready"
    PROVE  ReaderOf(m)'
<1>1. NothingReadBeforeStart(m)'
  BY DEF ReaderOf, NothingReadBeforeStart
<1>2. PICK plan \in Plans : KeepsUp(m, plan[m].items)
  BY DEF ReaderOf
<1> DEFINE items == plan[m].items
<1> HIDE DEF items
<1>3. KeepsUp(m, items)'
  <2>1. Following(m)' => Following(m) /\ startup[m] = "ready"
    BY DEF Following, StreamOf, ToldIsStartup
  <2>2. ASSUME Following(m)'
        PROVE  Keeps(items, thread'[m], buf'[m], queue'[m], given'[m], reader'[m].frame, got'[m])
    <3>1. Keeps(items, thread[m], buf[m], queue[m], given[m], reader[m].frame, got[m])
      BY <1>2, <2>1, <2>2 DEF KeepsUp, items
    <3>2. thread'[m] = "reading" => thread[m] = "reading" /\ reader'[m].frame = reader[m].frame
      BY <2>1, <2>2
    <3> QED
      BY <3>1, <3>2, Zenon DEF Keeps
  <2> QED
    BY <1>2, <2>2, Zenon DEF KeepsUp, Stream, items
<1> QED
  BY <1>1, <1>3 DEF ReaderOf, items

(* The steps of a mount point that move its stream, or tell the handler.    *)
LEMMA ReaderToldStep ==
    ASSUME TypeOK, NEW m \in Mount, StreamOf(m), ReaderOf(m), WaitForStartup(m), UNCHANGED decoderVars
    PROVE  ReaderOf(m)'
<1> USE DEF decoderVars, threadVars
<1>1. /\ handler[m] = "waiting" /\ handler'[m] = "recv"
      /\ UNCHANGED <<thread, startup, subscribed>>
  BY DEF WaitForStartup, TypeOK
<1>2. /\ given[m] = 0 /\ queue[m] = <<>> /\ buf[m].to = 0
      /\ buf[m].from = 1 /\ got[m] = <<>> /\ reader[m].frame = <<>>
  BY <1>1 DEF StreamOf, NothingSentBeforeStart, ReaderOf, NothingReadBeforeStart
<1>3. PICK plan \in Plans : KeepsUp(m, plan[m].items)
  BY DEF ReaderOf
<1> DEFINE items == plan[m].items
<1>4. IsItems(items)
  BY DecoderAssumption
<1> HIDE DEF items
<1>5. Keeps(items, thread'[m], buf'[m], queue'[m], given'[m], reader'[m].frame, got'[m])
  <2>1. Keeps(items, thread'[m], buf[m], <<>>, 0, <<>>, <<>>)
    BY <1>2, <1>4, KeepsAtFirst
  <2> QED
    BY <1>2, <2>1, Zenon
<1>6. KeepsUp(m, items)'
  BY <1>3, <1>5, Zenon DEF KeepsUp, Stream, items
<1>7. NothingReadBeforeStart(m)'
  BY <1>1 DEF NothingReadBeforeStart
<1> QED
  BY <1>6, <1>7 DEF ReaderOf, items

LEMMA ReaderSentStep ==
    ASSUME TypeOK, PerMount, NEW m \in Mount, StreamOf(m), ReaderOf(m), DeliverChunk(m)
    PROVE  ReaderOf(m)'
<1> DEFINE rest == Len(Stream(m)) - given[m]
<1> PICK n \in {k \in {source[m].size} : k < rest} \cup {rest} :
        /\ Deliver(m)
        /\ given' = [given EXCEPT ![m] = @ + n]
        /\ queue' = IF m \in subscribed
                    THEN [queue EXCEPT ![m] = Append(@, [from |-> given[m] + 1, to |-> given[m] + n])]
                    ELSE queue
        /\ UNCHANGED <<source, buf, reader, result, got>>
  BY DEF DeliverChunk
<1>1. /\ handler[m] = "sending" /\ handler'[m] = "recv"
      /\ UNCHANGED <<thread, subscribed, told>>
  BY DEF Deliver, threadVars, TypeOK
<1>2. PICK plan \in Plans : KeepsUp(m, plan[m].items)
  BY DEF ReaderOf
<1> DEFINE items == plan[m].items
<1>3. IsItems(items)
  BY DecoderAssumption
<1> HIDE DEF items
<1>4. /\ Describes(items, source[m]) /\ given[m] \in 0 .. Len(Stream(m))
      /\ Following(m) => Keeps(items, thread[m], buf[m], queue[m], given[m], reader[m].frame, got[m])
  BY <1>2 DEF KeepsUp, items
<1>5. Len(Stream(m)) \in Nat
  <2>1. Len(items) \in 0 .. Len(items)
    BY <1>3, OffIs
  <2>2. Off(items, Len(items)) \in Nat
    BY <1>3, <2>1, OffIs
  <2>3. Stream(m) = UpTo(items, Len(items))
    BY <1>4 DEF Describes, Stream
  <2> QED
    BY <2>2, <2>3, Zenon DEF Off
<1>6. n \in Nat /\ given[m] + n \in 0 .. Len(Stream(m)) /\ given[m] \in Nat
  <2>1. source[m].size \in Nat
    BY <1>4 DEF Describes
  <2> DEFINE len == Len(Stream(m))
  <2>2. len \in Nat /\ given[m] \in 0 .. len
    BY <1>4, <1>5
  <2>3. n = len - given[m] \/ (n = source[m].size /\ n < len - given[m])
    OBVIOUS
  <2> HIDE DEF len
  <2> QED
    BY <2>1, <2>2, <2>3 DEF len
<1>7. given'[m] = given[m] + n
  BY DEF PerMount
<1>8. ASSUME Following(m)'
      PROVE  Keeps(items, thread'[m], buf'[m], queue'[m], given'[m], reader'[m].frame, got'[m])
  <2>1. Following(m) /\ m \in subscribed
    BY <1>1, <1>8 DEF Following
  <2>2. queue'[m] = Append(queue[m], [from |-> given[m] + 1, to |-> given[m] + n])
    BY <2>1 DEF PerMount
  <2>3. queue[m] \in Seq(Range(queue[m]))
    BY DEF StreamOf, QueueIsPipe
  <2>4. Keeps(items, thread[m], buf[m], Append(queue[m], [from |-> given[m] + 1, to |-> given[m] + n]),
              given[m] + n, reader[m].frame, got[m])
    BY <1>4, <1>6, <2>1, <2>3, KeepsWhenSent
  <2> QED
    BY <1>1, <1>7, <2>2, <2>4, Zenon
<1>9. KeepsUp(m, items)'
  <2>1. given'[m] \in 0 .. Len(Stream(m))
    BY <1>6, <1>7
  <2> QED
    BY <1>4, <1>8, <2>1, Zenon DEF KeepsUp, Stream
<1>10. NothingReadBeforeStart(m)'
  BY <1>1 DEF NothingReadBeforeStart
<1>11. reader'[m] = [in |-> reader'[m].in, frame |-> reader'[m].frame]
  BY DEF ReaderOf
<1> QED
  BY <1>9, <1>10, <1>11 DEF ReaderOf, items

LEMMA ReaderTakenStep ==
    ASSUME TypeOK, PerMount, NEW m \in Mount, StreamOf(m), ReaderOf(m), Fill(m)
    PROVE  ReaderOf(m)'
<1>1. /\ thread[m] = "reading" /\ pipe[m] > 0 /\ buf[m].from > buf[m].to
      /\ UNCHANGED <<thread, subscribed, told, handler, given, source, reader, got>>
      /\ queue'[m] = Tail(queue[m]) /\ buf'[m] = Head(queue[m])
  BY DEF Fill, Read, PerMount, TypeOK, threadVars, handlerVars
<1>2. Len(queue[m]) > 0 /\ queue[m] \in Seq(Range(queue[m]))
  BY <1>1 DEF StreamOf, QueueIsPipe
<1>3. PICK plan \in Plans : KeepsUp(m, plan[m].items)
  BY DEF ReaderOf
<1> DEFINE items == plan[m].items
<1> HIDE DEF items
<1>4. ASSUME Following(m)'
      PROVE  Keeps(items, thread'[m], buf'[m], queue'[m], given'[m], reader'[m].frame, got'[m])
  <2>1. Following(m)
    BY <1>1, <1>4 DEF Following
  <2>2. Keeps(items, thread[m], buf[m], queue[m], given[m], reader[m].frame, got[m])
    BY <1>3, <2>1 DEF KeepsUp, items
  <2>3. Chained(buf[m], queue[m], given[m])
    BY <1>2, <2>1, AdjacentIs, AdjacentIsChained DEF StreamOf, NothingMissed, Following
  <2>4. Keeps(items, thread[m], Head(queue[m]), Tail(queue[m]), given[m], reader[m].frame, got[m])
    BY <1>1, <1>2, <2>2, <2>3, KeepsWhenTaken
  <2> QED
    BY <1>1, <2>4, Zenon
<1>5. KeepsUp(m, items)'
  BY <1>1, <1>3, <1>4, Zenon DEF KeepsUp, Stream, items
<1>6. NothingReadBeforeStart(m)'
  <2>1. handler[m] \notin {"accepted", "waiting"}
    BY <1>2 DEF StreamOf, NothingSentBeforeStart
  <2> QED
    BY <1>1, <2>1 DEF NothingReadBeforeStart
<1>7. reader'[m] = [in |-> reader'[m].in, frame |-> reader'[m].frame]
  BY <1>1 DEF ReaderOf
<1> QED
  BY <1>5, <1>6, <1>7 DEF ReaderOf, items

LEMMA ReaderParseStep ==
    ASSUME TypeOK, PerMount, PerReader, NEW m \in Mount, StreamOf(m), ReaderOf(m), Parse(m)
    PROVE  ReaderOf(m)'
<1> DEFINE now == read(reader[m].frame, buf[m].from, SubSeq(Stream(m), buf[m].from, buf[m].to))
<1>1. /\ thread[m] = "reading" /\ buf[m].from <= buf[m].to
      /\ UNCHANGED <<thread, subscribed, told, handler, given, source, queue>>
      /\ buf' = [buf EXCEPT ![m].from = now.at]
      /\ reader' = [reader EXCEPT ![m] = [in |-> now.what = "skipped", frame |-> now.frame]]
  BY Zenon DEF Parse, vars, threadVars, handlerVars
<1>2. got' = IF now.what = "decoded" THEN [got EXCEPT ![m] = Append(@, now.at - 1)] ELSE got
  BY DEF Parse
<1>0. now = read(reader[m].frame, buf[m].from, SubSeq(Stream(m), buf[m].from, buf[m].to))
  OBVIOUS
<1> HIDE DEF now
<1>3. buf'[m].from = now.at /\ buf'[m].to = buf[m].to
  BY <1>1 DEF PerMount, IsChunk
<1>4. reader'[m] = [in |-> now.what = "skipped", frame |-> now.frame]
  BY <1>1 DEF PerReader
<1>5. reader'[m].frame = now.frame /\ reader'[m] = [in |-> reader'[m].in, frame |-> reader'[m].frame]
  BY <1>4
<1>6. got'[m] = IF now.what = "decoded" THEN Append(got[m], now.at - 1) ELSE got[m]
  BY <1>2 DEF PerReader
<1>7. PICK plan \in Plans : KeepsUp(m, plan[m].items)
  BY DEF ReaderOf
<1> DEFINE items == plan[m].items
<1>8. IsItems(items)
  BY DecoderAssumption
<1> HIDE DEF items
<1>9. ASSUME Following(m)'
      PROVE  Keeps(items, thread'[m], buf'[m], queue'[m], given'[m], reader'[m].frame, got'[m])
  <2>1. Following(m)
    BY <1>1, <1>9 DEF Following
  <2>2. Keeps(items, thread[m], buf[m], queue[m], given[m], reader[m].frame, got[m])
    BY <1>7, <2>1 DEF KeepsUp, items
  <2>3. Describes(items, source[m]) /\ given[m] \in 0 .. Len(Stream(m))
    BY <1>7 DEF KeepsUp, items
  <2>4. Stream(m) = UpTo(items, Len(items)) /\ Clean(items)
    BY <2>1, <2>3 DEF Describes, Stream, Following
  <2>5. now = read(reader[m].frame, buf[m].from,
                   SubSeq(UpTo(items, Len(items)), buf[m].from, buf[m].to))
    BY <1>0, <2>4, Zenon
  <2>6. given[m] \in Nat /\ given[m] <= Off(items, Len(items))
    <3>1. Off(items, Len(items)) = Len(Stream(m))
      BY <2>4, Zenon DEF Off
    <3>2. Len(items) \in 0 .. Len(items)
      BY <1>8, OffIs
    <3>3. Off(items, Len(items)) \in Nat
      BY <1>8, <3>2, OffIs
    <3> QED
      BY <2>3, <3>1, <3>3
  <2> DEFINE b == buf[m]
             f == reader[m].frame
             h == got[m]
             c == buf'[m]
             ends == got'[m]
             q == queue[m]
             g == given[m]
  <2>7. /\ Keeps(items, "reading", b, q, g, f, h) /\ b.from <= b.to
        /\ now = read(f, b.from, SubSeq(UpTo(items, Len(items)), b.from, b.to))
        /\ c.from = now.at /\ c.to = b.to
        /\ ends = IF now.what = "decoded" THEN Append(h, now.at - 1) ELSE h
        /\ g \in Nat /\ g <= Off(items, Len(items))
    BY <1>1, <1>3, <1>6, <2>2, <2>5, <2>6, Zenon
  <2> HIDE DEF b, f, h, c, ends, q, g
  <2>8. Keeps(items, "reading", c, q, g, now.frame, ends)
    BY <1>8, <2>4, <2>7, KeepsWhenRead
  <2> QED
    BY <1>1, <1>5, <2>8, Zenon DEF c, q, g, ends
<1>10. KeepsUp(m, items)'
  BY <1>1, <1>7, <1>9, Zenon DEF KeepsUp, Stream, items
<1>11. NothingReadBeforeStart(m)'
  <2>1. handler[m] \notin {"accepted", "waiting"}
    <3> SUFFICES ASSUME handler[m] \in {"accepted", "waiting"} PROVE FALSE
      OBVIOUS
    <3>1. buf[m].from = 1 /\ buf[m].to = 0
      BY DEF StreamOf, NothingSentBeforeStart, ReaderOf, NothingReadBeforeStart
    <3> QED
      BY <1>1, <3>1
  <2> QED
    BY <1>1, <2>1 DEF NothingReadBeforeStart
<1> QED
  BY <1>5, <1>10, <1>11 DEF ReaderOf, items

(* Every step of a mount point keeps its reader in step with its stream.    *)
LEMMA ReaderStep ==
    ASSUME TypeOK, AcceptedHasNoThread, SubscribedIsAlive, PerMount, PerReader,
           NEW m \in Mount, StreamOf(m), ReaderOf(m), StepOf(m)
    PROVE  ReaderOf(m)'
<1> USE DEF TypeOK, At, Complete, threadVars, handlerVars, decoderVars
<1>s. startup[m] = "ready" => thread[m] \in {"reading", "deaf", "leaving", "closing", "ended"}
  BY DEF StreamOf, ReadyHasSubscribed
<1>r. reader[m] = [in |-> reader[m].in, frame |-> reader[m].frame]
  BY DEF ReaderOf
<1>1. CASE StartStrFix(m) \/ Accept(m) \/ StartForPage(m) \/ UploadChunk(m)
  <2>1. CASE StartStrFix(m)
    <3>1. thread[m] = "none" /\ startup[m] # "ready"
      BY <1>s, <2>1 DEF StartStrFix, StartParser, AcceptedHasNoThread
    <3> QED
      BY <1>r, <2>1, <3>1, ReaderQuietStep DEF StartStrFix, StartParser
  <2>2. CASE Accept(m)
    BY <1>s, <1>r, <2>2, ReaderQuietStep DEF Accept, AcceptOnly
  <2>3. CASE StartForPage(m)
    BY <1>r, <2>3, ReaderQuietStep DEF StartForPage, StartWeb
  <2>4. CASE UploadChunk(m)
    BY <1>s, <1>r, <2>4, ReaderQuietStep DEF UploadChunk, Upload
  <2> QED
    BY <1>1, <2>1, <2>2, <2>3, <2>4
<1>2. CASE EnterRead(m)
  <2>1. reader'[m] = [reader[m] EXCEPT !.in = TRUE]
    BY <1>2 DEF EnterRead, PerReader
  <2>2. reader'[m].frame = reader[m].frame /\ reader'[m] = [in |-> reader'[m].in, frame |-> reader'[m].frame]
    BY <1>r, <2>1
  <2> QED
    BY <1>s, <1>2, <2>2, ReaderQuietStep DEF EnterRead, vars
<1>3. CASE Leave(m)
  BY <1>s, <1>r, <1>3, ReaderQuietStep DEF Leave, LoopEnds, DurationOver
<1>4. CASE TimeOut(m)
  <2>1. reader'[m] = Outside
    BY <1>4 DEF TimeOut, PerReader
  <2>2. reader'[m].frame = <<>> /\ reader'[m] = [in |-> reader'[m].in, frame |-> reader'[m].frame]
    BY <2>1 DEF Outside
  <2> QED
    BY <1>s, <1>4, <2>2, ReaderQuietStep DEF TimeOut, Silence
<1>5. CASE Control(m)
  <2>d. UNCHANGED decoderVars
    BY <1>5 DEF Control
  <2>1. CASE MakeReader(m) \/ CheckRunning(m)
    BY <1>s, <1>r, <2>d, <2>1, ReaderQuietStep DEF MakeReader, CheckRunning
  <2>2. CASE Subscribe(m)
    BY <1>s, <1>r, <2>d, <2>2, ReaderQuietStep DEF Subscribe
  <2>3. CASE AnnounceReady(m)
    BY <1>s, <1>r, <2>d, <2>3, ReaderQuietStep DEF AnnounceReady
  <2>4. CASE Ending(m)
    BY <1>s, <1>r, <2>d, <2>4, ReaderQuietStep DEF Ending, Unsubscribe, ClosePair
  <2>5. CASE StopClears(m) \/ StopCompletes(m)
    BY <1>s, <1>r, <2>d, <2>5, ReaderQuietStep DEF StopClears, StopCompletes
  <2>6. CASE TakeLock(m)
    BY <1>s, <1>r, <2>d, <2>6, ReaderQuietStep DEF TakeLock
  <2>7. CASE WaitForStartup(m)
    <3> HIDE DEF TypeOK, decoderVars
    <3> QED
      BY <2>d, <2>7, ReaderToldStep
  <2> QED
    BY <1>5, <2>1, <2>2, <2>3, <2>4, <2>5, <2>6, <2>7 DEF Control, Starting
<1> HIDE DEF TypeOK
<1>6. CASE DeliverChunk(m)
  BY <1>6, ReaderSentStep
<1>7. CASE Fill(m)
  BY <1>7, ReaderTakenStep
<1>8. CASE Parse(m)
  BY <1>8, ReaderParseStep
<1> QED
  BY <1>1, <1>2, <1>3, <1>4, <1>5, <1>6, <1>7, <1>8 DEF StepOf, Reading

(* So does every step of the system, from its initial states on.            *)
LEMMA ReaderInvInit == DecoderInit => ReaderIInv
<1> SUFFICES ASSUME DecoderInit PROVE ReaderIInv
  OBVIOUS
<1> USE DEF DecoderInit, Init
<1>1. PerReader
  BY DEF PerReader
<1>2. PICK plan \in Plans, size \in ChunkSizes :
          source = [m \in Mount |-> Source(plan[m].items, plan[m].mode, size)]
  OBVIOUS
<1>3. ASSUME NEW m \in Mount PROVE ReaderOf(m)
  <2>1. reader[m] = [in |-> reader[m].in, frame |-> reader[m].frame] /\ reader[m].frame = <<>>
    BY DEF Outside
  <2>2. buf[m].from = 1 /\ got[m] = <<>> /\ given[m] = 0 /\ told[m] = "nothing"
    BY DEF NoTokens
  <2>3. NothingReadBeforeStart(m)
    BY <2>1, <2>2 DEF NothingReadBeforeStart
  <2> DEFINE items == plan[m].items
             src == Source(items, plan[m].mode, size)
  <2>4. IsItems(items) /\ size \in Nat \ {0}
    BY DecoderAssumption
  <2>5. source[m] = src
    BY <1>2
  <2> HIDE DEF items
  <2>6. Describes(items, source[m])
    BY <2>4, <2>5, SourceIs
  <2> HIDE DEF src
  <2>7. Len(Stream(m)) \in Nat
    <3>1. Len(items) \in 0 .. Len(items)
      BY <2>4, OffIs
    <3>2. Off(items, Len(items)) \in Nat
      BY <2>4, <3>1, OffIs
    <3>3. Stream(m) = UpTo(items, Len(items))
      BY <2>6 DEF Describes, Stream
    <3> QED
      BY <3>2, <3>3, Zenon DEF Off
  <2>8. KeepsUp(m, items)
    <3>1. ~Following(m)
      BY <2>2 DEF Following
    <3>2. given[m] \in 0 .. Len(Stream(m))
      BY <2>2, <2>7
    <3> QED
      BY <2>6, <3>1, <3>2 DEF KeepsUp
  <2> QED
    BY <2>1, <2>3, <2>8 DEF ReaderOf, items
<1> QED
  BY <1>1, <1>3 DEF ReaderIInv

LEMMA ReaderInvStep ==
    IInv /\ DecoderIInv /\ ReaderIInv /\ [DecoderNext]_allVars => ReaderIInv'
<1> SUFFICES ASSUME IInv, DecoderIInv, ReaderIInv, [DecoderNext]_allVars PROVE ReaderIInv'
  OBVIOUS
<1> USE DEF IInv, DecoderIInv, ReaderIInv
<1>1. CASE UNCHANGED allVars
  <2>1. PerReader'
    BY <1>1 DEF allVars, decoderVars, PerReader
  <2>2. ASSUME NEW n \in Mount PROVE ReaderOf(n)'
    <3>1. Untouched(n) /\ ReaderUntouched(n) /\ source' = source
      BY <1>1 DEF allVars, vars, threadVars, handlerVars, decoderVars, Untouched, ReaderUntouched
    <3> QED
      BY <3>1, ReaderUntouchedKeeps
  <2> QED
    BY <2>1, <2>2
<1>2. ASSUME NEW m \in Mount, StepOf(m) PROVE ReaderIInv'
  <2>1. PerReader' /\ \A n \in Mount : n # m => ReaderUntouched(n)
    BY <1>2, ReadersStep
  <2>2. ReaderOf(m)'
    BY <1>2, ReaderStep
  <2>3. ASSUME NEW n \in Mount, n # m PROVE ReaderOf(n)'
    <3>1. Untouched(n)
      BY <1>2, <2>3, OthersAreUntouched
    <3>2. source' = source
      BY <1>2, SourceStays
    <3> QED
      BY <2>1, <2>3, <3>1, <3>2, ReaderUntouchedKeeps
  <2> QED
    BY <2>1, <2>2, <2>3
<1> QED
  BY <1>1, <1>2 DEF DecoderNext, StepOf

(* A parser whose start was ready when the handler of rtcm2.py's caller went *)
(* on has decoded every frame it has read to its end, however the stream    *)
(* was cut into chunks (RTCMReader in rtcmreader.py), unless junk in it     *)
(* looks like a frame's beginning.                                         *)
THEOREM ReadyParsersDecodeAll == DecoderSpec => []ReadyDecodesAll
<1>1. DecoderSpec => []IInv
  BY DecoderIsParserThread, InvHolds, PTL
<1>2. DecoderSpec => []DecoderIInv
  BY <1>1, DecoderInvInit, DecoderInvStep, PTL DEF DecoderSpec
<1>3. DecoderSpec => []ReaderIInv
  BY <1>1, <1>2, ReaderInvInit, ReaderInvStep, PTL DEF DecoderSpec
<1>4. ReaderIInv => ReadyDecodesAll
  <2> SUFFICES ASSUME ReaderIInv, NEW m \in Mount, Following(m)
               PROVE  Range(got[m]) = {f.end : f \in {g \in source[m].sent : g.end < buf[m].from}}
    BY DEF ReadyDecodesAll, Following
  <2>1. PICK plan \in Plans : KeepsUp(m, plan[m].items)
    BY DEF ReaderIInv, ReaderOf
  <2> DEFINE items == plan[m].items
  <2> HIDE DEF items
  <2>2. {f.end : f \in source[m].sent} = EndsOf(items)
    BY <2>1 DEF KeepsUp, Describes, items
  <2>3. Range(got[m]) = {e \in EndsOf(items) : e < buf[m].from}
    BY <2>1 DEF KeepsUp, Keeps, items
  <2> QED
    BY <2>2, <2>3
<1> QED
  BY <1>3, <1>4, PTL

----------------------------------------------------------------------------
(* A frame that the reader has begun is what it has read last.              *)
IsFrame(frame) == frame \in Seq(Seq(Nat)) /\ (Len(frame) > 0 => frame[1] = <<Preamble>>)
ReadLast(tokens, p, frame) ==
    /\ Len(frame) <= p
    /\ \A j \in 1 .. Len(frame) : frame[j] = tokens[p - Len(frame) + j]

(* The bytes of a frame that is decoded are those its CRC was made of.      *)
LEMMA DecodedHasCrc ==
    ASSUME NEW g \in Seq(Seq(Nat)), IsFrame(g), Whole(g), parse(g) = "decoded"
    PROVE  /\ Len(g) \in Nat /\ Len(g) > 3
           /\ Len(g[Len(g)]) = Len(g) - 1 /\ g[Len(g)][1] = Preamble
<1> DEFINE n == Len(g)
           bytes == [k \in 1 .. n - 1 |-> Last(g[k])]
<1>1. n \in Nat /\ n > 3
  BY DEF Whole
<1>2. Last(g) = bytes
  <2> DEFINE payload == Bits(SubSeq(bytes, 4, Len(bytes)))
  <2>1. parse(g) = IF Last(g) # bytes THEN "skipped"
                   ELSE IF Len(payload) < IdBits THEN "raised"
                   ELSE IF RTCMMessage(payload).ok THEN "decoded" ELSE "skipped"
    BY Zenon DEF parse
  <2> HIDE DEF bytes, payload
  <2>2. "skipped" # "decoded"
    OBVIOUS
  <2> QED
    BY <2>1, <2>2, Zenon
<1>3. Last(g) = g[n]
  BY DEF Last
<1>4. bytes[1] = Preamble
  <2>1. 1 \in 1 .. n - 1
    BY <1>1
  <2>2. g[1] = <<Preamble>>
    BY <1>1 DEF IsFrame
  <2>3. bytes[1] = Last(<<Preamble>>)
    BY <2>1, <2>2
  <2>4. Last(<<Preamble>>) = Preamble
    BY DEF Last
  <2> QED
    BY <2>3, <2>4, Zenon
<1>5. Len(bytes) = n - 1
  BY <1>1
<1> HIDE DEF bytes
<1> QED
  BY <1>1, <1>2, <1>3, <1>4, <1>5, Zenon

LEMMA TailOfFrameBytes ==
    ASSUME NEW item, IsItem(item)
    PROVE  Tail(FrameBytes(item))[1] = FrameBytes(item)[2]
<1> DEFINE b == FrameBytes(item)
<1>1. b \in Seq(Nat) /\ Len(b) >= 3
  <2>1. Len(item.bytes) \in Nat
    BY DEF IsItem
  <2> QED
    BY <2>1, FrameBytesAre
<1> HIDE DEF b
<1>2. Tail(b)[1] = b[2]
  BY <1>1
<1> QED
  BY <1>2 DEF b

(* A frame is decoded at the end of one that was sent, which it is: a byte  *)
(* is too short for a CRC, and a wrong one does not begin with a preamble.  *)
LEMMA DecodedIsSent ==
    ASSUME NEW items, IsItems(items), NEW g \in Seq(Seq(Nat)), IsFrame(g),
           NEW p \in Nat, p <= Off(items, Len(items)), ReadLast(UpTo(items, Len(items)), p, g),
           Whole(g), parse(g) = "decoded"
    PROVE  \E k \in 1 .. Len(items) :
               Decodable(items[k]) /\ Off(items, k) = p /\ g = Tokens(items[k])
<1> DEFINE n == Len(g)
           tokens == UpTo(items, Len(items))
<1>1. n \in Nat /\ n > 3 /\ Len(g[n]) = n - 1 /\ g[n][1] = Preamble
  BY DecodedHasCrc
<1>2. n <= p /\ \A j \in 1 .. n : g[j] = tokens[p - n + j]
  BY DEF ReadLast
<1>3. /\ Len(items) \in Nat /\ (\A k \in 0 .. Len(items) : Off(items, k) \in Nat)
      /\ \A k \in 1 .. Len(items) : Off(items, k) = Off(items, k - 1) + Len(Tokens(items[k]))
  BY OffIs
<1>4. Off(items, Len(items)) \in Nat
  BY <1>3
<1>5. p - 1 \in Nat /\ p - 1 < Off(items, Len(items))
  BY <1>1, <1>2, <1>4
<1>6. PICK k \in 1 .. Len(items) : Off(items, k - 1) <= p - 1 /\ p - 1 < Off(items, k)
  BY <1>5, Located
<1> DEFINE item == items[k]
           o == Off(items, k - 1)
           i == p - o
           l == Len(Tokens(item))
           s == Len(item.bytes)
<1>7. o \in Nat /\ l \in Nat /\ Off(items, k) = o + l /\ IsItem(item) /\ s \in Nat
  <2>1. k - 1 \in 0 .. Len(items)
    BY <1>3
  <2>2. IsItem(item) /\ l \in Nat
    BY TokensAre
  <2>3. s \in Nat
    BY <2>2 DEF IsItem
  <2> QED
    BY <1>3, <2>1, <2>2, <2>3
<1>8. i \in 1 .. l /\ o + i = p
  BY <1>6, <1>7
<1>9. g[n] = Tokens(item)[i]
  <2>1. tokens[o + i] = Tokens(item)[i]
    BY <1>8, TokenAt
  <2> HIDE DEF n, tokens
  <2>2. n \in 1 .. n /\ p - n + n = p
    BY <1>1
  <2>3. g[n] = tokens[p - n + n]
    BY <1>2, <2>2
  <2> QED
    BY <1>8, <2>1, <2>2, <2>3, Zenon
<1> HIDE DEF tokens, item, o, i, l, s, n
<1>10. Len(g[n]) # 1
  BY <1>1
<1>11. ASSUME NEW c PROVE Len(<<c>>) = 1
  OBVIOUS
<1>12. item.kind # "junk"
  <2> SUFFICES ASSUME item.kind = "junk" PROVE FALSE
    OBVIOUS
  <2>1. i \in 1 .. s /\ \A j \in 1 .. s : Tokens(item)[j] = <<item.bytes[j]>>
    BY <1>7, <1>8, TokensOfJunk DEF l, s
  <2> QED
    BY <1>9, <1>10, <1>11, <2>1, Zenon
<1>13. /\ Tokens(item) \in Seq(Seq(Nat)) /\ l = s + 4
       /\ \A j \in 1 .. s + 3 : Tokens(item)[j] = <<FrameBytes(item)[j]>>
       /\ Tokens(item)[s + 4] = IF item.kind = "frame" THEN FrameBytes(item) ELSE Tail(FrameBytes(item))
  BY <1>7, <1>12, TokensOfFrame DEF l, s
<1>14. i = s + 4
  <2>1. i \notin 1 .. s + 3
    BY <1>9, <1>10, <1>11, <1>13, Zenon
  <2> QED
    BY <1>7, <1>8, <1>13, <2>1
<1>15. p = Off(items, k) /\ p = o + (s + 4)
  BY <1>7, <1>8, <1>13, <1>14
<1>16. item.kind = "frame"
  <2> SUFFICES ASSUME item.kind # "frame" PROVE FALSE
    OBVIOUS
  <2>1. g[n] = Tail(FrameBytes(item))
    BY <1>9, <1>13, <1>14, Zenon
  <2>2. Preamble = s \div Scale
    BY <1>1, <1>7, <2>1, TailOfFrameBytes, FrameBytesAre, Zenon DEF s
  <2>3. s < 4 * Scale
    BY <1>7, <1>12 DEF IsItem, s, Scale
  <2>4. s \div Scale < 4
    BY <1>7, <2>3, HeaderTellsSize
  <2> QED
    BY <2>2, <2>4, DecoderAssumption
<1>17. n = s + 4
  <2>1. g[n] = FrameBytes(item)
    BY <1>9, <1>13, <1>14, <1>16, Zenon
  <2>2. Len(FrameBytes(item)) = s + 3
    BY <1>7, FrameBytesAre DEF s
  <2>3. n - 1 = s + 3
    BY <1>1, <2>1, <2>2
  <2> QED
    BY <1>1, <1>7, <2>3
<1>18. \A j \in 1 .. n : g[j] = Tokens(item)[j]
  <2> TAKE j \in 1 .. n
  <2>1. p - n + j = o + j /\ j \in 1 .. l
    BY <1>7, <1>13, <1>15, <1>17
  <2>2. tokens[o + j] = Tokens(item)[j]
    BY <2>1, TokenAt DEF tokens, o, l, item
  <2>3. g[j] = tokens[p - n + j]
    BY <1>2
  <2> QED
    BY <2>1, <2>2, <2>3, Zenon
<1>19. g = Tokens(item)
  <2>1. Len(g) = Len(Tokens(item))
    BY <1>13, <1>17 DEF n, l
  <2>2. \A j \in 1 .. Len(g) : g[j] = Tokens(item)[j]
    BY <1>18 DEF n
  <2> DEFINE V == Seq(Nat)
  <2>3. g \in Seq(V) /\ Tokens(item) \in Seq(V)
    BY <1>13
  <2> HIDE DEF V
  <2> QED
    BY <2>1, <2>2, <2>3, SeqEqual
<1>20. Decodable(item)
  <2>1. parse(Tokens(item)) = "decoded"
    BY <1>19, Zenon
  <2> QED
    BY <1>7, <1>12, <2>1, ParseIs
<1> QED
  BY <1>15, <1>19, <1>20 DEF item

(* A call of next(reader) that has begun before token "from", on whatever   *)
(* tokens, and is now in state s: it is at a frame's beginning or has just  *)
(* decoded one that was sent.                                              *)
Sound(items, from, s) ==
    /\ s.at \in Nat /\ from <= s.at
    /\ IsFrame(s.frame) /\ ReadLast(UpTo(items, Len(items)), s.at - 1, s.frame)
    /\ s.what = "decoded" =>
           /\ from < s.at
           /\ \E k \in 1 .. Len(items) :
                  Decodable(items[k]) /\ Off(items, k) = s.at - 1 /\ s.whole = Tokens(items[k])

LEMMA NothingIsReadLast ==
    ASSUME NEW tokens, NEW p \in Nat
    PROVE  IsFrame(<<>>) /\ ReadLast(tokens, p, <<>>)
<1>1. <<>> \in Seq(Seq(Nat)) /\ Len(<<>>) = 0
  OBVIOUS
<1> QED
  BY <1>1 DEF IsFrame, ReadLast

LEMMA NextTokenIsLast ==
    ASSUME NEW tokens, NEW p \in Nat, NEW f, IsFrame(f), ReadLast(tokens, p, f),
           tokens[p + 1] \in Seq(Nat)
    PROVE  IsFrame(NextToken(f, tokens[p + 1])) /\ ReadLast(tokens, p + 1, NextToken(f, tokens[p + 1]))
<1> DEFINE t == tokens[p + 1]
           more == Append(f, t)
           g == NextToken(f, t)
           n == Len(f)
<1>1. f \in Seq(Seq(Nat)) /\ n \in Nat /\ n <= p /\ \A j \in 1 .. n : f[j] = tokens[p - n + j]
  BY DEF IsFrame, ReadLast
<1>2. g = <<>> \/ (g = more /\ (n = 0 => t = <<Preamble>>))
  <2>2. n \in Nat
    BY <1>1
  <2>1. n = 0 \/ n = 1 \/ n = 2 \/ n > 2
    <3> HIDE DEF n
    <3> QED
      BY <2>2
  <2> HIDE DEF t
  <2>3. /\ n = 0 => g = IF t = <<Preamble>> THEN more ELSE <<>>
        /\ n = 1 => g = IF Len(t) = 1 /\ t[1] < 4 THEN more ELSE <<>>
        /\ n = 2 => g = IF PayloadSize(more) = 0 THEN <<>> ELSE more
        /\ n > 2 => g = more
    BY <2>2, NextTokenIs
  <2> HIDE DEF more, g, n
  <2> QED
    BY <2>1, <2>3
<1>3. CASE g = <<>>
  <2>1. p + 1 \in Nat
    OBVIOUS
  <2> QED
    BY <1>3, <2>1, NothingIsReadLast
<1>4. CASE g = more /\ (n = 0 => t = <<Preamble>>)
  <2> DEFINE V == Seq(Nat)
  <2>1. f \in Seq(V) /\ t \in V
    BY <1>1
  <2> HIDE DEF V, t
  <2>2. /\ more \in Seq(V) /\ Len(more) = n + 1 /\ more[n + 1] = t
        /\ \A j \in 1 .. n : more[j] = f[j]
    BY <2>1, AppendProperties
  <2> HIDE DEF more
  <2>3. more[1] = <<Preamble>>
    <3>1. CASE n = 0
      BY <1>4, <2>2, <3>1
    <3>2. CASE n # 0
      <4>1. 1 \in 1 .. n /\ n > 0
        BY <1>1, <3>2
      <4>2. f[1] = <<Preamble>>
        BY <4>1 DEF IsFrame
      <4> QED
        BY <2>2, <4>1, <4>2
    <3> QED
      BY <3>1, <3>2
  <2>4. \A j \in 1 .. n + 1 : more[j] = tokens[p + 1 - (n + 1) + j]
    <3> TAKE j \in 1 .. n + 1
    <3>1. CASE j = n + 1
      <4>1. p + 1 - (n + 1) + j = p + 1
        BY <1>1, <3>1
      <4> QED
        BY <2>2, <3>1, <4>1, Zenon DEF t
    <3>2. CASE j # n + 1
      <4>1. j \in 1 .. n /\ p + 1 - (n + 1) + j = p - n + j
        BY <1>1, <3>2
      <4> QED
        BY <1>1, <2>2, <4>1, Zenon
    <3> QED
      BY <3>1, <3>2
  <2>5. IsFrame(more)
    BY <2>2, <2>3 DEF IsFrame, V
  <2>6. ReadLast(tokens, p + 1, more)
    <3>1. n + 1 <= p + 1
      BY <1>1
    <3> HIDE DEF n
    <3>2. Len(more) = n + 1
      BY <2>2
    <3>3. Len(more) <= p + 1
      BY <3>1, <3>2
    <3>4. \A j \in 1 .. Len(more) : more[j] = tokens[p + 1 - Len(more) + j]
      BY <2>4, <3>2
    <3> QED
      BY <3>3, <3>4 DEF ReadLast
  <2> QED
    BY <1>4, <2>5, <2>6, Zenon DEF t
<1> HIDE DEF g, more, n, t
<1> QED
  BY <1>2, <1>3, <1>4 DEF g, t

LEMMA TokenReadIs ==
    ASSUME NEW s, NEW t, NEW g, g = NextToken(s.frame, t), s.what = "skipped"
    PROVE  /\ ReadToken(s, t).at = s.at + 1 /\ ReadToken(s, t).what = What(g)
           /\ ReadToken(s, t).frame = Kept(g) /\ ReadToken(s, t).whole = g
<1> DEFINE r == [at |-> s.at + 1, what |-> What(g), whole |-> g, frame |-> Kept(g)]
<1>1. ReadToken(s, t) = r
  BY Zenon DEF ReadToken, What, Kept
<1>2. r.at = s.at + 1 /\ r.what = What(g) /\ r.frame = Kept(g) /\ r.whole = g
  OBVIOUS
<1> HIDE DEF r
<1> QED
  BY <1>1, <1>2, Zenon

LEMMA StreamIs ==
    ASSUME NEW items, IsItems(items)
    PROVE  /\ UpTo(items, Len(items)) \in Seq(Seq(Nat)) /\ Off(items, Len(items)) \in Nat
           /\ Len(UpTo(items, Len(items))) = Off(items, Len(items))
           /\ \A k \in 1 .. Off(items, Len(items)) : UpTo(items, Len(items))[k] \in Seq(Nat)
<1> DEFINE tokens == UpTo(items, Len(items))
           V == Seq(Nat)
<1>1. Len(items) \in 0 .. Len(items)
  BY OffIs
<1>2. tokens \in Seq(V)
  BY <1>1, UpToIs
<1>3. Off(items, Len(items)) \in Nat
  BY <1>1, OffIs
<1>4. Len(tokens) = Off(items, Len(items))
  BY DEF Off
<1> HIDE DEF V, tokens
<1>5. \A k \in 1 .. Off(items, Len(items)) : tokens[k] \in V
  BY <1>2, <1>4, ElementOfSeq
<1> QED
  BY <1>2, <1>3, <1>4, <1>5 DEF tokens, V

LEMMA SoundStays ==
    ASSUME NEW items, IsItems(items), NEW from \in Nat \ {0}, NEW s,
           Sound(items, from, s), s.what = "skipped", s.at - 1 < Off(items, Len(items))
    PROVE  LET u == ReadToken(s, UpTo(items, Len(items))[s.at]) IN
           Sound(items, from, u) /\ u.at = s.at + 1
<1> DEFINE p == s.at - 1
           tokens == UpTo(items, Len(items))
           t == tokens[s.at]
           g == NextToken(s.frame, t)
           u == ReadToken(s, t)
<1>1. s.at \in Nat /\ from <= s.at /\ p \in Nat /\ p + 1 = s.at
  BY DEF Sound
<1>2. IsFrame(s.frame) /\ ReadLast(tokens, p, s.frame)
  BY DEF Sound
<1>3. u.at = s.at + 1 /\ u.what = What(g) /\ u.frame = Kept(g) /\ u.whole = g
  <2>1. g = NextToken(s.frame, t)
    OBVIOUS
  <2> HIDE DEF g, t
  <2>2. /\ ReadToken(s, t).at = s.at + 1 /\ ReadToken(s, t).what = What(g)
        /\ ReadToken(s, t).frame = Kept(g) /\ ReadToken(s, t).whole = g
    BY <2>1, TokenReadIs
  <2> QED
    BY <2>2
<1>4. Off(items, Len(items)) \in Nat
  BY StreamIs
<1>5. s.at \in 1 .. Off(items, Len(items)) /\ s.at <= Off(items, Len(items)) /\ s.at \in Nat
  BY <1>1, <1>4
<1>6. tokens[p + 1] \in Seq(Nat) /\ tokens[p + 1] = t
  <2>1. tokens[s.at] \in Seq(Nat)
    BY <1>5, StreamIs
  <2> QED
    BY <1>1, <2>1
<1>7. IsFrame(g) /\ ReadLast(tokens, s.at, g)
  <2> HIDE DEF p, tokens, t
  <2>1. IsFrame(NextToken(s.frame, tokens[p + 1])) /\ ReadLast(tokens, p + 1, NextToken(s.frame, tokens[p + 1]))
    BY <1>1, <1>2, <1>6, NextTokenIsLast
  <2> QED
    BY <1>1, <1>6, <2>1, Zenon
<1>8. u.at - 1 = s.at /\ u.at \in Nat /\ from <= u.at /\ from < u.at
  BY <1>1, <1>3
<1> HIDE DEF u, g, t
<1>9. IsFrame(u.frame) /\ ReadLast(tokens, u.at - 1, u.frame)
  <2>1. u.frame = g \/ u.frame = <<>>
    BY <1>3 DEF Kept
  <2> HIDE DEF tokens
  <2> QED
    BY <1>1, <1>7, <1>8, <2>1, NothingIsReadLast
<1>10. u.what = "decoded" =>
          \E k \in 1 .. Len(items) :
              Decodable(items[k]) /\ Off(items, k) = u.at - 1 /\ u.whole = Tokens(items[k])
  <2> SUFFICES ASSUME u.what = "decoded"
               PROVE \E k \in 1 .. Len(items) :
                         Decodable(items[k]) /\ Off(items, k) = u.at - 1 /\ u.whole = Tokens(items[k])
    OBVIOUS
  <2>1. Whole(g) /\ parse(g) = "decoded"
    BY <1>3 DEF What
  <2>2. g \in Seq(Seq(Nat))
    BY <1>7 DEF IsFrame
  <2>3. \E k \in 1 .. Len(items) :
            Decodable(items[k]) /\ Off(items, k) = s.at /\ g = Tokens(items[k])
    BY <1>5, <1>7, <2>1, <2>2, DecodedIsSent
  <2> QED
    BY <1>3, <1>8, <2>3
<1>11. Sound(items, from, u)
  BY <1>8, <1>9, <1>10 DEF Sound
<1> QED
  BY <1>3, <1>11 DEF u, t

LEMMA ReadIsSound ==
    ASSUME NEW items, IsItems(items), NEW from \in Nat \ {0}, NEW frame, IsFrame(frame),
           ReadLast(UpTo(items, Len(items)), from - 1, frame), NEW seq, Len(seq) \in Nat,
           from - 1 + Len(seq) <= Off(items, Len(items)),
           IsPart(seq, UpTo(items, Len(items)), from),
           NEW now, now = read(frame, from, seq)
    PROVE  Sound(items, from, now) /\ now.at <= from + Len(seq)
<1> DEFINE n == Len(seq)
           base == [at |-> from, what |-> "skipped", whole |-> <<>>, frame |-> frame]
           tokens == UpTo(items, Len(items))
<1>1. PICK R : Steps(R, base, seq, n) /\ now = R[n]
  BY ReadIsSteps
<1>2. Off(items, Len(items)) \in Nat
  BY StreamIs
<1> DEFINE Ok(k) == /\ Sound(items, from, R[k]) /\ R[k].at <= from + k
                    /\ R[k].what = "skipped" => R[k].at = from + k
           T == {k \in 0 .. n : Ok(k)}
<1>3. Ok(0)
  <2>1. R[0] = base
    BY <1>1 DEF Steps
  <2>2. base.at = from /\ base.what = "skipped" /\ base.frame = frame
    OBVIOUS
  <2> HIDE DEF base
  <2>3. from \in Nat /\ from <= from /\ from + 0 = from
    OBVIOUS
  <2>4. "skipped" # "decoded"
    OBVIOUS
  <2>5. Sound(items, from, base)
    BY <2>2, <2>3, <2>4 DEF Sound
  <2> QED
    BY <2>1, <2>2, <2>3, <2>5
<1>4. ASSUME NEW k \in 0 .. n - 1, Ok(k) PROVE Ok(k + 1)
  <2>1. k + 1 \in 1 .. n /\ (k + 1) - 1 = k
    OBVIOUS
  <2>2. R[k + 1] = ReadToken(R[k], seq[k + 1])
    BY <1>1, <2>1, Zenon DEF Steps
  <2>3. R[k].at \in Nat
    BY <1>4 DEF Sound
  <2> DEFINE s == R[k]
             u == R[k + 1]
  <2>4. CASE s.what # "skipped"
    <3>1. u = s
      BY <2>2, <2>4, ReadTokenIs, Zenon
    <3>2. s.at <= from + (k + 1)
      BY <1>4, <2>3
    <3> QED
      BY <1>4, <2>4, <3>1, <3>2, Zenon
  <2>5. CASE s.what = "skipped"
    <3>1. s.at = from + k
      BY <1>4, <2>5
    <3>2. seq[k + 1] = tokens[from + (k + 1) - 1] /\ from + (k + 1) - 1 = from + k
      BY <2>1 DEF IsPart
    <3>3. seq[k + 1] = tokens[s.at]
      BY <3>1, <3>2, Zenon
    <3>4. s.at - 1 < Off(items, Len(items))
      BY <1>2, <3>1
    <3> HIDE DEF s, u
    <3>5. u = ReadToken(s, tokens[s.at])
      BY <2>2, <3>3, Zenon DEF s, u
    <3>6. Sound(items, from, s)
      BY <1>4 DEF s
    <3>7. Sound(items, from, u) /\ u.at = s.at + 1
      BY <2>5, <3>4, <3>5, <3>6, SoundStays
    <3>8. u.at = from + (k + 1)
      BY <3>1, <3>7
    <3>9. u.at <= from + (k + 1)
      BY <3>8
    <3> QED
      BY <3>7, <3>8, <3>9, Zenon DEF u
  <2> QED
    BY <2>4, <2>5
<1>5. \A k \in 0 .. n : k \in T
  <2>1. 0 \in T
    BY <1>3
  <2>2. \A k \in 0 .. n - 1 : k \in T => k + 1 \in T
    <3> HIDE DEF Ok
    <3> QED
      BY <1>4
  <2> HIDE DEF T
  <2> QED
    BY <2>1, <2>2, AllUpTo, Zenon
<1>6. n \in 0 .. n
  OBVIOUS
<1>7. Ok(n)
  <2> HIDE DEF Ok
  <2> QED
    BY <1>5, <1>6
<1> QED
  BY <1>1, <1>7, Zenon

----------------------------------------------------------------------------
(* The frames that were decoded are frames that were sent, in their order.  *)
InOrder(items, ends, p) ==
    /\ ends \in Seq(Nat)
    /\ \A i, j \in 1 .. Len(ends) : i < j => ends[i] < ends[j]
    /\ \A i \in 1 .. Len(ends) : ends[i] \in EndsOf(items) /\ ends[i] < p
Reads(items, b, q, uploaded, frame, ends) ==
    /\ IsSpan(b, uploaded) /\ \A k \in 1 .. Len(q) : IsSpan(q[k], uploaded)
    /\ IsFrame(frame) /\ ReadLast(UpTo(items, Len(items)), b.from - 1, frame)
    /\ InOrder(items, ends, b.from)

(* The chunks in the pair follow upon each other, and upon the buffer once  *)
(* it has held one.                                                        *)
Unbroken(b, q, uploaded) == \E c : Chained(c, q, uploaded) /\ (b.to # 0 => c.to = b.to)

LEMMA UnbrokenAtFirst ==
    ASSUME NEW b, b.to = 0, NEW g
    PROVE  Unbroken(b, <<>>, g)
<1> DEFINE c == [to |-> g]
<1>1. c.to = g
  OBVIOUS
<1> HIDE DEF c
<1>2. Len(<<>>) = 0
  OBVIOUS
<1>3. EndOf(c, <<>>, 0) = g
  BY <1>1 DEF EndOf
<1>4. Chained(c, <<>>, g)
  BY <1>2, <1>3 DEF Chained
<1> QED
  BY <1>4 DEF Unbroken

LEMMA UnbrokenStays ==
    ASSUME NEW b, NEW q, q \in Seq(Range(q)), NEW g, Unbroken(b, q, g)
    PROVE  /\ \A n : Unbroken(b, Append(q, [from |-> g + 1, to |-> g + n]), g + n)
           /\ Len(q) > 0 => Unbroken(Head(q), Tail(q), g)
           /\ \A d : d.to = b.to => Unbroken(d, q, g)
<1>1. PICK c : Chained(c, q, g) /\ (b.to # 0 => c.to = b.to)
  BY DEF Unbroken
<1>2. ASSUME NEW n PROVE Unbroken(b, Append(q, [from |-> g + 1, to |-> g + n]), g + n)
  <2>1. Chained(c, Append(q, [from |-> g + 1, to |-> g + n]), g + n)
    BY <1>1, ChainIsSentTo
  <2> QED
    BY <1>1, <2>1, Zenon DEF Unbroken
<1>3. Len(q) > 0 => Unbroken(Head(q), Tail(q), g)
  BY <1>1, ChainIsTaken, Zenon DEF Unbroken
<1>4. ASSUME NEW d, d.to = b.to PROVE Unbroken(d, q, g)
  BY <1>1, <1>4, Zenon DEF Unbroken
<1> QED
  BY <1>2, <1>3, <1>4

(* At first nothing has been read; ...                                     *)
LEMMA ReadsAtFirst ==
    ASSUME NEW items, NEW b, b.from = 1, b.to = 0
    PROVE  Reads(items, b, <<>>, 0, <<>>, <<>>)
<1>1. IsSpan(b, 0) /\ b.from - 1 = 0 /\ 0 \in Nat
  BY DEF IsSpan
<1>2. <<>> \in Seq(Nat) /\ Len(<<>>) = 0
  OBVIOUS
<1>3. InOrder(items, <<>>, b.from)
  BY <1>2 DEF InOrder
<1>4. \A k \in 1 .. Len(<<>>) : IsSpan(<<>>[k], 0)
  BY <1>2
<1>5. IsFrame(<<>>) /\ ReadLast(UpTo(items, Len(items)), b.from - 1, <<>>)
  BY <1>1, NothingIsReadLast
<1> QED
  BY <1>1, <1>3, <1>4, <1>5, Zenon DEF Reads

(* then more is uploaded, and sent to the subscriber or not; ...            *)
LEMMA ReadsWhenSent ==
    ASSUME NEW items, NEW b, NEW q, q \in Seq(Range(q)), NEW g \in Nat, NEW n \in Nat,
           NEW f, NEW h, Reads(items, b, q, g, f, h)
    PROVE  /\ Reads(items, b, q, g + n, f, h)
           /\ Reads(items, b, Append(q, [from |-> g + 1, to |-> g + n]), g + n, f, h)
<1> DEFINE c == [from |-> g + 1, to |-> g + n]
           r == Append(q, c)
<1>1. /\ Len(r) = Len(q) + 1 /\ r[Len(q) + 1] = c /\ Len(q) \in Nat
      /\ \A k \in 1 .. Len(q) : r[k] = q[k]
  BY AppendIsSeq
<1>2. IsSpan(c, g + n)
  BY DEF IsSpan
<1>3. ASSUME NEW d, IsSpan(d, g) PROVE IsSpan(d, g + n)
  BY <1>3 DEF IsSpan
<1> HIDE DEF c, r
<1>4. \A k \in 1 .. Len(r) : IsSpan(r[k], g + n)
  <2> TAKE k \in 1 .. Len(r)
  <2>1. CASE k = Len(q) + 1
    BY <1>1, <1>2, <2>1
  <2>2. CASE k # Len(q) + 1
    <3>1. k \in 1 .. Len(q)
      BY <1>1, <2>2
    <3> QED
      BY <1>1, <1>3, <3>1 DEF Reads
  <2> QED
    BY <2>1, <2>2
<1>5. Reads(items, b, r, g + n, f, h)
  BY <1>3, <1>4, Zenon DEF Reads
<1>6. Reads(items, b, q, g + n, f, h)
  BY <1>3, Zenon DEF Reads
<1> QED
  BY <1>5, <1>6 DEF c, r

(* the buffer takes a chunk, in the middle of a frame or where nothing has  *)
(* been read before; ...                                                   *)
LEMMA ReadsWhenTaken ==
    ASSUME NEW items, NEW b, NEW q, q \in Seq(Range(q)), Len(q) > 0, NEW g,
           NEW f, NEW h, Reads(items, b, q, g, f, h), Unbroken(b, q, g), b.from > b.to
    PROVE  Reads(items, Head(q), Tail(q), g, f, h)
<1> DEFINE tokens == UpTo(items, Len(items))
           hd == Head(q)
           tl == Tail(q)
<1>1. /\ Len(tl) = Len(q) - 1 /\ \A k \in 1 .. Len(q) - 1 : tl[k] = q[k + 1]
  BY TailIsSeq
<1>2. hd = q[1] /\ Len(q) \in Nat
  OBVIOUS
<1>3. \A k \in 1 .. Len(q) : IsSpan(q[k], g)
  BY Zenon DEF Reads
<1>4. IsSpan(q[1], g)
  BY <1>2, <1>3
<1> HIDE DEF hd, tl, tokens
<1>5. /\ IsSpan(b, g) /\ IsFrame(f) /\ ReadLast(tokens, b.from - 1, f) /\ InOrder(items, h, b.from)
  BY Zenon DEF Reads, tokens
<1>6. b.from \in Nat \ {0} /\ b.to \in Nat /\ b.from = b.to + 1
  BY <1>5 DEF IsSpan
<1>7. hd.from \in Nat \ {0} /\ IsSpan(hd, g)
  BY <1>2, <1>4 DEF IsSpan
<1>8. ReadLast(tokens, hd.from - 1, f) /\ InOrder(items, h, hd.from)
  <2>1. CASE b.to # 0
    <3>1. PICK c : Chained(c, q, g) /\ c.to = b.to
      BY <2>1 DEF Unbroken
    <3>2. 1 \in 1 .. Len(q) /\ 1 - 1 = 0
      BY <1>2
    <3>3. q[1].from = EndOf(c, q, 0) + 1
      BY <3>1, <3>2 DEF Chained
    <3>4. EndOf(c, q, 0) = b.to
      BY <3>1 DEF EndOf
    <3>5. hd.from = b.from
      BY <1>2, <1>6, <3>3, <3>4
    <3> QED
      BY <1>5, <3>5, Zenon
  <2>2. CASE b.to = 0
    <3>1. b.from = 1 /\ b.from - 1 = 0
      BY <1>6, <2>2
    <3>2. f \in Seq(Seq(Nat)) /\ Len(f) <= 0
      BY <1>5, <3>1 DEF ReadLast, IsFrame
    <3>3. Len(f) = 0
      BY <3>2, LenProperties
    <3>4. f = <<>>
      BY <3>2, <3>3, EmptySeq
    <3>5. hd.from - 1 \in Nat
      BY <1>7
    <3>6. ReadLast(tokens, hd.from - 1, f)
      BY <3>4, <3>5, NothingIsReadLast
    <3>7. InOrder(items, h, hd.from)
      <4>1. h \in Seq(Nat) /\ \A i \in 1 .. Len(h) : h[i] \in Nat
        BY <1>5 DEF InOrder
      <4>2. \A i \in 1 .. Len(h) : h[i] < hd.from
        BY <1>5, <1>7, <3>1, <4>1 DEF InOrder
      <4> QED
        BY <1>5, <4>2 DEF InOrder
    <3> QED
      BY <3>6, <3>7
  <2> QED
    BY <2>1, <2>2
<1>9. \A k \in 1 .. Len(tl) : IsSpan(tl[k], g)
  <2> TAKE k \in 1 .. Len(tl)
  <2>1. k \in 1 .. Len(q) - 1 /\ k + 1 \in 1 .. Len(q)
    BY <1>1, <1>2
  <2>2. tl[k] = q[k + 1]
    BY <1>1, <2>1
  <2> QED
    BY <1>3, <2>1, <2>2
<1>10. Reads(items, hd, tl, g, f, h)
  BY <1>5, <1>7, <1>8, <1>9, Zenon DEF Reads, tokens
<1> QED
  BY <1>10 DEF hd, tl

(* and the buffer is read, which decodes a frame that was sent or none.     *)
DecodesAt(items, p, frame) ==
    \E k \in 1 .. Len(items) :
        Decodable(items[k]) /\ Off(items, k) = p /\ frame = Tokens(items[k])

LEMMA ReadsWhenRead ==
    ASSUME NEW items, IsItems(items), NEW b, NEW q, NEW g \in Nat, NEW f, NEW h,
           Reads(items, b, q, g, f, h), g <= Off(items, Len(items)), b.from <= b.to,
           NEW now, now = read(f, b.from, SubSeq(UpTo(items, Len(items)), b.from, b.to)),
           NEW c, c.from = now.at, c.to = b.to,
           NEW ends, ends = IF now.what = "decoded" THEN Append(h, now.at - 1) ELSE h
    PROVE  /\ Reads(items, c, q, g, now.frame, ends)
           /\ now.what = "decoded" => DecodesAt(items, now.at - 1, now.whole)
           /\ now.what = "decoded" => \A i \in 1 .. Len(h) : h[i] < now.at - 1
<1> DEFINE tokens == UpTo(items, Len(items))
           seq == SubSeq(tokens, b.from, b.to)
           E == EndsOf(items)
<1>1. /\ b.from \in Nat \ {0} /\ b.to \in Nat /\ b.to <= g
      /\ (\A k \in 1 .. Len(q) : IsSpan(q[k], g))
      /\ IsFrame(f) /\ ReadLast(tokens, b.from - 1, f) /\ InOrder(items, h, b.from)
  BY DEF Reads, IsSpan
<1>2. tokens \in Seq(Seq(Nat)) /\ Len(tokens) \in Nat /\ Len(tokens) = Off(items, Len(items))
  BY StreamIs
<1>3. Len(seq) = b.to - b.from + 1 /\ \A k \in 1 .. Len(seq) : seq[k] = tokens[b.from + k - 1]
  <2>1. \A k \in b.from .. b.to : tokens[k] \in Seq(Nat)
    <3> TAKE k \in b.from .. b.to
    <3>1. k \in 1 .. Len(tokens)
      BY <1>1, <1>2
    <3> HIDE DEF tokens
    <3> QED
      BY <1>2, <3>1, ElementOfSeq
  <2> HIDE DEF tokens
  <2>2. b.from \in Int /\ b.to \in Int
    BY <1>1
  <2> DEFINE V == Seq(Nat)
  <2> HIDE DEF V
  <2>3. /\ Len(SubSeq(tokens, b.from, b.to)) = IF b.from <= b.to THEN b.to - b.from + 1 ELSE 0
        /\ \A k \in 1 .. b.to - b.from + 1 : SubSeq(tokens, b.from, b.to)[k] = tokens[b.from + k - 1]
    BY <2>1, <2>2, SubSeqProperties DEF V
  <2> QED
    BY <2>3
<1>4. now = read(f, b.from, seq)
  OBVIOUS
<1> HIDE DEF seq, tokens, E
<1>5. Len(seq) \in Nat /\ b.from - 1 + Len(seq) <= Off(items, Len(items))
  BY <1>1, <1>2, <1>3
<1>6. Sound(items, b.from, now) /\ now.at <= b.from + Len(seq)
  <2>1. IsPart(seq, UpTo(items, Len(items)), b.from)
    BY <1>3 DEF IsPart, tokens
  <2>2. ReadLast(UpTo(items, Len(items)), b.from - 1, f)
    BY <1>1 DEF tokens
  <2> QED
    BY <1>1, <1>4, <1>5, <2>1, <2>2, ReadIsSound
<1>7. now.at \in Nat \ {0} /\ b.from <= now.at /\ now.at <= b.to + 1
  BY <1>1, <1>3, <1>6 DEF Sound
<1>8. IsSpan(c, g)
  BY <1>1, <1>7 DEF IsSpan
<1>9. IsFrame(now.frame) /\ ReadLast(tokens, now.at - 1, now.frame)
  BY <1>6 DEF Sound, tokens
<1>10. now.what = "decoded" => b.from < now.at /\ DecodesAt(items, now.at - 1, now.whole)
  BY <1>6 DEF Sound, DecodesAt
<1>11. /\ h \in Seq(Nat) /\ Len(h) \in Nat
       /\ \A i \in 1 .. Len(h) : h[i] \in Nat /\ h[i] \in E /\ h[i] < b.from
       /\ \A i, j \in 1 .. Len(h) : i < j => h[i] < h[j]
  <2>1. h \in Seq(Nat) /\ Len(h) \in Nat
    BY <1>1 DEF InOrder
  <2>2. \A i \in 1 .. Len(h) : h[i] \in Nat
    BY <2>1
  <2> QED
    BY <1>1, <2>1, <2>2 DEF InOrder, E
<1>12. \A i \in 1 .. Len(h) : h[i] < now.at /\ (now.what = "decoded" => h[i] < now.at - 1)
  BY <1>1, <1>7, <1>10, <1>11
<1>13. InOrder(items, ends, now.at)
  <2>1. CASE now.what = "decoded"
    <3> DEFINE e == now.at - 1
    <3>1. e \in Nat /\ e < now.at /\ ends = Append(h, e)
      BY <1>7, <2>1
    <3>2. e \in E
      <4>1. PICK k \in 1 .. Len(items) : Decodable(items[k]) /\ Off(items, k) = e
        BY <1>10, <2>1 DEF DecodesAt
      <4> QED
        BY <4>1 DEF E, EndsOf
    <3>3. \A i \in 1 .. Len(h) : h[i] < e
      BY <1>12, <2>1
    <3> HIDE DEF e
    <3>4. /\ ends \in Seq(Nat) /\ Len(ends) = Len(h) + 1 /\ ends[Len(h) + 1] = e
          /\ \A k \in 1 .. Len(h) : ends[k] = h[k]
      BY <1>11, <3>1, AppendProperties
    <3> HIDE DEF E
    <3>5. \A i \in 1 .. Len(ends) : i \in 1 .. Len(h) \/ i = Len(h) + 1
      BY <1>11, <3>4
    <3>6. \A i \in 1 .. Len(ends) : ends[i] \in E /\ ends[i] < now.at
      BY <1>12, <1>11, <3>1, <3>2, <3>4, <3>5
    <3>7. \A i, j \in 1 .. Len(ends) : i < j => ends[i] < ends[j]
      <4> TAKE i, j \in 1 .. Len(ends)
      <4> HAVE i < j
      <4>1. i \in 1 .. Len(h)
        BY <1>11, <3>4
      <4>2. CASE j \in 1 .. Len(h)
        BY <1>11, <3>4, <4>1, <4>2
      <4>3. CASE j = Len(h) + 1
        BY <3>3, <3>4, <4>1, <4>3
      <4> QED
        BY <3>5, <4>2, <4>3
    <3> QED
      BY <3>4, <3>6, <3>7 DEF InOrder, E
  <2>2. CASE now.what # "decoded"
    BY <1>11, <1>12, <2>2 DEF InOrder, E
  <2> QED
    BY <2>1, <2>2
<1>14. Reads(items, c, q, g, now.frame, ends)
  <2>1. c.from = now.at
    OBVIOUS
  <2> QED
    BY <1>1, <1>8, <1>9, <1>13, <2>1, Zenon DEF Reads, tokens
<1> QED
  BY <1>10, <1>12, <1>14

----------------------------------------------------------------------------
(* The result has its five parts, of which a message changes one, and the   *)
(* counts.                                                                 *)
IsResult(r) ==
    r = [location |-> r.location, device |-> r.device, pushed |-> r.pushed, types |-> r.types, gnss |-> r.gnss]
CountOf(types, i) == IF i \in DOMAIN types THEN types[i] ELSE 0
CountedIn(types, id) ==
    [i \in DOMAIN types \cup {id} |-> CountOf(types, i) + (IF i = id THEN 1 ELSE 0)]
IsPushed(mode, id, msg) ==
    mode = "realtime_web" /\ IsMsm(id) /\ id <= 1127 /\ _process_msm_messages(msg) # {}

LEMMA StatsAre ==
    ASSUME NEW r, IsResult(r), NEW id
    PROVE  LET s == _update_message_stats(r, id) IN
           /\ IsResult(s) /\ s.location = r.location /\ s.device = r.device /\ s.pushed = r.pushed
           /\ s.types = CountedIn(r.types, id)
<1> DEFINE t == CountedIn(r.types, id)
           g == r.gnss \cup {CARRIER_INFO[ids] : ids \in {i \in DOMAIN CARRIER_INFO : id \in i}}
<1>1. _update_message_stats(r, id) = [r EXCEPT !.types = t, !.gnss = g]
  <2> HIDE DEF g
  <2>1. t = [i \in DOMAIN r.types \cup {id} |->
              (IF i \in DOMAIN r.types THEN r.types[i] ELSE 0) + (IF i = id THEN 1 ELSE 0)]
    BY DEF CountedIn, CountOf
  <2> HIDE DEF t
  <2>2. _update_message_stats(r, id) =
          [r EXCEPT !.types = [i \in DOMAIN r.types \cup {id} |->
              (IF i \in DOMAIN r.types THEN r.types[i] ELSE 0) + (IF i = id THEN 1 ELSE 0)], !.gnss = g]
    BY DEF _update_message_stats, g
  <2> QED
    BY <2>1, <2>2, Zenon
<1> HIDE DEF t, g
<1> DEFINE v == [r EXCEPT !.types = t]
           s == [v EXCEPT !.gnss = g]
<1>2. [r EXCEPT !.types = t, !.gnss = g] = s
  OBVIOUS
<1>3. IsResult(v) /\ v.location = r.location /\ v.device = r.device /\ v.pushed = r.pushed /\ v.types = t
  BY DEF IsResult
<1> HIDE DEF v
<1>4. IsResult(s) /\ s.location = v.location /\ s.device = v.device /\ s.pushed = v.pushed /\ s.types = v.types
  BY <1>3 DEF IsResult
<1> HIDE DEF s
<1> QED
  BY <1>1, <1>2, <1>3, <1>4, Zenon DEF t

LEMMA ProcessIs ==
    ASSUME NEW r, IsResult(r), NEW mode, NEW id, NEW msg
    PROVE  LET s == Process(r, mode, id, msg) IN
           /\ IsResult(s) /\ s.types = CountedIn(r.types, id)
           /\ s.location = IF id \in {1005, 1006} THEN _process_location_message(msg) ELSE r.location
           /\ s.device = IF id = 1033 THEN _process_device_info(msg) ELSE r.device
           /\ s.pushed = IF IsPushed(mode, id, msg) THEN _process_msm_messages(msg) ELSE r.pushed
<1> DEFINE u == _update_message_stats(r, id)
           s == Process(r, mode, id, msg)
           location == _process_location_message(msg)
           device == _process_device_info(msg)
           cells == _process_msm_messages(msg)
<1>1. /\ IsResult(u) /\ u.location = r.location /\ u.device = r.device /\ u.pushed = r.pushed
      /\ u.types = CountedIn(r.types, id)
  BY StatsAre
<1>2. s = CASE id \in {1005, 1006} -> [u EXCEPT !.location = location]
            [] id = 1033 -> [u EXCEPT !.device = device]
            [] IsPushed(mode, id, msg) -> [u EXCEPT !.pushed = cells]
            [] OTHER -> u
  BY Zenon DEF Process, IsPushed
<1>3. IsPushed(mode, id, msg) => id \notin {1005, 1006} /\ id # 1033
  BY DEF IsPushed, IsMsm
<1> HIDE DEF u, s, location, device, cells
<1> DEFINE pushed == IsPushed(mode, id, msg)
           types == CountedIn(r.types, id)
           Goal == /\ IsResult(s) /\ s.types = types
                   /\ s.location = IF id \in {1005, 1006} THEN location ELSE r.location
                   /\ s.device = IF id = 1033 THEN device ELSE r.device
                   /\ s.pushed = IF pushed THEN cells ELSE r.pushed
<1> HIDE DEF pushed, types
<1> SUFFICES Goal
  BY Zenon DEF s, location, device, cells, pushed, types
<1>4. CASE id \in {1005, 1006}
  <2>1. s = [u EXCEPT !.location = location] /\ id # 1033 /\ ~IsPushed(mode, id, msg)
    BY <1>2, <1>3, <1>4
  <2>2. IsResult(s) /\ s.location = location /\ s.device = u.device /\ s.pushed = u.pushed /\ s.types = u.types
    BY <1>1, <2>1 DEF IsResult
  <2> QED
    BY <1>1, <1>4, <2>1, <2>2 DEF types, pushed
<1>5. CASE id = 1033
  <2>1. s = [u EXCEPT !.device = device] /\ id \notin {1005, 1006} /\ ~IsPushed(mode, id, msg)
    BY <1>2, <1>3, <1>5
  <2>2. IsResult(s) /\ s.location = u.location /\ s.device = device /\ s.pushed = u.pushed /\ s.types = u.types
    BY <1>1, <2>1 DEF IsResult
  <2> QED
    BY <1>1, <1>5, <2>1, <2>2 DEF types, pushed
<1>6. CASE IsPushed(mode, id, msg)
  <2>1. s = [u EXCEPT !.pushed = cells] /\ id \notin {1005, 1006} /\ id # 1033
    BY <1>2, <1>3, <1>6
  <2>2. IsResult(s) /\ s.location = u.location /\ s.device = u.device /\ s.pushed = cells /\ s.types = u.types
    BY <1>1, <2>1 DEF IsResult
  <2> QED
    BY <1>1, <1>6, <2>1, <2>2 DEF types, pushed
<1>7. CASE id \notin {1005, 1006} /\ id # 1033 /\ ~IsPushed(mode, id, msg)
  <2>1. s = u
    BY <1>2, <1>7
  <2> QED
    BY <1>1, <1>7, <2>1 DEF types, pushed
<1> QED
  BY <1>4, <1>5, <1>6, <1>7

(* The messages of a position, of a device and of observations. *)
Positions == {1005, 1006}
Devices == {1033}
Observations == 1070 .. 1127
DeviceParts == {"antenna", "receiver", "firmware"}

(* What the station says in a frame is what RTCMMessage and the loop make   *)
(* of its payload.                                                         *)
Says(id, said, msg) ==
    /\ id \in Positions => said = _process_location_message(msg)
    /\ id \in Devices => \A part \in DeviceParts : said[part] = _process_device_info(msg)[part]
    /\ id \in Observations => said.cells = IF IsMsm(id) THEN _process_msm_messages(msg) ELSE {}

(* ResultIsAsSent, of the frames decoded, the result and the mode.          *)
OfIds(fs, ids) == {f \in fs : f.id \in ids}
LastOf(fs) == CHOOSE f \in fs : \A g \in fs : g.end <= f.end
CellsOf(fs) == {f \in OfIds(fs, Observations) : f.said.cells # {}}
LocationSent(fs, location) ==
    location = IF OfIds(fs, Positions) = {} THEN <<>> ELSE LastOf(OfIds(fs, Positions)).said
DeviceSent(fs, device) ==
    IF OfIds(fs, Devices) = {} THEN device = <<>>
    ELSE \A part \in DeviceParts :
             device[part] = LastOf(OfIds(fs, Devices)).said[part]
PushedSent(fs, pushed, mode) ==
    pushed = IF CellsOf(fs) = {} \/ mode = "str_fix" THEN {} ELSE LastOf(CellsOf(fs)).said.cells
CountsSent(fs, types) ==
    /\ DOMAIN types = {f.id : f \in fs}
    /\ \A id \in DOMAIN types : types[id] = Cardinality(OfIds(fs, {id}))
AsSent(fs, r, mode) ==
    /\ LocationSent(fs, r.location) /\ DeviceSent(fs, r.device)
    /\ PushedSent(fs, r.pushed, mode) /\ CountsSent(fs, r.types)

(* A frame that ends after all others is the last. *)
IsNewest(f, fs) == f.end \in Nat /\ \A g \in fs : g.end \in Nat /\ g.end < f.end

LEMMA NewestIsLast ==
    ASSUME NEW fs, NEW f, IsNewest(f, fs)
    PROVE  LastOf(fs \cup {f}) = f
<1> DEFINE all == fs \cup {f}
           IsLast(g) == g \in all /\ \A h \in all : h.end <= g.end
<1>1. IsLast(f)
  BY DEF IsNewest
<1>2. ASSUME NEW g, IsLast(g) PROVE g = f
  <2>1. f.end <= g.end /\ g \in all
    BY <1>2
  <2>2. g \in fs => g.end < f.end /\ g.end \in Nat /\ f.end \in Nat
    BY DEF IsNewest
  <2> QED
    BY <2>1, <2>2
<1>3. LastOf(all) = CHOOSE g : IsLast(g)
  BY Zenon DEF LastOf
<1> HIDE DEF IsLast, all
<1> QED
  BY <1>1, <1>2, <1>3, Zenon DEF all

LEMMA OfIdsGrows ==
    ASSUME NEW fs, NEW f, NEW ids
    PROVE  /\ f.id \in ids => OfIds(fs \cup {f}, ids) = OfIds(fs, ids) \cup {f}
           /\ f.id \notin ids => OfIds(fs \cup {f}, ids) = OfIds(fs, ids)
BY DEF OfIds

LEMMA NewestOfIds ==
    ASSUME NEW fs, NEW f, IsNewest(f, fs), NEW ids, f.id \in ids
    PROVE  OfIds(fs \cup {f}, ids) # {} /\ LastOf(OfIds(fs \cup {f}, ids)) = f
<1> DEFINE some == OfIds(fs, ids)
<1>1. OfIds(fs \cup {f}, ids) = some \cup {f}
  BY OfIdsGrows
<1>2. IsNewest(f, some)
  BY DEF IsNewest, OfIds
<1> HIDE DEF some
<1>3. LastOf(some \cup {f}) = f
  BY <1>2, NewestIsLast
<1> QED
  BY <1>1, <1>3

(* What the loop does with a message, by the kind it is of. *)
LEMMA ProcessByKind ==
    ASSUME NEW r, IsResult(r), NEW mode, NEW id, NEW msg
    PROVE  LET s == Process(r, mode, id, msg) IN
           /\ IsResult(s) /\ s.types = CountedIn(r.types, id)
           /\ s.location = IF id \in Positions THEN _process_location_message(msg) ELSE r.location
           /\ s.device = IF id \in Devices THEN _process_device_info(msg) ELSE r.device
           /\ s.pushed = IF IsPushed(mode, id, msg) THEN _process_msm_messages(msg) ELSE r.pushed
<1>1. Positions = {1005, 1006} /\ (id \in Devices <=> id = 1033)
  BY DEF Positions, Devices
<1> DEFINE location == _process_location_message(msg)
           device == _process_device_info(msg)
           s == Process(r, mode, id, msg)
<1>2. /\ IsResult(s) /\ s.types = CountedIn(r.types, id)
      /\ s.location = IF id \in {1005, 1006} THEN location ELSE r.location
      /\ s.device = IF id = 1033 THEN device ELSE r.device
      /\ s.pushed = IF IsPushed(mode, id, msg) THEN _process_msm_messages(msg) ELSE r.pushed
  BY ProcessIs
<1> HIDE DEF location, device, s
<1>3. /\ s.location = IF id \in Positions THEN location ELSE r.location
      /\ s.device = IF id \in Devices THEN device ELSE r.device
  BY <1>1, <1>2
<1> HIDE <1>1
<1> QED
  BY <1>2, <1>3 DEF s, location, device

LEMMA PushedWhen ==
    ASSUME NEW id, NEW msg
    PROVE  LET cells == _process_msm_messages(msg) IN
           /\ \A mode : IsPushed(mode, id, msg) =>
                  id \in Observations /\ IsMsm(id) /\ cells # {} /\ mode # "str_fix"
           /\ id \in Observations /\ IsMsm(id) /\ cells # {} => IsPushed("realtime_web", id, msg)
<1> DEFINE cells == _process_msm_messages(msg)
<1>1. IsMsm(id) /\ id <= 1127 => id \in Observations
  BY DEF IsMsm, Observations
<1>2. id \in Observations => id <= 1127
  BY DEF Observations
<1>3. \A mode : IsPushed(mode, id, msg) <=>
          mode = "realtime_web" /\ IsMsm(id) /\ id <= 1127 /\ cells # {}
  BY DEF IsPushed
<1> HIDE DEF cells
<1>4. "realtime_web" # "str_fix"
  OBVIOUS
<1>5. /\ \A mode : IsPushed(mode, id, msg) =>
             id \in Observations /\ IsMsm(id) /\ cells # {} /\ mode # "str_fix"
      /\ id \in Observations /\ IsMsm(id) /\ cells # {} => IsPushed("realtime_web", id, msg)
  BY <1>1, <1>2, <1>3, <1>4
<1> QED
  BY <1>5 DEF cells

LEMMA LocationGrows ==
    ASSUME NEW fs, NEW f, IsNewest(f, fs), NEW location, LocationSent(fs, location),
           NEW new, NEW msg, Says(f.id, f.said, msg),
           new = IF f.id \in Positions THEN _process_location_message(msg) ELSE location
    PROVE  LocationSent(fs \cup {f}, new)
<1> DEFINE all == OfIds(fs \cup {f}, Positions)
<1>0. f.id \in Positions => all # {} /\ LastOf(all) = f
  BY NewestOfIds, Zenon
<1>3. f.id \notin Positions => all = OfIds(fs, Positions)
  BY OfIdsGrows, Zenon
<1> HIDE DEF all
<1>1. ASSUME f.id \in Positions PROVE LocationSent(fs \cup {f}, new)
  <2>1. all # {} /\ LastOf(all) = f
    BY <1>0, <1>1, Zenon
  <2>2. new = f.said
    BY <1>1, Zenon DEF Says
  <2>3. new = LastOf(all).said
    BY <2>1, <2>2, Zenon
  <2> QED
    BY <2>1, <2>3, Zenon DEF LocationSent, all
<1>2. ASSUME f.id \notin Positions PROVE LocationSent(fs \cup {f}, new)
  <2>1. all = OfIds(fs, Positions)
    BY <1>2, <1>3, Zenon
  <2>2. new = location
    BY <1>2, Zenon
  <2> QED
    BY <2>1, <2>2, Zenon DEF LocationSent, all
<1> QED
  BY <1>1, <1>2, Zenon

LEMMA DeviceGrows ==
    ASSUME NEW fs, NEW f, IsNewest(f, fs), NEW device, DeviceSent(fs, device),
           NEW new, NEW msg, Says(f.id, f.said, msg),
           new = IF f.id \in Devices THEN _process_device_info(msg) ELSE device
    PROVE  DeviceSent(fs \cup {f}, new)
<1> DEFINE all == OfIds(fs \cup {f}, Devices)
<1>0. f.id \in Devices => all # {} /\ LastOf(all) = f
  BY NewestOfIds, Zenon
<1>3. f.id \notin Devices => all = OfIds(fs, Devices)
  BY OfIdsGrows, Zenon
<1> HIDE DEF all
<1>1. ASSUME f.id \in Devices PROVE DeviceSent(fs \cup {f}, new)
  <2>1. all # {} /\ LastOf(all) = f
    BY <1>0, <1>1, Zenon
  <2>2. \A part \in DeviceParts : new[part] = f.said[part]
    BY <1>1, Zenon DEF Says
  <2>3. \A part \in DeviceParts : new[part] = LastOf(all).said[part]
    BY <2>1, <2>2, Zenon
  <2> QED
    BY <2>1, <2>3, Zenon DEF DeviceSent, all
<1>2. ASSUME f.id \notin Devices PROVE DeviceSent(fs \cup {f}, new)
  <2>1. all = OfIds(fs, Devices)
    BY <1>2, <1>3, Zenon
  <2>2. new = device
    BY <1>2, Zenon
  <2> QED
    BY <2>1, <2>2, Zenon DEF DeviceSent, all
<1> QED
  BY <1>1, <1>2, Zenon

LEMMA PushedGrows ==
    ASSUME NEW fs, NEW f, IsNewest(f, fs), NEW mode \in {"str_fix", "realtime_web"},
           NEW pushed, PushedSent(fs, pushed, mode),
           NEW new, NEW msg, Says(f.id, f.said, msg),
           new = IF IsPushed(mode, f.id, msg) THEN _process_msm_messages(msg) ELSE pushed
    PROVE  PushedSent(fs \cup {f}, new, mode)
<1> DEFINE cells == _process_msm_messages(msg)
           all == CellsOf(fs \cup {f})
<1>0. /\ IsPushed(mode, f.id, msg) =>
             f.id \in Observations /\ IsMsm(f.id) /\ cells # {} /\ mode # "str_fix"
      /\ f.id \in Observations /\ IsMsm(f.id) /\ cells # {} => IsPushed("realtime_web", f.id, msg)
  BY PushedWhen
<1>1. CASE mode = "str_fix"
  <2>1. ~IsPushed(mode, f.id, msg)
    BY <1>0, <1>1
  <2>2. new = {}
    BY <1>1, <2>1, Zenon DEF PushedSent
  <2> QED
    BY <1>1, <2>2, Zenon DEF PushedSent
<1>2. CASE mode = "realtime_web"
  <2>0. mode # "str_fix"
    BY <1>2
  <2>1. CASE IsPushed(mode, f.id, msg)
    <3>1. f.id \in Observations /\ IsMsm(f.id) /\ cells # {}
      BY <1>0, <2>1, Zenon
    <3>2. f.said.cells = cells /\ new = cells
      BY <2>1, <3>1, Zenon DEF Says
    <3>3. all = CellsOf(fs) \cup {f}
      BY <3>1, <3>2 DEF CellsOf, OfIds
    <3>4. IsNewest(f, CellsOf(fs))
      BY DEF IsNewest, CellsOf, OfIds
    <3>5. LastOf(all) = f /\ all # {}
      BY <3>3, <3>4, NewestIsLast
    <3>6. new = LastOf(all).said.cells
      BY <3>2, <3>5, Zenon
    <3> QED
      BY <2>0, <3>5, <3>6, Zenon DEF PushedSent
  <2>2. CASE ~IsPushed(mode, f.id, msg)
    <3>1. f.id \in Observations => f.said.cells = {}
      <4>1. CASE IsMsm(f.id)
        <5>1. f.id \in Observations => cells = {}
          BY <1>0, <1>2, <2>2, <4>1, Zenon
        <5> QED
          BY <4>1, <5>1, Zenon DEF Says
      <4>2. CASE ~IsMsm(f.id)
        BY <4>2, Zenon DEF Says
      <4> QED
        BY <4>1, <4>2, Zenon
    <3>2. all = CellsOf(fs)
      BY <3>1 DEF CellsOf, OfIds
    <3>3. new = pushed
      BY <2>2, Zenon
    <3> QED
      BY <3>2, <3>3, Zenon DEF PushedSent
  <2> QED
    BY <2>1, <2>2, Zenon
<1> QED
  BY <1>1, <1>2

LEMMA CountsGrow ==
    ASSUME NEW fs, IsFiniteSet(fs), NEW f, f \notin fs, NEW types, CountsSent(fs, types)
    PROVE  CountsSent(fs \cup {f}, CountedIn(types, f.id))
<1> DEFINE id == f.id
           new == CountedIn(types, id)
           all == fs \cup {f}
<1>1. DOMAIN new = DOMAIN types \cup {id} /\ DOMAIN new = {g.id : g \in all}
  BY DEF CountedIn, CountsSent
<1>2. ASSUME NEW i \in DOMAIN new PROVE new[i] = Cardinality(OfIds(all, {i}))
  <2>1. new[i] = CountOf(types, i) + (IF i = id THEN 1 ELSE 0)
    BY <1>2 DEF CountedIn
  <2>2. IsFiniteSet(OfIds(fs, {i}))
    <3>1. OfIds(fs, {i}) \subseteq fs
      BY DEF OfIds
    <3> QED
      BY <3>1, FS_Subset
  <2>3. Cardinality(OfIds(fs, {i})) \in Nat
    BY <2>2, FS_CardinalityType
  <2>4. CountOf(types, i) = Cardinality(OfIds(fs, {i}))
    <3>1. CASE i \in DOMAIN types
      BY <3>1 DEF CountOf, CountsSent
    <3>2. CASE i \notin DOMAIN types
      <4>1. OfIds(fs, {i}) = {}
        BY <3>2 DEF CountsSent, OfIds
      <4> QED
        BY <3>2, <4>1, FS_EmptySet DEF CountOf
    <3> QED
      BY <3>1, <3>2
  <2>5. CASE i = id
    <3>1. OfIds(all, {i}) = OfIds(fs, {i}) \cup {f}
      BY <2>5 DEF OfIds
    <3>2. f \notin OfIds(fs, {i})
      BY DEF OfIds
    <3>3. Cardinality(OfIds(fs, {i}) \cup {f}) = Cardinality(OfIds(fs, {i})) + 1
      BY <2>2, <3>2, FS_AddElement
    <3> QED
      BY <2>1, <2>4, <2>5, <3>1, <3>3
  <2>6. CASE i # id
    <3>1. OfIds(all, {i}) = OfIds(fs, {i})
      BY <2>6 DEF OfIds
    <3> QED
      BY <2>1, <2>3, <2>4, <2>6, <3>1
  <2> QED
    BY <2>5, <2>6
<1> QED
  BY <1>1, <1>2 DEF CountsSent

(* The loop keeps the result as sent when it takes in a message. *)
LEMMA AsSentGrows ==
    ASSUME NEW fs, IsFiniteSet(fs), NEW f, IsNewest(f, fs),
           NEW mode \in {"str_fix", "realtime_web"}, NEW r, IsResult(r), AsSent(fs, r, mode),
           NEW msg, Says(f.id, f.said, msg)
    PROVE  LET s == Process(r, mode, f.id, msg) IN
           IsResult(s) /\ AsSent(fs \cup {f}, s, mode)
<1> DEFINE s == Process(r, mode, f.id, msg)
           location == s.location
           device == s.device
           pushed == s.pushed
<1>1. /\ IsResult(s) /\ s.types = CountedIn(r.types, f.id)
      /\ location = IF f.id \in Positions THEN _process_location_message(msg) ELSE r.location
      /\ device = IF f.id \in Devices THEN _process_device_info(msg) ELSE r.device
      /\ pushed = IF IsPushed(mode, f.id, msg) THEN _process_msm_messages(msg) ELSE r.pushed
  BY ProcessByKind
<1>2. /\ LocationSent(fs, r.location) /\ DeviceSent(fs, r.device)
      /\ PushedSent(fs, r.pushed, mode) /\ CountsSent(fs, r.types)
  BY DEF AsSent
<1>3. f \notin fs
  BY DEF IsNewest
<1> HIDE DEF s, location, device, pushed
<1>4. LocationSent(fs \cup {f}, location)
  BY <1>1, <1>2, LocationGrows, Zenon
<1>5. DeviceSent(fs \cup {f}, device)
  BY <1>1, <1>2, DeviceGrows, Zenon
<1>6. PushedSent(fs \cup {f}, pushed, mode)
  BY <1>1, <1>2, PushedGrows, Zenon
<1>7. CountsSent(fs \cup {f}, CountedIn(r.types, f.id))
  BY <1>2, <1>3, CountsGrow, Zenon
<1> QED
  BY <1>1, <1>4, <1>5, <1>6, <1>7, Zenon DEF AsSent, s, location, device, pushed

----------------------------------------------------------------------------
(* The payload that Parse takes from a frame that was decoded.              *)
PayloadOf(frame) == Bits([k \in 1 .. Len(frame) - 4 |-> Last(frame[k + 3])])

LEMMA PayloadIs ==
    ASSUME NEW item, IsItem(item), item.kind = "frame"
    PROVE  PayloadOf(Tokens(item)) = Bits(item.bytes)
<1> DEFINE t == Tokens(item)
           n == Len(item.bytes)
<1>0. item.kind # "junk"
  BY Zenon
<1>1. /\ Len(t) = n + 4 /\ \A i \in 1 .. n + 3 : t[i] = <<FrameBytes(item)[i]>>
  BY <1>0, TokensOfFrame
<1>2. \A i \in 1 .. n : FrameBytes(item)[i + 3] = item.bytes[i]
  BY FrameBytesAre
<1>3. item.bytes \in Seq(Nat) /\ n \in Nat
  BY LenProperties DEF IsItem
<1>4. ASSUME NEW k \in 1 .. n PROVE Last(t[k + 3]) = item.bytes[k]
  <2>1. k + 3 \in 1 .. n + 3
    BY <1>3
  <2>2. t[k + 3] = <<item.bytes[k]>>
    BY <1>1, <1>2, <2>1
  <2> HIDE DEF t
  <2> QED
    BY <2>2 DEF Last
<1>5. Len(t) - 4 = n
  BY <1>1, <1>3
<1> HIDE DEF t
<1>6. [k \in 1 .. Len(t) - 4 |-> Last(t[k + 3])] = [k \in 1 .. n |-> item.bytes[k]]
  BY <1>4, <1>5
<1>7. [k \in 1 .. n |-> item.bytes[k]] = item.bytes
  BY <1>3
<1>8. [k \in 1 .. Len(t) - 4 |-> Last(t[k + 3])] = item.bytes
  BY <1>6, <1>7, Zenon
<1> QED
  BY <1>8, Zenon DEF PayloadOf, t

(* What the station says, frame by frame.                                   *)
EntryOf(items, k) == [end |-> Off(items, k), id |-> items[k].id, said |-> items[k].said]
SentOf(items) == {EntryOf(items, k) : k \in {j \in 1 .. Len(items) : Decodable(items[j])}}

LEMMA SentIs ==
    ASSUME NEW items, IsItems(items), NEW mode, NEW size
    PROVE  /\ Source(items, mode, size).sent = SentOf(items)
           /\ Source(items, mode, size).mode = mode
           /\ Source(items, mode, size).tokens = UpTo(items, Len(items))
<1> DEFINE frames == {[end |-> Off(items, k), id |-> items[k].id, said |-> items[k].said] :
                         k \in {j \in DOMAIN items : Decodable(items[j])}}
           clean == \A k \in DOMAIN items :
                        items[k].kind = "junk" => Preamble \notin Range(items[k].bytes)
           tokens == UpTo(items, Len(items))
           src == [mode |-> mode, size |-> size, tokens |-> tokens, sent |-> frames, clean |-> clean]
<1>1. DOMAIN items = 1 .. Len(items)
  BY DEF IsItems
<1>2. frames = SentOf(items)
  BY <1>1, Zenon DEF SentOf, EntryOf
<1>3. Source(items, mode, size) = src
  BY Zenon DEF Source, Off, UpTo
<1> HIDE DEF frames, clean, tokens
<1>4. src.sent = frames /\ src.mode = mode /\ src.tokens = tokens
  BY Zenon
<1> HIDE DEF src
<1> QED
  BY <1>2, <1>3, <1>4, Zenon DEF tokens

(* Two frames that were sent do not end together.                           *)
LEMMA EndsAreUnique ==
    ASSUME NEW items, IsItems(items), NEW k \in 1 .. Len(items), NEW l \in 1 .. Len(items),
           Decodable(items[k]), Decodable(items[l]), Off(items, k) = Off(items, l)
    PROVE  k = l
<1>1. Off(items, k - 1) < Off(items, k) /\ Off(items, l - 1) < Off(items, l)
  BY DecodableIsThere
<1>2. /\ Off(items, k - 1) \in Nat /\ Off(items, k) \in Nat
      /\ Off(items, l - 1) \in Nat /\ Off(items, l) \in Nat
  <2>1. /\ k - 1 \in 0 .. Len(items) /\ k \in 0 .. Len(items)
        /\ l - 1 \in 0 .. Len(items) /\ l \in 0 .. Len(items)
    BY OffIs
  <2> QED
    BY <2>1, OffIs
<1>3. Off(items, k - 1) <= Off(items, k) /\ Off(items, l - 1) < Off(items, k) /\ Off(items, k - 1) < Off(items, l)
  BY <1>1, <1>2
<1> QED
  BY <1>3, ItemIsUnique

(* What a station that is understood says, by the kind of the message.      *)
SaysAll(items) == \A k \in 1 .. Len(items) : Decodable(items[k]) => SaysWhatIsDecoded(items[k])

LEMMA SaysByKind ==
    ASSUME NEW item, SaysWhatIsDecoded(item)
    PROVE  item.id = identity(Bits(item.bytes)) /\ Says(item.id, item.said, RTCMMessage(Bits(item.bytes)))
<1> DEFINE bits == Bits(item.bytes)
           msg == RTCMMessage(bits)
           location == _process_location_message(msg)
           device == _process_device_info(msg)
           cells == _process_msm_messages(msg)
<1>1. /\ item.id = identity(bits)
      /\ item.id \in {1005, 1006} => item.said = location
      /\ item.id = 1033 => \A part \in {"antenna", "receiver", "firmware"} : item.said[part] = device[part]
      /\ item.id \in 1070 .. 1127 => item.said.cells = IF IsMsm(item.id) THEN cells ELSE {}
  BY DEF SaysWhatIsDecoded
<1> HIDE DEF bits, msg, location, device, cells
<1>2. item.id \in Positions => item.said = location
  BY <1>1 DEF Positions
<1>3. item.id \in Devices => \A part \in DeviceParts : item.said[part] = device[part]
  BY <1>1 DEF Devices, DeviceParts
<1>4. item.id \in Observations => item.said.cells = IF IsMsm(item.id) THEN cells ELSE {}
  BY <1>1 DEF Observations
<1>5. item.id = identity(bits)
  BY <1>1
<1> HIDE <1>1
<1> QED
  BY <1>2, <1>3, <1>4, <1>5, Zenon DEF Says, bits, msg, location, device, cells

(* ResultIsAsSent, of what was sent, the ends of what was decoded, the      *)
(* result and the mode; and what it takes besides.                         *)
DecodedOf(all, ends) == {f \in all : f.end \in Range(ends)}
Shows(items, ends, r, mode) ==
    /\ IsFiniteSet(DecodedOf(SentOf(items), ends))
    /\ Cardinality(DecodedOf(SentOf(items), ends)) = Len(ends)
    /\ AsSent(DecodedOf(SentOf(items), ends), r, mode) /\ IsResult(r)

LEMMA ShowsAtFirst ==
    ASSUME NEW items, NEW mode
    PROVE  Shows(items, <<>>, NoResult, mode)
<1>1. Range(<<>>) = {}
  BY DEF Range
<1>2. DecodedOf(SentOf(items), <<>>) = {}
  BY <1>1, Zenon DEF DecodedOf
<1>3. IsFiniteSet({}) /\ Cardinality({}) = 0 /\ Len(<<>>) = 0
  BY FS_EmptySet
<1>4. IsResult(NoResult)
  BY DEF IsResult, NoResult
<1>5. /\ NoResult.location = <<>> /\ NoResult.device = <<>> /\ NoResult.pushed = {}
      /\ NoResult.types = <<>>
  BY DEF NoResult
<1>6. /\ \A ids : OfIds({}, ids) = {}
      /\ CellsOf({}) = {}
  BY DEF OfIds, CellsOf
<1>7. /\ LocationSent({}, <<>>) /\ DeviceSent({}, <<>>) /\ PushedSent({}, {}, mode)
  BY <1>6, Zenon DEF LocationSent, DeviceSent, PushedSent
<1>8. CountsSent({}, <<>>)
  BY DEF CountsSent
<1>9. AsSent({}, NoResult, mode)
  BY <1>5, <1>7, <1>8, Zenon DEF AsSent
<1> QED
  BY <1>2, <1>3, <1>4, <1>9, Zenon DEF Shows

(* A frame that is decoded after the others adds what the station says in   *)
(* it.                                                                     *)
LEMMA DecodedGrows ==
    ASSUME NEW items, IsItems(items), NEW p, NEW h, InOrder(items, h, p),
           NEW k \in 1 .. Len(items), Decodable(items[k]),
           \A i \in 1 .. Len(h) : h[i] < Off(items, k)
    PROVE  /\ DecodedOf(SentOf(items), Append(h, Off(items, k))) =
                  DecodedOf(SentOf(items), h) \cup {EntryOf(items, k)}
           /\ IsNewest(EntryOf(items, k), DecodedOf(SentOf(items), h))
           /\ Len(Append(h, Off(items, k))) = Len(h) + 1 /\ Len(h) \in Nat
<1> DEFINE f == EntryOf(items, k)
           e == Off(items, k)
           ends == Append(h, e)
           all == SentOf(items)
<1>1. h \in Seq(Nat) /\ e \in Nat
  <2>1. k \in 0 .. Len(items)
    BY OffIs
  <2> QED
    BY <2>1, OffIs DEF InOrder
<1>2. f.end = e /\ f \in all
  BY DEF EntryOf, SentOf
<1>3. ASSUME NEW g \in all, g.end = e PROVE g = f
  <2> PICK l \in 1 .. Len(items) : Decodable(items[l]) /\ g = EntryOf(items, l)
    BY DEF SentOf
  <2>1. Off(items, l) = e
    BY <1>3 DEF EntryOf
  <2>2. k = l
    BY <2>1, EndsAreUnique
  <2> QED
    BY <2>2
<1> HIDE DEF e, f, all
<1>4. /\ Len(ends) = Len(h) + 1 /\ Len(h) \in Nat /\ ends[Len(h) + 1] = e
      /\ \A i \in 1 .. Len(h) : ends[i] = h[i]
  BY <1>1, AppendProperties, LenProperties
<1>5. DOMAIN ends = 1 .. Len(h) + 1 /\ DOMAIN h = 1 .. Len(h)
  <2>1. ends \in Seq(Nat)
    BY <1>1, AppendProperties
  <2> QED
    BY <1>1, <1>4, <2>1, LenProperties
<1> HIDE DEF ends
<1>6. Range(ends) = Range(h) \cup {e}
  BY <1>4, <1>5 DEF Range
<1>7. DecodedOf(all, ends) = DecodedOf(all, h) \cup {f}
  BY <1>2, <1>3, <1>6, Zenon DEF DecodedOf
<1>8. IsNewest(f, DecodedOf(all, h))
  <2> SUFFICES ASSUME NEW g \in all, g.end \in Range(h) PROVE g.end \in Nat /\ g.end < f.end
    BY <1>1, <1>2 DEF IsNewest, DecodedOf
  <2>1. PICK i \in 1 .. Len(h) : g.end = h[i]
    BY <1>5 DEF Range
  <2>2. h[i] \in Nat
    BY <1>1, ElementOfSeq
  <2>3. h[i] < e
    BY DEF e
  <2> QED
    BY <1>2, <2>1, <2>2, <2>3
<1> QED
  BY <1>4, <1>7, <1>8 DEF f, e, all, ends

LEMMA ShowsGrows ==
    ASSUME NEW items, IsItems(items), SaysAll(items), NEW p, NEW h, InOrder(items, h, p),
           NEW k \in 1 .. Len(items), Decodable(items[k]),
           \A i \in 1 .. Len(h) : h[i] < Off(items, k),
           NEW mode \in {"str_fix", "realtime_web"}, NEW r, Shows(items, h, r, mode),
           NEW bits, bits = Bits(items[k].bytes)
    PROVE  Shows(items, Append(h, Off(items, k)), Process(r, mode, identity(bits), RTCMMessage(bits)), mode)
<1> DEFINE fs == DecodedOf(SentOf(items), h)
           f == EntryOf(items, k)
           ends == Append(h, Off(items, k))
           msg == RTCMMessage(bits)
           s == Process(r, mode, f.id, msg)
<1>1. /\ DecodedOf(SentOf(items), ends) = fs \cup {f} /\ IsNewest(f, fs)
      /\ Len(ends) = Len(h) + 1
  BY DecodedGrows
<1>2. f.id = identity(bits) /\ Says(f.id, f.said, msg)
  <2>1. SaysWhatIsDecoded(items[k])
    BY Zenon DEF SaysAll
  <2>2. items[k].id = identity(bits) /\ Says(items[k].id, items[k].said, msg)
    BY <2>1, SaysByKind, Zenon
  <2>3. f.id = items[k].id /\ f.said = items[k].said
    BY Zenon DEF EntryOf
  <2> QED
    BY <2>2, <2>3, Zenon
<1>3. IsFiniteSet(fs) /\ Cardinality(fs) = Len(h) /\ AsSent(fs, r, mode) /\ IsResult(r)
  BY Zenon DEF Shows
<1> HIDE DEF fs, f, msg
<1>4. IsResult(s) /\ AsSent(fs \cup {f}, s, mode)
  BY <1>1, <1>2, <1>3, AsSentGrows
<1>5. IsFiniteSet(fs \cup {f}) /\ Cardinality(fs \cup {f}) = Cardinality(fs) + 1
  <2>1. f \notin fs
    BY <1>1 DEF IsNewest
  <2> QED
    BY <1>3, <2>1, FS_AddElement
<1> HIDE DEF ends, s
<1>6. Shows(items, ends, s, mode)
  BY <1>1, <1>3, <1>4, <1>5, Zenon DEF Shows
<1> QED
  BY <1>2, <1>6, Zenon DEF ends, s, msg

----------------------------------------------------------------------------
(* From its subscription on a thread misses nothing more, before it there   *)
(* is nothing to read.                                                     *)
Early == {"none", "new", "built", "subscribing"}
Alive == {"subscribed", "reading", "deaf", "leaving"}
Listens(m) ==
    /\ thread[m] \in Early => queue[m] = <<>> /\ buf[m].to = 0
    /\ thread[m] \in Alive => m \in subscribed
    /\ m \in subscribed => Unbroken(buf[m], queue[m], given[m])

SourceOf(items, src) == src.tokens = UpTo(items, Len(items)) /\ src.sent = SentOf(items)
ShowsUp(m, items) ==
    /\ SourceOf(items, source[m]) /\ SaysAll(items)
    /\ Reads(items, buf[m], queue[m], given[m], reader[m].frame, got[m])
    /\ Shows(items, got[m], result[m], Mode(m))
ResultOf(m) ==
    /\ Listens(m)
    /\ thread[m] # "none" => Mode(m) \in {"str_fix", "realtime_web"}
    /\ \E plan \in Plans : ShowsUp(m, plan[m].items)
PerResult == result = [m \in Mount |-> result[m]]
ResultIInv == PerResult /\ \A m \in Mount : ResultOf(m)

(* A step of one mount point leaves the results of the others alone.        *)
LEMMA ResultsStep ==
    ASSUME PerResult, NEW m \in Mount, StepOf(m)
    PROVE  PerResult' /\ \A n \in Mount : n # m => result'[n] = result[n]
<1> USE DEF decoderVars, PerResult
<1>1. CASE StartStrFix(m) \/ Accept(m) \/ StartForPage(m) \/ UploadChunk(m)
  BY <1>1 DEF StartStrFix, Accept, StartForPage, UploadChunk
<1>2. CASE DeliverChunk(m) \/ Fill(m) \/ Leave(m) \/ Control(m)
  BY <1>2 DEF DeliverChunk, Fill, Leave, Control
<1>3. CASE EnterRead(m) \/ TimeOut(m)
  BY <1>3 DEF EnterRead, TimeOut
<1>4. CASE Parse(m)
  <2>1. \E r : result' = [result EXCEPT ![m] = r] \/ result' = result
    BY <1>4, Zenon DEF Parse
  <2> QED
    BY <2>1
<1> QED
  BY <1>1, <1>2, <1>3, <1>4 DEF StepOf, Reading

LEMMA ResultUntouchedKeeps ==
    ASSUME NEW n \in Mount, Untouched(n), ReaderUntouched(n), source' = source,
           result'[n] = result[n], ResultOf(n)
    PROVE  ResultOf(n)'
<1>1. ASSUME NEW items, ShowsUp(n, items) PROVE ShowsUp(n, items)'
  BY <1>1, Zenon DEF Untouched, ReaderUntouched, ShowsUp, Mode
<1>2. (\E plan \in Plans : ShowsUp(n, plan[n].items))'
  BY <1>1 DEF ResultOf
<1>3. Listens(n)'
  BY Zenon DEF ResultOf, Untouched, Listens
<1>4. (thread[n] # "none" => Mode(n) \in {"str_fix", "realtime_web"})'
  BY Zenon DEF ResultOf, Untouched, Mode
<1> QED
  BY <1>2, <1>3, <1>4 DEF ResultOf

(* A step that moves nothing of the stream: it may drop a frame begun, and  *)
(* a thread that subscribes with it has nothing to read yet.               *)
LEMMA ResultQuietStep ==
    ASSUME NEW m \in Mount, ResultOf(m),
           UNCHANGED <<source, given, queue, buf, got, result>>,
           reader'[m].frame = reader[m].frame \/ reader'[m].frame = <<>>,
           thread'[m] \in Early => thread[m] \in Early,
           thread'[m] \in Alive => m \in subscribed',
           m \in subscribed' => m \in subscribed \/ thread[m] \in Early,
           thread'[m] # "none" => thread[m] # "none" \/ Mode(m) \in {"str_fix", "realtime_web"}
    PROVE  ResultOf(m)'
<1>1. Listens(m)'
  <2>1. thread[m] \in Early => Unbroken(buf[m], queue[m], given[m])
    BY UnbrokenAtFirst, Zenon DEF ResultOf, Listens
  <2>2. m \in subscribed' => Unbroken(buf[m], queue[m], given[m])
    BY <2>1, Zenon DEF ResultOf, Listens
  <2> QED
    BY <2>2, Zenon DEF ResultOf, Listens
<1>2. PICK plan \in Plans : ShowsUp(m, plan[m].items)
  BY DEF ResultOf
<1> DEFINE items == plan[m].items
<1> HIDE DEF items
<1>3. Reads(items, buf'[m], queue'[m], given'[m], reader'[m].frame, got'[m])
  <2> DEFINE b == buf[m]
             f == reader'[m].frame
  <2>1. Reads(items, b, queue[m], given[m], reader[m].frame, got[m])
    BY <1>2 DEF ShowsUp, items
  <2>2. Reads(items, b, queue[m], given[m], <<>>, got[m])
    <3>1. b.from - 1 \in Nat
      BY <2>1 DEF Reads, IsSpan
    <3>2. IsFrame(<<>>) /\ ReadLast(UpTo(items, Len(items)), b.from - 1, <<>>)
      BY <3>1, NothingIsReadLast
    <3> HIDE DEF b
    <3> QED
      BY <2>1, <3>2, Zenon DEF Reads
  <2>3. Reads(items, b, queue[m], given[m], f, got[m])
    BY <2>1, <2>2, Zenon
  <2> QED
    BY <2>3, Zenon
<1>4. ShowsUp(m, items)'
  BY <1>2, <1>3, Zenon DEF ShowsUp, Mode, items
<1>5. (thread[m] # "none" => Mode(m) \in {"str_fix", "realtime_web"})'
  BY Zenon DEF ResultOf, Mode
<1> QED
  BY <1>1, <1>4, <1>5 DEF ResultOf, items

(* The steps that move the stream.                                          *)
LEMMA ResultSentStep ==
    ASSUME TypeOK, SubscribedIsAlive, PerMount, NEW m \in Mount, StreamOf(m), ReaderOf(m),
           ResultOf(m), DeliverChunk(m)
    PROVE  ResultOf(m)'
<1> DEFINE rest == Len(Stream(m)) - given[m]
           c(n) == [from |-> given[m] + 1, to |-> given[m] + n]
<1> PICK n \in {k \in {source[m].size} : k < rest} \cup {rest} :
        /\ Deliver(m)
        /\ given' = [given EXCEPT ![m] = @ + n]
        /\ queue' = IF m \in subscribed
                    THEN [queue EXCEPT ![m] = Append(@, [from |-> given[m] + 1, to |-> given[m] + n])]
                    ELSE queue
        /\ UNCHANGED <<source, buf, reader, result, got>>
  BY DEF DeliverChunk
<1>1. UNCHANGED <<thread, subscribed>>
  BY DEF Deliver, threadVars
<1>2. n \in Nat /\ given[m] \in Nat
  <2>1. PICK other \in Plans : KeepsUp(m, other[m].items)
    BY DEF ReaderOf
  <2> DEFINE items == other[m].items
  <2>2. IsItems(items)
    BY DecoderAssumption
  <2> HIDE DEF items
  <2>3. Describes(items, source[m]) /\ given[m] \in 0 .. Len(Stream(m))
    BY <2>1 DEF KeepsUp, items
  <2>4. Len(Stream(m)) \in Nat
    <3>1. Stream(m) = UpTo(items, Len(items))
      BY <2>3 DEF Describes, Stream
    <3> QED
      BY <2>2, <3>1, StreamIs
  <2>5. source[m].size \in Nat
    BY <2>3 DEF Describes
  <2> DEFINE len == Len(Stream(m))
  <2>6. len \in Nat /\ given[m] \in 0 .. len
    BY <2>3, <2>4
  <2>7. n = len - given[m] \/ n = source[m].size
    OBVIOUS
  <2> HIDE DEF len
  <2> QED
    BY <2>5, <2>6, <2>7
<1>3. given'[m] = given[m] + n
  BY DEF PerMount
<1>4. IF m \in subscribed THEN queue'[m] = Append(queue[m], c(n)) ELSE queue'[m] = queue[m]
  BY DEF PerMount
<1>5. queue[m] \in Seq(Range(queue[m]))
  BY DEF StreamOf, QueueIsPipe
<1> HIDE DEF c
<1>6. Listens(m)'
  <2>1. m \in subscribed => Unbroken(buf[m], Append(queue[m], c(n)), given[m] + n)
    BY <1>5, UnbrokenStays, Zenon DEF ResultOf, Listens, c
  <2>2. m \in subscribed' => Unbroken(buf'[m], queue'[m], given'[m])
    BY <1>1, <1>3, <1>4, <2>1, Zenon
  <2>3. thread[m] \in Early => m \notin subscribed
    BY DEF SubscribedIsAlive, Early
  <2> QED
    BY <1>1, <1>4, <2>2, <2>3, Zenon DEF ResultOf, Listens
<1>7. PICK plan \in Plans : ShowsUp(m, plan[m].items)
  BY DEF ResultOf
<1> DEFINE items == plan[m].items
           f == reader[m].frame
           h == got[m]
<1> HIDE DEF items
<1>8. Reads(items, buf'[m], queue'[m], given'[m], f, h)
  <2>1. Reads(items, buf[m], queue[m], given[m], f, h)
    BY <1>7 DEF ShowsUp, items
  <2>2. /\ Reads(items, buf[m], queue[m], given[m] + n, f, h)
        /\ Reads(items, buf[m], Append(queue[m], c(n)), given[m] + n, f, h)
    BY <1>2, <1>5, <2>1, ReadsWhenSent DEF c
  <2> QED
    BY <1>3, <1>4, <2>2, Zenon
<1>9. ShowsUp(m, items)'
  BY <1>7, <1>8, Zenon DEF ShowsUp, Mode, items
<1>10. (thread[m] # "none" => Mode(m) \in {"str_fix", "realtime_web"})'
  BY <1>1, Zenon DEF ResultOf, Mode
<1> QED
  BY <1>6, <1>9, <1>10 DEF ResultOf, items

LEMMA ResultTakenStep ==
    ASSUME TypeOK, PerMount, NEW m \in Mount, StreamOf(m), ResultOf(m), Fill(m)
    PROVE  ResultOf(m)'
<1>1. /\ thread[m] = "reading" /\ pipe[m] > 0 /\ buf[m].from > buf[m].to
      /\ UNCHANGED <<thread, subscribed, given, source, reader, result, got>>
      /\ queue'[m] = Tail(queue[m]) /\ buf'[m] = Head(queue[m])
  BY DEF Fill, Read, PerMount, TypeOK, threadVars, handlerVars
<1>2. Len(queue[m]) > 0 /\ queue[m] \in Seq(Range(queue[m]))
  BY <1>1 DEF StreamOf, QueueIsPipe
<1>3. Unbroken(buf[m], queue[m], given[m])
  BY <1>1 DEF ResultOf, Listens, Alive
<1>4. Listens(m)'
  <2>1. Unbroken(buf'[m], queue'[m], given'[m])
    BY <1>1, <1>2, <1>3, UnbrokenStays, Zenon
  <2>2. thread[m] \notin Early
    BY <1>1 DEF Early
  <2> QED
    BY <1>1, <2>1, <2>2, Zenon DEF ResultOf, Listens
<1>5. PICK plan \in Plans : ShowsUp(m, plan[m].items)
  BY DEF ResultOf
<1> DEFINE items == plan[m].items
<1> HIDE DEF items
<1>6. Reads(items, buf'[m], queue'[m], given'[m], reader'[m].frame, got'[m])
  <2> DEFINE b == buf[m]
             q == queue[m]
             f == reader[m].frame
  <2>1. Reads(items, b, q, given[m], f, got[m])
    BY <1>5 DEF ShowsUp, items
  <2>2. Reads(items, Head(q), Tail(q), given[m], f, got[m])
    BY <1>1, <1>2, <1>3, <2>1, ReadsWhenTaken
  <2> QED
    BY <1>1, <2>2, Zenon
<1>7. ShowsUp(m, items)'
  BY <1>1, <1>5, <1>6, Zenon DEF ShowsUp, Mode, items
<1>8. (thread[m] # "none" => Mode(m) \in {"str_fix", "realtime_web"})'
  BY <1>1, Zenon DEF ResultOf, Mode
<1> QED
  BY <1>4, <1>7, <1>8 DEF ResultOf, items

LEMMA ResultParseStep ==
    ASSUME TypeOK, PerMount, PerReader, PerResult, NEW m \in Mount, StreamOf(m), ReaderOf(m),
           ResultOf(m), Parse(m)
    PROVE  ResultOf(m)'
<1> DEFINE now == read(reader[m].frame, buf[m].from, SubSeq(Stream(m), buf[m].from, buf[m].to))
           bits == PayloadOf(now.whole)
           shown == Process(result[m], Mode(m), identity(bits), RTCMMessage(bits))
<1>1. /\ thread[m] = "reading" /\ buf[m].from <= buf[m].to
      /\ UNCHANGED <<thread, subscribed, given, source, queue>>
      /\ buf' = [buf EXCEPT ![m].from = now.at]
      /\ reader' = [reader EXCEPT ![m] = [in |-> now.what = "skipped", frame |-> now.frame]]
  BY Zenon DEF Parse, vars, threadVars, handlerVars
<1>2. IF now.what = "decoded"
      THEN /\ result' = [result EXCEPT ![m] = shown]
           /\ got' = [got EXCEPT ![m] = Append(got[m], now.at - 1)]
      ELSE result' = result /\ got' = got
  BY Zenon DEF Parse, PayloadOf
<1>0. now = read(reader[m].frame, buf[m].from, SubSeq(Stream(m), buf[m].from, buf[m].to))
  OBVIOUS
<1> HIDE DEF now, bits, shown
<1>3. buf'[m].from = now.at /\ buf'[m].to = buf[m].to
  BY <1>1 DEF PerMount, IsChunk
<1>4. reader'[m].frame = now.frame
  BY <1>1 DEF PerReader
<1>5. IF now.what = "decoded" THEN result'[m] = shown /\ got'[m] = Append(got[m], now.at - 1)
      ELSE result'[m] = result[m] /\ got'[m] = got[m]
  BY <1>2 DEF PerReader, PerResult
<1>6. PICK plan \in Plans : ShowsUp(m, plan[m].items)
  BY DEF ResultOf
<1> DEFINE items == plan[m].items
<1>7. IsItems(items)
  BY DecoderAssumption
<1> HIDE DEF items
<1>8. /\ Stream(m) = UpTo(items, Len(items)) /\ SaysAll(items)
      /\ Reads(items, buf[m], queue[m], given[m], reader[m].frame, got[m])
      /\ Shows(items, got[m], result[m], Mode(m)) /\ SourceOf(items, source[m])
  BY <1>6 DEF ShowsUp, SourceOf, Stream, items
<1>9. given[m] \in Nat /\ given[m] <= Off(items, Len(items))
  <2>1. given[m] \in 0 .. Len(Stream(m))
    BY DEF ReaderOf, KeepsUp
  <2>2. Len(Stream(m)) = Off(items, Len(items)) /\ Off(items, Len(items)) \in Nat
    BY <1>7, <1>8, StreamIs
  <2> DEFINE len == Len(Stream(m))
             g == given[m]
             o == Off(items, Len(items))
  <2> HIDE DEF len, g, o
  <2> QED
    BY <2>1, <2>2 DEF len, g, o
<1> DEFINE b == buf[m]
           f == reader[m].frame
           h == got[m]
           c == buf'[m]
           ends == got'[m]
           q == queue[m]
           g == given[m]
<1>10. /\ Reads(items, b, q, g, f, h) /\ b.from <= b.to
       /\ now = read(f, b.from, SubSeq(UpTo(items, Len(items)), b.from, b.to))
       /\ c.from = now.at /\ c.to = b.to
       /\ ends = IF now.what = "decoded" THEN Append(h, now.at - 1) ELSE h
       /\ g \in Nat /\ g <= Off(items, Len(items))
  BY <1>0, <1>1, <1>3, <1>5, <1>8, <1>9, Zenon
<1> HIDE DEF b, f, h, c, ends, q, g
<1>11. /\ Reads(items, c, q, g, now.frame, ends)
       /\ now.what = "decoded" => DecodesAt(items, now.at - 1, now.whole)
       /\ now.what = "decoded" => \A i \in 1 .. Len(h) : h[i] < now.at - 1
  BY <1>7, <1>10, ReadsWhenRead
<1>12. Shows(items, ends, result'[m], Mode(m))
  <2>1. CASE now.what = "decoded"
    <3>1. PICK k \in 1 .. Len(items) :
              Decodable(items[k]) /\ Off(items, k) = now.at - 1 /\ now.whole = Tokens(items[k])
      BY <1>11, <2>1 DEF DecodesAt
    <3>2. bits = Bits(items[k].bytes)
      <4>1. items[k].kind = "frame" /\ IsItem(items[k])
        BY <1>7, <3>1, TokensAre DEF Decodable
      <4>2. PayloadOf(Tokens(items[k])) = Bits(items[k].bytes)
        BY <4>1, PayloadIs
      <4> QED
        BY <3>1, <4>2, Zenon DEF bits
    <3>3. \A i \in 1 .. Len(h) : h[i] < Off(items, k)
      BY <1>11, <2>1, <3>1, Zenon
    <3>4. Mode(m) \in {"str_fix", "realtime_web"}
      BY <1>1 DEF ResultOf
    <3> DEFINE r == result[m]
               mode == Mode(m)
    <3>5. Shows(items, h, r, mode) /\ InOrder(items, h, b.from)
      BY <1>8, <1>10, Zenon DEF h, Reads
    <3>6. shown = Process(r, mode, identity(bits), RTCMMessage(bits))
      BY Zenon DEF shown
    <3>7. mode \in {"str_fix", "realtime_web"}
      BY <3>4
    <3> HIDE DEF r, mode
    <3>8. Shows(items, Append(h, Off(items, k)), Process(r, mode, identity(bits), RTCMMessage(bits)), mode)
      BY <1>7, <1>8, <3>1, <3>2, <3>3, <3>5, <3>7, ShowsGrows
    <3>9. ends = Append(h, Off(items, k)) /\ result'[m] = shown
      BY <1>5, <1>10, <2>1, <3>1, Zenon
    <3> QED
      BY <3>6, <3>8, <3>9, Zenon DEF mode
  <2>2. CASE now.what # "decoded"
    BY <1>5, <1>8, <2>2, Zenon DEF ends
  <2> QED
    BY <2>1, <2>2
<1>13. ShowsUp(m, items)'
  <2>1. Reads(items, buf'[m], queue'[m], given'[m], reader'[m].frame, got'[m])
    BY <1>1, <1>4, <1>11, Zenon DEF c, q, g, ends
  <2>2. Shows(items, got'[m], result'[m], Mode(m)')
    BY <1>1, <1>12, Zenon DEF ends, Mode
  <2>3. SourceOf(items, source'[m])
    BY <1>1, <1>8, Zenon
  <2> QED
    BY <1>8, <2>1, <2>2, <2>3, Zenon DEF ShowsUp
<1>14. Listens(m)'
  <2>1. queue[m] \in Seq(Range(queue[m]))
    BY DEF StreamOf, QueueIsPipe
  <2>2. Unbroken(buf[m], queue[m], given[m])
    BY <1>1 DEF ResultOf, Listens, Alive
  <2>3. Unbroken(buf'[m], queue[m], given[m])
    BY <1>3, <2>1, <2>2, UnbrokenStays, Zenon
  <2>4. thread[m] \notin Early
    BY <1>1 DEF Early
  <2> QED
    BY <1>1, <2>3, <2>4, Zenon DEF ResultOf, Listens
<1>15. (thread[m] # "none" => Mode(m) \in {"str_fix", "realtime_web"})'
  BY <1>1, Zenon DEF ResultOf, Mode
<1> QED
  BY <1>13, <1>14, <1>15 DEF ResultOf, items

(* Every step of a mount point keeps what its result shows.                 *)
LEMMA ResultStep ==
    ASSUME TypeOK, AcceptedHasNoThread, SubscribedIsAlive, PerMount, PerReader, PerResult,
           NEW m \in Mount, StreamOf(m), ReaderOf(m), ResultOf(m), StepOf(m)
    PROVE  ResultOf(m)'
<1> USE DEF TypeOK, At, Complete, threadVars, handlerVars, decoderVars, Early, Alive, Looping
<1>a. thread[m] \in Alive => m \in subscribed
  BY DEF ResultOf, Listens
<1>s. m \in subscribed => thread[m] \in Alive
  BY DEF SubscribedIsAlive
<1>r. thread[m] # "none" => Mode(m) \in {"str_fix", "realtime_web"}
  BY DEF ResultOf
<1>1. CASE StartStrFix(m) \/ Accept(m) \/ StartForPage(m) \/ UploadChunk(m)
  <2>1. CASE StartStrFix(m)
    BY <1>a, <1>s, <1>r, <2>1, ResultQuietStep DEF StartStrFix, StartParser, AcceptedHasNoThread
  <2>2. CASE Accept(m)
    BY <1>a, <1>s, <1>r, <2>2, ResultQuietStep DEF Accept, AcceptOnly
  <2>3. CASE StartForPage(m)
    BY <1>a, <1>s, <1>r, <2>3, ResultQuietStep DEF StartForPage, StartWeb
  <2>4. CASE UploadChunk(m)
    BY <1>a, <1>s, <1>r, <2>4, ResultQuietStep DEF UploadChunk, Upload
  <2> QED
    BY <1>1, <2>1, <2>2, <2>3, <2>4
<1>2. CASE EnterRead(m)
  <2>1. reader'[m] = [reader[m] EXCEPT !.in = TRUE]
    BY <1>2 DEF EnterRead, PerReader
  <2>2. reader'[m].frame = reader[m].frame
    BY <2>1 DEF ReaderOf
  <2> QED
    BY <1>a, <1>s, <1>r, <1>2, <2>2, ResultQuietStep DEF EnterRead, vars
<1>3. CASE Leave(m)
  BY <1>a, <1>s, <1>r, <1>3, ResultQuietStep DEF Leave, LoopEnds, DurationOver
<1>4. CASE TimeOut(m)
  <2>1. reader'[m].frame = <<>>
    BY <1>4 DEF TimeOut, PerReader, Outside
  <2> QED
    BY <1>a, <1>s, <1>r, <1>4, <2>1, ResultQuietStep DEF TimeOut, Silence
<1>5. CASE Control(m)
  <2>d. UNCHANGED decoderVars
    BY <1>5 DEF Control
  <2>1. CASE MakeReader(m) \/ CheckRunning(m)
    BY <1>a, <1>s, <1>r, <2>d, <2>1, ResultQuietStep DEF MakeReader, CheckRunning
  <2>2. CASE Subscribe(m)
    BY <1>a, <1>s, <1>r, <2>d, <2>2, ResultQuietStep DEF Subscribe
  <2>3. CASE AnnounceReady(m)
    BY <1>a, <1>s, <1>r, <2>d, <2>3, ResultQuietStep DEF AnnounceReady
  <2>4. CASE Ending(m)
    BY <1>a, <1>s, <1>r, <2>d, <2>4, ResultQuietStep DEF Ending, Unsubscribe, ClosePair
  <2>5. CASE StopClears(m) \/ StopCompletes(m)
    BY <1>a, <1>s, <1>r, <2>d, <2>5, ResultQuietStep DEF StopClears, StopCompletes
  <2>6. CASE TakeLock(m) \/ WaitForStartup(m)
    BY <1>a, <1>s, <1>r, <2>d, <2>6, ResultQuietStep DEF TakeLock, WaitForStartup
  <2> QED
    BY <1>5, <2>1, <2>2, <2>3, <2>4, <2>5, <2>6 DEF Control, Starting
<1> HIDE DEF TypeOK, At, Complete, threadVars, handlerVars, decoderVars, Early, Alive, Looping
<1>6. CASE DeliverChunk(m)
  BY <1>6, ResultSentStep
<1>7. CASE Fill(m)
  BY <1>7, ResultTakenStep
<1>8. CASE Parse(m)
  BY <1>8, ResultParseStep
<1> QED
  BY <1>1, <1>2, <1>3, <1>4, <1>5, <1>6, <1>7, <1>8 DEF StepOf, Reading

(* At first there are no frames and no result.                              *)
LEMMA ResultInvInit == StationSays /\ DecoderInit => ResultIInv
<1> SUFFICES ASSUME StationSays, DecoderInit PROVE ResultIInv
  OBVIOUS
<1> USE DEF DecoderInit, Init
<1>1. PerResult
  BY DEF PerResult
<1>2. PICK plan \in Plans, size \in ChunkSizes :
          source = [m \in Mount |-> Source(plan[m].items, plan[m].mode, size)]
  OBVIOUS
<1>3. ASSUME NEW m \in Mount PROVE ResultOf(m)
  <2>1. /\ reader[m].frame = <<>> /\ buf[m].from = 1 /\ buf[m].to = 0 /\ queue[m] = <<>>
        /\ got[m] = <<>> /\ given[m] = 0 /\ thread[m] = "none" /\ result[m] = NoResult
        /\ m \notin subscribed
    BY DEF NoTokens, Outside
  <2> DEFINE items == plan[m].items
  <2>2. IsItems(items) /\ SaysAll(items)
    BY DecoderAssumption DEF StationSays, SaysAll
  <2>3. source[m] = Source(items, plan[m].mode, size)
    BY <1>2
  <2> HIDE DEF items
  <2>4. SourceOf(items, source[m])
    <3> DEFINE mode == plan[m].mode
               src == Source(items, mode, size)
    <3>1. src.sent = SentOf(items) /\ src.tokens = UpTo(items, Len(items)) /\ source[m] = src
      BY <2>2, <2>3, SentIs
    <3> HIDE DEF src
    <3> QED
      BY <3>1 DEF SourceOf
  <2>5. Reads(items, buf[m], queue[m], given[m], reader[m].frame, got[m])
    <3>1. Reads(items, buf[m], <<>>, 0, <<>>, <<>>)
      BY <2>1, ReadsAtFirst
    <3> QED
      BY <2>1, <3>1, Zenon
  <2>6. Shows(items, got[m], result[m], Mode(m))
    BY <2>1, ShowsAtFirst, Zenon
  <2>7. ShowsUp(m, items)
    BY <2>2, <2>4, <2>5, <2>6 DEF ShowsUp
  <2>8. Listens(m)
    BY <2>1 DEF Listens, Alive
  <2> QED
    BY <2>1, <2>7, <2>8 DEF ResultOf, items
<1> QED
  BY <1>1, <1>3 DEF ResultIInv

(* Every step of the system keeps what the results show.                    *)
LEMMA ResultInvStep ==
    IInv /\ DecoderIInv /\ ReaderIInv /\ ResultIInv /\ [DecoderNext]_allVars => ResultIInv'
<1> SUFFICES ASSUME IInv, DecoderIInv, ReaderIInv, ResultIInv, [DecoderNext]_allVars
             PROVE  ResultIInv'
  OBVIOUS
<1> USE DEF IInv, DecoderIInv, ReaderIInv, ResultIInv
<1>1. CASE UNCHANGED allVars
  <2>1. PerResult'
    BY <1>1 DEF allVars, decoderVars, PerResult
  <2>2. ASSUME NEW n \in Mount PROVE ResultOf(n)'
    <3>1. Untouched(n) /\ ReaderUntouched(n) /\ source' = source /\ result'[n] = result[n]
      BY <1>1 DEF allVars, vars, threadVars, handlerVars, decoderVars, Untouched, ReaderUntouched
    <3> QED
      BY <3>1, ResultUntouchedKeeps
  <2> QED
    BY <2>1, <2>2
<1>2. ASSUME NEW m \in Mount, StepOf(m) PROVE ResultIInv'
  <2>1. /\ \A n \in Mount : n # m => ReaderUntouched(n)
        /\ PerResult' /\ \A n \in Mount : n # m => result'[n] = result[n]
    BY <1>2, ReadersStep, ResultsStep
  <2>2. ResultOf(m)'
    BY <1>2, ResultStep
  <2>3. ASSUME NEW n \in Mount, n # m PROVE ResultOf(n)'
    <3>1. Untouched(n)
      BY <1>2, <2>3, OthersAreUntouched
    <3>2. source' = source
      BY <1>2, SourceStays
    <3> QED
      BY <2>1, <2>3, <3>1, <3>2, ResultUntouchedKeeps
  <2> QED
    BY <2>1, <2>2, <2>3
<1> QED
  BY <1>1, <1>2 DEF DecoderNext, StepOf

(* ResultIsAsSent, of one mount point, whatever the messages' numbers are.  *)
AsSentBy(m, positions, devices, parts, observations) ==
    LET decoded  == {f \in source[m].sent : f.end \in Range(got[m])}
        last(fs) == CHOOSE f \in fs : \A g \in fs : g.end <= f.end
        of(ids)  == {f \in decoded : f.id \in ids}
        cells    == {f \in of(observations) : f.said.cells # {}}
        r        == result[m]
    IN  /\ Cardinality(decoded) = Len(got[m])
        /\ r.location = IF of(positions) = {} THEN <<>> ELSE last(of(positions)).said
        /\ IF of(devices) = {} THEN r.device = <<>>
           ELSE \A part \in parts : r.device[part] = last(of(devices)).said[part]
        /\ r.pushed = IF cells = {} \/ Mode(m) = "str_fix" THEN {} ELSE last(cells).said.cells
        /\ \A id \in DOMAIN r.types : r.types[id] = Cardinality(of({id}))

LEMMA ShownIsAsSent ==
    ASSUME NEW m \in Mount, ResultOf(m)
    PROVE  AsSentBy(m, Positions, Devices, DeviceParts, Observations)
<1>1. PICK plan \in Plans : ShowsUp(m, plan[m].items)
  BY DEF ResultOf
<1> DEFINE fs == DecodedOf(source[m].sent, got[m])
           r == result[m]
<1>2. Cardinality(fs) = Len(got[m]) /\ AsSent(fs, r, Mode(m))
  BY <1>1, Zenon DEF ShowsUp, SourceOf, Shows
<1> DEFINE Goal ==
        /\ Cardinality(fs) = Len(got[m])
        /\ r.location = IF OfIds(fs, Positions) = {} THEN <<>> ELSE LastOf(OfIds(fs, Positions)).said
        /\ IF OfIds(fs, Devices) = {} THEN r.device = <<>>
           ELSE \A part \in DeviceParts : r.device[part] = LastOf(OfIds(fs, Devices)).said[part]
        /\ r.pushed = IF CellsOf(fs) = {} \/ Mode(m) = "str_fix" THEN {} ELSE LastOf(CellsOf(fs)).said.cells
        /\ \A id \in DOMAIN r.types : r.types[id] = Cardinality(OfIds(fs, {id}))
<1>3. Goal
  BY <1>2, Zenon DEF AsSent, LocationSent, DeviceSent, PushedSent, CountsSent
<1>4. AsSentBy(m, Positions, Devices, DeviceParts, Observations) <=> Goal
  BY Zenon DEF AsSentBy, DecodedOf, OfIds, LastOf, CellsOf
<1> QED
  BY <1>3, <1>4, Zenon

(* What an STR correction and the web page report of a source is what its   *)
(* station said in the last message of its kind that was decoded, whatever  *)
(* the stream was and however it was cut (_process_str_fix,                 *)
(* _process_realtime_web in rtcm2.py, RTCMReader in rtcmreader.py), if     *)
(* what the station says in a frame is what RTCMMessage makes of it.        *)
THEOREM ResultsAreAsSent == StationSays /\ DecoderSpec => []ResultIsAsSent
<1>1. DecoderSpec => []IInv
  BY DecoderIsParserThread, InvHolds, PTL
<1>2. DecoderSpec => []DecoderIInv
  BY <1>1, DecoderInvInit, DecoderInvStep, PTL DEF DecoderSpec
<1>3. DecoderSpec => []ReaderIInv
  BY <1>1, <1>2, ReaderInvInit, ReaderInvStep, PTL DEF DecoderSpec
<1>4. StationSays /\ DecoderSpec => []ResultIInv
  BY <1>1, <1>2, <1>3, ResultInvInit, ResultInvStep, PTL DEF DecoderSpec
<1>5. ResultIInv => ResultIsAsSent
  <2> SUFFICES ASSUME ResultIInv
               PROVE  \A m \in Mount :
                          AsSentBy(m, {1005, 1006}, {1033}, {"antenna", "receiver", "firmware"}, 1070 .. 1127)
    BY DEF ResultIsAsSent, AsSentBy
  <2>1. \A m \in Mount : AsSentBy(m, Positions, Devices, DeviceParts, Observations)
    BY ShownIsAsSent DEF ResultIInv
  <2> QED
    BY <2>1 DEF Positions, Devices, DeviceParts, Observations
<1> QED
  BY <1>4, <1>5, PTL
=============================================================================
