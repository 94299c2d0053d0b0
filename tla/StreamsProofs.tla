---------------------------- MODULE StreamsProofs ----------------------------
(***************************************************************************)
(* That what StreamDeliveryProofs shows of every StreamDelivery holds in   *)
(* Streams, whichever of its two behaviours comes about, for all bounds of *)
(* both.  The lemmas come through an instance of their module; the          *)
(* operators of that instance are those of Streams' own, definition by     *)
(* definition.                                                             *)
(***************************************************************************)
EXTENDS Streams, TLAPS

\* Of the behaviours in which everything can go wrong.
FaultyProofs == INSTANCE StreamDeliveryProofs WITH
  MaxRuns <- Runs, MaxIterations <- Iterations, Chunks <- Cuts, MaxConsumers <- Attempts,
  StreamCap <- Capacity, SendsMayFail <- TRUE, MayTimeOut <- TRUE

\* Both instances speak of the same states ...
LEMMA FaultySame ==
  /\ FaultyProofs!StreamAssumption <=> Faulty!StreamAssumption
  /\ FaultyProofs!Init <=> Faulty!Init
  /\ FaultyProofs!TypeOK <=> Faulty!TypeOK
  /\ FaultyProofs!SuppressedWasSeen <=> Faulty!SuppressedWasSeen
  /\ FaultyProofs!AnswerReachesUser <=> Faulty!AnswerReachesUser
  /\ FaultyProofs!AnswerShownOnce <=> Faulty!AnswerShownOnce
<1>1. FaultyProofs!StreamAssumption <=> Faulty!StreamAssumption
  BY DEF FaultyProofs!StreamAssumption, Faulty!StreamAssumption
<1>2. FaultyProofs!Init <=> Faulty!Init
  BY Zenon DEF FaultyProofs!Init, Faulty!Init, FaultyProofs!NewConsumer, Faulty!NewConsumer,
               FaultyProofs!Consumers, Faulty!Consumers
<1>3. FaultyProofs!TypeOK <=> Faulty!TypeOK
  BY Zenon DEF FaultyProofs!TypeOK, Faulty!TypeOK, FaultyProofs!Consumers, Faulty!Consumers,
               FaultyProofs!Text, Faulty!Text, FaultyProofs!Done, Faulty!Done,
               FaultyProofs!ToSet, Faulty!ToSet
<1>4. FaultyProofs!SuppressedWasSeen <=> Faulty!SuppressedWasSeen
  BY Zenon DEF FaultyProofs!SuppressedWasSeen, Faulty!SuppressedWasSeen
<1>5. FaultyProofs!AnswerReachesUser <=> Faulty!AnswerReachesUser
  BY Zenon DEF FaultyProofs!AnswerReachesUser, Faulty!AnswerReachesUser, FaultyProofs!Seen,
               Faulty!Seen, FaultyProofs!Consumers, Faulty!Consumers
<1>6. FaultyProofs!AnswerShownOnce <=> Faulty!AnswerShownOnce
  BY Zenon DEF FaultyProofs!AnswerShownOnce, Faulty!AnswerShownOnce, FaultyProofs!Consumers,
               Faulty!Consumers
<1> QED
  BY <1>1, <1>2, <1>3, <1>4, <1>5, <1>6

\* ... and of the same steps.
LEMMA FaultySameNext == FaultyProofs!Next <=> Faulty!Next
<1>1. FaultyProofs!RunStep <=> Faulty!RunStep
  BY Zenon DEF FaultyProofs!RunStep, Faulty!RunStep, FaultyProofs!Spawn, Faulty!Spawn,
               FaultyProofs!EmitText, Faulty!EmitText, FaultyProofs!EmitDone,
               Faulty!EmitDone, FaultyProofs!EmitToolCall, Faulty!EmitToolCall,
               FaultyProofs!NextIteration, Faulty!NextIteration,
               FaultyProofs!SeeCancelled, Faulty!SeeCancelled, FaultyProofs!RetryRun,
               Faulty!RetryRun, FaultyProofs!FailRun, Faulty!FailRun,
               FaultyProofs!Join, Faulty!Join, FaultyProofs!Reply, Faulty!Reply,
               FaultyProofs!NewConsumer, Faulty!NewConsumer, FaultyProofs!Alive,
               Faulty!Alive, FaultyProofs!Receive, Faulty!Receive, FaultyProofs!Emit,
               Faulty!Emit, FaultyProofs!EmitEvent, Faulty!EmitEvent,
               FaultyProofs!Consumers, Faulty!Consumers, FaultyProofs!Done,
               Faulty!Done, FaultyProofs!Answer, Faulty!Answer, FaultyProofs!AtHead,
               Faulty!AtHead, FaultyProofs!Settlement, Faulty!Settlement,
               FaultyProofs!EndRun, Faulty!EndRun
<1>2. ASSUME NEW c
      PROVE  FaultyProofs!ConsumerStep(c) <=> Faulty!ConsumerStep(c)
  BY Zenon DEF FaultyProofs!ConsumerStep, Faulty!ConsumerStep, FaultyProofs!Drain, Faulty!Drain,
               FaultyProofs!ReadEvents, Faulty!ReadEvents, FaultyProofs!ShowText,
               Faulty!ShowText, FaultyProofs!FailToShow, Faulty!FailToShow,
               FaultyProofs!ShowNothing, Faulty!ShowNothing, FaultyProofs!EndPoll,
               Faulty!EndPoll, FaultyProofs!Done, Faulty!Done, FaultyProofs!ToSet,
               Faulty!ToSet, FaultyProofs!runVars, Faulty!runVars
<1>3. (FaultyProofs!Timeout <=> Faulty!Timeout) /\ (FaultyProofs!OtherEvent <=> Faulty!OtherEvent)
  BY Zenon DEF FaultyProofs!Timeout, Faulty!Timeout, FaultyProofs!OtherEvent, Faulty!OtherEvent,
               FaultyProofs!EmitEvent, Faulty!EmitEvent, FaultyProofs!Alive,
               Faulty!Alive, FaultyProofs!EndRun, Faulty!EndRun,
               FaultyProofs!Settlement, Faulty!Settlement, FaultyProofs!Answer,
               Faulty!Answer, FaultyProofs!Consumers, Faulty!Consumers,
               FaultyProofs!runVars, Faulty!runVars
<1> QED
  BY <1>1, <1>2, <1>3 DEF FaultyProofs!Next, Faulty!Next, FaultyProofs!Consumers, Faulty!Consumers

\* Of those in which nothing does.
PlainProofs == INSTANCE StreamDeliveryProofs WITH
  MaxRuns <- PlainRuns, MaxIterations <- 1, Chunks <- PlainCuts,
  MaxConsumers <- PlainAttempts, StreamCap <- PlainCapacity, SendsMayFail <- FALSE,
  MayTimeOut <- FALSE

\* Both instances speak of the same states ...
LEMMA PlainSame ==
  /\ PlainProofs!StreamAssumption <=> Plain!StreamAssumption
  /\ PlainProofs!Init <=> Plain!Init
  /\ PlainProofs!TypeOK <=> Plain!TypeOK
  /\ PlainProofs!SuppressedWasSeen <=> Plain!SuppressedWasSeen
  /\ PlainProofs!AnswerReachesUser <=> Plain!AnswerReachesUser
  /\ PlainProofs!AnswerShownOnce <=> Plain!AnswerShownOnce
<1>1. PlainProofs!StreamAssumption <=> Plain!StreamAssumption
  BY DEF PlainProofs!StreamAssumption, Plain!StreamAssumption
<1>2. PlainProofs!Init <=> Plain!Init
  BY Zenon DEF PlainProofs!Init, Plain!Init, PlainProofs!NewConsumer, Plain!NewConsumer,
               PlainProofs!Consumers, Plain!Consumers
<1>3. PlainProofs!TypeOK <=> Plain!TypeOK
  BY Zenon DEF PlainProofs!TypeOK, Plain!TypeOK, PlainProofs!Consumers, Plain!Consumers,
               PlainProofs!Text, Plain!Text, PlainProofs!Done, Plain!Done,
               PlainProofs!ToSet, Plain!ToSet
<1>4. PlainProofs!SuppressedWasSeen <=> Plain!SuppressedWasSeen
  BY Zenon DEF PlainProofs!SuppressedWasSeen, Plain!SuppressedWasSeen
<1>5. PlainProofs!AnswerReachesUser <=> Plain!AnswerReachesUser
  BY Zenon DEF PlainProofs!AnswerReachesUser, Plain!AnswerReachesUser, PlainProofs!Seen, Plain!Seen,
               PlainProofs!Consumers, Plain!Consumers
<1>6. PlainProofs!AnswerShownOnce <=> Plain!AnswerShownOnce
  BY Zenon DEF PlainProofs!AnswerShownOnce, Plain!AnswerShownOnce, PlainProofs!Consumers,
               Plain!Consumers
<1> QED
  BY <1>1, <1>2, <1>3, <1>4, <1>5, <1>6

\* ... and of the same steps.
LEMMA PlainSameNext == PlainProofs!Next <=> Plain!Next
<1>1. PlainProofs!RunStep <=> Plain!RunStep
  BY Zenon DEF PlainProofs!RunStep, Plain!RunStep, PlainProofs!Spawn, Plain!Spawn,
               PlainProofs!EmitText, Plain!EmitText, PlainProofs!EmitDone,
               Plain!EmitDone, PlainProofs!EmitToolCall, Plain!EmitToolCall,
               PlainProofs!NextIteration, Plain!NextIteration,
               PlainProofs!SeeCancelled, Plain!SeeCancelled, PlainProofs!RetryRun,
               Plain!RetryRun, PlainProofs!FailRun, Plain!FailRun, PlainProofs!Join,
               Plain!Join, PlainProofs!Reply, Plain!Reply, PlainProofs!NewConsumer,
               Plain!NewConsumer, PlainProofs!Alive, Plain!Alive,
               PlainProofs!Receive, Plain!Receive, PlainProofs!Emit, Plain!Emit,
               PlainProofs!EmitEvent, Plain!EmitEvent, PlainProofs!Consumers,
               Plain!Consumers, PlainProofs!Done, Plain!Done, PlainProofs!Answer,
               Plain!Answer, PlainProofs!AtHead, Plain!AtHead,
               PlainProofs!Settlement, Plain!Settlement, PlainProofs!EndRun,
               Plain!EndRun
<1>2. ASSUME NEW c
      PROVE  PlainProofs!ConsumerStep(c) <=> Plain!ConsumerStep(c)
  BY Zenon DEF PlainProofs!ConsumerStep, Plain!ConsumerStep, PlainProofs!Drain, Plain!Drain,
               PlainProofs!ReadEvents, Plain!ReadEvents, PlainProofs!ShowText,
               Plain!ShowText, PlainProofs!FailToShow, Plain!FailToShow,
               PlainProofs!ShowNothing, Plain!ShowNothing, PlainProofs!EndPoll,
               Plain!EndPoll, PlainProofs!Done, Plain!Done, PlainProofs!ToSet,
               Plain!ToSet, PlainProofs!runVars, Plain!runVars
<1>3. (PlainProofs!Timeout <=> Plain!Timeout) /\ (PlainProofs!OtherEvent <=> Plain!OtherEvent)
  BY Zenon DEF PlainProofs!Timeout, Plain!Timeout, PlainProofs!OtherEvent, Plain!OtherEvent,
               PlainProofs!EmitEvent, Plain!EmitEvent, PlainProofs!Alive,
               Plain!Alive, PlainProofs!EndRun, Plain!EndRun, PlainProofs!Settlement,
               Plain!Settlement, PlainProofs!Answer, Plain!Answer,
               PlainProofs!Consumers, Plain!Consumers, PlainProofs!runVars,
               Plain!runVars
<1> QED
  BY <1>1, <1>2, <1>3 DEF PlainProofs!Next, Plain!Next, PlainProofs!Consumers, Plain!Consumers

-----------------------------------------------------------------------------
\* The inductive invariant: that of either, and where nothing goes wrong, that
\* nothing is delayed, split or forgotten either.
StreamsInv ==
  /\ plain \in BOOLEAN
  /\ ~plain => FaultyProofs!StreamInv
  /\ plain => PlainProofs!StreamInv /\ PlainProofs!PlainInv

\* Where nothing goes wrong is where StreamDeliveryProofs says so.
LEMMA PlainIsUndisturbed ==
  /\ Plain!StreamAssumption /\ Faulty!StreamAssumption
  /\ PlainProofs!StreamAssumption /\ FaultyProofs!StreamAssumption
  /\ PlainProofs!Undisturbed
BY StreamsAssumption, PlainSame, FaultySame DEF PlainProofs!Undisturbed

\* It holds at first ...
LEMMA StreamsInvInit == ASSUME Init PROVE StreamsInv
<1>1. CASE plain
  BY <1>1, PlainSame, PlainIsUndisturbed, PlainProofs!StreamInvInit,
     PlainProofs!PlainInvInit DEF Init, StreamsInv
<1>2. CASE ~plain
  BY <1>2, FaultySame, PlainIsUndisturbed, FaultyProofs!StreamInvInit DEF Init, StreamsInv
<1> QED
  BY <1>1, <1>2

\* ... and every step keeps it.
LEMMA StreamsInvStep == ASSUME StreamsInv, [Next]_vars PROVE StreamsInv'
<1>1. plain' = plain /\ plain \in BOOLEAN
  BY DEF Next, vars, StreamsInv
<1>2. CASE plain
  <2>1. [PlainProofs!Next]_PlainProofs!vars
    <3>1. Next => PlainProofs!Next
      BY <1>2, PlainSameNext DEF Next
    <3>2. UNCHANGED vars => UNCHANGED PlainProofs!vars
      BY DEF vars, PlainProofs!vars, PlainProofs!runVars
    <3> QED
      BY <3>1, <3>2
  <2>2. PlainProofs!StreamInv /\ PlainProofs!PlainInv
    BY <1>2 DEF StreamsInv
  <2>3. PlainProofs!StreamInv'
    BY <2>1, <2>2, PlainIsUndisturbed, PlainProofs!StreamInvStep
  <2>4. PlainProofs!PlainInv'
    BY <2>1, <2>2, <2>3, PlainIsUndisturbed, PlainProofs!PlainInvStep
  <2> QED
    BY <1>1, <1>2, <2>3, <2>4 DEF StreamsInv
<1>3. CASE ~plain
  <2>1. [FaultyProofs!Next]_FaultyProofs!vars
    <3>1. Next => FaultyProofs!Next
      BY <1>3, FaultySameNext DEF Next
    <3>2. UNCHANGED vars => UNCHANGED FaultyProofs!vars
      BY DEF vars, FaultyProofs!vars, FaultyProofs!runVars
    <3> QED
      BY <3>1, <3>2
  <2>2. FaultyProofs!StreamInv'
    BY <1>3, <2>1, PlainIsUndisturbed, FaultyProofs!StreamInvStep DEF StreamsInv
  <2> QED
    BY <1>1, <1>3, <2>2 DEF StreamsInv
<1> QED
  BY <1>2, <1>3

\* In every reachable state.
THEOREM StreamsInvariant == Spec => []StreamsInv
BY StreamsInvInit, StreamsInvStep, PTL DEF Spec

\* Streams, consumers, screens and answers are well typed, and no receiver's
\* buffer exceeds the capacity of the broadcast.
THEOREM StreamsTyped == Spec => []TypeOK
<1>1. StreamsInv => TypeOK
  BY PlainSame, FaultySame, PlainIsUndisturbed, PlainProofs!InvTyped,
     FaultyProofs!InvTyped DEF StreamsInv, TypeOK
<1> QED
  BY <1>1, StreamsInvariant, PTL

\* process_message suppresses the answer only when the consumer it waited for
\* put text of this very attempt before the user, whatever is refused, forgotten,
\* retried or cut off by a deadline.
THEOREM SuppressionIsEarned == Spec => []SuppressedWasSeen
<1>1. StreamsInv => SuppressedWasSeen
  BY PlainSame, FaultySame DEF StreamsInv, SuppressedWasSeen, PlainProofs!StreamInv,
     FaultyProofs!StreamInv
<1> QED
  BY <1>1, StreamsInvariant, PTL

\* Without tools, refusals, deadlines and overflow, an answer reaches the user
\* whole, however many chunks it has and however often attempts are retried ...
THEOREM AnswersReachUsers == Spec => []AnswerReachesUser
<1>1. StreamsInv => AnswerReachesUser
  BY PlainSame DEF StreamsInv, AnswerReachesUser, PlainProofs!PlainInv
<1> QED
  BY <1>1, StreamsInvariant, PTL

\* ... and none of it twice, neither by two consumers nor by a consumer and the
\* outbound queue.
THEOREM AnswersShownOnce == Spec => []AnswerShownOnce
<1>1. StreamsInv => AnswerShownOnce
  BY PlainSame DEF StreamsInv, AnswerShownOnce, PlainProofs!PlainInv
<1> QED
  BY <1>1, StreamsInvariant, PTL
=============================================================================
