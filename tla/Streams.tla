------------------------------ MODULE Streams ------------------------------
(***************************************************************************)
(* StreamDelivery twice: with everything that can go wrong, and without    *)
(* tools, refusals, overflow and deadlines, where an answer must reach the *)
(* user whole and once.                                                    *)
(***************************************************************************)
EXTENDS Integers, Sequences

CONSTANTS
  \* of the behaviours in which everything can go wrong
  Runs, Iterations, Cuts, Attempts, Capacity,
  \* of those in which nothing does
  PlainRuns, PlainCuts, PlainAttempts, PlainCapacity,
  MaxOther   \* events of others that the consumers see, in either

VARIABLES
  plain,     \* is nothing to go wrong in this behaviour?
  pc, run, iter, sent, result, spawned, con, screen, settled, others

vars == <<plain, pc, run, iter, sent, result, spawned, con, screen, settled, others>>

Faulty == INSTANCE StreamDelivery WITH
  MaxRuns <- Runs, MaxIterations <- Iterations, Chunks <- Cuts, MaxConsumers <- Attempts,
  StreamCap <- Capacity, SendsMayFail <- TRUE, MayTimeOut <- TRUE

Plain == INSTANCE StreamDelivery WITH
  MaxRuns <- PlainRuns, MaxIterations <- 1, Chunks <- PlainCuts, MaxConsumers <- PlainAttempts,
  StreamCap <- PlainCapacity, SendsMayFail <- FALSE, MayTimeOut <- FALSE

\* The bounds are what StreamDelivery assumes of its constants; where nothing
\* goes wrong the broadcast has room for an answer and its done chunk.
ASSUME StreamsAssumption ==
  Faulty!StreamAssumption /\ Plain!StreamAssumption /\ PlainCuts < PlainCapacity

Init == plain \in BOOLEAN /\ IF plain THEN Plain!Init ELSE Faulty!Init

Next ==
  \/ ~plain /\ Faulty!Next /\ UNCHANGED plain
  \/ plain /\ Plain!Next /\ UNCHANGED plain

Spec == Init /\ [][Next]_vars

\* A step of the instance the behaviour is about.
Of(ofPlain, ofFaulty) == (IF plain THEN ofPlain ELSE ofFaulty) /\ UNCHANGED plain

\* The runtime polls every task.
FairSpec ==
  /\ Spec
  /\ WF_vars(Of(Plain!RunStep, Faulty!RunStep))
  /\ \A c \in 1 .. Attempts : WF_vars(Of(Plain!ConsumerStep(c), Faulty!ConsumerStep(c)))
  /\ \A c \in Attempts + 1 .. PlainAttempts :
       WF_vars(plain /\ Plain!ConsumerStep(c) /\ UNCHANGED plain)

-----------------------------------------------------------------------------
(* Properties.                                                             *)

\* Types, and no receiver's buffer exceeds the capacity of the broadcast.
TypeOK == IF plain THEN Plain!TypeOK ELSE Faulty!TypeOK

\* An answer is never suppressed for a user who has seen nothing of the run.
SuppressedWasSeen == IF plain THEN Plain!SuppressedWasSeen ELSE Faulty!SuppressedWasSeen

\* Without tools, refusals and overflow each answer reaches the user whole,
\* from the stream or from the outbound queue, however attempts are retried ...
AnswerReachesUser == plain => Plain!AnswerReachesUser

\* ... and no part of it twice.
AnswerShownOnce == plain => Plain!AnswerShownOnce

\* A run that came to an answer, or was cancelled, never hangs in the join.
AnswerEndsJoin ==
  (pc = "join" /\ result \in {"ok", "cancelled"}) ~> (pc # "join")
=============================================================================
