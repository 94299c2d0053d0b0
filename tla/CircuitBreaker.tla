--------------------------- MODULE CircuitBreaker ---------------------------
(***************************************************************************)
(* The circuit breaker of a provider, each load, store and fetch_add of    *)
(* its four atomics a step of its own, under the requests the middleware   *)
(* makes: allow_request once, then the call with its retries, each of them *)
(* recorded.  A streamed call records its failures only.                   *)
(*                                                                         *)
(* opened_at_ms appears as the age of the timestamp, in ticks: a store of  *)
(* the current time makes it 0.                                            *)
(***************************************************************************)
EXTENDS Integers, FiniteSets

CONSTANTS
  Clients,           \* tasks that use the provider
  Streams,           \* the values of "is the call streamed?" that occur
  FailureThreshold,  \* failure_threshold
  SuccessThreshold,  \* success_threshold
  ResetTimeout,      \* reset_timeout, in ticks
  MaxTries,          \* calls of one request, retries included
  MaxFailures        \* calls that fail, over the whole behaviour

BreakerAssumption ==
  /\ IsFiniteSet(Clients)
  /\ {FailureThreshold, SuccessThreshold, ResetTimeout, MaxTries} \subseteq Nat \ {0}
  /\ MaxFailures \in Nat
  /\ Streams \subseteq BOOLEAN

VARIABLES
  state, failures, successes, age,  \* the atomics
  pc,       \* where each client is
  stream,   \* is its call streamed?
  tries,    \* calls its request has made
  failed,   \* failures so far
  streak,   \* history: failures since a call last succeeded
  openFor   \* history: ticks since the state last became OPEN

atomics == <<state, failures, successes, age>>
history == <<failed, streak, openFor>>
vars == <<atomics, pc, stream, tries, history>>

Init ==
  /\ state = "CLOSED"
  /\ failures = 0 /\ successes = 0
  /\ age = ResetTimeout
  /\ pc = [c \in Clients |-> "idle"]
  /\ stream = [c \in Clients |-> FALSE]
  /\ tries = [c \in Clients |-> 0]
  /\ failed = 0 /\ streak = 0 /\ openFor = ResetTimeout

At(c, p) == pc[c] = p
Go(c, p) == pc' = [pc EXCEPT ![c] = p]

\* Client c stores s into the state.
Store(s) ==
  /\ state' = s
  /\ openFor' = IF s = "OPEN" /\ state # "OPEN" THEN 0 ELSE openFor

\* What each step below leaves alone: the request, and the history but for
\* the moment the circuit opens.
Quiet == UNCHANGED <<stream, tries, failed, streak>>
Silent == Quiet /\ UNCHANGED openFor

-----------------------------------------------------------------------------
(* allow_request *)

\* A request arrives and loads the state.
Request(c) ==
  /\ At(c, "idle")
  /\ \E s \in Streams : stream' = [stream EXCEPT ![c] = s]
  /\ tries' = [tries EXCEPT ![c] = 1]
  /\ Go(c, IF state = "OPEN" THEN "timed" ELSE "call")
  /\ UNCHANGED <<atomics, history>>

\* It compares opened_at with the clock, and fails fast before the timeout.
CheckTimer(c) ==
  /\ At(c, "timed")
  /\ Go(c, IF age = ResetTimeout THEN "cas" ELSE "idle")
  /\ Silent /\ UNCHANGED atomics

CompareExchange(c) ==
  /\ At(c, "cas")
  /\ Store(IF state = "OPEN" THEN "HALF_OPEN" ELSE state)
  /\ Go(c, "zero")
  /\ Quiet /\ UNCHANGED <<failures, successes, age>>

\* The successes are zeroed whether or not the exchange took place.
ZeroSuccesses(c) ==
  /\ At(c, "zero")
  /\ successes' = 0
  /\ Go(c, "call")
  /\ Silent /\ UNCHANGED <<state, failures, age>>

-----------------------------------------------------------------------------
(* The call, and record_success *)

Succeed(c) ==
  /\ At(c, "call")
  /\ Go(c, IF stream[c] THEN "idle" ELSE "ok")
  /\ streak' = 0
  /\ UNCHANGED <<atomics, stream, tries, failed, openFor>>

\* Fault: a success leaves the count of failures as it is.
KeepFailures(c) ==
  /\ At(c, "ok")
  /\ Go(c, "check")
  /\ Silent /\ UNCHANGED atomics

ClearFailures(c) ==
  /\ At(c, "ok")
  /\ failures' = 0
  /\ Go(c, "check")
  /\ Silent /\ UNCHANGED <<state, successes, age>>

CheckHalfOpen(c) ==
  /\ At(c, "check")
  /\ Go(c, IF state = "HALF_OPEN" THEN "count" ELSE "idle")
  /\ Silent /\ UNCHANGED atomics

CountSuccess(c) ==
  /\ At(c, "count")
  /\ successes' = successes + 1
  /\ Go(c, IF successes' >= SuccessThreshold THEN "close" ELSE "idle")
  /\ Silent /\ UNCHANGED <<state, failures, age>>

Close(c) ==
  /\ At(c, "close")
  /\ Store("CLOSED")
  /\ Go(c, "closed")
  /\ Quiet /\ UNCHANGED <<failures, successes, age>>

ZeroAfterClose(c) ==
  /\ At(c, "closed")
  /\ successes' = 0
  /\ Go(c, "idle")
  /\ Silent /\ UNCHANGED <<state, failures, age>>

-----------------------------------------------------------------------------
(* A failed call, and record_failure *)

Fail(c) ==
  /\ At(c, "call")
  /\ failed < MaxFailures
  /\ failed' = failed + 1
  /\ streak' = streak + 1
  /\ Go(c, "bad")
  /\ UNCHANGED <<atomics, stream, tries, openFor>>

LoadState(c) ==
  /\ At(c, "bad")
  /\ Go(c, CASE state = "CLOSED" -> "tally"
             [] state = "HALF_OPEN" -> "reopen"
             [] state = "OPEN" -> "after")
  /\ Silent /\ UNCHANGED atomics

\* Fault: the threshold has to be exceeded.
TallyLate(c) ==
  /\ At(c, "tally")
  /\ failures' = failures + 1
  /\ Go(c, IF failures' > FailureThreshold THEN "open" ELSE "after")
  /\ Silent /\ UNCHANGED <<state, successes, age>>

Tally(c) ==
  /\ At(c, "tally")
  /\ failures' = failures + 1
  /\ Go(c, IF failures' >= FailureThreshold THEN "open" ELSE "after")
  /\ Silent /\ UNCHANGED <<state, successes, age>>

\* The threshold is reached, or a probe failed.
Open(c) ==
  /\ At(c, "open") \/ At(c, "reopen")
  /\ Store("OPEN")
  /\ Go(c, IF At(c, "open") THEN "stamp" ELSE "restamp")
  /\ Quiet /\ UNCHANGED <<failures, successes, age>>

Stamp(c) ==
  /\ At(c, "stamp") \/ At(c, "restamp")
  /\ age' = 0
  /\ Go(c, IF At(c, "stamp") THEN "zerof" ELSE "zeros")
  /\ Silent /\ UNCHANGED <<state, failures, successes>>

ZeroFailures(c) ==
  /\ At(c, "zerof")
  /\ failures' = 0
  /\ Go(c, "after")
  /\ Silent /\ UNCHANGED <<state, successes, age>>

ZeroAfterReopen(c) ==
  /\ At(c, "zeros")
  /\ successes' = 0
  /\ Go(c, "after")
  /\ Silent /\ UNCHANGED <<state, failures, age>>

\* retry_with_backoff calls again without asking the breaker, or gives up.
Retry(c) ==
  /\ At(c, "after")
  /\ tries[c] < MaxTries
  /\ tries' = [tries EXCEPT ![c] = @ + 1]
  /\ Go(c, "call")
  /\ UNCHANGED <<atomics, stream, history>>

GiveUp(c) ==
  /\ At(c, "after")
  /\ Go(c, "idle")
  /\ Silent /\ UNCHANGED atomics

-----------------------------------------------------------------------------

Tick ==
  /\ age < ResetTimeout \/ openFor < ResetTimeout
  /\ age' = IF age < ResetTimeout THEN age + 1 ELSE age
  /\ openFor' = IF openFor < ResetTimeout THEN openFor + 1 ELSE openFor
  /\ UNCHANGED <<state, failures, successes, pc, stream, tries, failed, streak>>

Allow(c) == CheckTimer(c) \/ CompareExchange(c) \/ ZeroSuccesses(c)

RecordSuccess(c) ==
  \/ ClearFailures(c) \/ CheckHalfOpen(c) \/ CountSuccess(c)
  \/ Close(c) \/ ZeroAfterClose(c)

RecordFailure(c) ==
  \/ LoadState(c) \/ Tally(c) \/ Open(c) \/ Stamp(c)
  \/ ZeroFailures(c) \/ ZeroAfterReopen(c)

Work(c) ==
  \/ Allow(c) \/ Succeed(c) \/ RecordSuccess(c)
  \/ RecordFailure(c) \/ Retry(c) \/ GiveUp(c)

Next ==
  \/ \E c \in Clients : Request(c) \/ Work(c) \/ Fail(c)
  \/ Tick

Spec == Init /\ [][Next]_vars

\* Users keep asking, a call ends, time passes.
LiveSpec ==
  /\ Spec
  /\ WF_vars(Tick)
  /\ \A c \in Clients : WF_vars(Request(c)) /\ WF_vars(Work(c))

-----------------------------------------------------------------------------
(* The circuit as a single caller sees it: what is recorded of a call      *)
(* counts as recorded when the call ends.                                  *)

SomeAt(ps) == \E c \in Clients : pc[c] \in ps
Tallying == SomeAt({"tally"}) \/ (SomeAt({"bad"}) /\ state = "CLOSED")
Probing == SomeAt({"ok", "check", "count"}) /\ state = "HALF_OPEN"
Closing == SomeAt({"close", "closed"}) \/ (Probing /\ successes + 1 >= SuccessThreshold)
Opening == SomeAt({"open", "stamp"}) \/ (Tallying /\ failures + 1 >= FailureThreshold)
Reopening == SomeAt({"reopen", "restamp"}) \/ (SomeAt({"bad"}) /\ state = "HALF_OPEN")

SeenState ==
  CASE Closing -> "CLOSED"
    [] Opening \/ Reopening -> "OPEN"
    [] OTHER -> state
SeenFailures ==
  CASE Opening \/ SomeAt({"ok", "zerof"}) -> 0
    [] Tallying /\ ~Opening -> failures + 1
    [] OTHER -> failures
SeenSuccesses ==
  CASE Closing \/ Reopening \/ SomeAt({"zeros", "zero"}) -> 0
    [] Probing /\ ~Closing -> successes + 1
    [] OTHER -> successes
SeenAge == IF Opening \/ Reopening THEN 0 ELSE age

Promise == INSTANCE Breaker WITH
  state <- SeenState, failures <- SeenFailures,
  successes <- SeenSuccesses, age <- SeenAge, streak <- streak

-----------------------------------------------------------------------------
(* Properties                                                               *)

\* Types; and however the clients interleave, the counts stay within one
\* pending update per client of their thresholds.
TypeOK ==
  /\ state \in {"CLOSED", "OPEN", "HALF_OPEN"}
  /\ failures \in 0 .. FailureThreshold + Cardinality(Clients) - 1
  /\ successes \in 0 .. SuccessThreshold + Cardinality(Clients) - 1
  /\ age \in 0 .. ResetTimeout /\ openFor \in 0 .. ResetTimeout
  /\ \A c \in Clients : tries[c] \in 0 .. MaxTries

\* For one caller the atomics behave as the documented circuit: the refinement
\* of Breaker (retry.rs:289-295).
KeepsPromise == Promise!Spec

\* A request is let through an open circuit before the timeout only while the
\* client that opened it stands between its stores of state and opened_at_ms:
\* there is no other way past the timer (allow_request against record_failure).
FailFast ==
  [][\A c \in Clients :
       CheckTimer(c) /\ pc'[c] = "cas" =>
         openFor = ResetTimeout \/ SomeAt({"stamp", "restamp"})]_vars

\* Once the provider has recovered and is asked again, the circuit closes, and
\* stays closed, whatever the racing clients left behind in the counters.
Recovers == <>[](state = "CLOSED")
=============================================================================
