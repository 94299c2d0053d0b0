----------------------------- MODULE TurnProofs -----------------------------
(***************************************************************************)
(* Proofs about the services that a turn calls on: the circuit breaker,    *)
(* the token bucket, the tool calls of an answer, the tasks of a parallel  *)
(* call, a streamed completion, a script run, the terminal sessions, their *)
(* screens and the history of a conversation.  Each part speaks of one of  *)
(* them, as the instance that TurnServices has of it; ServiceProofs puts   *)
(* them together.                                                          *)
(***************************************************************************)
EXTENDS TurnServices, FiniteSetTheorems, WellFoundedInduction, TLAPS

\* What is proved below needs nothing of the fairness that some modules state.
SpawnSafety == Spawn!Init /\ [][Spawn!Next]_(Spawn!vars)
ToolSafety == Tool!Init /\ [][Tool!Next]_(Tool!vars)
TerminalSafety == Terminal!Init /\ [][Terminal!Next]_(Terminal!vars)
StreamSafety == Stream!Init /\ [][Stream!Next]_(Stream!vars)

-----------------------------------------------------------------------------
(* CircuitBreaker: how far racing callers can push the counters, and that   *)
(* an open circuit lets nobody through early but in the window between its  *)
(* two stores                                                               *)

BreakerPoints ==
  {"idle", "timed", "cas", "zero", "call", "ok", "check", "count", "close",
   "closed", "bad", "tally", "open", "stamp", "zerof", "reopen", "restamp",
   "zeros", "after"}

\* The callers that have reached a threshold and not yet zeroed its counter.
Openers == {c \in Clients : bPc[c] \in {"open", "stamp", "zerof"}}
Closers == {c \in Clients : bPc[c] \in {"close", "closed"}}

CircuitTyped ==
  /\ bState \in {"CLOSED", "OPEN", "HALF_OPEN"}
  /\ bFailures \in Nat /\ bSuccesses \in Nat
  /\ bAge \in 0 .. ResetTimeout /\ bOpenFor \in 0 .. ResetTimeout
  /\ bPc \in [Clients -> BreakerPoints]
  /\ bStream \in [Clients -> BOOLEAN]
  /\ bTries \in [Clients -> 0 .. MaxTries]
  /\ bFailed \in Nat /\ bStreak \in Nat

\* What a counter shows beyond its threshold, somebody is about to zero.
FailuresBounded == bFailures <= FailureThreshold - 1 + Cardinality(Openers)
SuccessesBounded == bSuccesses <= SuccessThreshold - 1 + Cardinality(Closers)

\* The timestamp is no older than the open circuit, but between the stores.
StampIsFresh == bAge <= bOpenFor \/ Circuit!SomeAt({"stamp", "restamp"})

CircuitInv == CircuitTyped /\ FailuresBounded /\ SuccessesBounded /\ StampIsFresh

\* The constants as numbers, for the arithmetic below.
LEMMA CircuitConstants ==
  ASSUME Circuit!BreakerAssumption
  PROVE  /\ FailureThreshold \in Nat \ {0} /\ SuccessThreshold \in Nat \ {0}
         /\ ResetTimeout \in Nat \ {0} /\ MaxTries \in Nat \ {0}
         /\ Streams \subseteq BOOLEAN
         /\ IsFiniteSet(Clients)
BY DEF Circuit!BreakerAssumption, Circuit!IsFiniteSet, IsFiniteSet

\* The sets that bound the counters are finite, and have no more members than
\* there are clients.
LEMMA ClientsCount ==
  ASSUME Circuit!BreakerAssumption, NEW S \in SUBSET Clients
  PROVE  /\ IsFiniteSet(S)
         /\ Cardinality(S) \in Nat /\ Cardinality(Clients) \in Nat
         /\ Cardinality(S) <= Cardinality(Clients)
BY CircuitConstants, FS_Subset, FS_CardinalityType

\* A client that joins such a set makes it larger by one.
LEMMA ClientsJoin ==
  ASSUME Circuit!BreakerAssumption, NEW S \in SUBSET Clients, NEW c \in Clients,
         c \notin S
  PROVE  Cardinality(S \cup {c}) = Cardinality(S) + 1
BY ClientsCount, FS_AddElement

\* Where one client has gone, and who is then about to zero a counter.
LEMMA ClientMoves ==
  ASSUME CircuitTyped, NEW c \in Clients, NEW q \in BreakerPoints, Circuit!Go(c, q)
  PROVE  /\ bPc' \in [Clients -> BreakerPoints] /\ bPc'[c] = q
         /\ \A d \in Clients \ {c} : bPc'[d] = bPc[d]
         /\ Openers' = IF q \in {"open", "stamp", "zerof"}
                       THEN Openers \cup {c} ELSE Openers \ {c}
         /\ Closers' = IF q \in {"close", "closed"}
                       THEN Closers \cup {c} ELSE Closers \ {c}
<1>1. /\ bPc' \in [Clients -> BreakerPoints] /\ bPc'[c] = q
      /\ \A d \in Clients \ {c} : bPc'[d] = bPc[d]
  BY DEF CircuitTyped, Circuit!Go
<1>2. Openers' = IF q \in {"open", "stamp", "zerof"}
                 THEN Openers \cup {c} ELSE Openers \ {c}
  BY <1>1 DEF Openers
<1>3. Closers' = IF q \in {"close", "closed"}
                 THEN Closers \cup {c} ELSE Closers \ {c}
  BY <1>1 DEF Closers
<1>4. QED
  BY <1>1, <1>2, <1>3

\* A step of one client keeps the types.
LEMMA ClientKeepsTyped ==
  ASSUME Circuit!BreakerAssumption, CircuitTyped, NEW c \in Clients,
         Circuit!Request(c) \/ Circuit!Work(c) \/ Circuit!Fail(c)
  PROVE  CircuitTyped'
<1> USE CircuitConstants
<1>1. CASE Circuit!Request(c)
  BY <1>1 DEF CircuitTyped, Circuit!Request, Circuit!At, Circuit!Go, BreakerPoints,
    Circuit!atomics, Circuit!history
<1>2. CASE Circuit!Allow(c)
  BY <1>2 DEF CircuitTyped, Circuit!Allow, Circuit!CheckTimer, Circuit!CompareExchange,
    Circuit!ZeroSuccesses, Circuit!At, Circuit!Go, Circuit!Store, Circuit!Quiet, Circuit!Silent,
      BreakerPoints, Circuit!atomics
<1>3. CASE Circuit!Succeed(c)
  BY <1>3 DEF CircuitTyped, Circuit!Succeed, Circuit!At, Circuit!Go, BreakerPoints, Circuit!atomics
<1>4. CASE Circuit!RecordSuccess(c)
  <2>1. CASE Circuit!ClearFailures(c) \/ Circuit!CheckHalfOpen(c)
    BY <2>1 DEF CircuitTyped, Circuit!ClearFailures, Circuit!CheckHalfOpen, Circuit!At,
      Circuit!Go, Circuit!Quiet, Circuit!Silent, BreakerPoints, Circuit!atomics
  <2>2. CASE Circuit!CountSuccess(c)
    BY <2>2 DEF CircuitTyped, Circuit!CountSuccess, Circuit!At, Circuit!Go, Circuit!Quiet,
      Circuit!Silent, BreakerPoints
  <2>3. CASE Circuit!Close(c) \/ Circuit!ZeroAfterClose(c)
    BY <2>3 DEF CircuitTyped, Circuit!Close, Circuit!ZeroAfterClose, Circuit!At, Circuit!Go,
      Circuit!Store, Circuit!Quiet, Circuit!Silent, BreakerPoints
  <2>4. QED
    BY <1>4, <2>1, <2>2, <2>3 DEF Circuit!RecordSuccess
<1>5. CASE Circuit!RecordFailure(c)
  <2>1. CASE Circuit!LoadState(c)
    <3>1. bPc' \in [Clients -> BreakerPoints]
      BY <2>1 DEF CircuitTyped, Circuit!LoadState, Circuit!At, Circuit!Go, BreakerPoints
    <3>2. QED
      BY <2>1, <3>1 DEF CircuitTyped, Circuit!LoadState, Circuit!Quiet, Circuit!Silent,
        Circuit!atomics
  <2>2. CASE Circuit!Tally(c)
    BY <2>2 DEF CircuitTyped, Circuit!Tally, Circuit!At, Circuit!Go, Circuit!Quiet,
      Circuit!Silent, BreakerPoints
  <2>3. CASE Circuit!Open(c)
    BY <2>3 DEF CircuitTyped, Circuit!Open, Circuit!At, Circuit!Go, Circuit!Store, Circuit!Quiet,
      BreakerPoints
  <2>4. CASE Circuit!Stamp(c)
    BY <2>4 DEF CircuitTyped, Circuit!Stamp, Circuit!At, Circuit!Go, Circuit!Quiet,
      Circuit!Silent, BreakerPoints
  <2>5. CASE Circuit!ZeroFailures(c) \/ Circuit!ZeroAfterReopen(c)
    BY <2>5 DEF CircuitTyped, Circuit!ZeroFailures, Circuit!ZeroAfterReopen, Circuit!At,
      Circuit!Go, Circuit!Quiet, Circuit!Silent, BreakerPoints
  <2>6. QED
    BY <1>5, <2>1, <2>2, <2>3, <2>4, <2>5 DEF Circuit!RecordFailure
<1>6. CASE Circuit!Retry(c)
  BY <1>6 DEF CircuitTyped, Circuit!Retry, Circuit!At, Circuit!Go, BreakerPoints,
    Circuit!atomics, Circuit!history
<1>7. CASE Circuit!GiveUp(c)
  BY <1>7 DEF CircuitTyped, Circuit!GiveUp, Circuit!At, Circuit!Go, Circuit!Quiet,
    Circuit!Silent, BreakerPoints, Circuit!atomics
<1>8. CASE Circuit!Fail(c)
  BY <1>8 DEF CircuitTyped, Circuit!Fail, Circuit!At, Circuit!Go, BreakerPoints, Circuit!atomics
<1>9. QED
  BY <1>1, <1>2, <1>3, <1>4, <1>5, <1>6, <1>7, <1>8 DEF Circuit!Work

\* The counter of failures moves in three steps only; in each, the client that
\* reaches the threshold joins those that will zero it.
LEMMA ClientKeepsFailures ==
  ASSUME Circuit!BreakerAssumption, CircuitInv, NEW c \in Clients,
         Circuit!Request(c) \/ Circuit!Work(c) \/ Circuit!Fail(c)
  PROVE  FailuresBounded'
<1> USE CircuitConstants DEF CircuitInv
<1>1. Openers \in SUBSET Clients /\ Openers' \in SUBSET Clients
  BY DEF Openers
<1>2. Cardinality(Openers) \in Nat /\ Cardinality(Openers') \in Nat
  BY <1>1, ClientsCount
<1>3. CASE Circuit!Tally(c)
  <2>1. /\ c \notin Openers /\ bFailures' = bFailures + 1
        /\ Circuit!Go(c, IF bFailures' >= FailureThreshold THEN "open" ELSE "after")
    BY <1>3 DEF Circuit!Tally, Circuit!At, Openers
  <2>2. CASE bFailures' >= FailureThreshold
    <3>1. Openers' = Openers \cup {c}
      BY <2>1, <2>2, ClientMoves DEF BreakerPoints
    <3>2. Cardinality(Openers') = Cardinality(Openers) + 1
      BY <1>1, <2>1, <3>1, ClientsJoin
    <3>3. QED
      BY <1>2, <2>1, <3>2 DEF FailuresBounded, CircuitTyped
  <2>3. CASE ~(bFailures' >= FailureThreshold)
    BY <1>2, <2>1, <2>3 DEF FailuresBounded, CircuitTyped
  <2>4. QED
    BY <2>2, <2>3
<1>4. CASE Circuit!ClearFailures(c) \/ Circuit!ZeroFailures(c)
  BY <1>2, <1>4 DEF Circuit!ClearFailures, Circuit!ZeroFailures, FailuresBounded
<1>5. CASE ~(Circuit!Tally(c) \/ Circuit!ClearFailures(c) \/ Circuit!ZeroFailures(c))
  <2>1. bFailures' = bFailures
    BY <1>5 DEF Circuit!Request, Circuit!Work, Circuit!Fail, Circuit!Allow, Circuit!CheckTimer,
      Circuit!CompareExchange, Circuit!ZeroSuccesses, Circuit!Succeed, Circuit!RecordSuccess,
        Circuit!CheckHalfOpen, Circuit!CountSuccess, Circuit!Close, Circuit!ZeroAfterClose,
          Circuit!RecordFailure, Circuit!LoadState, Circuit!Open, Circuit!Stamp,
            Circuit!ZeroAfterReopen, Circuit!Retry, Circuit!GiveUp, Circuit!atomics
  <2>2. Openers \subseteq Openers'
    <3>1. SUFFICES ASSUME NEW d \in Clients, bPc[d] \in {"open", "stamp", "zerof"}
                   PROVE  bPc'[d] \in {"open", "stamp", "zerof"}
      BY DEF Openers
    <3>2. CASE d # c
      BY <3>1, <3>2 DEF Circuit!Request, Circuit!Work, Circuit!Fail, Circuit!Allow,
        Circuit!CheckTimer, Circuit!CompareExchange, Circuit!ZeroSuccesses, Circuit!Succeed,
          Circuit!RecordSuccess, Circuit!ClearFailures, Circuit!CheckHalfOpen,
            Circuit!CountSuccess, Circuit!Close, Circuit!ZeroAfterClose, Circuit!RecordFailure,
              Circuit!LoadState, Circuit!Tally, Circuit!Open, Circuit!Stamp,
                Circuit!ZeroFailures, Circuit!ZeroAfterReopen, Circuit!Retry, Circuit!GiveUp,
                  Circuit!Go, CircuitTyped
    <3>3. CASE d = c
      <4>1. Circuit!Open(c) \/ Circuit!Stamp(c)
        BY <1>5, <3>1, <3>3 DEF Circuit!Request, Circuit!Work, Circuit!Fail, Circuit!Allow,
          Circuit!CheckTimer, Circuit!CompareExchange, Circuit!ZeroSuccesses, Circuit!Succeed,
            Circuit!RecordSuccess, Circuit!CheckHalfOpen, Circuit!CountSuccess, Circuit!Close,
              Circuit!ZeroAfterClose, Circuit!RecordFailure, Circuit!LoadState,
                Circuit!ZeroAfterReopen, Circuit!Retry, Circuit!GiveUp, Circuit!At
      <4>2. QED
        BY <3>1, <3>3, <4>1 DEF Circuit!Open, Circuit!Stamp, Circuit!At, Circuit!Go, CircuitTyped
    <3>4. QED
      BY <3>2, <3>3
  <2>3. Cardinality(Openers) <= Cardinality(Openers')
    BY <1>1, <2>2, CircuitConstants, FS_Subset
  <2>4. QED
    BY <1>2, <2>1, <2>3 DEF FailuresBounded, CircuitTyped
<1>6. QED
  BY <1>3, <1>4, <1>5

\* The counter of successful probes, in the same way.
LEMMA ClientKeepsSuccesses ==
  ASSUME Circuit!BreakerAssumption, CircuitInv, NEW c \in Clients,
         Circuit!Request(c) \/ Circuit!Work(c) \/ Circuit!Fail(c)
  PROVE  SuccessesBounded'
<1> USE CircuitConstants DEF CircuitInv
<1>1. Closers \in SUBSET Clients /\ Closers' \in SUBSET Clients
  BY DEF Closers
<1>2. Cardinality(Closers) \in Nat /\ Cardinality(Closers') \in Nat
  BY <1>1, ClientsCount
<1>3. CASE Circuit!CountSuccess(c)
  <2>1. /\ c \notin Closers /\ bSuccesses' = bSuccesses + 1
        /\ Circuit!Go(c, IF bSuccesses' >= SuccessThreshold THEN "close" ELSE "idle")
    BY <1>3 DEF Circuit!CountSuccess, Circuit!At, Closers
  <2>2. CASE bSuccesses' >= SuccessThreshold
    <3>1. Closers' = Closers \cup {c}
      BY <2>1, <2>2, ClientMoves DEF BreakerPoints
    <3>2. Cardinality(Closers') = Cardinality(Closers) + 1
      BY <1>1, <2>1, <3>1, ClientsJoin
    <3>3. QED
      BY <1>2, <2>1, <3>2 DEF SuccessesBounded, CircuitTyped
  <2>3. CASE ~(bSuccesses' >= SuccessThreshold)
    BY <1>2, <2>1, <2>3 DEF SuccessesBounded, CircuitTyped
  <2>4. QED
    BY <2>2, <2>3
<1>4. CASE Circuit!ZeroSuccesses(c) \/ Circuit!ZeroAfterClose(c) \/ Circuit!ZeroAfterReopen(c)
  BY <1>2, <1>4 DEF Circuit!ZeroSuccesses, Circuit!ZeroAfterClose, Circuit!ZeroAfterReopen,
     SuccessesBounded
<1>5. CASE ~( \/ Circuit!CountSuccess(c) \/ Circuit!ZeroSuccesses(c)
              \/ Circuit!ZeroAfterClose(c) \/ Circuit!ZeroAfterReopen(c) )
  <2>1. bSuccesses' = bSuccesses
    BY <1>5 DEF Circuit!Request, Circuit!Work, Circuit!Fail, Circuit!Allow, Circuit!CheckTimer,
      Circuit!CompareExchange, Circuit!Succeed, Circuit!RecordSuccess, Circuit!ClearFailures,
        Circuit!CheckHalfOpen, Circuit!Close, Circuit!RecordFailure, Circuit!LoadState,
          Circuit!Tally, Circuit!Open, Circuit!Stamp, Circuit!ZeroFailures, Circuit!Retry,
            Circuit!GiveUp, Circuit!atomics
  <2>2. Closers \subseteq Closers'
    <3>1. SUFFICES ASSUME NEW d \in Clients, bPc[d] \in {"close", "closed"}
                   PROVE  bPc'[d] \in {"close", "closed"}
      BY DEF Closers
    <3>2. CASE d # c
      BY <3>1, <3>2 DEF Circuit!Request, Circuit!Work, Circuit!Fail, Circuit!Allow,
        Circuit!CheckTimer, Circuit!CompareExchange, Circuit!ZeroSuccesses, Circuit!Succeed,
          Circuit!RecordSuccess, Circuit!ClearFailures, Circuit!CheckHalfOpen,
            Circuit!CountSuccess, Circuit!Close, Circuit!ZeroAfterClose, Circuit!RecordFailure,
              Circuit!LoadState, Circuit!Tally, Circuit!Open, Circuit!Stamp,
                Circuit!ZeroFailures, Circuit!ZeroAfterReopen, Circuit!Retry, Circuit!GiveUp,
                  Circuit!Go, CircuitTyped
    <3>3. CASE d = c
      <4>1. Circuit!Close(c)
        BY <1>5, <3>1, <3>3 DEF Circuit!Request, Circuit!Work, Circuit!Fail, Circuit!Allow,
          Circuit!CheckTimer, Circuit!CompareExchange, Circuit!Succeed, Circuit!RecordSuccess,
            Circuit!ClearFailures, Circuit!CheckHalfOpen, Circuit!RecordFailure,
              Circuit!LoadState, Circuit!Tally, Circuit!Open, Circuit!Stamp,
                Circuit!ZeroFailures, Circuit!Retry, Circuit!GiveUp, Circuit!At
      <4>2. QED
        BY <3>1, <3>3, <4>1 DEF Circuit!Close, Circuit!At, Circuit!Go, CircuitTyped
    <3>4. QED
      BY <3>2, <3>3
  <2>3. Cardinality(Closers) <= Cardinality(Closers')
    BY <1>1, <2>2, CircuitConstants, FS_Subset
  <2>4. QED
    BY <1>2, <2>1, <2>3 DEF SuccessesBounded, CircuitTyped
<1>6. QED
  BY <1>3, <1>4, <1>5

\* Only a store of OPEN restarts the open circuit's clock, and then the client
\* that made it stands before the stamp; only the stamp ends that.
LEMMA ClientKeepsStamp ==
  ASSUME Circuit!BreakerAssumption, CircuitInv, NEW c \in Clients,
         Circuit!Request(c) \/ Circuit!Work(c) \/ Circuit!Fail(c)
  PROVE  StampIsFresh'
<1> USE CircuitConstants DEF CircuitInv
<1>1. CircuitTyped'
  BY ClientKeepsTyped
<1>2. CASE Circuit!Stamp(c)
  BY <1>1, <1>2 DEF Circuit!Stamp, StampIsFresh, CircuitTyped
<1>3. CASE Circuit!Open(c)
  <2>1. CASE Circuit!At(c, "open")
    BY <1>3, <2>1 DEF Circuit!Open, Circuit!At, Circuit!Go, StampIsFresh, Circuit!SomeAt,
      CircuitTyped
  <2>2. CASE ~Circuit!At(c, "open")
    BY <1>3, <2>2 DEF Circuit!Open, Circuit!At, Circuit!Go, StampIsFresh, Circuit!SomeAt,
      CircuitTyped
  <2>3. QED
    BY <2>1, <2>2
<1>4. CASE ~(Circuit!Stamp(c) \/ Circuit!Open(c))
  <2>1. bAge' = bAge /\ bOpenFor' = bOpenFor
    BY <1>4 DEF Circuit!Request, Circuit!Work, Circuit!Fail, Circuit!Allow, Circuit!CheckTimer,
      Circuit!CompareExchange, Circuit!ZeroSuccesses, Circuit!Succeed, Circuit!RecordSuccess,
        Circuit!ClearFailures, Circuit!CheckHalfOpen, Circuit!CountSuccess, Circuit!Close,
          Circuit!ZeroAfterClose, Circuit!RecordFailure, Circuit!LoadState, Circuit!Tally,
            Circuit!ZeroFailures, Circuit!ZeroAfterReopen, Circuit!Retry, Circuit!GiveUp,
              Circuit!Store, Circuit!Silent, Circuit!atomics, Circuit!history
  <2>2. CASE bAge <= bOpenFor
    BY <2>1, <2>2 DEF StampIsFresh
  <2>3. CASE \E d \in Clients : bPc[d] \in {"stamp", "restamp"}
    <3>1. PICK d \in Clients : bPc[d] \in {"stamp", "restamp"}
      BY <2>3
    <3>2. d # c
      BY <1>4, <3>1 DEF Circuit!Request, Circuit!Work, Circuit!Fail, Circuit!Allow,
        Circuit!CheckTimer, Circuit!CompareExchange, Circuit!ZeroSuccesses, Circuit!Succeed,
          Circuit!RecordSuccess, Circuit!ClearFailures, Circuit!CheckHalfOpen,
            Circuit!CountSuccess, Circuit!Close, Circuit!ZeroAfterClose, Circuit!RecordFailure,
              Circuit!LoadState, Circuit!Tally, Circuit!ZeroFailures, Circuit!ZeroAfterReopen,
                Circuit!Retry, Circuit!GiveUp, Circuit!At
    <3>3. bPc'[d] = bPc[d]
      BY <3>2 DEF Circuit!Request, Circuit!Work, Circuit!Fail, Circuit!Allow, Circuit!CheckTimer,
         Circuit!CompareExchange, Circuit!ZeroSuccesses, Circuit!Succeed, Circuit!RecordSuccess,
           Circuit!ClearFailures, Circuit!CheckHalfOpen, Circuit!CountSuccess, Circuit!Close,
             Circuit!ZeroAfterClose, Circuit!RecordFailure, Circuit!LoadState, Circuit!Tally,
               Circuit!Open, Circuit!Stamp, Circuit!ZeroFailures, Circuit!ZeroAfterReopen,
                 Circuit!Retry, Circuit!GiveUp, Circuit!Go, CircuitTyped
    <3>4. QED
      BY <3>1, <3>3 DEF StampIsFresh, Circuit!SomeAt
  <2>4. QED
    BY <2>2, <2>3 DEF StampIsFresh, Circuit!SomeAt
<1>5. QED
  BY <1>2, <1>3, <1>4

\* The breaker starts closed, with its counters at zero.
LEMMA CircuitInvInit ==
  ASSUME Circuit!BreakerAssumption, Circuit!Init
  PROVE  CircuitInv
<1>1. CircuitTyped
  BY CircuitConstants DEF Circuit!Init, CircuitTyped, BreakerPoints
<1>2. Openers = {} /\ Closers = {}
  BY DEF Circuit!Init, Openers, Closers
<1>3. QED
  BY <1>1, <1>2, CircuitConstants, FS_EmptySet
     DEF Circuit!Init, CircuitInv, FailuresBounded, SuccessesBounded, StampIsFresh

\* Every step keeps the invariant, the clock's and the idle one included.
LEMMA CircuitInvStep ==
  ASSUME Circuit!BreakerAssumption, CircuitInv, [Circuit!Next]_(Circuit!vars)
  PROVE  CircuitInv'
<1>1. CASE \E c \in Clients : Circuit!Request(c) \/ Circuit!Work(c) \/ Circuit!Fail(c)
  BY <1>1, ClientKeepsTyped, ClientKeepsFailures, ClientKeepsSuccesses,
     ClientKeepsStamp DEF CircuitInv
<1>2. CASE Circuit!Tick
  <2>1. Openers' = Openers /\ Closers' = Closers
    BY <1>2 DEF Circuit!Tick, Openers, Closers
  <2>2. CircuitTyped'
    BY <1>2, CircuitConstants DEF Circuit!Tick, CircuitInv, CircuitTyped
  <2>3. StampIsFresh'
    BY <1>2, CircuitConstants DEF Circuit!Tick, CircuitInv, CircuitTyped, StampIsFresh,
      Circuit!SomeAt
  <2>4. QED
    BY <1>2, <2>1, <2>2, <2>3
       DEF Circuit!Tick, CircuitInv, FailuresBounded, SuccessesBounded
<1>3. CASE UNCHANGED Circuit!vars
  BY <1>3 DEF Circuit!vars, Circuit!atomics, Circuit!history, CircuitInv, CircuitTyped,
    FailuresBounded, SuccessesBounded, StampIsFresh, Circuit!SomeAt, Openers, Closers
<1>4. QED
  BY <1>1, <1>2, <1>3 DEF Circuit!Next

\* The invariant holds in every reachable state, for any number of callers.
THEOREM CircuitInvariant == ASSUME Circuit!BreakerAssumption PROVE Circuit!Spec => []CircuitInv
BY CircuitInvInit, CircuitInvStep, PTL DEF Circuit!Spec

\* Types, and the counters stay within one pending update per client of their
\* thresholds: record_failure and record_success race on fetch_add and store
\* alone.
THEOREM CircuitStates ==
  ASSUME Circuit!BreakerAssumption PROVE Circuit!Spec => []Circuit!TypeOK
<1>1. CircuitInv => Circuit!TypeOK
  <2>1. Openers \in SUBSET Clients /\ Closers \in SUBSET Clients
    BY DEF Openers, Closers
  <2>2. /\ Cardinality(Openers) \in Nat /\ Cardinality(Closers) \in Nat
        /\ Cardinality(Clients) \in Nat
        /\ Cardinality(Openers) <= Cardinality(Clients)
        /\ Cardinality(Closers) <= Cardinality(Clients)
    BY <2>1, ClientsCount
  <2>3. Circuit!Cardinality(Clients) = Cardinality(Clients)
    BY DEF Circuit!Cardinality, Cardinality
  <2>4. QED
    BY <2>2, <2>3, CircuitConstants
       DEF CircuitInv, CircuitTyped, FailuresBounded, SuccessesBounded, Circuit!TypeOK
<1>2. QED
  BY <1>1, CircuitInvariant, PTL

\* No request passes an open circuit before reset_timeout has run out, but in
\* the window between the stores of state and opened_at_ms.
THEOREM CircuitFailsFast ==
  ASSUME Circuit!BreakerAssumption PROVE Circuit!Spec => Circuit!FailFast
<1>1. ASSUME CircuitInv, NEW c \in Clients, Circuit!CheckTimer(c), bPc'[c] = "cas"
      PROVE  bOpenFor = ResetTimeout \/ Circuit!SomeAt({"stamp", "restamp"})
  <2>1. bAge = ResetTimeout
    BY <1>1 DEF Circuit!CheckTimer, Circuit!Go, CircuitInv, CircuitTyped
  <2>2. QED
    BY <1>1, <2>1, CircuitConstants DEF CircuitInv, CircuitTyped, StampIsFresh
<1>2. CircuitInv =>
        [\A c \in Clients :
           Circuit!CheckTimer(c) /\ bPc'[c] = "cas" =>
             bOpenFor = ResetTimeout \/ Circuit!SomeAt({"stamp", "restamp"})]_(Circuit!vars)
  BY <1>1
<1>3. QED
  BY <1>2, CircuitInvariant, PTL DEF Circuit!FailFast

-----------------------------------------------------------------------------
(* CircuitBreaker: for a single caller, whose calls are not streamed, the   *)
(* atomics implement Breaker.  With two, one may count a success towards    *)
(* the circuit that the other has since opened, and a streamed success is   *)
(* not recorded at all.                                                     *)

SoloTyped ==
  /\ pState \in {"CLOSED", "OPEN", "HALF_OPEN"}
  /\ pFailures \in Nat /\ pSuccesses \in Nat
  /\ pAge \in 0 .. SoloTimeout /\ pOpenFor \in 0 .. SoloTimeout
  /\ pPc \in [{Lone} -> BreakerPoints]
  /\ pStream \in [{Lone} -> BOOLEAN]
  /\ pTries \in [{Lone} -> 0 .. SoloTries]
  /\ pFailed \in Nat /\ pStreak \in Nat

\* The constants as numbers, for the arithmetic below.
LEMMA SoloConstants ==
  ASSUME Solo!BreakerAssumption
  PROVE  /\ SoloThreshold \in Nat \ {0} /\ SuccessThreshold \in Nat \ {0}
         /\ SoloTimeout \in Nat \ {0} /\ SoloTries \in Nat \ {0}
BY DEF Solo!BreakerAssumption

\* A step of the caller keeps the types.
LEMMA LoneKeepsTyped ==
  ASSUME Solo!BreakerAssumption, SoloTyped, Solo!Request(Lone) \/ Solo!Work(Lone) \/ Solo!Fail(Lone)
  PROVE  SoloTyped'
<1> USE SoloConstants
<1>1. CASE Solo!Request(Lone)
  BY <1>1 DEF SoloTyped, Solo!Request, Solo!At, Solo!Go, BreakerPoints, Solo!atomics, Solo!history
<1>2. CASE Solo!Allow(Lone)
  BY <1>2 DEF SoloTyped, Solo!Allow, Solo!CheckTimer, Solo!CompareExchange, Solo!ZeroSuccesses,
    Solo!At, Solo!Go, Solo!Store, Solo!Quiet, Solo!Silent, BreakerPoints, Solo!atomics
<1>3. CASE Solo!Succeed(Lone)
  BY <1>3 DEF SoloTyped, Solo!Succeed, Solo!At, Solo!Go, BreakerPoints, Solo!atomics
<1>4. CASE Solo!RecordSuccess(Lone)
  <2>1. CASE Solo!ClearFailures(Lone) \/ Solo!CheckHalfOpen(Lone)
    BY <2>1 DEF SoloTyped, Solo!ClearFailures, Solo!CheckHalfOpen, Solo!At, Solo!Go, Solo!Quiet,
      Solo!Silent, BreakerPoints, Solo!atomics
  <2>2. CASE Solo!CountSuccess(Lone)
    BY <2>2 DEF SoloTyped, Solo!CountSuccess, Solo!At, Solo!Go, Solo!Quiet, Solo!Silent, BreakerPoints
  <2>3. CASE Solo!Close(Lone) \/ Solo!ZeroAfterClose(Lone)
    BY <2>3 DEF SoloTyped, Solo!Close, Solo!ZeroAfterClose, Solo!At, Solo!Go, Solo!Store,
      Solo!Quiet, Solo!Silent, BreakerPoints
  <2>4. QED
    BY <1>4, <2>1, <2>2, <2>3 DEF Solo!RecordSuccess
<1>5. CASE Solo!RecordFailure(Lone)
  <2>1. CASE Solo!LoadState(Lone)
    <3>1. pPc' \in [{Lone} -> BreakerPoints]
      BY <2>1 DEF SoloTyped, Solo!LoadState, Solo!At, Solo!Go, BreakerPoints
    <3>2. QED
      BY <2>1, <3>1 DEF SoloTyped, Solo!LoadState, Solo!Quiet, Solo!Silent, Solo!atomics
  <2>2. CASE Solo!Tally(Lone)
    BY <2>2 DEF SoloTyped, Solo!Tally, Solo!At, Solo!Go, Solo!Quiet, Solo!Silent, BreakerPoints
  <2>3. CASE Solo!Open(Lone)
    BY <2>3 DEF SoloTyped, Solo!Open, Solo!At, Solo!Go, Solo!Store, Solo!Quiet, BreakerPoints
  <2>4. CASE Solo!Stamp(Lone)
    BY <2>4 DEF SoloTyped, Solo!Stamp, Solo!At, Solo!Go, Solo!Quiet, Solo!Silent, BreakerPoints
  <2>5. CASE Solo!ZeroFailures(Lone) \/ Solo!ZeroAfterReopen(Lone)
    BY <2>5 DEF SoloTyped, Solo!ZeroFailures, Solo!ZeroAfterReopen, Solo!At, Solo!Go, Solo!Quiet,
      Solo!Silent, BreakerPoints
  <2>6. QED
    BY <1>5, <2>1, <2>2, <2>3, <2>4, <2>5 DEF Solo!RecordFailure
<1>6. CASE Solo!Retry(Lone)
  BY <1>6 DEF SoloTyped, Solo!Retry, Solo!At, Solo!Go, BreakerPoints, Solo!atomics, Solo!history
<1>7. CASE Solo!GiveUp(Lone)
  BY <1>7 DEF SoloTyped, Solo!GiveUp, Solo!At, Solo!Go, Solo!Quiet, Solo!Silent, BreakerPoints,
    Solo!atomics
<1>8. CASE Solo!Fail(Lone)
  BY <1>8 DEF SoloTyped, Solo!Fail, Solo!At, Solo!Go, BreakerPoints, Solo!atomics
<1>9. QED
  BY <1>1, <1>2, <1>3, <1>4, <1>5, <1>6, <1>7, <1>8 DEF Solo!Work

\* What a single caller knows of the circuit at each point of its request.
LoneKnows ==
  /\ ~pStream[Lone]
  /\ pPc[Lone] \in {"tally", "open", "closed"} => pState = "CLOSED"
  /\ pPc[Lone] \in {"timed", "cas", "stamp", "zerof", "restamp", "zeros"} => pState = "OPEN"
  /\ pPc[Lone] \in {"zero", "count", "close", "reopen"} => pState = "HALF_OPEN"
  /\ pPc[Lone] = "cas" => pAge = SoloTimeout
  /\ pPc[Lone] \notin {"open", "stamp", "zerof"} => pFailures < SoloThreshold
  /\ pPc[Lone] \notin {"close", "closed"} => pSuccesses < SuccessThreshold
  /\ pPc[Lone] = "open" => pFailures = SoloThreshold
  /\ pPc[Lone] = "close" => pSuccesses = SuccessThreshold
  /\ pFailures <= SoloThreshold /\ pSuccesses <= SuccessThreshold

SoloInv == SoloTyped /\ LoneKnows

\* A single caller's step keeps what it knows, since nobody else moves.
LEMMA SoloInvStep ==
  ASSUME Solo!BreakerAssumption, SoloInv, [Solo!Next]_(Solo!vars)
  PROVE  SoloInv'
<1> USE SoloConstants
<1>1. CASE Solo!Request(Lone) \/ Solo!Work(Lone) \/ Solo!Fail(Lone)
  <2>1. SoloTyped'
    BY <1>1, LoneKeepsTyped DEF SoloInv
  <2>2. LoneKnows'
    <3>1. SoloTyped /\ LoneKnows
      BY DEF SoloInv
    <3>2. CASE Solo!Request(Lone)
      BY <3>1, <3>2 DEF LoneKnows, SoloTyped, Solo!Request, Solo!At, Solo!Go, Solo!atomics,
        Solo!history
    <3>3. CASE Solo!Allow(Lone)
      BY <3>1, <3>3 DEF LoneKnows, SoloTyped, Solo!Allow, Solo!CheckTimer, Solo!CompareExchange,
         Solo!ZeroSuccesses, Solo!At, Solo!Go, Solo!Store, Solo!Quiet, Solo!Silent, Solo!atomics
    <3>4. CASE Solo!Succeed(Lone)
      BY <3>1, <3>4 DEF LoneKnows, SoloTyped, Solo!Succeed, Solo!At, Solo!Go, Solo!atomics
    <3>5. CASE Solo!RecordSuccess(Lone)
      BY <3>1, <3>5 DEF LoneKnows, SoloTyped, Solo!RecordSuccess, Solo!ClearFailures,
         Solo!CheckHalfOpen, Solo!CountSuccess, Solo!Close, Solo!ZeroAfterClose, Solo!At,
           Solo!Go, Solo!Store, Solo!Quiet, Solo!Silent, Solo!atomics
    <3>6. CASE Solo!LoadState(Lone) \/ Solo!Tally(Lone)
      BY <3>1, <3>6 DEF LoneKnows, SoloTyped, Solo!LoadState, Solo!Tally, Solo!At, Solo!Go,
        Solo!Quiet, Solo!Silent, Solo!atomics
    <3>7. CASE Solo!Open(Lone) \/ Solo!Stamp(Lone) \/ Solo!ZeroFailures(Lone) \/
                 Solo!ZeroAfterReopen(Lone)
      BY <3>1, <3>7 DEF LoneKnows, SoloTyped, Solo!Open, Solo!Stamp, Solo!ZeroFailures,
         Solo!ZeroAfterReopen, Solo!At, Solo!Go, Solo!Store, Solo!Quiet, Solo!Silent, Solo!atomics
    <3>8. CASE Solo!Retry(Lone) \/ Solo!GiveUp(Lone) \/ Solo!Fail(Lone)
      BY <3>1, <3>8 DEF LoneKnows, SoloTyped, Solo!Retry, Solo!GiveUp, Solo!Fail, Solo!At,
        Solo!Go, Solo!Quiet, Solo!Silent, Solo!atomics, Solo!history
    <3>9. QED
      BY <1>1, <3>2, <3>3, <3>4, <3>5, <3>6, <3>7, <3>8
         DEF Solo!Work, Solo!RecordFailure
  <2>3. QED
    BY <2>1, <2>2 DEF SoloInv
<1>2. CASE Solo!Tick
  <2>1. SoloTyped'
    BY <1>2 DEF Solo!Tick, SoloInv, SoloTyped
  <2>2. QED
    BY <1>2, <2>1 DEF Solo!Tick, SoloInv, SoloTyped, LoneKnows
<1>3. CASE UNCHANGED Solo!vars
  BY <1>3 DEF Solo!vars, Solo!atomics, Solo!history, SoloInv, SoloTyped, LoneKnows
<1>4. QED
  BY <1>1, <1>2, <1>3 DEF Solo!Next

\* What is recorded of a single caller's call, by the point it is at.
OneTallies == pPc[Lone] = "tally" \/ (pPc[Lone] = "bad" /\ pState = "CLOSED")
OneProbes == pPc[Lone] \in {"ok", "check", "count"} /\ pState = "HALF_OPEN"
OneCloses ==
  pPc[Lone] \in {"close", "closed"} \/ (OneProbes /\ pSuccesses + 1 >= SuccessThreshold)
OneOpens ==
  pPc[Lone] \in {"open", "stamp"} \/ (OneTallies /\ pFailures + 1 >= SoloThreshold)
OneReopens ==
  pPc[Lone] \in {"reopen", "restamp"} \/ (pPc[Lone] = "bad" /\ pState = "HALF_OPEN")

SeenByOne ==
  /\ Solo!SeenState = IF OneCloses THEN "CLOSED"
                 ELSE IF OneOpens \/ OneReopens THEN "OPEN" ELSE pState
  /\ Solo!SeenFailures = IF OneOpens \/ pPc[Lone] \in {"ok", "zerof"} THEN 0
                    ELSE IF OneTallies THEN pFailures + 1 ELSE pFailures
  /\ Solo!SeenSuccesses =
       IF OneCloses \/ OneReopens \/ pPc[Lone] \in {"zeros", "zero"} THEN 0
       ELSE IF OneProbes THEN pSuccesses + 1 ELSE pSuccesses
  /\ Solo!SeenAge = IF OneOpens \/ OneReopens THEN 0 ELSE pAge

\* With one client, the quantifiers of the refinement mapping are about it.
LEMMA SeeingOne == SeenByOne /\ SeenByOne'
<1>1. \A ps : Solo!SomeAt(ps) <=> pPc[Lone] \in ps
  BY DEF Solo!SomeAt
<1>2. \A ps : Solo!SomeAt(ps)' <=> pPc'[Lone] \in ps
  BY DEF Solo!SomeAt
<1>3. /\ Solo!Tallying <=> OneTallies
      /\ Solo!Probing <=> OneProbes
      /\ Solo!Closing <=> OneCloses
      /\ Solo!Opening <=> OneOpens
      /\ Solo!Reopening <=> OneReopens
  BY <1>1 DEF Solo!Tallying, Solo!Probing, Solo!Closing, Solo!Opening, Solo!Reopening, OneTallies,
     OneProbes, OneCloses, OneOpens, OneReopens
<1>4. /\ Solo!Tallying' <=> OneTallies'
      /\ Solo!Probing' <=> OneProbes'
      /\ Solo!Closing' <=> OneCloses'
      /\ Solo!Opening' <=> OneOpens'
      /\ Solo!Reopening' <=> OneReopens'
  BY <1>2 DEF Solo!Tallying, Solo!Probing, Solo!Closing, Solo!Opening, Solo!Reopening, OneTallies,
     OneProbes, OneCloses, OneOpens, OneReopens
<1>5. /\ ~(OneCloses /\ (OneOpens \/ OneReopens))
      /\ ~(OneProbes /\ (OneReopens \/ pPc[Lone] \in {"zeros", "zero"}))
      /\ ~(OneTallies /\ pPc[Lone] \in {"ok", "zerof"})
  BY DEF OneTallies, OneProbes, OneCloses, OneOpens, OneReopens
<1>6. /\ ~(OneCloses' /\ (OneOpens' \/ OneReopens'))
      /\ ~(OneProbes' /\ (OneReopens' \/ pPc'[Lone] \in {"zeros", "zero"}))
      /\ ~(OneTallies' /\ pPc'[Lone] \in {"ok", "zerof"})
  BY DEF OneTallies, OneProbes, OneCloses, OneOpens, OneReopens
<1>7. SeenByOne
  BY <1>1, <1>3, <1>5
     DEF SeenByOne, Solo!SeenState, Solo!SeenFailures, Solo!SeenSuccesses, Solo!SeenAge
<1>8. SeenByOne'
  BY <1>2, <1>4, <1>6
     DEF SeenByOne, Solo!SeenState, Solo!SeenFailures, Solo!SeenSuccesses, Solo!SeenAge
<1>9. QED
  BY <1>7, <1>8

\* Each step of a single caller is one of the circuit's own, or none.
LEMMA LoneStepRefines ==
  ASSUME Solo!BreakerAssumption, SoloInv, Solo!Request(Lone) \/ Solo!Work(Lone) \/ Solo!Fail(Lone)
  PROVE  Solo!Promise!Next \/ UNCHANGED Solo!Promise!vars
<1>1. /\ SoloTyped /\ LoneKnows /\ SoloTyped' /\ LoneKnows'
      /\ SeenByOne /\ SeenByOne'
  BY SoloInvStep, SeeingOne DEF SoloInv, Solo!Next
<1> USE <1>1, SoloConstants
    DEF SeenByOne, OneTallies, OneProbes, OneCloses, OneOpens, OneReopens,
        SoloTyped, LoneKnows, Solo!At, Solo!Go
<1>2. CASE Solo!Request(Lone)
  BY <1>2 DEF Solo!Request, Solo!atomics, Solo!history, Solo!Promise!vars
<1>3. CASE Solo!CheckTimer(Lone) \/ Solo!ZeroSuccesses(Lone)
  BY <1>3 DEF Solo!CheckTimer, Solo!ZeroSuccesses, Solo!Quiet, Solo!Silent, Solo!atomics,
    Solo!Promise!vars
<1>4. CASE Solo!CompareExchange(Lone)
  BY <1>4 DEF Solo!CompareExchange, Solo!Store, Solo!Quiet, Solo!Promise!Next, Solo!Promise!Admit
<1>5. CASE Solo!Succeed(Lone)
  BY <1>5 DEF Solo!Succeed, Solo!atomics, Solo!Promise!Next, Solo!Promise!Success
<1>6. CASE Solo!RecordSuccess(Lone)
  BY <1>6, ZenonT(40) DEF Solo!RecordSuccess, Solo!ClearFailures, Solo!CheckHalfOpen,
    Solo!CountSuccess, Solo!Close, Solo!ZeroAfterClose, Solo!Store, Solo!Quiet, Solo!Silent,
      Solo!atomics, Solo!Promise!vars
<1>7. CASE Solo!Fail(Lone)
  BY <1>7 DEF Solo!Fail, Solo!atomics, Solo!Promise!Next, Solo!Promise!Failure,
     Solo!Promise!FailClosed, Solo!Promise!FailHalfOpen, Solo!Promise!FailOpen,
     Solo!Promise!OpenCircuit
<1>8. CASE Solo!LoadState(Lone) \/ Solo!Tally(Lone)
  BY <1>8 DEF Solo!LoadState, Solo!Tally, Solo!Quiet, Solo!Silent, Solo!atomics, Solo!Promise!vars
<1>9. CASE Solo!Open(Lone) \/ Solo!Stamp(Lone) \/ Solo!ZeroFailures(Lone) \/
             Solo!ZeroAfterReopen(Lone)
  BY <1>9 DEF Solo!Open, Solo!Stamp, Solo!ZeroFailures, Solo!ZeroAfterReopen, Solo!Store,
    Solo!Quiet, Solo!Silent, Solo!atomics, Solo!Promise!vars
<1>10. CASE Solo!Retry(Lone) \/ Solo!GiveUp(Lone)
  BY <1>10 DEF Solo!Retry, Solo!GiveUp, Solo!Quiet, Solo!Silent, Solo!atomics, Solo!history,
    Solo!Promise!vars
<1>11. QED
  BY <1>2, <1>3, <1>4, <1>5, <1>6, <1>7, <1>8, <1>9, <1>10
     DEF Solo!Work, Solo!Allow, Solo!RecordFailure

\* A tick is the circuit's own while it is open or half open as it is seen;
\* one that comes before the timestamp is stored is not seen.
LEMMA LoneTickRefines ==
  ASSUME Solo!BreakerAssumption, SoloInv, Solo!Tick
  PROVE  Solo!Promise!Next \/ UNCHANGED Solo!Promise!vars
<1>1. SoloTyped /\ SeenByOne /\ SeenByOne'
  BY SeeingOne DEF SoloInv
<1>2. QED
  BY <1>1, SoloConstants DEF Solo!Tick, SoloTyped, SeenByOne, OneTallies, OneProbes,
     OneCloses, OneOpens, OneReopens, Solo!Promise!Next, Solo!Promise!Tick, Solo!Promise!vars

\* Nothing is recorded at first, and the circuit is closed.
LEMMA SoloInvInit ==
  ASSUME Solo!BreakerAssumption, Solo!Init PROVE SoloInv /\ Solo!Promise!Init
<1>1. SoloInv
  BY SoloConstants DEF Solo!Init, SoloInv, SoloTyped, BreakerPoints, LoneKnows
<1>2. QED
  BY <1>1, SeeingOne, SoloConstants DEF Solo!Init, SeenByOne, OneTallies, OneProbes, OneCloses, OneOpens,
     OneReopens, Solo!Promise!Init

\* What the caller knows holds of it throughout.
THEOREM SoloInvariant == ASSUME Solo!BreakerAssumption PROVE Solo!Spec => []SoloInv
BY SoloInvInit, SoloInvStep, PTL DEF Solo!Spec

\* The types; and the counts stop at their thresholds.
THEOREM SoloStates == ASSUME Solo!BreakerAssumption PROVE Solo!Spec => []Solo!TypeOK
<1>1. SoloInv => Solo!TypeOK
  <2>1. Solo!Cardinality({Lone}) = 1
    BY FS_Singleton DEF Solo!Cardinality, Cardinality
  <2>2. QED
    BY <2>1, SoloConstants DEF SoloInv, SoloTyped, LoneKnows, Solo!TypeOK
<1>2. QED
  BY <1>1, SoloInvariant, PTL

\* For one caller the four atomics implement the circuit that retry.rs
\* documents: each load, store and fetch_add is one of its operations or not
\* seen at all.
THEOREM SoloKeepsPromise ==
  ASSUME Solo!BreakerAssumption PROVE Solo!Spec => Solo!KeepsPromise
<1>1. Solo!Init => Solo!Promise!Init
  BY SoloInvInit
<1>2. SoloInv /\ [Solo!Next]_(Solo!vars) => [Solo!Promise!Next]_(Solo!Promise!vars)
  <2>1. SUFFICES ASSUME SoloInv, [Solo!Next]_(Solo!vars)
                 PROVE  Solo!Promise!Next \/ UNCHANGED Solo!Promise!vars
    OBVIOUS
  <2>2. CASE Solo!Next
    BY <2>1, <2>2, LoneStepRefines, LoneTickRefines DEF Solo!Next
  <2>3. CASE UNCHANGED Solo!vars
    BY <2>3 DEF Solo!vars, Solo!atomics, Solo!history, Solo!Promise!vars, Solo!SeenState,
       Solo!SeenFailures, Solo!SeenSuccesses, Solo!SeenAge, Solo!Closing, Solo!Opening,
       Solo!Reopening, Solo!Tallying, Solo!Probing, Solo!SomeAt
  <2>4. QED
    BY <2>1, <2>2, <2>3
<1>3. QED
  BY <1>1, <1>2, SoloInvariant, PTL DEF Solo!Spec, Solo!KeepsPromise, Solo!Promise!Spec

-----------------------------------------------------------------------------
(* The token bucket                                                         *)


BucketPoints == {"idle", "refill", "exchange", "add", "consume", "sleep"}
Callings == {c \in Callers : rPc[c] # "idle"}

BucketTyped ==
  /\ rNow \in 0 .. BucketTime /\ rLast \in 0 .. rNow /\ rTokens \in 0 .. BucketSize
  /\ rPc \in [Callers -> BucketPoints]
  /\ rSeen \in [Callers -> 0 .. BucketTime] /\ rAdd \in [Callers -> 0 .. BucketTime]
  /\ rGranted \in Nat /\ rDoubled \in Nat /\ rCalls \in 0 .. BucketCalls

\* A caller adds what it saw missing, and that had passed.
AddsWhatPassed == \A c \in Callers : rPc[c] = "exchange" => rSeen[c] + rAdd[c] <= rNow

\* Each token consumed is of a call of its own that has returned.
GrantedOnce == rGranted + Cardinality(Callings) <= rCalls

\* The periods that a caller has claimed, and not yet turned into tokens.
Owed(c) == IF rPc[c] = "add" THEN rAdd[c] ELSE 0

\* sums[i] is what the first i callers of a list owe.
Sums(sums, list, n) ==
  /\ sums \in [0 .. n -> Nat] /\ sums[0] = 0
  /\ \A i \in 1 .. n : sums[i] = sums[i - 1] + Owed(list[i])
  /\ \A i, j \in 0 .. n : i <= j => sums[i] <= sums[j]

\* Tokens, those owed too, never exceed those given.
OwedIsCounted(list, n) ==
  \E sums : /\ Sums(sums, list, n)
            /\ rGranted + rTokens + RefillAmount * sums[n]
                 <= BucketSize + RefillAmount * (rLast + rDoubled)

BucketInv(list, n) ==
  BucketTyped /\ AddsWhatPassed /\ GrantedOnce /\ OwedIsCounted(list, n)

\* A list of the callers names each of them once.
Listing(list, n) ==
  /\ n \in Nat /\ list \in [1 .. n -> Callers]
  /\ \A c \in Callers : \E i \in 1 .. n : list[i] = c
  /\ \A i, j \in 1 .. n : list[i] = list[j] => i = j

BucketHolds == \E list, n : Listing(list, n) /\ BucketInv(list, n)

\* The constants as numbers.
LEMMA BucketConstants ==
  ASSUME Bucket!BucketAssumption
  PROVE  /\ BucketSize \in Nat \ {0} /\ RefillAmount \in Nat \ {0} /\ Word \in Nat \ {0}
         /\ BucketTime \in Nat /\ BucketCalls \in Nat /\ BucketSize < Word /\ IsFiniteSet(Callers)
<1>1. IsFiniteSet(Callers)
  BY DEF Bucket!BucketAssumption, Bucket!IsFiniteSet, IsFiniteSet
<1>2. QED
  BY <1>1 DEF Bucket!BucketAssumption

\* The callers can be listed.
LEMMA Listed ==
  ASSUME Bucket!BucketAssumption
  PROVE  \E n, list : Listing(list, n)
<1>1. PICK n \in Nat : ExistsBijection(1 .. n, Callers)
  BY BucketConstants, FS_NatBijection
<1>2. PICK list : list \in Bijection(1 .. n, Callers)
  BY <1>1 DEF ExistsBijection
<1>3. list \in [1 .. n -> Callers] /\ IsInjective(list)
  BY <1>2 DEF Bijection, Injection
<1>4. \A c \in Callers : \E i \in 1 .. n : list[i] = c
  BY <1>2 DEF Bijection, Surjection
<1>5. \A i, j \in 1 .. n : list[i] = list[j] => i = j
  BY <1>3 DEF IsInjective
<1>6. QED
  BY <1>3, <1>4, <1>5 DEF Listing

\* When what one caller owes changes, so do the sums from its place on.
LEMMA OweDifferently ==
  ASSUME NEW list, NEW n, Listing(list, n), NEW sums, Sums(sums, list, n),
         NEW c \in Callers, \A d \in Callers : Owed(d) \in Nat /\ Owed(d)' \in Nat,
         \A d \in Callers \ {c} : Owed(d)' = Owed(d)
  PROVE  \E more : /\ Sums(more, list, n)'
                   /\ more[n] + Owed(c) = sums[n] + Owed(c)'
<1>1. /\ n \in Nat /\ list \in [1 .. n -> Callers]
      /\ \A i, j \in 1 .. n : list[i] = list[j] => i = j
  BY DEF Listing
<1>2. PICK m \in 1 .. n : list[m] = c
  BY DEF Listing
<1>3. PICK old \in Nat : old = Owed(c)
  OBVIOUS
<1>4. PICK new \in Nat : new = Owed(c)'
  OBVIOUS
<1>5. /\ sums \in [0 .. n -> Nat] /\ sums[0] = 0
      /\ \A i \in 1 .. n : sums[i] = sums[i - 1] + Owed(list[i])
      /\ \A i, j \in 0 .. n : i <= j => sums[i] <= sums[j]
  BY DEF Sums
<1>6. \A i \in 0 .. n : sums[i] \in Nat
  BY <1>5
<1>7. m \in Nat /\ m \in 0 .. n /\ m - 1 \in 0 .. n /\ m <= n /\ n \in 0 .. n /\ ~(n < m)
  BY <1>1, <1>2
<1>8. sums[m] = sums[m - 1] + old
  BY <1>2, <1>3, <1>5
<1>9. \A i \in 0 .. n : ~(i < m) => sums[m - 1] + old <= sums[i]
  BY <1>5, <1>7, <1>8
<1> DEFINE more == [i \in 0 .. n |-> IF i < m THEN sums[i] ELSE (sums[i] - old) + new]
<1>10. \A i \in 0 .. n : /\ more[i] = IF i < m THEN sums[i] ELSE (sums[i] - old) + new
                         /\ more[i] \in Nat
  <2>1. TAKE i \in 0 .. n
  <2>2. more[i] = IF i < m THEN sums[i] ELSE (sums[i] - old) + new
    OBVIOUS
  <2> HIDE DEF more
  <2>3. sums[i] \in Nat /\ sums[m - 1] \in Nat /\ (i < m \/ old <= sums[i])
    BY <1>6, <1>7, <1>9
  <2>4. QED
    BY <2>2, <2>3
<1>11. more \in [0 .. n -> Nat]
  BY <1>10
<1> HIDE DEF more
<1>12. more[0] = 0
  BY <1>1, <1>5, <1>7, <1>10
<1>13. ASSUME NEW i \in 1 .. n PROVE more[i] = more[i - 1] + Owed(list[i])'
  <2>1. /\ i \in 0 .. n /\ i - 1 \in 0 .. n /\ list[i] \in Callers
        /\ sums[i] \in Nat /\ sums[i - 1] \in Nat /\ i \in Nat
    BY <1>1, <1>6
  <2>2. sums[i] = sums[i - 1] + Owed(list[i])
    BY <1>5
  <2>3. CASE i = m
    <3>1. more[i] = (sums[i] - old) + new /\ more[i - 1] = sums[i - 1]
      BY <1>7, <1>10, <2>1, <2>3
    <3>2. list[i] = c /\ sums[i] = sums[i - 1] + old
      BY <1>2, <1>8, <2>3
    <3>3. more[i] = more[i - 1] + new
      BY <2>1, <3>1, <3>2
    <3>4. QED
      BY <1>4, <3>2, <3>3
  <2>4. CASE i # m
    <3>1. list[i] \in Callers \ {c}
      BY <1>1, <1>2, <2>1, <2>4
    <3>2. PICK owed \in Nat : owed = Owed(list[i]) /\ owed = Owed(list[i])'
      BY <3>1
    <3>3. more[i] = more[i - 1] + owed
      BY <1>7, <1>10, <2>1, <2>2, <2>4, <3>2
    <3>4. QED
      BY <3>2, <3>3
  <2>5. QED
    BY <2>3, <2>4
<1>14. ASSUME NEW i \in 0 .. n, NEW j \in 0 .. n, i <= j PROVE more[i] <= more[j]
  <2>1. sums[i] \in Nat /\ sums[j] \in Nat /\ sums[m - 1] \in Nat /\ sums[i] <= sums[j]
    BY <1>5, <1>6, <1>7, <1>14
  <2>2. CASE i < m /\ ~(j < m)
    <3>1. sums[i] <= sums[m - 1]
      BY <1>5, <1>7, <2>2
    <3>2. more[i] = sums[i] /\ more[j] = (sums[j] - old) + new
      BY <1>10, <2>2
    <3>3. sums[m - 1] + old <= sums[j]
      BY <1>9, <2>2
    <3>4. QED
      BY <2>1, <3>1, <3>2, <3>3
  <2>3. CASE i < m /\ j < m
    BY <1>10, <2>1, <2>3
  <2>4. CASE ~(i < m)
    <3>1. ~(j < m)
      BY <1>7, <1>14, <2>4
    <3>2. QED
      BY <1>10, <2>1, <2>4, <3>1
  <2>5. QED
    BY <2>2, <2>3, <2>4
<1>15. Sums(more, list, n)'
  BY <1>11, <1>12, <1>13, <1>14 DEF Sums
<1>16. more[n] + Owed(c) = sums[n] + Owed(c)'
  <2>1. more[n] = (sums[n] - old) + new /\ sums[n] \in Nat
    BY <1>6, <1>7, <1>10
  <2>2. more[n] + old = sums[n] + new
    BY <2>1
  <2>3. QED
    BY <1>3, <1>4, <2>2
<1>17. QED
  BY <1>15, <1>16

\* What is owed is a number of periods.
LEMMA OwedTyped ==
  ASSUME Bucket!BucketAssumption, BucketTyped
  PROVE  \A c \in Callers : Owed(c) \in Nat /\ rAdd[c] \in Nat
<1>1. \A c \in Callers : rAdd[c] \in 0 .. BucketTime
  BY DEF BucketTyped
<1>2. \A c \in Callers : rAdd[c] \in Nat
  <2>1. 0 .. BucketTime \subseteq Nat
    OBVIOUS
  <2>2. QED
    BY <1>1, <2>1, Zenon
<1>3. ASSUME NEW c \in Callers PROVE Owed(c) \in Nat
  <2>1. CASE rPc[c] = "add"
    BY <1>2, <2>1 DEF Owed
  <2>2. CASE rPc[c] # "add"
    BY <2>2 DEF Owed
  <2>3. QED
    BY <2>1, <2>2
<1>4. QED
  BY <1>2, <1>3

\* Where one caller has gone, and whether it is in a call.
LEMMA CallerMoves ==
  ASSUME Bucket!BucketAssumption, BucketTyped, NEW c \in Callers, NEW from, NEW to,
         to \in BucketPoints, rPc[c] = from, rPc' = [rPc EXCEPT ![c] = to]
  PROVE  /\ rPc' \in [Callers -> BucketPoints] /\ rPc'[c] = to
         /\ \A d \in Callers \ {c} : rPc'[d] = rPc[d]
         /\ Cardinality(Callings) \in Nat
         /\ from # "idle" /\ to # "idle" => Cardinality(Callings)' = Cardinality(Callings)
         /\ from # "idle" /\ to = "idle" => Cardinality(Callings)' = Cardinality(Callings) - 1
         /\ from = "idle" /\ to # "idle" => Cardinality(Callings)' = Cardinality(Callings) + 1
<1>1. /\ rPc' \in [Callers -> BucketPoints] /\ rPc'[c] = to
      /\ \A d \in Callers \ {c} : rPc'[d] = rPc[d]
  BY DEF BucketTyped
<1>2. IsFiniteSet(Callings)
  BY BucketConstants, FS_Subset DEF Callings
<1>3. Cardinality(Callings) \in Nat
  BY <1>2, FS_CardinalityType
<1>4. from # "idle" /\ to # "idle" => Callings' = Callings
  BY <1>1 DEF Callings
<1>5. from # "idle" /\ to = "idle" => Callings' = Callings \ {c} /\ c \in Callings
  BY <1>1 DEF Callings
<1>6. from = "idle" /\ to # "idle" => Callings' = Callings \cup {c} /\ c \notin Callings
  BY <1>1 DEF Callings
<1>7. c \in Callings => Cardinality(Callings \ {c}) = Cardinality(Callings) - 1
  BY <1>2, FS_RemoveElement
<1>8. c \notin Callings => Cardinality(Callings \cup {c}) = Cardinality(Callings) + 1
  BY <1>2, FS_AddElement
<1>9. QED
  BY <1>1, <1>3, <1>4, <1>5, <1>6, <1>7, <1>8

\* Natural numbers are closed under addition.
LEMMA NatSum == ASSUME NEW a \in Nat, NEW b \in Nat PROVE a + b \in Nat
OBVIOUS

\* A product distributes over a sum.
LEMMA Distributes ==
  ASSUME NEW r \in Nat, NEW a \in Nat, NEW b \in Nat
  PROVE  r * (a + b) = r * a + r * b /\ r * a \in Nat /\ r * b \in Nat
OBVIOUS

\* The sum below, of natural numbers.
LEMMA Balancing ==
  ASSUME NEW before \in Nat, NEW after \in Nat, NEW capacity \in Nat,
         NEW rp \in Nat, NEW rg \in Nat, NEW ro \in Nat, NEW rh \in Nat,
         NEW rt \in Nat, NEW rs \in Nat,
         before + rs <= capacity + rg,
         after + (rp + rg) <= before + (ro + rh),
         rt + ro = rs + rp
  PROVE  after + rt <= capacity + rh
OBVIOUS

\* The promise is kept by a step that turns what is owed, or was given, into as
\* many tokens at most.
LEMMA BucketBalance ==
  ASSUME Bucket!BucketAssumption, NEW list, NEW n, Listing(list, n),
         BucketTyped, BucketTyped', OwedIsCounted(list, n), NEW c \in Callers,
         \A d \in Callers \ {c} : Owed(d)' = Owed(d),
         rGranted' + rTokens' + RefillAmount * (Owed(c)' + (rLast + rDoubled))
           <= rGranted + rTokens + RefillAmount * (Owed(c) + (rLast' + rDoubled'))
  PROVE  OwedIsCounted(list, n)'
<1>1. /\ n \in Nat /\ RefillAmount \in Nat /\ BucketSize \in Nat
      /\ \A d \in Callers : Owed(d) \in Nat
  BY BucketConstants, OwedTyped DEF Listing
<1>2. \A d \in Callers : Owed(d)' \in Nat
  <2>1. \A d \in Callers : rAdd'[d] \in 0 .. BucketTime
    BY DEF BucketTyped
  <2>2. \A d \in Callers : rAdd'[d] \in Nat
    BY <2>1, BucketConstants
  <2>3. QED
    BY <2>2 DEF Owed
<1>3. PICK sums : /\ Sums(sums, list, n)
                  /\ rGranted + rTokens + RefillAmount * sums[n]
                       <= BucketSize + RefillAmount * (rLast + rDoubled)
  BY DEF OwedIsCounted
<1>4. PICK more : /\ Sums(more, list, n)'
                  /\ more[n] + Owed(c) = sums[n] + Owed(c)'
  BY <1>1, <1>2, <1>3, OweDifferently
<1>5. sums[n] \in Nat /\ more[n] \in Nat
  <2>1. n \in 0 .. n
    BY <1>1
  <2>2. QED
    BY <1>3, <1>4, <2>1 DEF Sums
<1>6. /\ rGranted \in Nat /\ rTokens \in Nat /\ rLast \in Nat /\ rDoubled \in Nat
      /\ rGranted' \in Nat /\ rTokens' \in Nat /\ rLast' \in Nat /\ rDoubled' \in Nat
  BY BucketConstants DEF BucketTyped
<1>7. PICK s \in Nat : s = sums[n]
  BY <1>5
<1>8. PICK t \in Nat : t = more[n]
  BY <1>5
<1>9. PICK o \in Nat : o = Owed(c)
  BY <1>1
<1>10. PICK p \in Nat : p = Owed(c)'
  BY <1>2
<1>11. PICK g \in Nat : g = rLast + rDoubled
  BY <1>6
<1>12. PICK h : h = rLast' + rDoubled' /\ h \in Nat
  <2>1. rLast' + rDoubled' \in Nat
    BY <1>6, NatSum
  <2>2. QED
    BY <2>1
<1>13. PICK before \in Nat : before = rGranted + rTokens
  BY <1>6
<1>14. PICK after : after = rGranted' + rTokens' /\ after \in Nat
  <2>1. rGranted' + rTokens' \in Nat
    BY <1>6, NatSum
  <2>2. QED
    BY <2>1
<1> DEFINE Times(x) == RefillAmount * x
<1>15. /\ Times(t + o) = Times(t) + Times(o) /\ Times(t) \in Nat /\ Times(o) \in Nat
      /\ Times(s + p) = Times(s) + Times(p) /\ Times(s) \in Nat /\ Times(p) \in Nat
      /\ Times(p + g) = Times(p) + Times(g) /\ Times(g) \in Nat
      /\ Times(o + h) = Times(o) + Times(h) /\ Times(h) \in Nat
  <2>1. Times(t + o) = Times(t) + Times(o) /\ Times(t) \in Nat /\ Times(o) \in Nat
    BY <1>1, Distributes
  <2>2. Times(s + p) = Times(s) + Times(p) /\ Times(s) \in Nat /\ Times(p) \in Nat
    BY <1>1, Distributes
  <2>3. Times(p + g) = Times(p) + Times(g) /\ Times(g) \in Nat
    BY <1>1, Distributes
  <2>4. Times(o + h) = Times(o) + Times(h) /\ Times(h) \in Nat
    BY <1>1, <1>12, Distributes
  <2> HIDE DEF Times
  <2>5. QED
    BY <2>1, <2>2, <2>3, <2>4
<1>16. rGranted + rTokens + Times(s) <= BucketSize + Times(g)
  BY <1>3, <1>7, <1>11
<1>17. rGranted' + rTokens' + Times(p + g) <= rGranted + rTokens + Times(o + h)
  BY <1>9, <1>10, <1>11, <1>12
<1>18. rGranted' + rTokens' + Times(t) <= BucketSize + Times(h)
         => OwedIsCounted(list, n)'
  <2>1. rGranted' + rTokens' + Times(t) <= BucketSize + Times(h)
        => rGranted' + rTokens' + RefillAmount * more[n]
             <= BucketSize + RefillAmount * (rLast' + rDoubled')
    BY <1>8, <1>12
  <2>2. QED
    BY <1>4, <2>1 DEF OwedIsCounted
<1> HIDE DEF Times
<1>19. t + o = s + p
  BY <1>4, <1>7, <1>8, <1>9, <1>10
<1>20. Times(t) + Times(o) = Times(s) + Times(p)
  BY <1>15, <1>19
<1>21. after + (Times(p) + Times(g)) <= before + (Times(o) + Times(h))
  BY <1>15, <1>17, <1>13, <1>14
<1>22. before + Times(s) <= BucketSize + Times(g)
  BY <1>16, <1>13
<1>23. /\ Times(p) \in Nat /\ Times(g) \in Nat /\ Times(o) \in Nat
       /\ Times(h) \in Nat /\ Times(t) \in Nat /\ Times(s) \in Nat
  BY <1>15
<1>24. after + Times(t) <= BucketSize + Times(h)
  BY <1>1, <1>20, <1>21, <1>22, <1>23, <1>14, Balancing
<1>25. QED
  BY <1>18, <1>24, <1>14

\* At first the bucket is full and nobody owes anything.
LEMMA BucketInvInit ==
  ASSUME Bucket!BucketAssumption, Bucket!Init, NEW list, NEW n, Listing(list, n)
  PROVE  BucketInv(list, n)
<1>1. /\ rNow = 0 /\ rLast = 0 /\ rTokens = BucketSize /\ rGranted = 0 /\ rDoubled = 0 /\ rCalls = 0
      /\ rPc = [c \in Callers |-> "idle"]
      /\ rSeen = [c \in Callers |-> 0] /\ rAdd = [c \in Callers |-> 0]
  BY DEF Bucket!Init
<1>2. BucketTyped
  <2>1. /\ rNow \in 0 .. BucketTime /\ rLast \in 0 .. rNow /\ rTokens \in 0 .. BucketSize
        /\ rCalls \in 0 .. BucketCalls /\ rGranted \in Nat /\ rDoubled \in Nat
    BY <1>1, BucketConstants
  <2>2. 0 \in 0 .. BucketTime
    BY BucketConstants
  <2>3. /\ rPc \in [Callers -> BucketPoints]
        /\ rSeen \in [Callers -> 0 .. BucketTime] /\ rAdd \in [Callers -> 0 .. BucketTime]
    BY <1>1, <2>2 DEF BucketPoints
  <2>4. QED
    BY <2>1, <2>3 DEF BucketTyped
<1>3. AddsWhatPassed
  BY <1>1 DEF AddsWhatPassed
<1>4. GrantedOnce
  <2>1. Callings = {}
    BY <1>1 DEF Callings
  <2>2. QED
    BY <1>1, <2>1, FS_EmptySet DEF GrantedOnce
<1>5. OwedIsCounted(list, n)
  <2>1. n \in Nat /\ list \in [1 .. n -> Callers]
    BY DEF Listing
  <2>2. \A c \in Callers : Owed(c) = 0
    BY <1>1 DEF Owed
  <2>3. PICK sums : sums = [i \in 0 .. n |-> 0]
    OBVIOUS
  <2>4. sums \in [0 .. n -> Nat] /\ \A i \in 0 .. n : sums[i] = 0
    BY <2>3
  <2>5. /\ 0 \in 0 .. n /\ n \in 0 .. n
        /\ \A i \in 1 .. n : i \in 0 .. n /\ i - 1 \in 0 .. n /\ list[i] \in Callers
    BY <2>1
  <2>6. Sums(sums, list, n)
    BY <2>2, <2>4, <2>5 DEF Sums
  <2>7. rGranted + rTokens + RefillAmount * sums[n] <= BucketSize + RefillAmount * (rLast + rDoubled)
    BY <1>1, <2>4, <2>5, BucketConstants
  <2>8. QED
    BY <2>6, <2>7 DEF OwedIsCounted
<1>6. QED
  BY <1>2, <1>3, <1>4, <1>5 DEF BucketInv

\* A step that neither gives nor takes tokens, nor changes what is owed.
LEMMA NothingGiven ==
  ASSUME Bucket!BucketAssumption, NEW list, NEW n, Listing(list, n), OwedIsCounted(list, n),
         UNCHANGED <<rGranted, rTokens, rLast, rDoubled>>,
         \A d \in Callers : Owed(d)' = Owed(d)
  PROVE  OwedIsCounted(list, n)'
<1>1. \A i \in 1 .. n : Owed(list[i])' = Owed(list[i])
  BY DEF Listing
<1>2. QED
  BY <1>1 DEF OwedIsCounted, Sums

\* A call begins, reads the clock, or wakes.
LEMMA QuietStepKeeps ==
  ASSUME Bucket!BucketAssumption, NEW list, NEW n, Listing(list, n), BucketInv(list, n),
         NEW c \in Callers,
         Bucket!Acquire(c) \/ Bucket!ReadClock(c) \/ Bucket!Wake(c)
  PROVE  BucketInv(list, n)'
<1>1. /\ rNow \in 0 .. BucketTime /\ rLast \in 0 .. rNow /\ BucketTime \in Nat /\
           BucketCalls \in Nat
      /\ rCalls \in 0 .. BucketCalls /\ rGranted \in Nat /\ rNow \in Nat /\ rLast \in Nat
  BY BucketConstants DEF BucketInv, BucketTyped
<1>2. PICK to \in BucketPoints \ {"add"} :
        /\ rPc' = [rPc EXCEPT ![c] = to] /\ rPc[c] # "add"
        /\ UNCHANGED <<rNow, rLast, rTokens, rGranted, rDoubled>>
        /\ \/ rPc[c] = "idle" /\ to = "refill" /\ rCalls < BucketCalls
              /\ rCalls' = rCalls + 1 /\ rSeen' = rSeen /\ rAdd' = rAdd
           \/ rPc[c] # "idle" /\ to # "idle" /\ rCalls' = rCalls
              /\ rSeen' = [rSeen EXCEPT ![c] = rLast] /\ rAdd' = [rAdd EXCEPT ![c] = rNow - rLast]
           \/ rPc[c] # "idle" /\ to # "exchange" /\ rCalls' = rCalls /\ rSeen' = rSeen /\
                rAdd' = rAdd
  <2>1. CASE Bucket!Acquire(c)
    BY <2>1 DEF Bucket!Acquire, Bucket!Goes, BucketPoints
  <2>2. CASE Bucket!ReadClock(c)
    <3>1. PICK to : to = IF rNow > rLast THEN "exchange" ELSE "consume"
      OBVIOUS
    <3>2. to \in BucketPoints \ {"add", "idle"}
      BY <3>1 DEF BucketPoints
    <3>3. /\ rPc[c] = "refill" /\ rPc' = [rPc EXCEPT ![c] = to]
          /\ UNCHANGED <<rNow, rLast, rTokens, rGranted, rDoubled>> /\ rCalls' = rCalls
          /\ rSeen' = [rSeen EXCEPT ![c] = rLast] /\ rAdd' = [rAdd EXCEPT ![c] = rNow - rLast]
      BY <2>2, <3>1 DEF Bucket!ReadClock, Bucket!Goes
    <3>4. QED
      BY <3>2, <3>3
  <2>3. CASE Bucket!Wake(c)
    <3>1. PICK to \in {"refill", "idle"} : rPc' = [rPc EXCEPT ![c] = to]
      BY <2>3 DEF Bucket!Wake
    <3>2. to \in BucketPoints \ {"add"} /\ to # "exchange"
      BY <3>1 DEF BucketPoints
    <3>3. QED
      BY <2>3, <3>1, <3>2 DEF Bucket!Wake
  <2>4. QED
    BY <2>1, <2>2, <2>3
<1>3. /\ rPc' \in [Callers -> BucketPoints] /\ rPc'[c] = to
      /\ \A d \in Callers \ {c} : rPc'[d] = rPc[d]
      /\ Cardinality(Callings) \in Nat
      /\ rPc[c] # "idle" /\ to # "idle" => Cardinality(Callings)' = Cardinality(Callings)
      /\ rPc[c] # "idle" /\ to = "idle" => Cardinality(Callings)' = Cardinality(Callings) - 1
      /\ rPc[c] = "idle" /\ to # "idle" => Cardinality(Callings)' = Cardinality(Callings) + 1
  BY <1>2, CallerMoves DEF BucketInv
<1>4. rNow - rLast \in 0 .. BucketTime /\ rLast \in 0 .. BucketTime /\ rLast + (rNow - rLast) = rNow
  BY <1>1
<1>5. /\ rSeen \in [Callers -> 0 .. BucketTime] /\ rAdd \in [Callers -> 0 .. BucketTime]
  BY DEF BucketInv, BucketTyped
<1>6. /\ rSeen' \in [Callers -> 0 .. BucketTime] /\ rAdd' \in [Callers -> 0 .. BucketTime]
      /\ \A d \in Callers \ {c} : rSeen'[d] = rSeen[d] /\ rAdd'[d] = rAdd[d]
  BY <1>2, <1>4, <1>5
<1>7. BucketTyped'
  <2>1. rCalls' \in 0 .. BucketCalls
    BY <1>1, <1>2
  <2>2. QED
    BY <1>2, <1>3, <1>6, <2>1 DEF BucketInv, BucketTyped
<1>8. AddsWhatPassed'
  <2>1. to = "exchange" => rSeen'[c] + rAdd'[c] = rNow
    BY <1>2, <1>4, <1>5
  <2>2. \A d \in Callers \ {c} : rPc[d] = "exchange" => rSeen[d] + rAdd[d] <= rNow
    BY DEF BucketInv, AddsWhatPassed
  <2>3. rNow <= rNow
    BY <1>1
  <2>4. QED
    BY <1>2, <1>3, <1>6, <2>1, <2>2, <2>3 DEF AddsWhatPassed
<1>9. GrantedOnce'
  <2>1. rGranted + Cardinality(Callings) <= rCalls
    BY DEF BucketInv, GrantedOnce
  <2>2. QED
    BY <1>1, <1>2, <1>3, <2>1 DEF GrantedOnce
<1>10. \A d \in Callers : Owed(d)' = Owed(d)
  BY <1>2, <1>3, <1>6 DEF Owed
<1>11. OwedIsCounted(list, n)'
  BY <1>2, <1>10, NothingGiven DEF BucketInv
<1>12. QED
  BY <1>7, <1>8, <1>9, <1>11 DEF BucketInv

\* What a caller in the middle of a call can do to the types and to the count
\* of calls.
LEMMA BusyStep ==
  ASSUME Bucket!BucketAssumption, NEW list, NEW n, BucketInv(list, n), NEW c \in Callers,
         NEW to \in BucketPoints, rPc[c] # "idle", rPc' = [rPc EXCEPT ![c] = to],
         UNCHANGED <<rNow, rSeen, rAdd, rCalls>>, to # "exchange",
         rLast' \in 0 .. rNow, rTokens' \in 0 .. BucketSize, rDoubled' \in Nat,
         \/ rGranted' = rGranted
         \/ rGranted' = rGranted + 1 /\ to = "idle"
  PROVE  BucketTyped' /\ AddsWhatPassed' /\ GrantedOnce'
<1>1. /\ rPc' \in [Callers -> BucketPoints] /\ rPc'[c] = to
      /\ \A d \in Callers \ {c} : rPc'[d] = rPc[d]
      /\ Cardinality(Callings) \in Nat
      /\ to # "idle" => Cardinality(Callings)' = Cardinality(Callings)
      /\ to = "idle" => Cardinality(Callings)' = Cardinality(Callings) - 1
  BY CallerMoves DEF BucketInv
<1>2. rGranted \in Nat /\ rCalls \in Nat /\ rGranted + Cardinality(Callings) <= rCalls
  BY BucketConstants DEF BucketInv, BucketTyped, GrantedOnce
<1>3. rGranted' \in Nat
  BY <1>2
<1>4. BucketTyped'
  BY <1>1, <1>3 DEF BucketInv, BucketTyped
<1>5. AddsWhatPassed'
  BY <1>1 DEF BucketInv, AddsWhatPassed
<1>6. rGranted' + Cardinality(Callings)' <= rCalls
  <2>1. CASE rGranted' = rGranted
    BY <1>1, <1>2, <2>1
  <2>2. CASE rGranted' = rGranted + 1 /\ to = "idle"
    BY <1>1, <1>2, <2>2
  <2>3. QED
    BY <2>1, <2>2
<1>7. QED
  BY <1>4, <1>5, <1>6 DEF GrantedOnce

\* The exchange: the winner claims the periods on the clock, the loser twice.
LEMMA ExchangeKeeps ==
  ASSUME Bucket!BucketAssumption, NEW list, NEW n, Listing(list, n), BucketInv(list, n),
         NEW c \in Callers, Bucket!ExchangeTime(c)
  PROVE  BucketInv(list, n)'
<1>1. /\ rPc[c] = "exchange" /\ rPc' = [rPc EXCEPT ![c] = "add"]
      /\ UNCHANGED <<rNow, rTokens, rSeen, rAdd, rGranted, rCalls>>
      /\ rLast' = IF rLast = rSeen[c] THEN rSeen[c] + rAdd[c] ELSE rLast
      /\ rDoubled' = IF rLast = rSeen[c] THEN rDoubled ELSE rDoubled + rAdd[c]
  BY DEF Bucket!ExchangeTime, Bucket!Goes, Bucket!Moved
<1>2. /\ BucketTyped /\ OwedIsCounted(list, n)
      /\ rLast \in 0 .. rNow /\ rNow \in Nat /\ rLast \in Nat /\ rDoubled \in Nat
      /\ rGranted \in Nat /\ rTokens \in Nat /\ rTokens \in 0 .. BucketSize
      /\ rSeen[c] \in 0 .. BucketTime /\ rAdd[c] \in 0 .. BucketTime /\ rSeen[c] + rAdd[c] <= rNow
  BY <1>1, BucketConstants DEF BucketInv, BucketTyped, AddsWhatPassed
<1>3. PICK s \in Nat, a \in Nat : s = rSeen[c] /\ a = rAdd[c]
  BY <1>2, BucketConstants
<1>4. rLast' \in 0 .. rNow /\ rDoubled' \in Nat
  <2>1. CASE rLast = s
    <3>1. rLast' = s + a /\ rDoubled' = rDoubled /\ s + a \in 0 .. rNow
      BY <1>1, <1>2, <1>3, <2>1
    <3>2. QED
      BY <1>2, <3>1
  <2>2. CASE rLast # s
    <3>1. rLast' = rLast /\ rDoubled' = rDoubled + a
      BY <1>1, <1>3, <2>2
    <3>2. rDoubled + a \in Nat
      BY <1>2, <1>3
    <3>3. QED
      BY <1>2, <3>1, <3>2
  <2>3. QED
    BY <2>1, <2>2
<1>5. BucketTyped' /\ AddsWhatPassed' /\ GrantedOnce'
  <2>1. rTokens' \in 0 .. BucketSize /\ rGranted' = rGranted
    BY <1>1, <1>2
  <2>2. "add" \in BucketPoints /\ rPc[c] # "idle"
    BY <1>1 DEF BucketPoints
  <2>3. QED
    BY <1>1, <1>4, <2>1, <2>2, BusyStep
<1>6. /\ Owed(c) = 0 /\ Owed(c)' = a
      /\ \A d \in Callers \ {c} : Owed(d)' = Owed(d)
  BY <1>1, <1>2, <1>3 DEF Owed, BucketTyped
<1>7. a + (rLast + rDoubled) = 0 + (rLast' + rDoubled')
  BY <1>1, <1>2, <1>3
<1>8. rGranted' + rTokens' + RefillAmount * (Owed(c)' + (rLast + rDoubled))
        <= rGranted + rTokens + RefillAmount * (Owed(c) + (rLast' + rDoubled'))
  <2>1. PICK x : x = RefillAmount * (a + (rLast + rDoubled))
    OBVIOUS
  <2>2. x \in Nat
    <3>1. a + (rLast + rDoubled) \in Nat
      BY <1>2, <1>3
    <3>2. QED
      BY <2>1, <3>1, BucketConstants
  <2>3. rGranted + rTokens + x <= rGranted + rTokens + x
    BY <1>2, <2>2
  <2>4. QED
    BY <1>1, <1>6, <1>7, <2>1, <2>3
<1>9. OwedIsCounted(list, n)'
  BY <1>2, <1>5, <1>6, <1>8, BucketBalance
<1>10. QED
  BY <1>5, <1>9 DEF BucketInv

\* The claimed periods become tokens: fewer than they are worth, when the
\* bucket is full or the sum wraps around.
LEMMA AddKeeps ==
  ASSUME Bucket!BucketAssumption, NEW list, NEW n, Listing(list, n), BucketInv(list, n),
         NEW c \in Callers, Bucket!AddTokens(c)
  PROVE  BucketInv(list, n)'
<1>1. /\ rPc[c] = "add" /\ rPc' = [rPc EXCEPT ![c] = "consume"]
      /\ UNCHANGED <<rNow, rLast, rSeen, rAdd, rGranted, rDoubled, rCalls>>
  BY DEF Bucket!AddTokens, Bucket!Goes
<1>2. /\ BucketTyped /\ OwedIsCounted(list, n)
      /\ rLast \in 0 .. rNow /\ rLast \in Nat /\ rDoubled \in Nat
      /\ rGranted \in Nat /\ rTokens \in Nat /\ rAdd[c] \in Nat
      /\ RefillAmount \in Nat /\ BucketSize \in Nat /\ Word \in Nat \ {0}
  BY <1>1, BucketConstants DEF BucketInv, BucketTyped
<1>3. PICK worth \in Nat : worth = rAdd[c] * RefillAmount /\ worth = RefillAmount * rAdd[c]
  <2>1. rAdd[c] * RefillAmount \in Nat /\ rAdd[c] * RefillAmount = RefillAmount * rAdd[c]
    BY <1>2
  <2>2. QED
    BY <2>1
<1>4. PICK sum \in Nat : sum = (rTokens + worth) % Word /\ sum <= rTokens + worth
  <2>1. (rTokens + worth) % Word \in Nat /\ (rTokens + worth) % Word <= rTokens + worth
    BY <1>2
  <2>2. QED
    BY <2>1
<1>5. rTokens' = IF sum < BucketSize THEN sum ELSE BucketSize
  BY <1>3, <1>4 DEF Bucket!AddTokens
<1>6. rTokens' \in 0 .. BucketSize /\ rTokens' \in Nat /\ rTokens' <= rTokens + worth
  BY <1>2, <1>4, <1>5
<1>7. BucketTyped' /\ AddsWhatPassed' /\ GrantedOnce'
  <2>1. "consume" \in BucketPoints /\ rPc[c] # "idle"
    BY <1>1 DEF BucketPoints
  <2>2. QED
    BY <1>1, <1>2, <1>6, <2>1, BusyStep
<1>8. /\ Owed(c) = rAdd[c] /\ Owed(c)' = 0
      /\ \A d \in Callers \ {c} : Owed(d)' = Owed(d)
  BY <1>1, <1>2 DEF Owed, BucketTyped
<1>9. rGranted' + rTokens' + RefillAmount * (Owed(c)' + (rLast + rDoubled))
        <= rGranted + rTokens + RefillAmount * (Owed(c) + (rLast' + rDoubled'))
  <2>1. PICK g \in Nat : g = rLast + rDoubled
    BY <1>2
  <2>2. PICK x \in Nat : x = RefillAmount * g
    <3>1. RefillAmount * g \in Nat
      BY <1>2
    <3>2. QED
      BY <3>1
  <2>3. RefillAmount * (rAdd[c] + g) = worth + x
    <3>1. RefillAmount * (rAdd[c] + g) = RefillAmount * rAdd[c] + RefillAmount * g
      BY <1>2, Distributes
    <3>2. QED
      BY <1>3, <2>2, <3>1
  <2>4. 0 + g = g
    OBVIOUS
  <2>5. rGranted + rTokens' + x <= rGranted + rTokens + (worth + x)
    <3>1. PICK after : after = rTokens'
      OBVIOUS
    <3>2. after \in Nat /\ after <= rTokens + worth
      BY <1>6, <3>1
    <3>3. rGranted + after + x <= rGranted + rTokens + (worth + x)
      BY <1>2, <3>2
    <3>4. QED
      BY <3>1, <3>3
  <2>6. QED
    BY <1>1, <1>8, <2>1, <2>2, <2>3, <2>4, <2>5
<1>10. OwedIsCounted(list, n)'
  BY <1>2, <1>7, <1>8, <1>9, BucketBalance
<1>11. QED
  BY <1>7, <1>10 DEF BucketInv

\* A token is consumed, or there is none.
LEMMA ConsumeKeeps ==
  ASSUME Bucket!BucketAssumption, NEW list, NEW n, Listing(list, n), BucketInv(list, n),
         NEW c \in Callers, Bucket!ConsumeOne(c)
  PROVE  BucketInv(list, n)'
<1>1. PICK to : to = IF rTokens = 0 THEN "sleep" ELSE "idle"
  OBVIOUS
<1>2. /\ rPc[c] = "consume" /\ rPc' = [rPc EXCEPT ![c] = to] /\ to \in {"sleep", "idle"}
      /\ UNCHANGED <<rNow, rLast, rSeen, rAdd, rDoubled, rCalls>>
      /\ rTokens' = IF rTokens = 0 THEN 0 ELSE rTokens - 1
      /\ rGranted' = IF rTokens = 0 THEN rGranted ELSE rGranted + 1
  BY <1>1 DEF Bucket!ConsumeOne, Bucket!Goes
<1>3. /\ BucketTyped /\ OwedIsCounted(list, n)
      /\ rLast \in 0 .. rNow /\ rLast \in Nat /\ rDoubled \in Nat
      /\ rGranted \in Nat /\ rTokens \in Nat /\ rTokens \in 0 .. BucketSize
      /\ RefillAmount \in Nat /\ BucketSize \in Nat
  BY BucketConstants DEF BucketInv, BucketTyped
<1>4. /\ rTokens' \in 0 .. BucketSize /\ rGranted' + rTokens' = rGranted + rTokens
      /\ rGranted' = rGranted \/ (rGranted' = rGranted + 1 /\ to = "idle")
  BY <1>1, <1>2, <1>3
<1>5. BucketTyped' /\ AddsWhatPassed' /\ GrantedOnce'
  <2>1. to \in BucketPoints /\ to # "exchange" /\ rPc[c] # "idle"
    BY <1>2 DEF BucketPoints
  <2>2. QED
    BY <1>2, <1>3, <1>4, <2>1, BusyStep
<1>6. /\ Owed(c) = 0 /\ Owed(c)' = 0
      /\ \A d \in Callers \ {c} : Owed(d)' = Owed(d)
  BY <1>2, <1>3 DEF Owed, BucketTyped
<1>7. rGranted' + rTokens' + RefillAmount * (Owed(c)' + (rLast + rDoubled))
        <= rGranted + rTokens + RefillAmount * (Owed(c) + (rLast' + rDoubled'))
  <2>1. PICK x \in Nat : x = RefillAmount * (0 + (rLast + rDoubled))
    <3>1. 0 + (rLast + rDoubled) \in Nat
      BY <1>3
    <3>2. RefillAmount * (0 + (rLast + rDoubled)) \in Nat
      BY <1>3, <3>1
    <3>3. QED
      BY <3>2
  <2>2. rGranted + rTokens + x <= rGranted + rTokens + x
    BY <1>3
  <2>3. QED
    BY <1>2, <1>4, <1>6, <2>1, <2>2
<1>8. OwedIsCounted(list, n)'
  BY <1>3, <1>5, <1>6, <1>7, BucketBalance
<1>9. QED
  BY <1>5, <1>8 DEF BucketInv

\* The invariant is inductive.
LEMMA BucketInvStep ==
  ASSUME Bucket!BucketAssumption, NEW list, NEW n, Listing(list, n), BucketInv(list, n),
         [Bucket!Next]_(Bucket!vars)
  PROVE  BucketInv(list, n)'
<1>1. ASSUME NEW c \in Callers, Bucket!Call(c) PROVE BucketInv(list, n)'
  BY <1>1, QuietStepKeeps, ExchangeKeeps, AddKeeps, ConsumeKeeps DEF Bucket!Call
<1>2. CASE Bucket!Advance
  <2>1. /\ rNow < BucketTime /\ rNow' = rNow + 1 /\ rNow \in 0 .. BucketTime /\ BucketTime \in Nat
        /\ rLast \in 0 .. rNow
        /\ UNCHANGED <<rLast, rTokens, rPc, rSeen, rAdd, rGranted, rDoubled, rCalls>>
    BY <1>2, BucketConstants DEF Bucket!Advance, BucketInv, BucketTyped
  <2>2. rNow' \in 0 .. BucketTime /\ rLast' \in 0 .. rNow'
    BY <2>1
  <2>3. BucketTyped'
    BY <2>1, <2>2 DEF BucketInv, BucketTyped
  <2>4. AddsWhatPassed'
    <3>1. SUFFICES ASSUME NEW c \in Callers, rPc[c] = "exchange"
                   PROVE  rSeen[c] + rAdd[c] <= rNow + 1
      BY <2>1 DEF AddsWhatPassed
    <3>2. /\ rSeen[c] + rAdd[c] <= rNow
          /\ rSeen[c] \in 0 .. BucketTime /\ rAdd[c] \in 0 .. BucketTime
      BY <3>1 DEF BucketInv, AddsWhatPassed, BucketTyped
    <3>3. QED
      BY <2>1, <3>2
  <2>5. GrantedOnce'
    BY <2>1 DEF BucketInv, GrantedOnce, Callings
  <2>6. OwedIsCounted(list, n)'
    <3>1. \A d \in Callers : Owed(d)' = Owed(d)
      BY <2>1 DEF Owed
    <3>2. QED
      BY <2>1, <3>1, NothingGiven DEF BucketInv
  <2>7. QED
    BY <2>3, <2>4, <2>5, <2>6 DEF BucketInv
<1>3. CASE UNCHANGED Bucket!vars
  <2>1. UNCHANGED <<rNow, rLast, rTokens, rPc, rSeen, rAdd, rGranted, rDoubled, rCalls>>
    BY <1>3 DEF Bucket!vars
  <2>2. BucketTyped' /\ AddsWhatPassed' /\ GrantedOnce'
    BY <2>1 DEF BucketInv, BucketTyped, AddsWhatPassed, GrantedOnce, Callings
  <2>3. \A d \in Callers : Owed(d)' = Owed(d)
    BY <2>1 DEF Owed
  <2>4. OwedIsCounted(list, n)'
    BY <2>1, <2>3, NothingGiven DEF BucketInv
  <2>5. QED
    BY <2>2, <2>4 DEF BucketInv
<1>4. QED
  BY <1>1, <1>2, <1>3 DEF Bucket!Next

\* The invariant holds of every bucket.
THEOREM BucketInvariant == ASSUME Bucket!BucketAssumption PROVE Bucket!Spec => []BucketHolds
<1>1. Bucket!Init => BucketHolds
  BY Listed, BucketInvInit DEF BucketHolds
<1>2. BucketHolds /\ [Bucket!Next]_(Bucket!vars) => BucketHolds'
  <2>1. SUFFICES ASSUME BucketHolds, [Bucket!Next]_(Bucket!vars) PROVE BucketHolds'
    OBVIOUS
  <2>2. PICK list, n : Listing(list, n) /\ BucketInv(list, n)
    BY <2>1 DEF BucketHolds
  <2>3. BucketInv(list, n)'
    BY <2>1, <2>2, BucketInvStep
  <2>4. QED
    BY <2>2, <2>3 DEF BucketHolds
<1>3. QED
  BY <1>1, <1>2, PTL DEF Bucket!Spec

\* The types: the bucket never holds more than its capacity, though the sum is
\* taken in 64 bits, and the time of the last refill is never in the future.
THEOREM BucketStates == ASSUME Bucket!BucketAssumption PROVE Bucket!Spec => []Bucket!TypeOK
<1>1. BucketHolds => Bucket!TypeOK
  <2>1. SUFFICES ASSUME NEW list, NEW n, BucketInv(list, n) PROVE Bucket!TypeOK
    BY DEF BucketHolds
  <2>2. BucketTyped /\ rGranted + Cardinality(Callings) <= rCalls
    BY <2>1 DEF BucketInv, GrantedOnce
  <2>3. Cardinality(Callings) \in Nat
    BY BucketConstants, FS_Subset, FS_CardinalityType DEF Callings
  <2>4. rGranted \in Nat /\ rCalls \in 0 .. BucketCalls /\ BucketCalls \in Nat
    BY <2>2, BucketConstants DEF BucketTyped
  <2>5. rGranted \in 0 .. BucketCalls
    BY <2>2, <2>3, <2>4
  <2>6. QED
    BY <2>2, <2>5 DEF BucketTyped, BucketPoints, Bucket!TypeOK
<1>2. QED
  BY <1>1, BucketInvariant, PTL

\* acquire and try_acquire: however callers race, no more is consumed than was
\* in the bucket at first, the periods that passed gave, and those that the
\* losers of the exchange gave once more.
THEOREM TokensAreAccounted ==
  ASSUME Bucket!BucketAssumption PROVE Bucket!Spec => []Bucket!NoTokenFromNowhere
<1>1. BucketHolds => Bucket!NoTokenFromNowhere
  <2>1. SUFFICES ASSUME NEW list, NEW n, Listing(list, n), BucketInv(list, n)
                 PROVE  Bucket!NoTokenFromNowhere
    BY DEF BucketHolds
  <2>2. PICK sums : /\ Sums(sums, list, n)
                    /\ rGranted + rTokens + RefillAmount * sums[n]
                         <= BucketSize + RefillAmount * (rLast + rDoubled)
    BY <2>1 DEF BucketInv, OwedIsCounted
  <2>3. PICK s \in Nat : s = sums[n]
    <3>1. n \in 0 .. n
      BY <2>1 DEF Listing
    <3>2. QED
      BY <2>2, <3>1 DEF Sums
  <2>4. /\ rGranted \in Nat /\ rTokens \in Nat /\ rLast \in Nat /\ rDoubled \in Nat
        /\ RefillAmount \in Nat /\ BucketSize \in Nat
    BY <2>1, BucketConstants DEF BucketInv, BucketTyped
  <2>5. PICK owed \in Nat : owed = RefillAmount * s
    <3>1. RefillAmount * s \in Nat
      BY <2>4
    <3>2. QED
      BY <3>1
  <2>6. PICK given \in Nat : given = RefillAmount * (rLast + rDoubled)
    <3>1. RefillAmount * (rLast + rDoubled) \in Nat
      BY <2>4
    <3>2. QED
      BY <3>1
  <2>7. rGranted + rTokens + owed <= BucketSize + given
    BY <2>2, <2>3, <2>5, <2>6
  <2>8. rGranted + rTokens <= BucketSize + given
    BY <2>4, <2>7
  <2>9. QED
    BY <2>6, <2>8 DEF Bucket!NoTokenFromNowhere
<1>2. QED
  BY <1>1, BucketInvariant, PTL

-----------------------------------------------------------------------------
(* ToolCalls: one mutating tool at a time, and none once its call is left   *)


Startable == {"spawned", "queued", "working"}
Refused == {"cancelled", "timeout"}

ToolsTyped ==
  /\ cTask \in [Tool!Tools -> {"spawned", "queued", "working", "doomed", "ended", "gone"}]
  /\ cWork \in [Tool!Tools -> {"none", "on", "ok", "error", "panic"}]
  /\ cResults \in Seq(Tool!Verdicts \union Refused)

\* What a task has done goes with where it is: only the thread of a detached
\* tool is at work without its task.
TasksFit == \A t \in Tool!Tools :
  /\ cTask[t] \in {"spawned", "queued"} => cWork[t] = "none"
  /\ cTask[t] = "ended" => cWork[t] \in Tool!Verdicts
  /\ cTask[t] = "gone" /\ cWork[t] = "on" => t \in Detached

\* A mutating tool that has its task has the mutex.
OwnersWork == \A t \in Mutating : cTask[t] \in {"working", "doomed"} => cOwner = t

\* The runner stands at the first call it has no result of.
RunnerIsAt ==
  \/ cRunner.pc \in {"look", "poll"} /\ cRunner.at \in Tool!Tools /\ Len(cResults) = cRunner.at - 1
  \/ cRunner.pc = "returned" /\ Len(cResults) = Calls
  \/ cRunner.pc = "dropped" /\ Len(cResults) <= Calls /\
       \A t \in Tool!Tools : cTask[t] \notin Startable

ToolInv == ToolsTyped /\ TasksFit /\ OwnersWork /\ RunnerIsAt /\ Tool!ResultsFit

\* The constants as numbers.
LEMMA ToolConstants ==
  ASSUME Tool!ToolAssumption
  PROVE  /\ Calls \in Nat /\ Calls > 0 /\ Tool!Tools = 1 .. Calls
         /\ Mutating \subseteq Tool!Tools /\ 0 \notin Mutating
BY DEF Tool!ToolAssumption, Tool!Tools

\* No tool has begun and no result is in.
LEMMA ToolInvInit ==
  ASSUME Tool!ToolAssumption, Tool!Init PROVE ToolInv
<1>1. ToolsTyped /\ TasksFit /\ OwnersWork
  BY ToolConstants DEF Tool!Init, ToolsTyped, TasksFit, OwnersWork
<1>2. Len(cResults) = 0 /\ DOMAIN cResults = {}
  BY DEF Tool!Init
<1>3. RunnerIsAt /\ Tool!ResultsFit
  BY <1>2, ToolConstants DEF Tool!Init, RunnerIsAt, Tool!ResultsFit
<1>4. QED
  BY <1>1, <1>3 DEF ToolInv

\* What the results speak of: calls the runner has passed.
LEMMA ResultsOfCalls ==
  ASSUME Tool!ToolAssumption, ToolInv
  PROVE  /\ DOMAIN cResults = 1 .. Len(cResults) /\ Len(cResults) \in Nat
         /\ Len(cResults) <= Calls /\ DOMAIN cResults \subseteq Tool!Tools
BY ToolConstants DEF ToolInv, ToolsTyped, RunnerIsAt

\* Results that were fitting stay so while tasks only go on: one that is over
\* stays over, and one that is gone is not changed but by its own thread.
LEMMA ResultsStay ==
  ASSUME Tool!ToolAssumption, ToolInv, UNCHANGED cResults,
         \A t \in Tool!Tools : cTask[t] \notin Startable => cTask'[t] \notin Startable,
         \A t \in Tool!Tools : cTask[t] = "gone" /\ cWork[t] # "on"
            => cTask'[t] = "gone" /\ cWork'[t] = cWork[t]
  PROVE  Tool!ResultsFit'
BY ResultsOfCalls DEF ToolInv, Tool!ResultsFit, Startable, Tool!Verdicts

\* Aborting tasks leaves each of them over, but for those in block_in_place.
LEMMA AbortLeaves ==
  ASSUME Tool!ToolAssumption, ToolInv, NEW ts \in SUBSET Tool!Tools, Tool!Abort(ts)
  PROVE  /\ cTask' \in [Tool!Tools -> {"spawned", "queued", "working", "doomed", "ended", "gone"}]
         /\ cWork' \in [Tool!Tools -> {"none", "on", "ok", "error", "panic"}]
         /\ TasksFit' /\ OwnersWork'
         /\ \A t \in ts : cTask'[t] \notin Startable
         /\ \A t \in Tool!Tools : cTask[t] \notin Startable => cTask'[t] \notin Startable
         /\ \A t \in Tool!Tools : cTask[t] = "gone" /\ cWork[t] # "on"
              => cTask'[t] = "gone" /\ cWork'[t] = cWork[t]
<1>1. ASSUME NEW t \in Tool!Tools
      PROVE  /\ cTask'[t] = IF t \in ts THEN Tool!Aborted(t) ELSE cTask[t]
             /\ cWork'[t] = IF t \in ts /\ cWork[t] = "on" /\ Tool!Aborted(t) = "gone" /\
                  t \notin Detached
                            THEN "error" ELSE cWork[t]
             /\ Tool!Aborted(t) \in {"doomed", "ended", "gone"}
             /\ Tool!Aborted(t) = "doomed" <=> cTask[t] \in {"working", "doomed"} /\ t \in InPlace
             /\ Tool!Aborted(t) = "ended" <=> cTask[t] = "ended"
  BY DEF Tool!Abort, Tool!Aborted
<1>2. /\ cTask' = [t \in Tool!Tools |-> cTask'[t]]
      /\ cWork' = [t \in Tool!Tools |-> cWork'[t]]
  BY DEF Tool!Abort
<1>3. /\ \A t \in Tool!Tools : cTask[t] \in {"spawned", "queued", "working", "doomed", "ended",
           "gone"}
      /\ \A t \in Tool!Tools : cWork[t] \in {"none", "on", "ok", "error", "panic"}
  BY DEF ToolInv, ToolsTyped
<1>4. /\ \A t \in Tool!Tools : cTask'[t] \in {"spawned", "queued", "working", "doomed", "ended",
           "gone"}
      /\ \A t \in Tool!Tools : cWork'[t] \in {"none", "on", "ok", "error", "panic"}
  BY <1>1, <1>3
<1>5. /\ cTask' \in [Tool!Tools -> {"spawned", "queued", "working", "doomed", "ended", "gone"}]
      /\ cWork' \in [Tool!Tools -> {"none", "on", "ok", "error", "panic"}]
  BY <1>2, <1>4
<1>6. TasksFit'
  BY <1>1, <1>3 DEF ToolInv, TasksFit, Tool!Verdicts
<1>7. OwnersWork'
  <2>1. SUFFICES ASSUME NEW t \in Mutating, cTask'[t] \in {"working", "doomed"}
                 PROVE  cOwner' = t
    BY DEF OwnersWork
  <2>2. t \in Tool!Tools
    BY ToolConstants
  <2>3. cTask[t] \in {"working", "doomed"} /\ (t \in ts => Tool!Aborted(t) = "doomed")
    BY <1>1, <2>1, <2>2
  <2>4. cOwner = t
    BY <2>3 DEF ToolInv, OwnersWork
  <2>5. QED
    BY <2>3, <2>4 DEF Tool!Abort
<1>8. /\ \A t \in ts : cTask'[t] \notin Startable
      /\ \A t \in Tool!Tools : cTask[t] \notin Startable => cTask'[t] \notin Startable
      /\ \A t \in Tool!Tools : cTask[t] = "gone" /\ cWork[t] # "on"
           => cTask'[t] = "gone" /\ cWork'[t] = cWork[t]
  BY <1>1 DEF Startable
<1>9. QED
  BY <1>5, <1>6, <1>7, <1>8

\* A result is reported of the call the runner stands at, which is over.
LEMMA ReportKeeps ==
  ASSUME Tool!ToolAssumption, ToolInv, cRunner.pc \in {"look", "poll"},
         NEW result \in Tool!Verdicts \union Refused, Tool!Report(result),
         \A t \in Tool!Tools : cTask[t] \notin Startable => cTask'[t] \notin Startable,
         \A t \in Tool!Tools : cTask[t] = "gone" /\ cWork[t] # "on"
            => cTask'[t] = "gone" /\ cWork'[t] = cWork[t],
         result \in Tool!Verdicts => cTask'[cRunner.at] = "gone" /\ cWork'[cRunner.at] = result,
         cTask'[cRunner.at] \notin Startable
  PROVE  cResults' \in Seq(Tool!Verdicts \union Refused) /\ RunnerIsAt' /\ Tool!ResultsFit'
<1>1. /\ cResults' = Append(cResults, result) /\ Len(cResults) = cRunner.at - 1
      /\ cRunner.at \in Tool!Tools /\ cResults \in Seq(Tool!Verdicts \union Refused)
  BY DEF Tool!Report, ToolInv, ToolsTyped, RunnerIsAt
<1>2. /\ cResults' \in Seq(Tool!Verdicts \union Refused) /\ Len(cResults') = cRunner.at
      /\ DOMAIN cResults' = 1 .. cRunner.at /\ cResults'[cRunner.at] = result
      /\ \A k \in 1 .. cRunner.at : k # cRunner.at =>
           cResults'[k] = cResults[k] /\ k \in DOMAIN cResults
  BY <1>1, ToolConstants
<1>3. RunnerIsAt'
  BY <1>2, <1>1, ToolConstants DEF Tool!Report, RunnerIsAt
<1>4. ASSUME NEW k \in 1 .. cRunner.at
      PROVE  /\ cResults'[k] \in Tool!Verdicts => cTask'[k] = "gone" /\ cResults'[k] = cWork'[k]
             /\ cResults'[k] \in Refused => cTask'[k] \notin Startable
  <2>1. CASE k = cRunner.at
    BY <1>2, <2>1
  <2>2. CASE k # cRunner.at
    <3>1. cResults'[k] = cResults[k] /\ k \in DOMAIN cResults /\ k \in Tool!Tools
      BY <1>2, <2>2, ResultsOfCalls
    <3>2. /\ cResults[k] \in Tool!Verdicts => cTask[k] = "gone" /\ cResults[k] = cWork[k]
          /\ cResults[k] \in Refused => cTask[k] \notin Startable
      BY <3>1 DEF ToolInv, Tool!ResultsFit, Startable, Refused
    <3>3. QED
      BY <3>1, <3>2 DEF Tool!Verdicts
  <2>3. QED
    BY <2>1, <2>2
<1>5. Tool!ResultsFit'
  BY <1>2, <1>4 DEF Tool!ResultsFit, Refused, Startable
<1>6. QED
  BY <1>2, <1>3, <1>5

\* The tasks' own steps: none of them starts anything that was over.
LEMMA TaskStepKeeps ==
  ASSUME Tool!ToolAssumption, ToolInv, NEW t \in Tool!Tools,
         \/ Tool!BadArguments(t) \/ Tool!Begin(t) \/ Tool!Acquire(t) \/ Tool!EndsAlone(t)
         \/ \E verdict \in Tool!Verdicts : Tool!Ends(t, verdict)
  PROVE  ToolInv'
<1>0. UNCHANGED <<cRunner, cResults>>
  BY DEF Tool!BadArguments, Tool!Begin, Tool!Acquire, Tool!EndsAlone, Tool!Ends,
     Tool!RunnerStands
<1>1. /\ cTask \in [Tool!Tools -> {"spawned", "queued", "working", "doomed", "ended", "gone"}]
      /\ cWork \in [Tool!Tools -> {"none", "on", "ok", "error", "panic"}]
  BY DEF ToolInv, ToolsTyped
<1>2. /\ cTask' \in [Tool!Tools -> {"spawned", "queued", "working", "doomed", "ended", "gone"}]
      /\ cWork' \in [Tool!Tools -> {"none", "on", "ok", "error", "panic"}]
  BY <1>1 DEF Tool!BadArguments, Tool!Begin, Tool!Acquire, Tool!EndsAlone, Tool!Ends, Tool!Verdicts
<1>3. TasksFit'
  BY <1>1 DEF ToolInv, TasksFit, Tool!Verdicts,
     Tool!BadArguments, Tool!Begin, Tool!Acquire, Tool!EndsAlone, Tool!Ends
<1>4. OwnersWork'
  BY <1>1, ToolConstants DEF ToolInv, OwnersWork, Tool!BadArguments, Tool!Begin,
     Tool!Acquire, Tool!EndsAlone, Tool!Ends, Tool!MayStart
<1>5. /\ \A u \in Tool!Tools : cTask[u] \notin Startable => cTask'[u] \notin Startable
      /\ \A u \in Tool!Tools : cTask[u] = "gone" /\ cWork[u] # "on"
           => cTask'[u] = "gone" /\ cWork'[u] = cWork[u]
  BY <1>1 DEF Startable, Tool!BadArguments, Tool!Begin, Tool!Acquire, Tool!EndsAlone, Tool!Ends
<1>6. Tool!ResultsFit'
  BY <1>0, <1>5, ResultsStay
<1>7. RunnerIsAt'
  BY <1>0, <1>5 DEF ToolInv, RunnerIsAt
<1>8. QED
  BY <1>0, <1>2, <1>3, <1>4, <1>6, <1>7 DEF ToolInv, ToolsTyped

\* Giving a call up aborts its task before the result is added.
LEMMA GiveUpKeeps ==
  ASSUME Tool!ToolAssumption, ToolInv, cRunner.pc \in {"look", "poll"},
         NEW result \in Refused, Tool!GiveUp(result)
  PROVE  ToolInv'
<1>1. {cRunner.at} \in SUBSET Tool!Tools
  BY DEF ToolInv, RunnerIsAt
<1>2. Tool!Abort({cRunner.at}) /\ Tool!Report(result)
  BY DEF Tool!GiveUp
<1>3. /\ cTask' \in [Tool!Tools -> {"spawned", "queued", "working", "doomed", "ended", "gone"}]
      /\ cWork' \in [Tool!Tools -> {"none", "on", "ok", "error", "panic"}]
      /\ TasksFit' /\ OwnersWork' /\ cTask'[cRunner.at] \notin Startable
      /\ \A t \in Tool!Tools : cTask[t] \notin Startable => cTask'[t] \notin Startable
      /\ \A t \in Tool!Tools : cTask[t] = "gone" /\ cWork[t] # "on"
           => cTask'[t] = "gone" /\ cWork'[t] = cWork[t]
  BY <1>1, <1>2, AbortLeaves
<1>4. result \notin Tool!Verdicts /\ result \in Tool!Verdicts \union Refused
  BY DEF Refused, Tool!Verdicts
<1>5. cResults' \in Seq(Tool!Verdicts \union Refused) /\ RunnerIsAt' /\ Tool!ResultsFit'
  BY <1>2, <1>3, <1>4, ReportKeeps
<1>6. QED
  BY <1>3, <1>5 DEF ToolInv, ToolsTyped

\* The result of a task that ended is the verdict on its work.
LEMMA TakeResultKeeps ==
  ASSUME Tool!ToolAssumption, ToolInv, Tool!TakeResult PROVE ToolInv'
<1>1. /\ cRunner.pc = "poll" /\ cRunner.at \in Tool!Tools /\ cTask[cRunner.at] = "ended"
      /\ cTask' = [cTask EXCEPT ![cRunner.at] = "gone"] /\ UNCHANGED <<cWork, cOwner, cLine>>
      /\ Tool!Report(cWork[cRunner.at])
  BY DEF Tool!TakeResult, ToolInv, RunnerIsAt
<1>2. /\ cTask \in [Tool!Tools -> {"spawned", "queued", "working", "doomed", "ended", "gone"}]
      /\ cWork[cRunner.at] \in Tool!Verdicts
  BY <1>1 DEF ToolInv, ToolsTyped, TasksFit
<1>3. /\ cTask' \in [Tool!Tools -> {"spawned", "queued", "working", "doomed", "ended", "gone"}]
      /\ TasksFit' /\ OwnersWork' /\ cTask'[cRunner.at] = "gone"
      /\ \A t \in Tool!Tools : cTask[t] \notin Startable => cTask'[t] \notin Startable
      /\ \A t \in Tool!Tools : cTask[t] = "gone" /\ cWork[t] # "on"
           => cTask'[t] = "gone" /\ cWork'[t] = cWork[t]
  BY <1>1, <1>2, ToolConstants DEF ToolInv, TasksFit, OwnersWork, Tool!Verdicts, Startable
<1>4. cResults' \in Seq(Tool!Verdicts \union Refused) /\ RunnerIsAt' /\ Tool!ResultsFit'
  <2>1. cTask'[cRunner.at] \notin Startable /\ cWork'[cRunner.at] = cWork[cRunner.at]
    BY <1>1, <1>3 DEF Startable
  <2>2. cWork[cRunner.at] \in Tool!Verdicts \union Refused
    BY <1>2
  <2>3. QED
    BY <1>1, <1>3, <2>1, <2>2, ReportKeeps
<1>5. QED
  BY <1>1, <1>3, <1>4 DEF ToolInv, ToolsTyped

\* Dropping the call aborts every task it spawned.
LEMMA DropKeeps ==
  ASSUME Tool!ToolAssumption, ToolInv, Tool!Drop PROVE ToolInv'
<1>1. /\ Tool!Abort(Tool!Tools) /\ UNCHANGED cResults
      /\ cRunner' = [pc |-> "dropped", at |-> 0]
  BY DEF Tool!Drop
<1>2. /\ cTask' \in [Tool!Tools -> {"spawned", "queued", "working", "doomed", "ended", "gone"}]
      /\ cWork' \in [Tool!Tools -> {"none", "on", "ok", "error", "panic"}]
      /\ TasksFit' /\ OwnersWork' /\ \A t \in Tool!Tools : cTask'[t] \notin Startable
      /\ \A t \in Tool!Tools : cTask[t] \notin Startable => cTask'[t] \notin Startable
      /\ \A t \in Tool!Tools : cTask[t] = "gone" /\ cWork[t] # "on"
           => cTask'[t] = "gone" /\ cWork'[t] = cWork[t]
  BY <1>1, AbortLeaves
<1>3. Tool!ResultsFit'
  BY <1>1, <1>2, ResultsStay
<1>4. RunnerIsAt'
  BY <1>1, <1>2, ResultsOfCalls DEF RunnerIsAt
<1>5. QED
  BY <1>1, <1>2, <1>3, <1>4 DEF ToolInv, ToolsTyped

\* The invariant of a turn's tool calls holds in every reachable state, for any
\* number of calls of any kinds of tools, and any deadline.
THEOREM ToolInvariant ==
  ASSUME Tool!ToolAssumption PROVE ToolSafety => []ToolInv
<1>1. ASSUME ToolInv, [Tool!Next]_(Tool!vars) PROVE ToolInv'
  <2>1. CASE Tool!Look
    <3>1. CASE \E result \in Refused : Tool!GiveUp(result)
      BY <1>1, <2>1, <3>1, GiveUpKeeps DEF Tool!Look
    <3>2. CASE /\ cRunner.pc = "look" /\ cRunner' = [cRunner EXCEPT !.pc = "poll"]
               /\ UNCHANGED <<cTask, cWork, cOwner, cLine, cResults, cCancelled>>
      <4>1. cRunner'.pc = "poll" /\ cRunner'.at = cRunner.at
        BY <3>2 DEF ToolInv, RunnerIsAt
      <4>2. QED
        BY <1>1, <3>2, <4>1 DEF ToolInv, ToolsTyped, TasksFit, OwnersWork, RunnerIsAt,
           Tool!ResultsFit
    <3>3. QED
      BY <2>1, <3>1, <3>2 DEF Tool!Look, Refused
  <2>2. CASE Tool!Heartbeat
    <3>1. CASE Tool!GiveUp("timeout")
      BY <1>1, <2>2, <3>1, GiveUpKeeps DEF Tool!Heartbeat, Refused
    <3>2. CASE /\ cRunner.pc = "poll" /\ cRunner' = [cRunner EXCEPT !.pc = "look"]
               /\ UNCHANGED <<cTask, cWork, cOwner, cLine, cWaited, cResults, cCancelled>>
      <4>1. cRunner'.pc = "look" /\ cRunner'.at = cRunner.at
        BY <3>2 DEF ToolInv, RunnerIsAt
      <4>2. QED
        BY <1>1, <3>2, <4>1 DEF ToolInv, ToolsTyped, TasksFit, OwnersWork, RunnerIsAt,
           Tool!ResultsFit
    <3>3. QED
      BY <2>2, <3>1, <3>2 DEF Tool!Heartbeat
  <2>3. CASE Tool!Cancel \/ Tool!Tick \/ UNCHANGED Tool!vars
    <3>1. UNCHANGED <<cTask, cWork, cOwner, cLine, cRunner, cResults>>
      BY <2>3 DEF Tool!Cancel, Tool!Tick, Tool!vars
    <3>2. QED
      BY <1>1, <3>1 DEF ToolInv, ToolsTyped, TasksFit, OwnersWork, RunnerIsAt,
         Tool!ResultsFit
  <2>4. QED
    BY <1>1, <2>1, <2>2, <2>3, TaskStepKeeps, TakeResultKeeps, DropKeeps
       DEF Tool!Next, Tool!Runner
<1>2. QED
  BY <1>1, ToolInvInit, PTL DEF ToolSafety

\* Mutating tools exclude one another: two are at work at a time only if one of
\* them is a thread that was left to itself when its call was given up.
THEOREM MutatorsExclude ==
  ASSUME Tool!ToolAssumption PROVE ToolSafety => []Tool!MutatingAlone
<1>1. ASSUME ToolInv PROVE Tool!MutatingAlone
  <2>1. SUFFICES ASSUME NEW t \in Mutating, NEW u \in Mutating, t # u,
                        cWork[t] = "on", cWork[u] = "on"
                 PROVE  \E x \in {t, u} : x \in Detached /\ cTask[x] = "gone"
    BY DEF Tool!MutatingAlone
  <2>2. \A x \in {t, u} : \/ cTask[x] \in {"working", "doomed"}
                          \/ cTask[x] = "gone" /\ x \in Detached
    BY <1>1, <2>1, ToolConstants DEF ToolInv, ToolsTyped, TasksFit, Tool!Verdicts
  <2>3. ~(cTask[t] \in {"working", "doomed"} /\ cTask[u] \in {"working", "doomed"})
    BY <1>1, <2>1 DEF ToolInv, OwnersWork
  <2>4. QED
    BY <2>2, <2>3
<1>2. QED
  BY <1>1, ToolInvariant, PTL

\* What the model is told of its tools is what they did: a result of a tool is
\* the one its own task ended with, and a call that is reported as cancelled or
\* timed out will not begin any more.
THEOREM ResultsAreTrue ==
  ASSUME Tool!ToolAssumption PROVE ToolSafety => []Tool!ResultsFit
<1>1. ToolInv => Tool!ResultsFit
  BY DEF ToolInv
<1>2. QED
  BY <1>1, ToolInvariant, PTL

\* Once the runner has left the calls, with all their results or dropped by the
\* message's deadline, none of their tools starts any more.
THEOREM NothingLeftToStart ==
  ASSUME Tool!ToolAssumption PROVE ToolSafety => []Tool!NothingStartsLater
<1>1. ASSUME ToolInv PROVE Tool!NothingStartsLater
  <2>1. CASE cRunner.pc = "returned"
    <3>1. DOMAIN cResults = Tool!Tools
      BY <1>1, <2>1, ToolConstants, ResultsOfCalls DEF ToolInv, RunnerIsAt
    <3>2. \A t \in Tool!Tools : cResults[t] \in Tool!Verdicts \union Refused
      BY <1>1, <3>1 DEF ToolInv, ToolsTyped
    <3>3. QED
      BY <1>1, <3>1, <3>2 DEF ToolInv, Tool!ResultsFit, Refused, Tool!NothingStartsLater
  <2>2. CASE cRunner.pc # "returned"
    BY <1>1, <2>2 DEF ToolInv, RunnerIsAt, Startable, Tool!NothingStartsLater
  <2>3. QED
    BY <2>1, <2>2
<1>2. QED
  BY <1>1, ToolInvariant, PTL

\* The mutex, where the runner stands, and its clocks.
MutexTyped == cOwner \in Mutating \union {0} /\ cLine \in Seq(Mutating)
PlaceTyped ==
  cRunner \in [pc : {"look", "poll"}, at : Tool!Tools] \union
    {[pc |-> "returned", at |-> 0], [pc |-> "dropped", at |-> 0]}
TimesTyped ==
  /\ cWaited \in [tool : 0 .. Deadline, poll : 0 .. Deadline]
  /\ cWaited.poll <= cWaited.tool
  /\ cCancelled \in BOOLEAN

\* Who asks for the mutex, and who gets it, is a mutating tool.
LEMMA MutexKeepsTyped ==
  ASSUME Tool!ToolAssumption, ToolInv, MutexTyped, [Tool!Next]_(Tool!vars)
  PROVE  MutexTyped'
<1> USE DEF MutexTyped
<1>1. CASE \E t \in Tool!Tools : Tool!Begin(t) \/ Tool!Acquire(t)
  <2>1. PICK t \in Tool!Tools : Tool!Begin(t) \/ Tool!Acquire(t)
    BY <1>1
  <2>2. CASE Tool!Begin(t)
    BY <2>2 DEF Tool!Begin
  <2>3. CASE Tool!Acquire(t)
    <3>1. \E k \in DOMAIN cLine : cLine[k] = t
      BY <2>3 DEF Tool!Acquire, Tool!MayStart
    <3>2. QED
      BY <2>3, <3>1 DEF Tool!Acquire
  <2>4. QED
    BY <2>1, <2>2, <2>3
<1>2. CASE ~\E t \in Tool!Tools : Tool!Begin(t) \/ Tool!Acquire(t)
  <2>1. cLine' = cLine /\ cOwner' \in {cOwner, 0}
    BY <1>2 DEF Tool!Next, Tool!vars, Tool!BadArguments, Tool!Ends, Tool!EndsAlone, Tool!Runner,
       Tool!Look, Tool!TakeResult, Tool!Heartbeat, Tool!GiveUp, Tool!Abort, Tool!Cancel,
       Tool!Drop, Tool!Tick
  <2>2. QED
    BY <2>1
<1>3. QED
  BY <1>1, <1>2

\* The runner goes from call to call, and its clocks stop at the deadline.
LEMMA RunnerKeepsTyped ==
  ASSUME Tool!ToolAssumption, ToolInv, PlaceTyped, TimesTyped, [Tool!Next]_(Tool!vars)
  PROVE  PlaceTyped' /\ TimesTyped'
<1>1. /\ Calls \in Nat \ {0} /\ Tool!Tools = 1 .. Calls /\ Deadline \in Nat \ {0}
      /\ cWaited.tool \in 0 .. Deadline /\ cWaited.poll \in 0 .. Deadline
      /\ cRunner.pc \in {"look", "poll"} =>
           cRunner.at \in Tool!Tools /\ cRunner = [pc |-> cRunner.pc, at |-> cRunner.at]
  BY ToolConstants DEF TimesTyped, PlaceTyped, Tool!ToolAssumption
<1>2. CASE \E result : Tool!Report(result) /\ cRunner.pc \in {"look", "poll"}
  <2>1. PICK result : Tool!Report(result) /\ cRunner.pc \in {"look", "poll"}
    BY <1>2
  <2>2. PlaceTyped'
    BY <1>1, <2>1 DEF Tool!Report, PlaceTyped
  <2>3. TimesTyped'
    BY <1>1, <2>1 DEF Tool!Report, TimesTyped
  <2>4. QED
    BY <2>2, <2>3
<1>3. CASE /\ cRunner.pc \in {"look", "poll"}
           /\ cRunner' \in {[cRunner EXCEPT !.pc = "poll"], [cRunner EXCEPT !.pc = "look"], cRunner,
                            [pc |-> "dropped", at |-> 0]}
           /\ cWaited' \in {cWaited, [cWaited EXCEPT !.poll = 0]}
           /\ cCancelled' \in {cCancelled, TRUE}
  <2>1. PlaceTyped'
    BY <1>1, <1>3 DEF PlaceTyped
  <2>2. TimesTyped'
    <3>1. cWaited \in [tool : 0 .. Deadline, poll : 0 .. Deadline] /\ cWaited.poll <= cWaited.tool
      BY DEF TimesTyped
    <3>2. CASE cWaited' = cWaited
      BY <1>3, <3>1, <3>2 DEF TimesTyped
    <3>3. CASE cWaited' = [cWaited EXCEPT !.poll = 0]
      <4>1. cWaited'.tool = cWaited.tool /\ cWaited'.poll = 0
        BY <3>1, <3>3
      <4>2. cWaited' \in [tool : 0 .. Deadline, poll : 0 .. Deadline]
        BY <1>1, <3>1, <3>3
      <4>3. cCancelled' \in BOOLEAN
        BY <1>3 DEF TimesTyped
      <4>4. cWaited'.poll <= cWaited'.tool
        BY <1>1, <4>1
      <4>5. QED
        BY <4>2, <4>3, <4>4 DEF TimesTyped
    <3>4. QED
      BY <1>3, <3>2, <3>3
  <2>3. QED
    BY <2>1, <2>2
<1>4. CASE Tool!Tick
  <2>1. cRunner' = cRunner /\ cCancelled' = cCancelled /\ cWaited.tool < Deadline
        /\ cWaited' = [tool |-> cWaited.tool + 1, poll |-> cWaited.poll + 1]
    BY <1>4 DEF Tool!Tick
  <2>2. cWaited.poll <= cWaited.tool
    BY DEF TimesTyped
  <2>3. /\ cWaited.tool + 1 \in 0 .. Deadline /\ cWaited.poll + 1 \in 0 .. Deadline
        /\ cWaited.poll + 1 <= cWaited.tool + 1
    BY <1>1, <2>1, <2>2
  <2>4. TimesTyped'
    BY <2>1, <2>3 DEF TimesTyped
  <2>5. QED
    BY <2>1, <2>4 DEF PlaceTyped
<1>5. CASE UNCHANGED <<cRunner, cWaited, cCancelled>>
  BY <1>5 DEF PlaceTyped, TimesTyped
<1>6. QED
  <2>1. CASE Tool!Look
    BY <2>1, <1>2, <1>3 DEF Tool!Look, Tool!GiveUp
  <2>2. CASE Tool!TakeResult \/ Tool!Heartbeat
    BY <2>2, <1>2, <1>3 DEF Tool!TakeResult, Tool!Heartbeat, Tool!GiveUp
  <2>3. CASE Tool!Cancel \/ Tool!Drop
    BY <2>3, <1>3 DEF Tool!Cancel, Tool!Drop
  <2>4. CASE \E t \in Tool!Tools : \/ Tool!BadArguments(t) \/ Tool!Begin(t) \/ Tool!Acquire(t)
                                   \/ Tool!EndsAlone(t) \/ \E v \in Tool!Verdicts : Tool!Ends(t, v)
    BY <2>4, <1>5 DEF Tool!BadArguments, Tool!Begin, Tool!Acquire, Tool!EndsAlone, Tool!Ends,
       Tool!RunnerStands
  <2>5. CASE UNCHANGED Tool!vars
    BY <2>5, <1>5 DEF Tool!vars
  <2>6. QED
    BY <2>1, <2>2, <2>3, <2>4, <2>5, <1>4 DEF Tool!Next, Tool!Runner

\* The types of tasks, mutex, runner and results.
LEMMA ToolTypedFollows ==
  ASSUME Tool!ToolAssumption, ToolInv, MutexTyped, PlaceTyped, TimesTyped
  PROVE  Tool!TypeOK
<1>1. ToolsTyped /\ RunnerIsAt /\ Len(cResults) \in Nat
  BY DEF ToolInv, ToolsTyped
<1>2. \A k \in DOMAIN cResults : k \in Tool!Tools /\ cResults[k] \in Tool!Verdicts \union Refused
  BY <1>1, ToolConstants DEF ToolsTyped, RunnerIsAt
<1>3. \A k \in DOMAIN cLine : cLine[k] \in Mutating
  BY DEF MutexTyped
<1>4. /\ cTask \in [Tool!Tools -> Tool!Alive \union {"ended", "gone"}]
      /\ cWork \in [Tool!Tools -> {"none", "on"} \union Tool!Verdicts]
  BY <1>1 DEF ToolsTyped, Tool!Alive, Tool!Verdicts
<1>5. cWaited \in [tool : 0 .. Deadline, poll : 0 .. Deadline] /\ cCancelled \in BOOLEAN
  BY DEF TimesTyped
<1>6. QED
  BY <1>2, <1>3, <1>4, <1>5 DEF MutexTyped, PlaceTyped, Refused, Tool!TypeOK

\* The runner begins with the first call.
LEMMA RunnerIsTypedInit ==
  ASSUME Tool!ToolAssumption, Tool!Init
  PROVE  MutexTyped /\ PlaceTyped /\ TimesTyped
<1>1. /\ Deadline \in Nat /\ 1 \in Tool!Tools /\ <<>> \in Seq(Mutating) /\ 0 \in 0 .. Deadline
  BY ToolConstants DEF Tool!ToolAssumption
<1>2. cWaited.tool = 0 /\ cWaited.poll = 0
  BY DEF Tool!Init
<1>3. MutexTyped
  BY <1>1 DEF Tool!Init, MutexTyped
<1>4. PlaceTyped
  BY <1>1 DEF Tool!Init, PlaceTyped
<1>5. TimesTyped
  <2>1. cWaited = [tool |-> 0, poll |-> 0] /\ cCancelled \in BOOLEAN
    BY DEF Tool!Init
  <2>2. cWaited \in [tool : 0 .. Deadline, poll : 0 .. Deadline]
    BY ONLY <2>1, <1>1
  <2>3. QED
    BY <2>1, <2>2, <1>2 DEF TimesTyped
<1>6. QED
  BY <1>3, <1>4, <1>5

\* The types; and results are of calls, in their order.
THEOREM ToolStates == ASSUME Tool!ToolAssumption PROVE ToolSafety => []Tool!TypeOK
<1>1. Tool!Init => MutexTyped /\ PlaceTyped /\ TimesTyped
  BY RunnerIsTypedInit
<1>2. ToolInv /\ MutexTyped /\ PlaceTyped /\ TimesTyped /\ [Tool!Next]_(Tool!vars) =>
        (MutexTyped /\ PlaceTyped /\ TimesTyped)'
  BY MutexKeepsTyped, RunnerKeepsTyped
<1>3. ToolInv /\ MutexTyped /\ PlaceTyped /\ TimesTyped => Tool!TypeOK
  BY ToolTypedFollows
<1>4. QED
  BY <1>1, <1>2, <1>3, ToolInvariant, PTL DEF ToolSafety

-----------------------------------------------------------------------------
(* ParallelSpawn: within the limit, and every task accounted for            *)


ChildStates == {"none", "running", "joined", "aborted"} \union Spawn!Ended
Outcome == [task : Spawn!Jobs, verdict : Spawn!Ended]

SpawnTyped ==
  /\ jChild \in [Spawn!Jobs -> [state : ChildStates, age : 0 .. TaskTimeout]]
  /\ jElapsed \in 0 .. TotalTimeout + 1
  /\ jNext \in 1 .. TaskCount + 1
  /\ jResults \in Seq(Outcome)
  /\ jLeft \in {"no", "empty", "panic", "late"}

\* The tasks in the JoinSet, and those taken out of it.
InSet == Spawn!Running \union Spawn!Waiting
Joined == Spawn!In({"joined"})

\* The JoinSet is full as long as there is a task to fill it with; after the
\* loop it is empty.
SetIsFull ==
  /\ jLeft = "no" => /\ Cardinality(InSet) <= MaxConcurrent
                     /\ jNext <= TaskCount => Cardinality(InSet) = MaxConcurrent
  /\ jLeft # "no" => InSet = {}

\* Tasks are started in their order, and unless the call is cut short none is
\* aborted, nor left out.
StartedInOrder ==
  /\ jLeft \in {"no", "empty"} => \A t \in Spawn!Jobs :
       /\ jChild[t].state = "none" <=> t >= jNext
       /\ jChild[t].state # "aborted"
  /\ jLeft = "empty" /\ MaxConcurrent > 0 => jNext = TaskCount + 1

\* Each result is that of a task that was joined, and none is there twice; each
\* task that was joined has one, but for one that panicked.
ResultsOfJoined ==
  /\ \A k \in 1 .. Len(jResults) : jResults[k].task \in Joined
  /\ \A j, k \in 1 .. Len(jResults) : jResults[j].task = jResults[k].task => j = k
  /\ jLeft # "panic" => Len(jResults) = Cardinality(Joined)

SpawnInv == SpawnTyped /\ SetIsFull /\ StartedInOrder /\ ResultsOfJoined

\* The limits of a call.
LEMMA SpawnConstants ==
  ASSUME Spawn!ParallelAssumption
  PROVE  /\ TaskCount \in Nat /\ MaxConcurrent \in Nat /\ TotalTimeout \in Nat
         /\ TaskTimeout \in Nat \ {0}
BY DEF Spawn!ParallelAssumption

\* The operator is the same wherever it is instantiated.
LEMMA SameCardinality == ASSUME NEW S PROVE Spawn!Cardinality(S) = Cardinality(S)
BY DEF Spawn!Cardinality, Cardinality

\* Sets of tasks are finite.
LEMMA JobsFinite ==
  ASSUME Spawn!ParallelAssumption, NEW S \in SUBSET Spawn!Jobs
  PROVE  IsFiniteSet(S) /\ Cardinality(S) \in Nat
<1>1. IsFiniteSet(Spawn!Jobs)
  BY SpawnConstants, FS_Interval DEF Spawn!Jobs
<1>2. QED
  BY <1>1, FS_Subset, FS_CardinalityType

\* A member more, a member less.
LEMMA CountingJobs ==
  ASSUME Spawn!ParallelAssumption, NEW S \in SUBSET Spawn!Jobs, NEW t \in Spawn!Jobs
  PROVE  /\ t \notin S => Cardinality(S \union {t}) = Cardinality(S) + 1
         /\ t \in S => Cardinality(S \ {t}) = Cardinality(S) - 1
BY JobsFinite, FS_AddElement, FS_RemoveElement

\* The first tasks are started at once.
LEMMA SpawnInvInit ==
  ASSUME Spawn!ParallelAssumption, Spawn!Init
  PROVE  SpawnInv
<1> USE SpawnConstants DEF Spawn!Init, Spawn!Fresh, Spawn!Jobs
<1>1. jNext \in 1 .. TaskCount + 1 /\ jNext - 1 <= MaxConcurrent
      /\ jNext <= TaskCount => jNext - 1 = MaxConcurrent
  OBVIOUS
<1>2. SpawnTyped
  <2>1. jChild \in [Spawn!Jobs -> [state : ChildStates, age : 0 .. TaskTimeout]]
    BY DEF ChildStates
  <2>2. jResults \in Seq(Outcome)
    OBVIOUS
  <2>3. QED
    BY <1>1, <2>1, <2>2 DEF SpawnTyped
<1>3. InSet = 1 .. jNext - 1 /\ Joined = {}
  BY <1>1 DEF InSet, Joined, Spawn!Running, Spawn!Waiting, Spawn!In, Spawn!Ended
<1>4. Cardinality(InSet) = jNext - 1 /\ Cardinality(Joined) = 0
  <2>1. PICK n \in Nat : n = jNext - 1
    BY <1>1
  <2>2. Cardinality(1 .. n) = IF 1 > n THEN 0 ELSE n - 1 + 1
    BY FS_Interval
  <2>3. QED
    BY <1>3, <2>1, <2>2, FS_EmptySet
<1>5. SetIsFull
  BY <1>1, <1>4 DEF SetIsFull
<1>6. StartedInOrder
  BY <1>1 DEF StartedInOrder
<1>7. ResultsOfJoined
  BY <1>4 DEF ResultsOfJoined
<1>8. QED
  BY <1>2, <1>5, <1>6, <1>7 DEF SpawnInv

\* What goes on in the tasks leaves them in the set, and in their order.
LEMMA ChildKeeps ==
  ASSUME Spawn!ParallelAssumption, SpawnInv,
         Spawn!Tick \/ \E t \in Spawn!Jobs, how \in Spawn!Ended : Spawn!Ends(t, how)
  PROVE  SpawnInv'
<1>1. /\ UNCHANGED <<jNext, jResults, jLeft>> /\ jLeft = "no"
      /\ \A t \in Spawn!Jobs :
           \/ jChild'[t].state = jChild[t].state
           \/ jChild[t].state = "running" /\ jChild'[t].state \in Spawn!Ended
      /\ jChild' \in [Spawn!Jobs -> [state : ChildStates, age : 0 .. TaskTimeout]]
      /\ jElapsed' \in 0 .. TotalTimeout + 1
  <2>1. CASE Spawn!Tick
    <3>1. ASSUME NEW t \in Spawn!Jobs
          PROVE  /\ jChild'[t] \in [state : ChildStates, age : 0 .. TaskTimeout]
                 /\ jChild'[t].state = jChild[t].state
      <4>1. jChild[t] \in [state : ChildStates, age : 0 .. TaskTimeout]
        BY DEF SpawnInv, SpawnTyped
      <4>2. \/ jChild'[t] = jChild[t]
            \/ /\ jChild[t].age < TaskTimeout
               /\ jChild'[t] = [jChild[t] EXCEPT !.age = @ + 1]
        BY <2>1 DEF Spawn!Tick
      <4>3. jChild[t].age + 1 \in 0 .. TaskTimeout \/ ~(jChild[t].age < TaskTimeout)
        BY <4>1, SpawnConstants
      <4>4. QED
        BY <4>1, <4>2, <4>3
    <3>2. jChild' = [t \in Spawn!Jobs |-> jChild'[t]]
      BY <2>1 DEF Spawn!Tick
    <3>3. jElapsed' \in 0 .. TotalTimeout + 1
      BY <2>1, SpawnConstants DEF Spawn!Tick, SpawnInv, SpawnTyped
    <3>4. QED
      BY <2>1, <3>1, <3>2, <3>3 DEF Spawn!Tick
  <2>2. ASSUME NEW t \in Spawn!Jobs, NEW how \in Spawn!Ended, Spawn!Ends(t, how)
        PROVE  <1>1!:
    BY <2>2 DEF Spawn!Ends, Spawn!Running, Spawn!In, ChildStates, SpawnInv,
       SpawnTyped, SetIsFull, InSet
  <2>3. QED
    BY <2>1, <2>2
<1>2. InSet' = InSet /\ Joined' = Joined
  BY <1>1 DEF InSet, Joined, Spawn!Running, Spawn!Waiting, Spawn!In, Spawn!Ended
<1>3. QED
  BY <1>1, <1>2 DEF SpawnInv, SpawnTyped, SetIsFull, StartedInOrder,
     ResultsOfJoined, Spawn!Ended

\* A task that is joined leaves the set, and its place is taken by the next if
\* there is one; its result is the first it has.
LEMMA JoinKeeps ==
  ASSUME Spawn!ParallelAssumption, SpawnInv, NEW t \in Spawn!Jobs, Spawn!Join(t)
  PROVE  SpawnInv'
<1> USE SpawnConstants
<1> DEFINE result == [task |-> t, verdict |-> jChild[t].state]
<1>1. /\ jLeft = "no" /\ jChild[t].state \in Spawn!Ended /\ jElapsed' = jElapsed
      /\ jResults' = Append(jResults, result) /\ result \in Outcome
  BY DEF Spawn!Join, Outcome
<1>2. /\ jResults' \in Seq(Outcome) /\ Len(jResults') = Len(jResults) + 1
      /\ jResults'[Len(jResults) + 1].task = t /\ Len(jResults) \in Nat
      /\ \A k \in 1 .. Len(jResults) : jResults'[k] = jResults[k]
  BY <1>1 DEF SpawnInv, SpawnTyped
<1>3. t \in InSet /\ t \notin Joined /\ InSet \subseteq Spawn!Jobs /\ Joined \subseteq Spawn!Jobs
  BY <1>1 DEF InSet, Joined, Spawn!Running, Spawn!Waiting, Spawn!In, Spawn!Ended
<1> HIDE DEF result
<1>4. ASSUME Joined' = Joined \union {t}
      PROVE  ResultsOfJoined'
  <2>1. Cardinality(Joined') = Cardinality(Joined) + 1
    BY <1>3, <1>4, CountingJobs
  <2>2. Len(jResults) = Cardinality(Joined)
    BY <1>1 DEF SpawnInv, ResultsOfJoined
  <2>3. ASSUME NEW k \in 1 .. Len(jResults')
        PROVE  \/ k \in 1 .. Len(jResults) /\ jResults'[k].task \in Joined
               \/ k = Len(jResults) + 1 /\ jResults'[k].task = t
    <3>1. k \in 1 .. Len(jResults) \/ k = Len(jResults) + 1
      BY <1>2, <2>3
    <3>2. CASE k \in 1 .. Len(jResults)
      <4>1. jResults[k].task \in Joined
        BY <3>2 DEF SpawnInv, ResultsOfJoined
      <4>2. QED
        BY <1>2, <3>2, <4>1
    <3>3. QED
      BY <1>2, <3>1, <3>2
  <2>4. \A k \in 1 .. Len(jResults') : jResults'[k].task \in Joined'
    BY <1>4, <2>3
  <2>5. \A j, k \in 1 .. Len(jResults') : jResults'[j].task = jResults'[k].task => j = k
    BY <1>2, <1>3, <2>3 DEF SpawnInv, ResultsOfJoined
  <2>6. QED
    BY <1>2, <2>1, <2>2, <2>4, <2>5 DEF ResultsOfJoined
<1>5. CASE jElapsed > TotalTimeout
  <2>1. /\ jLeft' = "late" /\ jNext' = jNext
        /\ jChild' = [u \in Spawn!Jobs |-> [jChild[u] EXCEPT !.state =
             IF u \in {t} THEN "joined"
             ELSE IF u \in InSet THEN "aborted" ELSE jChild[u].state]]
    BY <1>5 DEF Spawn!Join, Spawn!Leave, InSet
  <2>2. ASSUME NEW u \in Spawn!Jobs
        PROVE  /\ jChild'[u] \in [state : ChildStates, age : 0 .. TaskTimeout]
               /\ jChild'[u].state = IF u = t THEN "joined"
                                     ELSE IF u \in InSet THEN "aborted" ELSE jChild[u].state
    BY <2>1 DEF SpawnInv, SpawnTyped, ChildStates
  <2>3. InSet' = {} /\ Joined' = Joined \union {t}
    BY <2>2, <1>3 DEF InSet, Joined, Spawn!Running, Spawn!Waiting, Spawn!In, Spawn!Ended
  <2>4. jChild' \in [Spawn!Jobs -> [state : ChildStates, age : 0 .. TaskTimeout]]
    BY <2>1, <2>2
  <2>5. SpawnTyped' /\ SetIsFull' /\ StartedInOrder'
    BY <1>1, <1>2, <2>1, <2>3, <2>4
       DEF SpawnInv, SpawnTyped, SetIsFull, StartedInOrder
  <2>6. QED
    BY <1>4, <2>3, <2>5 DEF SpawnInv
<1>6. CASE ~(jElapsed > TotalTimeout)
  <2>1. /\ jLeft' = jLeft
        /\ jNext' = IF jNext <= TaskCount THEN jNext + 1 ELSE jNext
        /\ jChild' = [u \in Spawn!Jobs |->
             CASE u = t -> [jChild[u] EXCEPT !.state = "joined"]
               [] u = jNext -> Spawn!Fresh("running")
               [] OTHER -> jChild[u]]
    BY <1>6 DEF Spawn!Join, Spawn!Refill
  <2>2. t < jNext /\ jNext \in 1 .. TaskCount + 1 /\ t \in Nat
    BY <1>1 DEF SpawnInv, SpawnTyped, StartedInOrder, Spawn!Ended, Spawn!Jobs
  <2>3. ASSUME NEW u \in Spawn!Jobs
        PROVE  /\ jChild'[u] \in [state : ChildStates, age : 0 .. TaskTimeout]
               /\ jChild'[u].state = IF u = t THEN "joined"
                                     ELSE IF u = jNext THEN "running" ELSE jChild[u].state
    <3>1. CASE u = t
      BY <2>1, <3>1, <2>2 DEF SpawnInv, SpawnTyped, ChildStates
    <3>2. CASE u = jNext
      BY <2>1, <3>2, <2>2 DEF ChildStates, Spawn!Fresh
    <3>3. CASE u # t /\ u # jNext
      BY <2>1, <3>3 DEF SpawnInv, SpawnTyped
    <3>4. QED
      BY <2>2, <3>1, <3>2, <3>3
  <2>4. /\ Joined' = Joined \union {t}
        /\ InSet' = IF jNext <= TaskCount THEN (InSet \ {t}) \union {jNext} ELSE InSet \ {t}
    <3>1. jNext <= TaskCount => jNext \in Spawn!Jobs /\ jChild[jNext].state = "none"
      BY <1>1, <2>2 DEF SpawnInv, StartedInOrder, Spawn!Jobs
    <3>2. jNext > TaskCount => jNext \notin Spawn!Jobs
      BY <2>2 DEF Spawn!Jobs
    <3>3. Joined' = Joined \union {t}
      BY <2>3, <3>1 DEF Joined, Spawn!In, Spawn!Jobs
    <3>4. ASSUME NEW u \in Spawn!Jobs
          PROVE  u \in InSet' <=> (u \in InSet /\ u # t) \/ u = jNext
      BY <1>3, <2>2, <2>3, <3>1
         DEF InSet, Spawn!Running, Spawn!Waiting, Spawn!In, Spawn!Ended
    <3>5. InSet' \subseteq Spawn!Jobs
      BY DEF InSet, Spawn!Running, Spawn!Waiting, Spawn!In, Spawn!Jobs
    <3>6. CASE jNext <= TaskCount
      <4>1. InSet' = (InSet \ {t}) \union {jNext}
        BY <1>3, <3>1, <3>4, <3>5, <3>6
      <4>2. QED
        BY <3>3, <3>6, <4>1
    <3>7. CASE ~(jNext <= TaskCount)
      <4>1. jNext \notin Spawn!Jobs
        BY <2>2, <3>2, <3>7
      <4>2. InSet' = InSet \ {t}
        BY <1>3, <3>4, <3>5, <4>1
      <4>3. QED
        BY <3>3, <3>7, <4>2
    <3>8. QED
      BY <3>6, <3>7
  <2>5. SetIsFull'
    <3>1. Cardinality(InSet \ {t}) = Cardinality(InSet) - 1 /\ Cardinality(InSet) \in Nat
      BY <1>3, CountingJobs, JobsFinite
    <3>2. CASE jNext <= TaskCount
      <4>1. jNext \in Spawn!Jobs /\ jNext \notin InSet
        BY <1>1, <2>2, <3>2 DEF SpawnInv, StartedInOrder, Spawn!Jobs, InSet,
           Spawn!Running, Spawn!Waiting, Spawn!In, Spawn!Ended
      <4>2. Cardinality(InSet') = Cardinality(InSet \ {t}) + 1
        BY <1>3, <2>4, <3>2, <4>1, CountingJobs
      <4>3. QED
        BY <1>1, <2>1, <3>1, <3>2, <4>2 DEF SpawnInv, SetIsFull
    <3>3. CASE ~(jNext <= TaskCount)
      BY <1>1, <2>1, <2>2, <2>4, <3>1, <3>3 DEF SpawnInv, SetIsFull
    <3>4. QED
      BY <3>2, <3>3
  <2>6. StartedInOrder'
    <3>1. ASSUME NEW u \in Spawn!Jobs
          PROVE  /\ jChild'[u].state = "none" <=> u >= jNext'
                 /\ jChild'[u].state # "aborted"
      <4>1. u \in Nat /\ u <= TaskCount
        BY DEF Spawn!Jobs
      <4>2. /\ jChild[u].state = "none" <=> u >= jNext
            /\ jChild[u].state # "aborted"
        BY <1>1 DEF SpawnInv, StartedInOrder
      <4>3. jChild'[u].state = IF u = t THEN "joined"
                               ELSE IF u = jNext THEN "running" ELSE jChild[u].state
        BY <2>3
      <4>4. u >= jNext' <=> u >= jNext /\ u # jNext
        BY <2>1, <2>2, <4>1
      <4>5. u = t => ~(u >= jNext)
        BY <2>2
      <4>6. QED
        BY <4>2, <4>3, <4>4, <4>5
    <3>2. QED
      BY <1>1, <2>1, <3>1 DEF StartedInOrder
  <2>7. jChild' \in [Spawn!Jobs -> [state : ChildStates, age : 0 .. TaskTimeout]]
    BY <2>1, <2>3
  <2>8. SpawnTyped'
    BY <1>1, <1>2, <2>1, <2>2, <2>7 DEF SpawnInv, SpawnTyped
  <2>9. QED
    BY <1>4, <2>4, <2>5, <2>6, <2>8 DEF SpawnInv
<1>7. QED
  BY <1>5, <1>6

\* A panic ends the loop: the others are aborted, and no result is added.
LEMMA PanicKeeps ==
  ASSUME Spawn!ParallelAssumption, SpawnInv, NEW t \in Spawn!Jobs, Spawn!JoinPanicked(t)
  PROVE  SpawnInv'
<1>1. /\ jLeft = "no" /\ jChild[t].state = "panic" /\ jLeft' = "panic"
      /\ jChild' = [u \in Spawn!Jobs |-> [jChild[u] EXCEPT !.state =
           IF u \in {t} THEN "joined"
           ELSE IF u \in InSet THEN "aborted" ELSE jChild[u].state]]
      /\ UNCHANGED <<jElapsed, jNext, jResults>>
  BY DEF Spawn!JoinPanicked, Spawn!Leave, InSet
<1>2. ASSUME NEW u \in Spawn!Jobs
      PROVE  /\ jChild'[u] \in [state : ChildStates, age : 0 .. TaskTimeout]
             /\ jChild'[u].state = IF u = t THEN "joined"
                                   ELSE IF u \in InSet THEN "aborted" ELSE jChild[u].state
  BY <1>1 DEF SpawnInv, SpawnTyped, ChildStates
<1>3. InSet' = {} /\ Joined \subseteq Joined'
  BY <1>1, <1>2 DEF InSet, Joined, Spawn!Running, Spawn!Waiting, Spawn!In, Spawn!Ended
<1>4. jChild' \in [Spawn!Jobs -> [state : ChildStates, age : 0 .. TaskTimeout]]
  BY <1>1, <1>2
<1>5. SpawnTyped' /\ SetIsFull' /\ StartedInOrder'
  BY <1>1, <1>3, <1>4 DEF SpawnInv, SpawnTyped, SetIsFull, StartedInOrder
<1>6. ResultsOfJoined'
  BY <1>1, <1>3 DEF SpawnInv, ResultsOfJoined
<1>7. QED
  BY <1>5, <1>6 DEF SpawnInv

\* The invariant of a parallel call holds in every reachable state, for any
\* number of tasks and any limits.
THEOREM SpawnInvariant ==
  ASSUME Spawn!ParallelAssumption PROVE SpawnSafety => []SpawnInv
<1>1. ASSUME SpawnInv, [Spawn!Next]_(Spawn!vars) PROVE SpawnInv'
  <2>1. CASE Spawn!Empty
    <3>1. InSet = {} /\ jLeft = "no" /\ jLeft' = "empty"
          /\ UNCHANGED <<jChild, jElapsed, jNext, jResults>>
      BY <2>1 DEF Spawn!Empty, InSet
    <3>2. InSet' = InSet /\ Joined' = Joined
      BY <3>1 DEF InSet, Joined, Spawn!Running, Spawn!Waiting, Spawn!In
    <3>3. MaxConcurrent > 0 => jNext = TaskCount + 1
      <4>1. Cardinality(InSet) = 0
        BY <3>1, FS_EmptySet
      <4>2. jNext <= TaskCount => MaxConcurrent = 0
        BY <1>1, <3>1, <4>1 DEF SpawnInv, SetIsFull
      <4>3. QED
        BY <1>1, <4>2, SpawnConstants DEF SpawnInv, SpawnTyped
    <3>4. QED
      BY <1>1, <3>1, <3>2, <3>3 DEF SpawnInv, SpawnTyped, SetIsFull,
         StartedInOrder, ResultsOfJoined
  <2>2. CASE UNCHANGED Spawn!vars
    BY <1>1, <2>2 DEF Spawn!vars, SpawnInv, SpawnTyped, SetIsFull, StartedInOrder,
       ResultsOfJoined, InSet, Joined, Spawn!Running, Spawn!Waiting, Spawn!In
  <2>3. QED
    BY <1>1, <2>1, <2>2, ChildKeeps, JoinKeeps, PanicKeeps DEF Spawn!Next, Spawn!Joins
<1>2. QED
  BY <1>1, SpawnInvInit, PTL DEF SpawnSafety

\* Never more tasks at a time than max_concurrent: the JoinSet is filled up to
\* it once, and then one task started for each that is joined.
THEOREM SpawnWithinConcurrency ==
  ASSUME Spawn!ParallelAssumption PROVE SpawnSafety => []Spawn!WithinConcurrency
<1>1. ASSUME SpawnInv PROVE Spawn!WithinConcurrency
  <2>1. Spawn!Running \subseteq InSet /\ InSet \subseteq Spawn!Jobs
    BY DEF InSet, Spawn!Running, Spawn!Waiting, Spawn!In
  <2>2. /\ Cardinality(Spawn!Running) <= Cardinality(InSet)
        /\ Cardinality(Spawn!Running) \in Nat /\ Cardinality(InSet) \in Nat
    BY <2>1, JobsFinite, FS_Subset
  <2>3. Cardinality(InSet) <= MaxConcurrent
    BY <1>1, SpawnConstants, FS_EmptySet DEF SpawnInv, SetIsFull
  <2>4. Cardinality(Spawn!Running) <= MaxConcurrent
    BY <2>2, <2>3, SpawnConstants
  <2>5. QED
    BY <2>4, SameCardinality DEF Spawn!WithinConcurrency
<1>2. QED
  BY <1>1, SpawnInvariant, PTL

\* Every task is accounted for: none has two results, and a call that was not
\* cut short has one for each.
THEOREM SpawnAccounts ==
  ASSUME Spawn!ParallelAssumption PROVE SpawnSafety => []Spawn!AllAccountedFor
<1>1. ASSUME SpawnInv PROVE Spawn!AllAccountedFor
  <2>1. DOMAIN jResults = 1 .. Len(jResults)
    BY <1>1 DEF SpawnInv, SpawnTyped
  <2>2. ASSUME jLeft = "empty", MaxConcurrent > 0
        PROVE  Len(jResults) = TaskCount
    <3>1. \A t \in Spawn!Jobs : jChild[t].state \notin {"none", "aborted"}
      BY <1>1, <2>2, SpawnConstants DEF SpawnInv, StartedInOrder, Spawn!Jobs
    <3>2. InSet = {}
      BY <1>1, <2>2 DEF SpawnInv, SetIsFull
    <3>3. \A t \in Spawn!Jobs : jChild[t].state = "joined"
      BY <1>1, <3>1, <3>2 DEF SpawnInv, SpawnTyped, ChildStates, InSet,
         Spawn!Running, Spawn!Waiting, Spawn!In, Spawn!Ended
    <3>4. Joined = 1 .. TaskCount
      BY <3>3 DEF Joined, Spawn!In, Spawn!Jobs
    <3>5. Cardinality(1 .. TaskCount) = IF 1 > TaskCount THEN 0 ELSE TaskCount - 1 + 1
      <4>1. 1 \in Int /\ TaskCount \in Int
        BY SpawnConstants
      <4>2. QED
        BY <4>1, FS_Interval
    <3>6. Len(jResults) = Cardinality(Joined)
      BY <1>1, <2>2 DEF SpawnInv, ResultsOfJoined
    <3>7. QED
      BY <3>4, <3>5, <3>6, SpawnConstants
  <2>3. QED
    BY <1>1, <2>1, <2>2 DEF SpawnInv, ResultsOfJoined, Spawn!AllAccountedFor
<1>2. QED
  BY <1>1, SpawnInvariant, PTL

\* No task that panicked has a result.
NoPanicKept == \A k \in 1 .. Len(jResults) : jResults[k].verdict # "panic"

\* There is no result at first.
LEMMA NoPanicInit == ASSUME Spawn!Init PROVE NoPanicKept
BY DEF Spawn!Init, NoPanicKept

\* A panic leaves the loop without a result.
LEMMA NoPanicStep ==
  ASSUME Spawn!ParallelAssumption, SpawnInv, NoPanicKept, [Spawn!Next]_(Spawn!vars)
  PROVE  NoPanicKept'
<1>1. CASE \E t \in Spawn!Jobs : Spawn!Join(t)
  <2>1. PICK t \in Spawn!Jobs : Spawn!Join(t)
    BY <1>1
  <2>2. jResults' = Append(jResults, [task |-> t, verdict |-> jChild[t].state])
    BY <2>1 DEF Spawn!Join
  <2>3. jResults \in Seq(Outcome) /\ [task |-> t, verdict |-> jChild[t].state] \in Outcome
        /\ jChild[t].state # "panic"
    BY <2>1 DEF Spawn!Join, SpawnInv, SpawnTyped, Outcome
  <2>4. QED
    BY <2>2, <2>3 DEF NoPanicKept
<1>2. CASE jResults' = jResults
  BY <1>2 DEF NoPanicKept
<1>3. QED
  BY <1>1, <1>2 DEF Spawn!Next, Spawn!vars, Spawn!Ends, Spawn!Joins, Spawn!JoinPanicked,
     Spawn!Empty, Spawn!Tick

\* The types of tasks and results.
LEMMA SpawnTypedFollows ==
  ASSUME Spawn!ParallelAssumption, SpawnInv, NoPanicKept PROVE Spawn!TypeOK
<1>1. SpawnTyped
  BY DEF SpawnInv
<1>2. ASSUME NEW k \in DOMAIN jResults
      PROVE  jResults[k] \in [task : Spawn!Jobs, verdict : Spawn!Ended \ {"panic"}]
  <2>1. k \in 1 .. Len(jResults) /\ jResults[k] \in Outcome
    BY <1>1 DEF SpawnTyped
  <2>2. QED
    BY <2>1 DEF NoPanicKept, Outcome
<1>3. QED
  BY <1>1, <1>2 DEF SpawnTyped, ChildStates, Spawn!TypeOK

\* The types; and a task that panicked has no result.
THEOREM SpawnStates == ASSUME Spawn!ParallelAssumption PROVE SpawnSafety => []Spawn!TypeOK
<1>1. Spawn!Init => NoPanicKept
  BY NoPanicInit
<1>2. SpawnInv /\ NoPanicKept /\ [Spawn!Next]_(Spawn!vars) => (NoPanicKept)'
  BY NoPanicStep
<1>3. SpawnInv /\ NoPanicKept => Spawn!TypeOK
  BY SpawnTypedFollows
<1>4. QED
  BY <1>1, <1>2, <1>3, SpawnInvariant, PTL DEF SpawnSafety

-----------------------------------------------------------------------------
(* A streamed completion                                                    *)


Collected == UNION {[D -> Stream!Call] : D \in SUBSET AnswerCalls}
Chunks ==
  [text : BOOLEAN, thought : BOOLEAN, calls : Collected, done : BOOLEAN,
   error : {"none", "stream", "event"}]

StreamTyped ==
  /\ nApi \in Stream!Apis /\ nParser \in BOOLEAN
  /\ nPhase \in {"connect", "read", "done", "failed"}
  /\ nRetries \in 0 .. MaxRetries
  /\ nSaid \in [text : Seq(Nat), thoughts : Nat, calls : Collected, over : BOOLEAN]
  /\ nAcc \in Collected
  /\ nQueue \in Seq(Chunks) /\ Len(nQueue) <= StreamCap
  /\ nGot \in [text : Seq(Nat), calls : Collected]
  /\ nPoll \in [waited : 0 .. Absolute, first : BOOLEAN]
  /\ nHealth \in [any : 0 .. Absolute, content : 0 .. Absolute,
                  stale : BOOLEAN, thinking : BOOLEAN]

\* What was said, and what has arrived, is of the attempt that is being read.
OfThisAttempt ==
  /\ \A i \in 1 .. Len(nSaid.text) : nSaid.text[i] = nRetries
  /\ \A i \in 1 .. Len(nGot.text) : nGot.text[i] = nRetries

\* Along the chunks of a queue, count goes from one number of pieces of text
\* to another.
Counting(count, chunks, from, to) ==
  /\ count \in [0 .. Len(chunks) -> Nat]
  /\ count[0] = from /\ count[Len(chunks)] = to
  /\ \A i \in 1 .. Len(chunks) :
       count[i] = IF chunks[i].text THEN count[i - 1] + 1 ELSE count[i - 1]

\* Until the answer is over the parser holds all of its calls; then chunk k
\* holds them, or, when k is 0, the runner.  All of the text is before it, and
\* no chunk before it ends the stream.
CallsAre(k, count) ==
  /\ k \in 0 .. Len(nQueue)
  /\ \A i \in 1 .. Len(nQueue) : i # k => nQueue[i].calls = Stream!NoCalls
  /\ \A i \in 1 .. Len(nQueue) : nQueue[i].done => nSaid.over /\ k <= i
  /\ ~nSaid.over => k = 0 /\ nAcc = nSaid.calls /\ nGot.calls = Stream!NoCalls
  /\ nSaid.over =>
       /\ nAcc = Stream!NoCalls
       /\ k = 0 => nGot.calls = nSaid.calls
       /\ k # 0 => nQueue[k].calls = nSaid.calls /\ nGot.calls = Stream!NoCalls
       /\ \A i \in k .. Len(nQueue) : count[i] = Len(nSaid.text)

NothingAstray ==
  \E count \in [0 .. Len(nQueue) -> Nat], k \in 0 .. Len(nQueue) :
    Counting(count, nQueue, Len(nGot.text), Len(nSaid.text)) /\ CallsAre(k, count)

StreamInv ==
  /\ StreamTyped
  /\ nPhase = "read" => OfThisAttempt /\ NothingAstray
  /\ Stream!AnswerIsWhole /\ Stream!NoHalfCall

\* The constants as numbers.
LEMMA StreamConstants ==
  ASSUME Stream!StreamAssumption
  PROVE  /\ MaxText \in Nat /\ MaxArgs \in Nat /\ MaxRetries \in Nat
         /\ StreamCap \in Nat \ {0} /\ FirstByte \in Nat \ {0} /\ StreamIdle \in Nat \ {0}
         /\ StalePoll \in Nat \ {0} /\ NoProgress \in Nat \ {0} /\ Absolute \in Nat \ {0}
BY DEF Stream!StreamAssumption

\* Having no calls is a way of having collected some.
LEMMA NoneCollected ==
  /\ Stream!NoCalls \in Collected /\ DOMAIN Stream!NoCalls = {}
  /\ \A calls \in Collected : DOMAIN calls = {} => calls = Stream!NoCalls
<1>1. Stream!NoCalls = [i \in {} |-> 0]
  BY DEF Stream!NoCalls
<1>2. [i \in {} |-> 0] \in [{} -> Stream!Call] /\ {} \in SUBSET AnswerCalls
  OBVIOUS
<1>3. QED
  BY <1>1, <1>2 DEF Collected

\* What is collected has a call for each of its indexes.
LEMMA CollectedCalls ==
  ASSUME NEW calls
  PROVE  calls \in Collected <=>
           /\ calls = [i \in DOMAIN calls |-> calls[i]]
           /\ DOMAIN calls \subseteq AnswerCalls
           /\ \A i \in DOMAIN calls : calls[i] \in Stream!Call
BY DEF Collected

\* A piece of a call keeps the collection typed.
LEMMA WithTyped ==
  ASSUME NEW calls \in Collected, NEW i \in AnswerCalls, NEW call \in Stream!Call
  PROVE  Stream!With(calls, i, call) \in Collected
<1> DEFINE w == Stream!With(calls, i, call)
<1>1. DOMAIN w = DOMAIN calls \union {i} /\ w = [j \in DOMAIN w |-> w[j]]
      /\ \A j \in DOMAIN w : w[j] = IF j = i THEN call ELSE calls[j]
  BY DEF Stream!With
<1>2. DOMAIN calls \subseteq AnswerCalls /\ \A j \in DOMAIN calls : calls[j] \in Stream!Call
  BY CollectedCalls
<1>3. DOMAIN w \subseteq AnswerCalls /\ \A j \in DOMAIN w : w[j] \in Stream!Call
  BY <1>1, <1>2
<1>4. QED
  BY <1>1, <1>3, CollectedCalls

\* To put calls together with none changes nothing, on either side.
LEMMA MergedWithNone ==
  ASSUME Stream!StreamAssumption, NEW calls \in Collected
  PROVE  /\ Stream!Merged(calls, Stream!NoCalls) = calls
         /\ Stream!Merged(Stream!NoCalls, calls) = calls
<1>1. /\ calls = [i \in DOMAIN calls |-> calls[i]]
      /\ \A i \in DOMAIN calls : calls[i] \in Stream!Call
  BY CollectedCalls
<1>2. Stream!Merged(calls, Stream!NoCalls) = calls
  BY <1>1, NoneCollected DEF Stream!Merged
<1>3. \A i \in DOMAIN calls :
        [named |-> calls[i].named \/ Stream!Entry(Stream!NoCalls, i).named,
         args |-> Stream!Entry(Stream!NoCalls, i).args + calls[i].args] = calls[i]
  <2>1. TAKE i \in DOMAIN calls
  <2>2. calls[i] \in [named : BOOLEAN, args : 0 .. MaxArgs]
    BY <1>1 DEF Stream!Call
  <2>3. Stream!Entry(Stream!NoCalls, i) = [named |-> FALSE, args |-> 0]
    BY NoneCollected DEF Stream!Entry
  <2>4. /\ calls[i] = [named |-> calls[i].named, args |-> calls[i].args]
        /\ calls[i].named \in BOOLEAN /\ calls[i].args \in 0 .. MaxArgs
    BY <2>2
  <2>5. (calls[i].named \/ FALSE) = calls[i].named
    BY <2>4
  <2>6. 0 + calls[i].args = calls[i].args
    BY <2>4, StreamConstants
  <2>7. QED
    BY <2>3, <2>4, <2>5, <2>6
<1>4. Stream!Merged(Stream!NoCalls, calls) = calls
  BY <1>1, <1>3, NoneCollected DEF Stream!Merged
<1>5. QED
  BY <1>2, <1>4

\* One more chunk on the queue goes on counting.
LEMMA CountingOn ==
  ASSUME NEW chunks \in Seq(Chunks), NEW chunk \in Chunks, NEW from \in Nat, NEW to \in Nat,
         NEW count, Counting(count, chunks, from, to)
  PROVE  \E more : /\ Counting(more, Append(chunks, chunk), from,
                               IF chunk.text THEN to + 1 ELSE to)
                   /\ \A i \in 0 .. Len(chunks) : more[i] = count[i]
<1> DEFINE n == Len(chunks)
<1> DEFINE sum == IF chunk.text THEN to + 1 ELSE to
<1> DEFINE longer == Append(chunks, chunk)
<1>1. /\ n \in Nat /\ Len(longer) = n + 1 /\ longer[n + 1] = chunk
      /\ \A i \in 1 .. n : longer[i] = chunks[i]
  OBVIOUS
<1>2. sum \in Nat
  OBVIOUS
<1>3. /\ count \in [0 .. n -> Nat] /\ count[0] = from /\ count[n] = to
      /\ \A i \in 1 .. n :
           count[i] = IF chunks[i].text THEN count[i - 1] + 1 ELSE count[i - 1]
  BY DEF Counting
<1> HIDE DEF n, longer
<1> DEFINE more == [i \in 0 .. n + 1 |-> IF i = n + 1 THEN sum ELSE count[i]]
<1>4. /\ more \in [0 .. n + 1 -> Nat] /\ more[n + 1] = sum
      /\ \A i \in 0 .. n : more[i] = count[i]
  <2> HIDE DEF sum
  <2>1. \A i \in 0 .. n : i # n + 1 /\ i \in 0 .. n + 1 /\ count[i] \in Nat
    BY <1>1, <1>3
  <2>2. n + 1 \in 0 .. n + 1 /\ \A i \in 0 .. n + 1 : i # n + 1 => i \in 0 .. n
    BY <1>1
  <2>3. QED
    BY <1>2, <2>1, <2>2
<1> HIDE DEF more
<1>5. more[0] = from
  BY <1>1, <1>3, <1>4
<1>6. ASSUME NEW i \in 1 .. n + 1
      PROVE  more[i] = IF longer[i].text THEN more[i - 1] + 1 ELSE more[i - 1]
  <2>1. CASE i = n + 1
    <3>1. longer[i] = chunk /\ more[i] = sum
      BY <1>1, <1>4, <2>1
    <3>2. i - 1 = n /\ n \in 0 .. n
      BY <1>1, <2>1
    <3>3. more[i - 1] = to
      BY <1>3, <1>4, <3>2
    <3>4. QED
      BY <3>1, <3>3
  <2>2. CASE i # n + 1
    <3>1. i \in 1 .. n /\ i \in 0 .. n /\ i - 1 \in 0 .. n
      BY <1>1, <2>2
    <3>2. more[i] = count[i] /\ more[i - 1] = count[i - 1] /\ longer[i] = chunks[i]
      BY <1>1, <1>4, <3>1
    <3>3. QED
      BY <1>3, <3>1, <3>2
  <2>3. QED
    BY <2>1, <2>2
<1>7. Counting(more, longer, from, sum)
  <2>1. Len(longer) = n + 1
    BY <1>1
  <2>2. QED
    BY <1>4, <1>5, <1>6, <2>1 DEF Counting
<1>8. QED
  BY <1>4, <1>7 DEF n, longer

\* Without its first chunk a queue counts from where that one led.
LEMMA CountingLess ==
  ASSUME NEW chunks \in Seq(Chunks), chunks # <<>>, NEW from \in Nat, NEW to \in Nat,
         NEW count, Counting(count, chunks, from, to)
  PROVE  \E less : /\ Counting(less, Tail(chunks),
                               IF Head(chunks).text THEN from + 1 ELSE from, to)
                   /\ \A i \in 0 .. Len(chunks) - 1 : less[i] = count[i + 1]
<1> DEFINE n == Len(chunks) - 1
<1> DEFINE rest == Tail(chunks)
<1>1. /\ n \in Nat /\ Len(chunks) = n + 1 /\ Len(rest) = n /\ Head(chunks) = chunks[1]
      /\ \A i \in 1 .. n : rest[i] = chunks[i + 1]
  OBVIOUS
<1>2. /\ count \in [0 .. n + 1 -> Nat] /\ count[0] = from /\ count[n + 1] = to
      /\ \A i \in 1 .. n + 1 :
           count[i] = IF chunks[i].text THEN count[i - 1] + 1 ELSE count[i - 1]
  BY <1>1 DEF Counting
<1> HIDE DEF n, rest
<1> DEFINE less == [i \in 0 .. n |-> count[i + 1]]
<1>3. less \in [0 .. n -> Nat] /\ \A i \in 0 .. n : less[i] = count[i + 1]
  <2>1. \A i \in 0 .. n : i + 1 \in 0 .. n + 1
    BY <1>1
  <2>2. QED
    BY <1>2, <2>1
<1> HIDE DEF less
<1>4. less[n] = to
  BY <1>1, <1>2, <1>3
<1>5. less[0] = IF Head(chunks).text THEN from + 1 ELSE from
  <2>1. 1 \in 1 .. n + 1 /\ 0 \in 0 .. n /\ 1 - 1 = 0 /\ 0 + 1 = 1
    BY <1>1
  <2>2. less[0] = count[1]
    BY <1>3, <2>1
  <2>3. count[1] = IF chunks[1].text THEN count[0] + 1 ELSE count[0]
    BY <1>2, <2>1
  <2>4. QED
    BY <1>1, <1>2, <2>2, <2>3
<1>6. ASSUME NEW i \in 1 .. n
      PROVE  less[i] = IF rest[i].text THEN less[i - 1] + 1 ELSE less[i - 1]
  <2>1. /\ i \in 0 .. n /\ i - 1 \in 0 .. n /\ i + 1 \in 1 .. n + 1
        /\ (i + 1) - 1 = i /\ (i - 1) + 1 = i
    BY <1>1
  <2>2. less[i] = count[i + 1] /\ less[i - 1] = count[i] /\ rest[i] = chunks[i + 1]
    BY <1>1, <1>3, <2>1
  <2>3. count[i + 1] = IF chunks[i + 1].text THEN count[i] + 1 ELSE count[i]
    BY <1>2, <2>1
  <2>4. QED
    BY <2>2, <2>3
<1>7. Counting(less, rest, IF Head(chunks).text THEN from + 1 ELSE from, to)
  <2> DEFINE start == IF Head(chunks).text THEN from + 1 ELSE from
  <2>1. Len(rest) = n /\ less[0] = start
    BY <1>1, <1>5
  <2> HIDE DEF start
  <2>2. Counting(less, rest, start, to)
    BY <1>3, <1>4, <1>6, <2>1 DEF Counting
  <2>3. QED
    BY <2>2 DEF start
<1>8. QED
  <2>1. \A i \in 0 .. Len(chunks) - 1 : less[i] = count[i + 1]
    BY <1>1, <1>3
  <2>2. QED
    BY <1>7, <2>1 DEF rest

\* At the start nothing has been said.
LEMMA StreamInvInit ==
  ASSUME Stream!StreamAssumption, Stream!Init
  PROVE  StreamInv
<1>1. /\ nApi \in Stream!Apis /\ nParser = FALSE /\ nPhase = "connect" /\ nRetries = 0
      /\ nQueue = <<>> /\ nAcc = Stream!NoCalls
      /\ nSaid = [text |-> <<>>, thoughts |-> 0, calls |-> Stream!NoCalls, over |-> FALSE]
      /\ nGot = [text |-> <<>>, calls |-> Stream!NoCalls]
      /\ nPoll = [waited |-> 0, first |-> TRUE]
      /\ nHealth = [any |-> 0, content |-> 0, stale |-> FALSE, thinking |-> FALSE]
  BY DEF Stream!Init, Stream!Silence, Stream!Nothing, Stream!Fresh
<1>2. /\ nRetries \in 0 .. MaxRetries /\ Len(nQueue) <= StreamCap /\ nQueue \in Seq(Chunks)
  BY <1>1, StreamConstants
<1>3. /\ nSaid \in [text : Seq(Nat), thoughts : Nat, calls : Collected, over : BOOLEAN]
      /\ nGot \in [text : Seq(Nat), calls : Collected]
  BY <1>1, NoneCollected
<1>4. /\ nPoll \in [waited : 0 .. Absolute, first : BOOLEAN]
      /\ nHealth \in [any : 0 .. Absolute, content : 0 .. Absolute,
                      stale : BOOLEAN, thinking : BOOLEAN]
  BY <1>1, StreamConstants
<1>5. QED
  BY <1>1, <1>2, <1>3, <1>4, NoneCollected
     DEF StreamInv, StreamTyped, Stream!AnswerIsWhole, Stream!NoHalfCall

\* A chunk goes on the queue: text as it is said, the calls when the answer is
\* over, or neither.
LEMMA SendingKeeps ==
  ASSUME StreamTyped, NothingAstray, NEW chunk \in Chunks,
         nQueue' = Append(nQueue, chunk), nGot' = nGot,
         nSaid'.text \in Seq(Nat),
         Len(nSaid'.text) = IF chunk.text THEN Len(nSaid.text) + 1 ELSE Len(nSaid.text),
         nSaid'.calls = nSaid.calls, nSaid'.over \in BOOLEAN,
         chunk.text => ~nSaid'.over, chunk.done => nSaid'.over,
         \/ nSaid'.over = nSaid.over /\ nAcc' = nAcc /\ chunk.calls = Stream!NoCalls
         \/ ~nSaid.over /\ nSaid'.over /\ nAcc' = Stream!NoCalls /\ chunk.calls = nSaid.calls
  PROVE  NothingAstray'
<1> DEFINE n == Len(nQueue)
<1> DEFINE to == Len(nSaid.text)
<1> DEFINE told == Len(nSaid'.text)
<1>1. /\ n \in Nat /\ to \in Nat /\ Len(nGot.text) \in Nat /\ nQueue \in Seq(Chunks)
      /\ nSaid.over \in BOOLEAN /\ told \in Nat
  BY DEF StreamTyped
<1>2. PICK count, k : /\ Counting(count, nQueue, Len(nGot.text), to) /\ CallsAre(k, count)
                      /\ k \in 0 .. n
  BY DEF NothingAstray
<1>3. PICK more : /\ Counting(more, Append(nQueue, chunk), Len(nGot.text),
                              IF chunk.text THEN to + 1 ELSE to)
                  /\ \A i \in 0 .. n : more[i] = count[i]
  BY <1>1, <1>2, CountingOn
<1>4. /\ Len(nQueue') = n + 1 /\ nQueue'[n + 1] = chunk
      /\ \A i \in 1 .. n : nQueue'[i] = nQueue[i]
  BY <1>1
<1>5. Counting(more, nQueue', Len(nGot'.text), told)
  BY <1>3
<1>6. more \in [0 .. n + 1 -> Nat] /\ more[n + 1] = told
  BY <1>4, <1>5 DEF Counting
<1>7. /\ k \in 0 .. n
      /\ \A i \in 1 .. n : i # k => nQueue[i].calls = Stream!NoCalls
      /\ \A i \in 1 .. n : nQueue[i].done => nSaid.over /\ k <= i
      /\ ~nSaid.over => k = 0 /\ nAcc = nSaid.calls /\ nGot.calls = Stream!NoCalls
      /\ nSaid.over =>
           /\ nAcc = Stream!NoCalls
           /\ k = 0 => nGot.calls = nSaid.calls
           /\ k # 0 => nQueue[k].calls = nSaid.calls /\ nGot.calls = Stream!NoCalls
           /\ \A i \in k .. n : count[i] = to
  BY <1>2 DEF CallsAre
<1> HIDE DEF n, to, told
<1>8. CASE nSaid'.over = nSaid.over
  <2>1. nAcc' = nAcc /\ chunk.calls = Stream!NoCalls
    BY <1>8
  <2>2. \A i \in 1 .. n + 1 : i = n + 1 \/ i \in 1 .. n
    BY <1>1
  <2>3. k \in 0 .. n + 1 /\ k <= n + 1
    BY <1>1, <1>7
  <2>4. \A i \in 1 .. n + 1 : i # k => nQueue'[i].calls = Stream!NoCalls
    BY <1>4, <1>7, <2>1, <2>2
  <2>5. \A i \in 1 .. n + 1 : nQueue'[i].done => nSaid'.over /\ k <= i
    BY <1>4, <1>7, <1>8, <2>2, <2>3
  <2>6. k # 0 => nQueue'[k] = nQueue[k]
    BY <1>4, <1>7, <1>1
  <2>7. nSaid.over => told = to
    BY <1>8, <1>1 DEF told, to
  <2>8. nSaid.over => \A i \in k .. n + 1 : more[i] = told
    <3>1. \A i \in k .. n + 1 : i = n + 1 \/ (i \in k .. n /\ i \in 0 .. n)
      BY <1>1, <1>7
    <3>2. QED
      BY <1>3, <1>6, <1>7, <2>7, <3>1 DEF n, to
  <2>9. CallsAre(k, more)'
    BY <1>4, <1>7, <1>8, <2>1, <2>3, <2>4, <2>5, <2>6, <2>8 DEF CallsAre, told
  <2>10. QED
    BY <1>4, <1>5, <1>6, <2>3, <2>9 DEF NothingAstray, told
<1>9. CASE nSaid'.over # nSaid.over
  <2>1. ~nSaid.over /\ nSaid'.over /\ nAcc' = Stream!NoCalls /\ chunk.calls = nSaid.calls
    BY <1>9
  <2>2. \A i \in 1 .. n + 1 : i = n + 1 \/ (i \in 1 .. n /\ i # k)
    BY <1>1, <1>7, <2>1
  <2>3. n + 1 \in 0 .. n + 1 /\ n + 1 # 0 /\ \A i \in n + 1 .. n + 1 : i = n + 1
    BY <1>1
  <2>4. \A i \in 1 .. n + 1 : i # n + 1 => nQueue'[i].calls = Stream!NoCalls
    BY <1>4, <1>7, <2>2
  <2>5. \A i \in 1 .. n + 1 : nQueue'[i].done => nSaid'.over /\ n + 1 <= i
    BY <1>1, <1>4, <1>7, <2>1, <2>2
  <2>6. nGot'.calls = Stream!NoCalls /\ nQueue'[n + 1].calls = nSaid'.calls
    BY <1>4, <1>7, <2>1
  <2>7. \A i \in n + 1 .. n + 1 : more[i] = told
    BY <1>6, <2>3
  <2>8. PICK last : last = n + 1
    OBVIOUS
  <2>9. CallsAre(last, more)'
    BY <1>4, <2>1, <2>3, <2>4, <2>5, <2>6, <2>7, <2>8 DEF CallsAre, told
  <2>10. QED
    BY <1>4, <1>5, <1>6, <2>3, <2>8, <2>9 DEF NothingAstray, told
<1>10. QED
  BY <1>8, <1>9

\* One more piece of text of this attempt.
LEMMA Spoken ==
  ASSUME NEW text \in Seq(Nat), NEW n \in Nat, \A i \in 1 .. Len(text) : text[i] = n
  PROVE  /\ Append(text, n) \in Seq(Nat) /\ Len(Append(text, n)) = Len(text) + 1
         /\ \A i \in 1 .. Len(Append(text, n)) : Append(text, n)[i] = n
OBVIOUS

\* A chunk that is sent is well typed, and so is the queue it goes on.
LEMMA SentTyped ==
  ASSUME Stream!StreamAssumption, StreamTyped, NEW chunk \in Chunks, Stream!Send(chunk)
  PROVE  /\ nQueue' = Append(nQueue, chunk)
         /\ nQueue' \in Seq(Chunks) /\ Len(nQueue') <= StreamCap
<1>1. Len(nQueue) < StreamCap /\ nQueue' = Append(nQueue, chunk) /\ nQueue \in Seq(Chunks)
  BY DEF Stream!Send, StreamTyped
<1>2. Len(nQueue) \in Nat /\ Len(nQueue') = Len(nQueue) + 1 /\ nQueue' \in Seq(Chunks)
  BY <1>1
<1>3. Len(nQueue') <= StreamCap
  BY <1>1, <1>2, StreamConstants
<1>4. QED
  BY <1>1, <1>2, <1>3

\* The chunk that ends an answer, and the one that ends a stream.
LEMMA ChunkWithCalls ==
  ASSUME NEW calls \in Collected, NEW done \in BOOLEAN, NEW chunk,
         chunk = [Stream!Chunk EXCEPT !.calls = calls, !.done = done]
  PROVE  chunk \in Chunks /\ ~chunk.text /\ chunk.calls = calls /\ chunk.done = done
<1>1. chunk \in Chunks
  BY NoneCollected DEF Stream!Chunk, Chunks
<1>2. QED
  BY <1>1 DEF Stream!Chunk

\* The parser sends a chunk.
LEMMA ParserSends ==
  ASSUME Stream!StreamAssumption, StreamInv,
         \/ Stream!Speak \/ Stream!Think
         \/ \E cut \in BOOLEAN : Stream!OpenAiFinish(cut)
         \/ Stream!MessageDelta \/ Stream!Stop
         \/ \E error \in {"stream", "event"} : Stream!Breaks(error)
  PROVE  StreamInv'
<1>1. SUFFICES ASSUME nPhase = "read", nPhase' = nPhase, nRetries' = nRetries, nGot' = nGot,
                      nPoll' = nPoll, nHealth' = nHealth, nApi' = nApi
               PROVE  StreamInv'
  BY DEF Stream!Speak, Stream!Think, Stream!OpenAiFinish, Stream!MessageDelta, Stream!Stop,
     Stream!Breaks, Stream!Listening, Stream!runner
<1>2. StreamTyped /\ OfThisAttempt /\ NothingAstray
  BY <1>1 DEF StreamInv
<1>3. /\ nSaid \in [text : Seq(Nat), thoughts : Nat, calls : Collected, over : BOOLEAN]
      /\ nAcc \in Collected /\ nRetries \in Nat /\ nParser \in BOOLEAN
      /\ nSaid.text \in Seq(Nat) /\ nSaid.over \in BOOLEAN /\ nSaid.calls \in Collected
  BY <1>2, StreamConstants DEF StreamTyped
<1>4. /\ nSaid.over => nAcc = Stream!NoCalls
      /\ ~nSaid.over => nAcc = nSaid.calls
  BY <1>2 DEF NothingAstray, CallsAre
<1> DEFINE Sends(chunk) ==
      /\ chunk \in Chunks /\ nQueue' = Append(nQueue, chunk)
      /\ nQueue' \in Seq(Chunks) /\ Len(nQueue') <= StreamCap
      /\ Len(nSaid'.text) = IF chunk.text THEN Len(nSaid.text) + 1 ELSE Len(nSaid.text)
      /\ chunk.text => ~nSaid'.over
      /\ chunk.done => nSaid'.over
      /\ \/ nSaid'.over = nSaid.over /\ nAcc' = nAcc /\ chunk.calls = Stream!NoCalls
         \/ ~nSaid.over /\ nSaid'.over /\ nAcc' = Stream!NoCalls /\ chunk.calls = nSaid.calls
<1> DEFINE Says ==
      /\ nSaid' \in [text : Seq(Nat), thoughts : Nat, calls : Collected, over : BOOLEAN]
      /\ \A i \in 1 .. Len(nSaid'.text) : nSaid'.text[i] = nRetries
      /\ nSaid'.calls = nSaid.calls
      /\ nAcc' \in Collected /\ nParser' \in BOOLEAN
<1>5. (\E chunk : Sends(chunk)) /\ Says
  <2>1. CASE Stream!Speak
    <3>1. /\ ~nSaid.over /\ nAcc' = nAcc /\ nParser' = nParser
          /\ nSaid' = [nSaid EXCEPT !.text = Append(nSaid.text, nRetries)]
      BY <2>1 DEF Stream!Speak
    <3>2. PICK chunk : /\ chunk = [text |-> TRUE, thought |-> FALSE, calls |-> Stream!NoCalls,
                                   done |-> FALSE, error |-> "none"]
                       /\ Stream!Send(chunk)
      BY <2>1 DEF Stream!Speak, Stream!Chunk
    <3>3. chunk \in Chunks /\ chunk.text /\ ~chunk.done /\ chunk.calls = Stream!NoCalls
      BY <3>2, NoneCollected DEF Chunks
    <3>4. /\ nSaid'.text = Append(nSaid.text, nRetries) /\ nSaid'.over = nSaid.over
          /\ nSaid'.calls = nSaid.calls
      BY <1>3, <3>1
    <3>5. \A i \in 1 .. Len(nSaid.text) : nSaid.text[i] = nRetries
      BY <1>2 DEF OfThisAttempt
    <3>6. /\ Append(nSaid.text, nRetries) \in Seq(Nat)
          /\ Len(Append(nSaid.text, nRetries)) = Len(nSaid.text) + 1
          /\ \A i \in 1 .. Len(Append(nSaid.text, nRetries)) :
               Append(nSaid.text, nRetries)[i] = nRetries
      BY <1>3, <3>5, Spoken
    <3>7. nSaid' \in [text : Seq(Nat), thoughts : Nat, calls : Collected, over : BOOLEAN]
      BY <1>3, <3>1, <3>6
    <3>8. Sends(chunk)
      BY <1>2, <3>1, <3>2, <3>3, <3>4, <3>6, SentTyped
    <3>9. Says
      BY <1>3, <3>1, <3>4, <3>6, <3>7
    <3>10. QED
      BY <3>8, <3>9
  <2>2. CASE Stream!Think
    <3>1. /\ ~nSaid.over /\ nAcc' = nAcc /\ nParser' = nParser
          /\ nSaid' = [nSaid EXCEPT !.thoughts = nSaid.thoughts + 1]
      BY <2>2 DEF Stream!Think
    <3>2. PICK chunk : /\ chunk = [text |-> FALSE, thought |-> TRUE, calls |-> Stream!NoCalls,
                                   done |-> FALSE, error |-> "none"]
                       /\ Stream!Send(chunk)
      BY <2>2 DEF Stream!Think, Stream!Chunk
    <3>3. chunk \in Chunks /\ ~chunk.text /\ ~chunk.done /\ chunk.calls = Stream!NoCalls
      BY <3>2, NoneCollected DEF Chunks
    <3>4. /\ nSaid'.text = nSaid.text /\ nSaid'.over = nSaid.over /\ nSaid'.calls = nSaid.calls
          /\ nSaid' \in [text : Seq(Nat), thoughts : Nat, calls : Collected, over : BOOLEAN]
      BY <1>3, <3>1
    <3>5. Sends(chunk)
      BY <1>2, <3>1, <3>2, <3>3, <3>4, SentTyped
    <3>6. Says
      BY <1>2, <1>3, <3>1, <3>4 DEF OfThisAttempt
    <3>7. QED
      BY <3>5, <3>6
  <2>3. ASSUME NEW done \in BOOLEAN, ~nSaid.over, Stream!ClearCalls, nParser' = nParser,
               Stream!Send([Stream!Chunk EXCEPT !.calls = nAcc, !.done = done]),
               nSaid' = [nSaid EXCEPT !.over = TRUE]
        PROVE  (\E chunk : Sends(chunk)) /\ Says
    <3>1. nAcc' = Stream!NoCalls
      BY <2>3 DEF Stream!ClearCalls
    <3>2. PICK chunk : /\ chunk = [Stream!Chunk EXCEPT !.calls = nAcc, !.done = done]
                       /\ Stream!Send(chunk)
      BY <2>3
    <3>3. chunk \in Chunks /\ ~chunk.text /\ chunk.calls = nSaid.calls
      <4>1. nAcc \in Collected
        BY <1>3
      <4>2. nAcc = nSaid.calls
        BY <1>4, <2>3
      <4>3. QED
        BY <4>1, <4>2, <3>2, ChunkWithCalls
    <3>4. /\ nSaid'.text = nSaid.text /\ nSaid'.over /\ nSaid'.calls = nSaid.calls
          /\ nSaid' \in [text : Seq(Nat), thoughts : Nat, calls : Collected, over : BOOLEAN]
      BY <1>3, <2>3
    <3>5. Sends(chunk)
      BY <1>2, <2>3, <3>1, <3>2, <3>3, <3>4, SentTyped
    <3>6. Says
      BY <1>2, <1>3, <2>3, <3>1, <3>4, NoneCollected DEF OfThisAttempt
    <3>7. QED
      BY <3>5, <3>6
  <2>4. ASSUME NEW cut \in BOOLEAN, Stream!OpenAiFinish(cut)
        PROVE  (\E chunk : Sends(chunk)) /\ Says
    BY <2>3, <2>4 DEF Stream!OpenAiFinish
  <2>5. CASE Stream!MessageDelta
    <3>1. [Stream!Chunk EXCEPT !.calls = nAcc]
            = [Stream!Chunk EXCEPT !.calls = nAcc, !.done = FALSE]
      <4>1. Stream!Chunk.done = FALSE
        BY DEF Stream!Chunk
      <4>2. QED
        BY <4>1
    <3>2. QED
      BY <2>3, <2>5, <3>1 DEF Stream!MessageDelta
  <2>6. CASE Stream!Stop
    <3>1. nSaid.over /\ nSaid' = nSaid /\ nAcc' = Stream!NoCalls /\ nParser' = FALSE
      BY <2>6 DEF Stream!Stop, Stream!ClearCalls
    <3>2. PICK chunk : /\ chunk = [Stream!Chunk EXCEPT !.calls = nAcc, !.done = TRUE]
                       /\ Stream!Send(chunk)
      BY <2>6 DEF Stream!Stop
    <3>3. chunk \in Chunks /\ ~chunk.text /\ chunk.calls = Stream!NoCalls
      BY <1>3, <1>4, <3>1, <3>2, ChunkWithCalls
    <3>4. Sends(chunk)
      BY <1>2, <1>4, <3>1, <3>2, <3>3, SentTyped
    <3>5. Says
      BY <1>2, <1>3, <3>1, NoneCollected DEF OfThisAttempt
    <3>6. QED
      BY <3>4, <3>5
  <2>7. ASSUME NEW error \in {"stream", "event"}, Stream!Breaks(error)
        PROVE  (\E chunk : Sends(chunk)) /\ Says
    <3>1. nSaid' = nSaid /\ nAcc' = nAcc /\ nParser' = FALSE
      BY <2>7 DEF Stream!Breaks
    <3>2. PICK chunk : /\ chunk = [text |-> FALSE, thought |-> FALSE, calls |-> Stream!NoCalls,
                                   done |-> FALSE, error |-> error]
                       /\ Stream!Send(chunk)
      BY <2>7 DEF Stream!Breaks, Stream!Chunk
    <3>3. chunk \in Chunks /\ ~chunk.text /\ ~chunk.done /\ chunk.calls = Stream!NoCalls
      BY <2>7, <3>2, NoneCollected DEF Chunks
    <3>4. Sends(chunk)
      BY <1>2, <3>1, <3>2, <3>3, SentTyped
    <3>5. Says
      BY <1>2, <1>3, <3>1 DEF OfThisAttempt
    <3>6. QED
      BY <3>4, <3>5
  <2>8. QED
    BY <2>1, <2>2, <2>4, <2>5, <2>6, <2>7
<1>6. PICK chunk : Sends(chunk)
  BY <1>5
<1>7. nSaid'.text \in Seq(Nat) /\ nSaid'.over \in BOOLEAN
  BY <1>5
<1>8. NothingAstray'
  BY <1>1, <1>2, <1>5, <1>6, <1>7, SendingKeeps
<1>9. StreamTyped'
  BY <1>1, <1>2, <1>5, <1>6 DEF StreamTyped
<1>10. OfThisAttempt'
  BY <1>1, <1>2, <1>5 DEF OfThisAttempt
<1>11. QED
  BY <1>1, <1>8, <1>9, <1>10 DEF StreamInv, Stream!AnswerIsWhole, Stream!NoHalfCall

\* A piece of a call: the parser collects exactly what is said.
LEMMA SaysKeeps ==
  ASSUME Stream!StreamAssumption, StreamInv, Stream!Says
  PROVE  StreamInv'
<1>1. PICK i \in AnswerCalls : Stream!OpenAiDelta(i) \/ Stream!BlockStart(i) \/ Stream!InputDelta(i)
  BY DEF Stream!Says
<1>2. /\ nPhase = "read" /\ ~nSaid.over /\ nPhase' = nPhase /\ nRetries' = nRetries /\ nGot' = nGot
      /\ nPoll' = nPoll /\ nHealth' = nHealth /\ nApi' = nApi /\ nQueue' = nQueue /\
           nParser' = nParser
  BY <1>1 DEF Stream!OpenAiDelta, Stream!BlockStart, Stream!InputDelta,
     Stream!Say, Stream!Listening, Stream!runner
<1>3. StreamTyped /\ OfThisAttempt /\ NothingAstray
  BY <1>2 DEF StreamInv
<1>4. PICK count \in [0 .. Len(nQueue) -> Nat], k \in 0 .. Len(nQueue) :
        Counting(count, nQueue, Len(nGot.text), Len(nSaid.text)) /\ CallsAre(k, count)
  BY <1>3 DEF NothingAstray
<1>5. nAcc = nSaid.calls /\ nAcc \in Collected
  BY <1>2, <1>3, <1>4 DEF CallsAre, StreamTyped
<1>6. /\ nSaid \in [text : Seq(Nat), thoughts : Nat, calls : Collected, over : BOOLEAN]
      /\ MaxArgs \in Nat
  BY <1>3, StreamConstants DEF StreamTyped
<1> DEFINE entry == Stream!Entry(nAcc, i)
<1>7. /\ entry \in [named : BOOLEAN, args : 0 .. MaxArgs]
      /\ i \notin DOMAIN nAcc => entry = [named |-> FALSE, args |-> 0]
      /\ i \in DOMAIN nAcc => entry = nAcc[i]
  <2>1. i \in DOMAIN nAcc => nAcc[i] \in [named : BOOLEAN, args : 0 .. MaxArgs]
    BY <1>5, CollectedCalls DEF Stream!Call
  <2>2. [named |-> FALSE, args |-> 0] \in [named : BOOLEAN, args : 0 .. MaxArgs]
    BY <1>6
  <2>3. CASE i \in DOMAIN nAcc
    BY <2>1, <2>3 DEF Stream!Entry
  <2>4. CASE i \notin DOMAIN nAcc
    BY <2>2, <2>4 DEF Stream!Entry
  <2>5. QED
    BY <2>3, <2>4
<1> DEFINE Named == [entry EXCEPT !.named = TRUE]
<1> DEFINE Longer == [entry EXCEPT !.args = entry.args + 1]
<1>8. /\ Stream!Piece(nAcc, i, TRUE) = Named /\ Stream!Piece(nAcc, i, FALSE) = Longer
      /\ Stream!Say(i, TRUE) => nSaid' = [nSaid EXCEPT !.calls = Stream!With(nAcc, i, Named)]
      /\ Stream!Say(i, FALSE) => nSaid' = [nSaid EXCEPT !.calls = Stream!With(nAcc, i, Longer)]
  BY <1>5 DEF Stream!Say, Stream!Piece
<1>9. /\ Named \in Stream!Call
      /\ entry.args < MaxArgs => Longer \in Stream!Call
  <2> HIDE DEF entry
  <2>1. Named \in Stream!Call
    BY <1>7 DEF Stream!Call
  <2>2. ASSUME entry.args < MaxArgs PROVE Longer \in Stream!Call
    <3>1. entry.args + 1 \in 0 .. MaxArgs
      BY <1>7, <1>6, <2>2
    <3>2. QED
      BY <1>7, <3>1 DEF Stream!Call
  <2>3. QED
    BY <2>1, <2>2
<1>10. PICK call \in Stream!Call :
         /\ nSaid' = [nSaid EXCEPT !.calls = Stream!With(nAcc, i, call)]
         /\ nAcc' = Stream!With(nAcc, i, call)
  <2>1. CASE Stream!OpenAiDelta(i)
    <3>1. CASE i \notin DOMAIN nAcc
      <4>1. Stream!Say(i, TRUE) /\ nAcc' = Stream!With(nAcc, i, Named)
        BY <1>5, <1>8, <2>1, <3>1 DEF Stream!OpenAiDelta
      <4>2. QED
        BY <1>8, <1>9, <4>1
    <3>2. CASE i \in DOMAIN nAcc
      <4>1. /\ nAcc[i].args < MaxArgs
            /\ Stream!Say(i, FALSE) /\ nAcc' = Stream!With(nAcc, i, Longer)
        BY <1>5, <1>8, <2>1, <3>2 DEF Stream!OpenAiDelta
      <4>2. Longer \in Stream!Call
        BY <1>7, <1>9, <3>2, <4>1
      <4>3. QED
        BY <1>8, <4>1, <4>2
    <3>3. QED
      BY <3>1, <3>2
  <2>2. CASE Stream!BlockStart(i)
    <3>1. /\ i \notin DOMAIN nAcc /\ Stream!Say(i, TRUE)
          /\ nAcc' = Stream!With(nAcc, i, [named |-> TRUE, args |-> 0])
      BY <1>5, <2>2 DEF Stream!BlockStart
    <3>2. Named = [named |-> TRUE, args |-> 0]
      <4>1. entry.args = 0
        BY <1>7, <3>1
      <4> HIDE DEF entry
      <4>2. Named \in [named : BOOLEAN, args : 0 .. MaxArgs]
        BY <1>9 DEF Stream!Call
      <4>3. Named.named = TRUE /\ Named.args = 0
        BY <1>7, <4>1
      <4> HIDE DEF Named
      <4>4. QED
        BY <4>2, <4>3
    <3>3. QED
      BY <1>8, <1>9, <3>1, <3>2
  <2>3. CASE Stream!InputDelta(i)
    <3>1. /\ i \in DOMAIN nAcc /\ nAcc[i].args < MaxArgs
          /\ Stream!Say(i, FALSE) /\ nAcc' = Stream!With(nAcc, i, Longer)
      BY <1>5, <1>8, <2>3 DEF Stream!InputDelta
    <3>2. Longer \in Stream!Call
      BY <1>7, <1>9, <3>1
    <3>3. QED
      BY <1>8, <3>1, <3>2
  <2>4. QED
    BY <1>1, <2>1, <2>2, <2>3
<1> HIDE DEF entry, Named, Longer
<1>11. Stream!With(nAcc, i, call) \in Collected
  BY <1>5, <1>10, WithTyped
<1>12. nAcc' \in Collected
  BY <1>10, <1>11
<1>13. /\ nSaid' \in [text : Seq(Nat), thoughts : Nat, calls : Collected, over : BOOLEAN]
       /\ nSaid'.text = nSaid.text /\ nSaid'.over = nSaid.over /\ nSaid'.calls = nAcc'
  BY <1>6, <1>10, <1>12
<1>14. StreamTyped'
  BY <1>2, <1>3, <1>12, <1>13 DEF StreamTyped
<1>15. OfThisAttempt'
  BY <1>2, <1>3, <1>13 DEF OfThisAttempt
<1>16. CallsAre(k, count)'
  BY <1>2, <1>4, <1>13 DEF CallsAre
<1>17. NothingAstray'
  BY <1>2, <1>4, <1>13, <1>16 DEF NothingAstray
<1>18. QED
  BY <1>2, <1>14, <1>15, <1>17 DEF StreamInv, Stream!AnswerIsWhole, Stream!NoHalfCall

\* A new stream begins with nothing said, queued or got.
LEMMA ConnectKeeps ==
  ASSUME Stream!StreamAssumption, StreamInv, Stream!Connect
  PROVE  StreamInv'
<1>1. /\ nApi' = nApi /\ nParser' = TRUE /\ nPhase' = "read" /\ nRetries' = nRetries
      /\ nQueue' = <<>> /\ nAcc' = Stream!NoCalls
      /\ nSaid' = [text |-> <<>>, thoughts |-> 0, calls |-> Stream!NoCalls, over |-> FALSE]
      /\ nGot' = [text |-> <<>>, calls |-> Stream!NoCalls]
      /\ nPoll' = [waited |-> 0, first |-> TRUE]
      /\ nHealth' = [any |-> 0, content |-> 0, stale |-> FALSE, thinking |-> FALSE]
  BY DEF Stream!Connect, Stream!Silence, Stream!Nothing, Stream!Fresh
<1>2. Len(nQueue') = 0 /\ Len(nQueue') <= StreamCap /\ nQueue' \in Seq(Chunks)
  BY <1>1, StreamConstants
<1>3. /\ nSaid' \in [text : Seq(Nat), thoughts : Nat, calls : Collected, over : BOOLEAN]
      /\ nGot' \in [text : Seq(Nat), calls : Collected]
      /\ Len(nSaid'.text) = 0 /\ Len(nGot'.text) = 0
      /\ ~nSaid'.over /\ nSaid'.calls = Stream!NoCalls /\ nGot'.calls = Stream!NoCalls
  BY <1>1, NoneCollected
<1>4. /\ nPoll' \in [waited : 0 .. Absolute, first : BOOLEAN]
      /\ nHealth' \in [any : 0 .. Absolute, content : 0 .. Absolute,
                       stale : BOOLEAN, thinking : BOOLEAN]
  BY <1>1, StreamConstants
<1>5. StreamTyped'
  BY <1>1, <1>2, <1>3, <1>4, NoneCollected DEF StreamInv, StreamTyped
<1>6. OfThisAttempt'
  BY <1>3 DEF OfThisAttempt
<1>7. NothingAstray'
  <2>1. PICK count : count = [i \in 0 .. 0 |-> 0]
    OBVIOUS
  <2>2. count \in [0 .. 0 -> Nat] /\ count[0] = 0
    BY <2>1
  <2>3. \A i : i \notin 1 .. 0
    OBVIOUS
  <2>4. Counting(count, nQueue', Len(nGot'.text), Len(nSaid'.text))
    BY <1>2, <1>3, <2>2, <2>3 DEF Counting
  <2>5. PICK k : k = 0
    OBVIOUS
  <2>6. k \in 0 .. 0
    BY <2>5
  <2>7. CallsAre(k, count)'
    BY <1>1, <1>2, <1>3, <2>3, <2>5, <2>6 DEF CallsAre
  <2>8. QED
    BY <1>2, <2>2, <2>4, <2>6, <2>7 DEF NothingAstray
<1>8. QED
  BY <1>1, <1>5, <1>6, <1>7 DEF StreamInv, Stream!AnswerIsWhole, Stream!NoHalfCall

\* When the runner turns away from a stream, to start again or to fail, there
\* is no answer.
LEMMA NoAnswerYet ==
  ASSUME StreamTyped, nPhase' \in {"connect", "failed"}, nRetries' \in 0 .. MaxRetries,
         UNCHANGED <<nApi, nSaid, nAcc, nParser, nGot, nPoll, nHealth>>,
         nQueue' \in Seq(Chunks), Len(nQueue') <= StreamCap
  PROVE  StreamInv'
BY DEF StreamInv, StreamTyped, Stream!AnswerIsWhole, Stream!NoHalfCall

\* The runner starts again within its retries, or fails.
LEMMA GoesBack ==
  ASSUME Stream!StreamAssumption, StreamTyped, Stream!GoBack
  PROVE  /\ nPhase' \in {"connect", "failed"} /\ nRetries' \in 0 .. MaxRetries
         /\ UNCHANGED <<nGot, nPoll, nHealth>>
<1>1. nRetries \in Nat /\ MaxRetries \in Nat /\ nRetries <= MaxRetries
  BY StreamConstants DEF StreamTyped
<1>2. QED
  BY <1>1 DEF Stream!GoBack

\* Time, or the end of the connection, changes nothing of the answer.
LEMMA NothingSaid ==
  ASSUME StreamInv, nPhase = "read", nPhase' = "read",
         UNCHANGED <<nApi, nSaid, nAcc, nQueue, nRetries, nGot>>,
         nParser' \in BOOLEAN, nPoll' \in [waited : 0 .. Absolute, first : BOOLEAN],
         nHealth' \in [any : 0 .. Absolute, content : 0 .. Absolute,
                       stale : BOOLEAN, thinking : BOOLEAN]
  PROVE  StreamInv'
<1>1. StreamTyped /\ OfThisAttempt /\ NothingAstray
  BY DEF StreamInv
<1>2. StreamTyped'
  BY <1>1 DEF StreamTyped
<1>3. OfThisAttempt'
  BY <1>1 DEF OfThisAttempt
<1>4. NothingAstray'
  <2>1. PICK count \in [0 .. Len(nQueue) -> Nat], k \in 0 .. Len(nQueue) :
          Counting(count, nQueue, Len(nGot.text), Len(nSaid.text)) /\ CallsAre(k, count)
    BY <1>1 DEF NothingAstray
  <2>2. CallsAre(k, count)'
    BY <2>1 DEF CallsAre
  <2>3. QED
    BY <2>1, <2>2 DEF NothingAstray
<1>5. QED
  BY <1>2, <1>3, <1>4 DEF StreamInv, Stream!AnswerIsWhole, Stream!NoHalfCall

\* Two texts of this attempt of the same length are one.
LEMMA SameText ==
  ASSUME NEW text \in Seq(Nat), NEW other \in Seq(Nat), NEW n,
         \A i \in 1 .. Len(text) : text[i] = n,
         \A i \in 1 .. Len(other) : other[i] = n, Len(text) = Len(other)
  PROVE  text = other
<1>1. \A i \in 1 .. Len(other) : text[i] = other[i]
  OBVIOUS
<1>2. QED
  BY <1>1

\* At the end of a stream that said all it had to say the runner has it all.
LEMMA EndKeeps ==
  ASSUME Stream!StreamAssumption, StreamInv, Stream!EndOfStream
  PROVE  StreamInv'
<1>1. /\ nPhase = "read" /\ nQueue = <<>> /\ nPhase' = "done"
      /\ UNCHANGED <<nApi, nSaid, nAcc, nParser, nQueue, nRetries, nGot, nPoll, nHealth>>
  BY DEF Stream!EndOfStream, Stream!provider
<1>2. StreamTyped /\ OfThisAttempt /\ NothingAstray
  BY <1>1 DEF StreamInv
<1>3. PICK count, k : /\ Counting(count, nQueue, Len(nGot.text), Len(nSaid.text))
                      /\ CallsAre(k, count)
  BY <1>2 DEF NothingAstray
<1>4. Len(nQueue) = 0
  BY <1>1
<1>5. k = 0
  BY <1>3, <1>4 DEF CallsAre
<1>6. Len(nGot.text) = Len(nSaid.text)
  BY <1>3, <1>4 DEF Counting
<1>7. nGot.text = nSaid.text
  BY <1>2, <1>6, SameText DEF StreamTyped, OfThisAttempt
<1>8. /\ nSaid.over => nGot.calls = nSaid.calls
      /\ ~nSaid.over => nGot.calls = Stream!NoCalls
  BY <1>3, <1>5 DEF CallsAre
<1>9. StreamTyped'
  BY <1>1, <1>2 DEF StreamTyped
<1>10. QED
  BY <1>1, <1>7, <1>8, <1>9 DEF StreamInv, Stream!AnswerIsWhole, Stream!NoHalfCall

\* What the runner puts together from a chunk: its text, and its calls, which
\* either it or the chunk has none of.
LEMMA TakeKeeps ==
  ASSUME Stream!StreamAssumption, StreamInv, nPhase = "read", nQueue # <<>>,
         nQueue' = Tail(nQueue), Stream!Take(Head(nQueue)), UNCHANGED Stream!provider
  PROVE  StreamInv'
<1> DEFINE n == Len(nQueue) - 1
<1>1. PICK chunk : chunk = Head(nQueue)
  OBVIOUS
<1>2. StreamTyped /\ OfThisAttempt /\ NothingAstray
  BY DEF StreamInv
<1>3. PICK count \in [0 .. Len(nQueue) -> Nat], k \in 0 .. Len(nQueue) :
        Counting(count, nQueue, Len(nGot.text), Len(nSaid.text)) /\ CallsAre(k, count)
  BY <1>2 DEF NothingAstray
<1>4. /\ nQueue \in Seq(Chunks) /\ nGot \in [text : Seq(Nat), calls : Collected]
      /\ nSaid \in [text : Seq(Nat), thoughts : Nat, calls : Collected, over : BOOLEAN]
      /\ nRetries \in Nat /\ Len(nGot.text) \in Nat /\ Len(nSaid.text) \in Nat
      /\ Len(nQueue) <= StreamCap /\ nSaid.calls \in Collected /\ nGot.calls \in Collected
      /\ nSaid.over \in BOOLEAN
  BY <1>2, StreamConstants DEF StreamTyped
<1>5. /\ n \in Nat /\ Len(nQueue) = n + 1 /\ Len(nQueue') = n /\ chunk = nQueue[1]
      /\ \A i \in 1 .. n : nQueue'[i] = nQueue[i + 1]
      /\ nQueue' \in Seq(Chunks) /\ chunk \in Chunks
  BY <1>1, <1>4
<1>6. UNCHANGED <<nApi, nSaid, nAcc, nParser, nRetries>>
  BY DEF Stream!Take, Stream!provider
<1>7. nGot' = [text |-> IF chunk.text THEN Append(nGot.text, nRetries) ELSE nGot.text,
               calls |-> Stream!Merged(nGot.calls, chunk.calls)]
  BY <1>1 DEF Stream!Take
<1>8. nPhase' = IF chunk.done THEN "done" ELSE "read"
  BY <1>1 DEF Stream!Take
<1>9. /\ nPoll' \in [waited : 0 .. Absolute, first : BOOLEAN]
      /\ nHealth' \in [any : 0 .. Absolute, content : 0 .. Absolute,
                       stale : BOOLEAN, thinking : BOOLEAN]
  <2>1. nPoll' = [waited |-> 0, first |-> FALSE] /\ 0 \in 0 .. Absolute
    BY StreamConstants DEF Stream!Take
  <2>2. nHealth \in [any : 0 .. Absolute, content : 0 .. Absolute,
                     stale : BOOLEAN, thinking : BOOLEAN]
    BY <1>2 DEF StreamTyped
  <2>3. chunk.text \in BOOLEAN /\ chunk.thought \in BOOLEAN
    BY <1>5 DEF Chunks
  <2> DEFINE content == chunk.text \/ chunk.thought
  <2> DEFINE h == [nHealth EXCEPT !.any = 0,
                     !.content = IF content THEN 0 ELSE @,
                     !.stale = @ /\ ~content,
                     !.thinking = IF chunk.thought THEN TRUE ELSE @ /\ ~chunk.text]
  <2>4. h \in [any : 0 .. Absolute, content : 0 .. Absolute,
               stale : BOOLEAN, thinking : BOOLEAN]
    BY <2>1, <2>2, <2>3
  <2>5. nHealth' = h \/ nHealth' = Stream!Checked(h)
    BY <1>1 DEF Stream!Take
  <2> HIDE DEF h
  <2>6. Stream!Checked(h) \in [any : 0 .. Absolute, content : 0 .. Absolute,
                               stale : BOOLEAN, thinking : BOOLEAN]
    BY <2>4 DEF Stream!Checked
  <2>7. QED
    BY <2>1, <2>4, <2>5, <2>6
<1> DEFINE text == IF chunk.text THEN Append(nGot.text, nRetries) ELSE nGot.text
<1>10. /\ text \in Seq(Nat)
       /\ Len(text) = IF chunk.text THEN Len(nGot.text) + 1 ELSE Len(nGot.text)
       /\ \A i \in 1 .. Len(text) : text[i] = nRetries
  <2>1. nGot.text \in Seq(Nat) /\ \A i \in 1 .. Len(nGot.text) : nGot.text[i] = nRetries
    BY <1>2, <1>4 DEF OfThisAttempt
  <2>2. CASE chunk.text
    BY <1>4, <2>1, <2>2, Spoken
  <2>3. CASE ~chunk.text
    BY <2>1, <2>3
  <2>4. QED
    BY <2>2, <2>3
<1> HIDE DEF text
<1>11. /\ k \in 0 .. n + 1
       /\ \A i \in 1 .. n + 1 : i # k => nQueue[i].calls = Stream!NoCalls
       /\ \A i \in 1 .. n + 1 : nQueue[i].done => nSaid.over /\ k <= i
       /\ ~nSaid.over => k = 0 /\ nAcc = nSaid.calls /\ nGot.calls = Stream!NoCalls
       /\ nSaid.over =>
            /\ nAcc = Stream!NoCalls
            /\ k = 0 => nGot.calls = nSaid.calls
            /\ k # 0 => nQueue[k].calls = nSaid.calls /\ nGot.calls = Stream!NoCalls
            /\ \A i \in k .. n + 1 : count[i] = Len(nSaid.text)
  BY <1>3, <1>5 DEF CallsAre
<1> HIDE DEF n
<1>12. 1 \in 1 .. n + 1
  BY <1>5
<1> DEFINE calls == Stream!Merged(nGot.calls, chunk.calls)
<1>13. calls = IF k = 1 THEN nSaid.calls ELSE nGot.calls
  <2>1. CASE k = 1
    <3>1. chunk.calls = nSaid.calls /\ nGot.calls = Stream!NoCalls
      BY <1>4, <1>5, <1>11, <2>1
    <3>2. QED
      BY <1>4, <2>1, <3>1, MergedWithNone
  <2>2. CASE k # 1
    <3>1. chunk.calls = Stream!NoCalls
      BY <1>5, <1>11, <1>12, <2>2
    <3>2. QED
      BY <1>4, <2>2, <3>1, MergedWithNone
  <2>3. QED
    BY <2>1, <2>2
<1>14. nGot'.text = text /\ nGot'.calls = calls /\ nGot' = [text |-> text, calls |-> calls]
  BY <1>7 DEF text
<1> HIDE DEF calls
<1>15. nGot' \in [text : Seq(Nat), calls : Collected]
  BY <1>4, <1>10, <1>13, <1>14
<1>16. StreamTyped'
  <2>1. Len(nQueue') <= StreamCap
    BY <1>4, <1>5, StreamConstants
  <2>2. QED
    BY <1>2, <1>5, <1>6, <1>8, <1>9, <1>15, <2>1 DEF StreamTyped
<1>17. OfThisAttempt'
  BY <1>2, <1>6, <1>10, <1>14 DEF OfThisAttempt
<1>18. PICK less : /\ Counting(less, nQueue', Len(nGot'.text), Len(nSaid.text))
                   /\ \A i \in 0 .. n : less[i] = count[i + 1]
  <2>1. PICK less : /\ Counting(less, Tail(nQueue),
                                IF Head(nQueue).text THEN Len(nGot.text) + 1
                                ELSE Len(nGot.text), Len(nSaid.text))
                    /\ \A i \in 0 .. Len(nQueue) - 1 : less[i] = count[i + 1]
    BY <1>3, <1>4, CountingLess
  <2>2. Len(nGot'.text) = IF Head(nQueue).text THEN Len(nGot.text) + 1 ELSE Len(nGot.text)
    BY <1>1, <1>10, <1>14
  <2>3. QED
    BY <2>1, <2>2 DEF n
<1>19. less \in [0 .. n -> Nat] /\ less[0] = Len(nGot'.text)
  BY <1>5, <1>18 DEF Counting
<1>20. PICK j : j = IF k = 0 THEN 0 ELSE k - 1
  OBVIOUS
<1>21. /\ j \in 0 .. n
       /\ \A i \in 1 .. n : i + 1 \in 1 .. n + 1 /\ (i # j => i + 1 # k)
       /\ j # 0 => k # 0 /\ j \in 1 .. n /\ j + 1 = k
       /\ j = 0 => k = 0 \/ k = 1
       /\ \A i \in j .. n : i \in 0 .. n /\ i + 1 \in k .. n + 1
       /\ \A i \in 1 .. n : k <= i + 1 => j <= i
  BY <1>5, <1>11, <1>20
<1>22. \A i \in 1 .. n : i # j => nQueue'[i].calls = Stream!NoCalls
  BY <1>5, <1>11, <1>21
<1>23. \A i \in 1 .. n : nQueue'[i].done => nSaid.over /\ j <= i
  BY <1>5, <1>11, <1>21
<1>24. ~nSaid.over => j = 0 /\ nAcc = nSaid.calls /\ nGot'.calls = Stream!NoCalls
  BY <1>11, <1>13, <1>14, <1>20
<1>25. nSaid.over =>
         /\ j = 0 => nGot'.calls = nSaid.calls
         /\ j # 0 => nQueue'[j].calls = nSaid.calls /\ nGot'.calls = Stream!NoCalls
         /\ \A i \in j .. n : less[i] = Len(nSaid.text)
  <2>1. SUFFICES ASSUME nSaid.over
                 PROVE  /\ j = 0 => nGot'.calls = nSaid.calls
                        /\ j # 0 => nQueue'[j].calls = nSaid.calls /\ nGot'.calls = Stream!NoCalls
                        /\ \A i \in j .. n : less[i] = Len(nSaid.text)
    OBVIOUS
  <2>2. j = 0 => nGot'.calls = nSaid.calls
    BY <1>11, <1>13, <1>14, <1>21, <2>1
  <2>3. ASSUME j # 0 PROVE nQueue'[j].calls = nSaid.calls /\ nGot'.calls = Stream!NoCalls
    <3>1. k # 0 /\ j \in 1 .. n /\ j + 1 = k /\ k # 1
      BY <1>21, <2>3
    <3>2. nQueue'[j] = nQueue[k]
      BY <1>5, <3>1
    <3>3. QED
      BY <1>11, <1>13, <1>14, <2>1, <3>1, <3>2
  <2>4. \A i \in j .. n : less[i] = Len(nSaid.text)
    BY <1>11, <1>18, <1>21, <2>1
  <2>5. QED
    BY <2>2, <2>3, <2>4
<1>26. CallsAre(j, less)'
  BY <1>5, <1>6, <1>11, <1>21, <1>22, <1>23, <1>24, <1>25 DEF CallsAre
<1>27. NothingAstray'
  BY <1>5, <1>6, <1>18, <1>19, <1>21, <1>26 DEF NothingAstray
<1>28. CASE ~chunk.done
  BY <1>8, <1>16, <1>17, <1>27, <1>28 DEF StreamInv, Stream!AnswerIsWhole, Stream!NoHalfCall
<1>29. CASE chunk.done
  <2>1. nSaid.over /\ k <= 1
    BY <1>5, <1>11, <1>12, <1>29
  <2>2. j = 0 /\ j \in j .. n
    BY <1>5, <1>11, <1>20, <1>21, <2>1
  <2>3. Len(nGot'.text) = Len(nSaid.text)
    BY <1>19, <1>25, <2>1, <2>2
  <2>4. nSaid' = nSaid
    BY <1>6
  <2>5. nGot'.text = nSaid'.text
    <3>1. nGot'.text \in Seq(Nat) /\ nSaid'.text \in Seq(Nat)
      BY <1>4, <1>15, <2>4
    <3>2. /\ \A i \in 1 .. Len(nSaid'.text) : nSaid'.text[i] = nRetries'
          /\ \A i \in 1 .. Len(nGot'.text) : nGot'.text[i] = nRetries'
      BY <1>17 DEF OfThisAttempt
    <3>3. Len(nGot'.text) = Len(nSaid'.text)
      BY <2>3, <2>4
    <3>4. QED
      BY <3>1, <3>2, <3>3, SameText
  <2>6. nGot'.calls = nSaid'.calls
    BY <1>25, <2>1, <2>2, <2>4
  <2>7. QED
    BY <1>8, <1>16, <1>29, <2>1, <2>4, <2>5, <2>6
       DEF StreamInv, Stream!AnswerIsWhole, Stream!NoHalfCall
<1>30. QED
  BY <1>28, <1>29

\* The runner receives a chunk: what it holds is added, or, when it is an
\* error, the attempt is over.
LEMMA ReceiveKeeps ==
  ASSUME Stream!StreamAssumption, StreamInv, Stream!Receive
  PROVE  StreamInv'
<1>1. /\ nPhase = "read" /\ nQueue # <<>> /\ nQueue' = Tail(nQueue)
      /\ UNCHANGED Stream!provider
  BY DEF Stream!Receive
<1>2. StreamTyped /\ nQueue \in Seq(Chunks) /\ Len(nQueue) <= StreamCap /\ StreamCap \in Nat
  BY StreamConstants DEF StreamInv, StreamTyped
<1>3. nQueue' \in Seq(Chunks) /\ Len(nQueue') <= StreamCap
  <2>1. nQueue' \in Seq(Chunks) /\ Len(nQueue') = Len(nQueue) - 1 /\ Len(nQueue) \in Nat
    BY <1>1, <1>2
  <2>2. QED
    BY <1>2, <2>1
<1>4. CASE Head(nQueue).error = "none"
  <2>1. Stream!Take(Head(nQueue))
    BY <1>4 DEF Stream!Receive
  <2>2. QED
    BY <1>1, <2>1, TakeKeeps
<1>5. CASE Head(nQueue).error # "none"
  <2>1. \/ Stream!GoBack
        \/ nPhase' = "failed" /\ UNCHANGED <<nRetries, nGot, nPoll, nHealth>>
    BY <1>5 DEF Stream!Receive
  <2>2. /\ nPhase' \in {"connect", "failed"} /\ nRetries' \in 0 .. MaxRetries
        /\ UNCHANGED <<nGot, nPoll, nHealth>>
    BY <1>2, <2>1, GoesBack DEF StreamTyped
  <2>3. QED
    BY <1>1, <1>2, <1>3, <2>2, NoAnswerYet DEF Stream!provider
<1>6. QED
  BY <1>4, <1>5

\* A poll that finds nothing waits again, or gives the attempt up.
LEMMA TimesOutKeeps ==
  ASSUME Stream!StreamAssumption, StreamInv, Stream!TimesOut
  PROVE  StreamInv'
<1>1. nPhase = "read" /\ UNCHANGED <<nApi, nSaid, nAcc, nParser, nQueue>>
  BY DEF Stream!TimesOut, Stream!provider
<1>2. StreamTyped
  BY DEF StreamInv
<1> DEFINE Fails == nPhase' = "failed" /\ UNCHANGED <<nRetries, nGot, nPoll, nHealth>>
<1> DEFINE Waits == /\ nPoll' = [waited |-> 0, first |-> FALSE]
                   /\ UNCHANGED <<nPhase, nRetries, nGot, nHealth>>
<1>3. Stream!GoBack \/ Fails \/ Waits
  <2>1. CASE nHealth.any >= Absolute
    BY <2>1 DEF Stream!TimesOut
  <2>2. CASE ~(nHealth.any >= Absolute) /\ nHealth.any < Absolute /\ Stream!Checked(nHealth).stale
    BY <2>2 DEF Stream!TimesOut
  <2>3. CASE /\ ~(nHealth.any >= Absolute)
             /\ ~(nHealth.any < Absolute /\ Stream!Checked(nHealth).stale)
    BY <2>3 DEF Stream!TimesOut
  <2>4. QED
    BY <2>1, <2>2, <2>3
<1>4. CASE Stream!GoBack \/ Fails
  <2>1. /\ nPhase' \in {"connect", "failed"} /\ nRetries' \in 0 .. MaxRetries
        /\ UNCHANGED <<nGot, nPoll, nHealth>>
    BY <1>2, <1>4, GoesBack DEF StreamTyped
  <2>2. nQueue' \in Seq(Chunks) /\ Len(nQueue') <= StreamCap
    BY <1>1, <1>2 DEF StreamTyped
  <2>3. QED
    BY <1>1, <1>2, <2>1, <2>2, NoAnswerYet
<1>5. CASE Waits
  <2>1. nPoll' \in [waited : 0 .. Absolute, first : BOOLEAN]
    BY <1>5, StreamConstants
  <2>2. nParser' \in BOOLEAN
        /\ nHealth' \in [any : 0 .. Absolute, content : 0 .. Absolute,
                         stale : BOOLEAN, thinking : BOOLEAN]
    BY <1>1, <1>2, <1>5 DEF StreamTyped
  <2>3. QED
    BY <1>1, <1>5, <2>1, <2>2, NothingSaid
<1> HIDE DEF Fails, Waits
<1>6. QED
  BY <1>3, <1>4, <1>5

\* Ages stop growing at the absolute timeout.
LEMMA TickKeeps ==
  ASSUME Stream!StreamAssumption, StreamInv, Stream!Tick
  PROVE  StreamInv'
<1> DEFINE Older(time) == IF time < Absolute THEN time + 1 ELSE time
<1>1. /\ nPhase = "read" /\ nPhase' = nPhase
      /\ UNCHANGED <<nApi, nSaid, nAcc, nParser, nQueue, nRetries, nGot>>
      /\ nHealth' = [nHealth EXCEPT !.any = Older(nHealth.any), !.content = Older(nHealth.content)]
      /\ nPoll' = [nPoll EXCEPT !.waited = Older(nPoll.waited)]
  BY DEF Stream!Tick, Stream!provider
<1>2. /\ nPoll \in [waited : 0 .. Absolute, first : BOOLEAN] /\ nParser \in BOOLEAN
      /\ nHealth \in [any : 0 .. Absolute, content : 0 .. Absolute,
                      stale : BOOLEAN, thinking : BOOLEAN]
  BY DEF StreamInv, StreamTyped
<1>3. \A time \in 0 .. Absolute : Older(time) \in 0 .. Absolute
  BY StreamConstants
<1> HIDE DEF Older
<1>4. /\ nPoll' \in [waited : 0 .. Absolute, first : BOOLEAN]
      /\ nHealth' \in [any : 0 .. Absolute, content : 0 .. Absolute,
                       stale : BOOLEAN, thinking : BOOLEAN]
  BY <1>1, <1>2, <1>3
<1>5. QED
  BY <1>1, <1>2, <1>4, NothingSaid

\* The invariant is inductive.
LEMMA StreamInvStep ==
  ASSUME Stream!StreamAssumption, StreamInv, [Stream!Next]_(Stream!vars)
  PROVE  StreamInv'
<1>1. CASE \/ Stream!Speak \/ Stream!Think
           \/ \E cut \in BOOLEAN : Stream!OpenAiFinish(cut)
           \/ Stream!MessageDelta \/ Stream!Stop
           \/ \E error \in {"stream", "event"} : Stream!Breaks(error)
  BY <1>1, ParserSends
<1>2. CASE Stream!Says
  BY <1>2, SaysKeeps
<1>3. CASE Stream!Closes
  <2>1. /\ nPhase = "read" /\ nPhase' = "read" /\ nParser' \in BOOLEAN
        /\ UNCHANGED <<nApi, nSaid, nAcc, nQueue, nRetries, nGot, nPoll, nHealth>>
    BY <1>3 DEF Stream!Closes, Stream!runner
  <2>2. /\ nPoll' \in [waited : 0 .. Absolute, first : BOOLEAN]
        /\ nHealth' \in [any : 0 .. Absolute, content : 0 .. Absolute,
                         stale : BOOLEAN, thinking : BOOLEAN]
    BY <2>1 DEF StreamInv, StreamTyped
  <2>3. QED
    BY <2>1, <2>2, NothingSaid
<1>4. CASE Stream!Connect
  BY <1>4, ConnectKeeps
<1>5. CASE Stream!ConnectFails
  <2>1. /\ nPhase' = "failed"
        /\ UNCHANGED <<nApi, nSaid, nAcc, nParser, nQueue, nRetries, nGot, nPoll, nHealth>>
    BY <1>5 DEF Stream!ConnectFails, Stream!provider
  <2>2. StreamTyped /\ nRetries' \in 0 .. MaxRetries /\ nQueue' \in Seq(Chunks)
        /\ Len(nQueue') <= StreamCap
    BY <2>1 DEF StreamInv, StreamTyped
  <2>3. QED
    BY <2>1, <2>2, NoAnswerYet
<1>6. CASE Stream!Receive
  BY <1>6, ReceiveKeeps
<1>7. CASE Stream!EndOfStream
  BY <1>7, EndKeeps
<1>8. CASE Stream!TimesOut
  BY <1>8, TimesOutKeeps
<1>9. CASE Stream!Tick
  BY <1>9, TickKeeps
<1>10. CASE UNCHANGED Stream!vars
  <2>1. UNCHANGED <<nApi, nSaid, nAcc, nQueue, nParser, nPhase, nRetries, nGot, nPoll, nHealth>>
    BY <1>10 DEF Stream!vars, Stream!provider, Stream!runner
  <2>2. CASE nPhase = "read"
    <3>1. /\ nParser' \in BOOLEAN /\ nPoll' \in [waited : 0 .. Absolute, first : BOOLEAN]
          /\ nHealth' \in [any : 0 .. Absolute, content : 0 .. Absolute,
                           stale : BOOLEAN, thinking : BOOLEAN]
      BY <2>1 DEF StreamInv, StreamTyped
    <3>2. QED
      BY <2>1, <2>2, <3>1, NothingSaid
  <2>3. CASE nPhase # "read"
    BY <2>1, <2>3 DEF StreamInv, StreamTyped, Stream!AnswerIsWhole, Stream!NoHalfCall
  <2>4. QED
    BY <2>2, <2>3
<1>11. QED
  BY <1>1, <1>2, <1>3, <1>4, <1>5, <1>6, <1>7, <1>8, <1>9, <1>10
     DEF Stream!Next, Stream!Runs

\* The invariant holds of every streamed completion.
THEOREM StreamInvariant == ASSUME Stream!StreamAssumption PROVE StreamSafety => []StreamInv
<1>1. Stream!Init => StreamInv
  BY StreamInvInit
<1>2. StreamInv /\ [Stream!Next]_(Stream!vars) => StreamInv'
  BY StreamInvStep
<1>3. QED
  BY <1>1, <1>2, PTL DEF StreamSafety

\* The types: calls with known indexes and no more arguments than were sent, a
\* queue within its capacity, retries within theirs.
THEOREM StreamStates == ASSUME Stream!StreamAssumption PROVE StreamSafety => []Stream!TypeOK
<1>1. StreamInv => Stream!TypeOK
  <2>1. SUFFICES ASSUME StreamInv PROVE Stream!TypeOK
    OBVIOUS
  <2>2. StreamTyped
    BY <2>1 DEF StreamInv
  <2>3. nAcc \in Collected /\ nGot.calls \in Collected
    BY <2>2 DEF StreamTyped
  <2>4. /\ \A i \in DOMAIN nAcc : i \in AnswerCalls /\ nAcc[i] \in Stream!Call
        /\ \A i \in DOMAIN nGot.calls : i \in AnswerCalls /\ nGot.calls[i] \in Stream!Call
    BY <2>3, CollectedCalls
  <2>5. nHealth.any <= Absolute /\ nHealth.content <= Absolute
    BY <2>2, StreamConstants DEF StreamTyped
  <2>6. QED
    BY <2>2, <2>4, <2>5 DEF StreamTyped, Stream!TypeOK
<1>2. QED
  BY <1>1, StreamInvariant, PTL

\* complete_streaming: an answer the provider has finished is put together as
\* it was said, its text once and of one attempt and every call with its name
\* and all of its arguments, however chunks, retries and ends interleave.
THEOREM WholeAnswers ==
  ASSUME Stream!StreamAssumption PROVE StreamSafety => []Stream!AnswerIsWhole
<1>1. StreamInv => Stream!AnswerIsWhole
  BY DEF StreamInv
<1>2. QED
  BY <1>1, StreamInvariant, PTL

\* A stream that ends early makes no call: those begun are dropped with it.
THEOREM NoHalfCalls ==
  ASSUME Stream!StreamAssumption PROVE StreamSafety => []Stream!NoHalfCall
<1>1. StreamInv => Stream!NoHalfCall
  BY DEF StreamInv
<1>2. QED
  BY <1>1, StreamInvariant, PTL

-----------------------------------------------------------------------------
(* ScriptRun: the quota is what was written, the output what was printed     *)


ScriptStates ==
  /\ xCaps \in {Script!Safe, Script!Trusted, Script!Dangerous}
  /\ xState \in {"runs", "done", "failed"}
  /\ xLate \in BOOLEAN /\ xCut \in BOOLEAN /\ xCaught \in BOOLEAN
  /\ xOutput \in Seq(Lines) /\ xPrinted \in Seq(Lines)

ScriptCounts ==
  /\ xCalls \in 0 .. ScriptCalls /\ xRequests \in 0 .. xCalls /\ xIntervals \in 0 .. xCalls
  /\ xWrote \in Nat /\ xMade \in Nat /\ xSent \in Nat

\* What is reserved was written, and what left was counted before.
Metered ==
  /\ xQuota = [bytes |-> xWrote, files |-> xMade]
  /\ xWrote <= MaxBytes /\ xMade <= MaxFiles
  /\ xSent <= xRequests /\ xSent <= MaxRequests /\ (xCaps = Script!Safe => xSent = 0)

\* The buffer holds the first of the lines that were printed, all of them until
\* one does not fit.
Printing ==
  /\ Len(xOutput) <= Len(xPrinted) /\ \A i \in 1 .. Len(xOutput) : xOutput[i] = xPrinted[i]
  /\ xOutput = xPrinted \/ xCut
  /\ xSize \in Nat /\ xSize <= MaxOutput

\* The hook lets no script go on that does not catch its errors.
Hooked == xState = "runs" /\ ~xCaught => xIntervals <= MaxIntervals

ScriptInv == ScriptStates /\ ScriptCounts /\ Metered /\ Printing /\ Hooked

\* The constants, and what a safe script may not do.
LEMMA ScriptConstants ==
  ASSUME Script!ScriptAssumption
  PROVE  /\ \A n \in Sizes : n \in Nat
         /\ MaxBytes \in Nat /\ MaxFiles \in Nat /\ MaxRequests \in Nat /\ MaxBody \in Nat
         /\ MaxIntervals \in Nat /\ ScriptCalls \in Nat /\ MaxOutput \in Nat
         /\ \A length \in Lines : length \in Nat
         /\ "HTTP" \notin Script!Safe
BY DEF Script!ScriptAssumption, Script!Safe

\* Nothing is counted, written or printed before the script starts.
LEMMA ScriptInvInit == ASSUME Script!ScriptAssumption, Script!Init PROVE ScriptInv
<1> USE ScriptConstants DEF Script!Init
<1>1. <<>> \in Seq(Lines) /\ Len(<<>>) = 0
  OBVIOUS
<1>2. ScriptStates
  BY <1>1 DEF ScriptStates
<1>3. ScriptCounts
  BY DEF ScriptCounts
<1>4. Metered /\ Printing /\ Hooked
  BY <1>1 DEF Metered, Printing, Hooked
<1>5. QED
  BY <1>2, <1>3, <1>4 DEF ScriptInv

\* A sequence with one more member.
LEMMA AddingAtEnd ==
  ASSUME NEW S, NEW s \in Seq(S), NEW e \in S
  PROVE  /\ Append(s, e) \in Seq(S) /\ Len(Append(s, e)) = Len(s) + 1
         /\ \A i \in 1 .. Len(s) : Append(s, e)[i] = s[i]
OBVIOUS

\* What raises is caught or ends the script; the hook counts no other call.
LEMMA StillHooked ==
  ASSUME ScriptInv, xState = "runs", UNCHANGED xIntervals, xCaught' \in {xCaught, TRUE}
  PROVE  Hooked'
<1>1. CASE xCaught
  BY <1>1 DEF Hooked
<1>2. CASE ~xCaught
  BY <1>2 DEF ScriptInv, Hooked
<1>3. QED
  BY <1>1, <1>2

\* A call that writes, at whichever step it fails: it reserves all or gives
\* back all of what it reserved.
LEMMA ScriptWrites ==
  ASSUME Script!ScriptAssumption, ScriptInv, NEW n \in Sizes,
         \/ Script!WriteFile(n) \/ Script!AppendFile(n) \/ Script!WriteJson(n) \/ Script!Copy(n)
  PROVE  ScriptInv'
<1> USE ScriptConstants DEF ScriptInv
<1>1. /\ xState = "runs" /\ xCalls < ScriptCalls /\ xCalls' = xCalls + 1
      /\ Script!Rejected \/ Script!Metered(n)
      /\ UNCHANGED <<xCaps, xRequests, xIntervals, xLate, xOutput, xSize, xCut, xSent, xPrinted>>
  BY DEF Script!buffer, Script!WriteFile, Script!AppendFile, Script!WriteJson, Script!Copy,
    Script!Call, Script!Rest
<1>2. n \in Nat /\ xWrote \in Nat /\ xMade \in Nat
  BY DEF ScriptCounts
<1>3. /\ xState' \in {"runs", "failed"} /\ xCaught' \in BOOLEAN /\ xCaught' \in {xCaught, TRUE}
      /\ \/ UNCHANGED <<xWrote, xMade, xQuota>>
         \/ /\ xWrote + n <= MaxBytes /\ xMade + 1 <= MaxFiles
            /\ xWrote' = xWrote + n /\ xMade' = xMade + 1
            /\ xQuota' = [bytes |-> xWrote + n, files |-> xMade + 1]
  <2>1. xQuota.bytes = xWrote /\ xQuota.files = xMade /\
          xQuota = [bytes |-> xWrote, files |-> xMade]
    BY DEF Metered
  <2>2. CASE Script!Rejected
    BY <1>1, <2>2 DEF Script!Rejected, Script!NotWritten, Script!Raises, ScriptStates
  <2>3. CASE Script!Metered(n)
    <3> DEFINE reserved == Script!Reserve(n)
    <3>1. /\ reserved.fits => /\ xWrote + n <= MaxBytes /\ xMade + 1 <= MaxFiles
                              /\ reserved.left = [bytes |-> xWrote + n, files |-> xMade + 1]
          /\ ~reserved.fits => reserved.left = xQuota
          /\ reserved.fits \in BOOLEAN
      BY <1>2, <2>1 DEF Script!Reserve
    <3>2. CASE ~reserved.fits /\ xQuota' = reserved.left /\ Script!NotWritten
      BY <1>1, <3>1, <3>2 DEF Script!NotWritten, Script!Raises, ScriptStates
    <3>3. CASE reserved.fits /\ xQuota' = Script!Release(reserved.left, n) /\ Script!NotWritten
      <4>1. Script!Release(reserved.left, n) = xQuota
        BY <1>2, <2>1, <3>1, <3>3 DEF Script!Release
      <4>2. QED
        BY <1>1, <3>3, <4>1 DEF Script!NotWritten, Script!Raises, ScriptStates
    <3>4. CASE reserved.fits /\ xQuota' = reserved.left /\ Script!Written(n)
      BY <1>1, <3>1, <3>4 DEF Script!Written, Script!Returns, ScriptStates
    <3>5. QED
      BY <2>3, <3>2, <3>3, <3>4 DEF Script!Metered
  <2>4. QED
    BY <1>1, <2>2, <2>3
<1>4. xWrote' \in Nat /\ xMade' \in Nat
  BY <1>2, <1>3
<1>5. ScriptStates' /\ ScriptCounts'
  BY <1>1, <1>3, <1>4 DEF ScriptStates, ScriptCounts
<1>6. Metered'
  BY <1>1, <1>3 DEF Metered
<1>7. Printing' /\ Hooked'
  BY <1>1, <1>3, StillHooked DEF Printing
<1>8. QED
  BY <1>5, <1>6, <1>7

\* One more call, and perhaps one more request, keep the counts in their ranges.
LEMMA CallCounted ==
  ASSUME ScriptCalls \in Nat, ScriptCounts, xCalls < ScriptCalls, xCalls' = xCalls + 1,
         xRequests' = xRequests \/ xRequests' = xRequests + 1, xIntervals' = xIntervals,
         xWrote' \in Nat, xMade' \in Nat, xSent' \in Nat
  PROVE  ScriptCounts'
<1>1. /\ xCalls \in Nat /\ xRequests \in Nat /\ xIntervals \in Nat
      /\ xRequests <= xCalls /\ xIntervals <= xCalls /\ xCalls + 1 <= ScriptCalls
  BY DEF ScriptCounts
<1>2. xCalls + 1 \in 0 .. ScriptCalls /\ xIntervals \in 0 .. xCalls + 1
  BY <1>1
<1>3. xRequests \in 0 .. xCalls + 1 /\ xRequests + 1 \in 0 .. xCalls + 1
  BY <1>1
<1>4. QED
  BY <1>2, <1>3 DEF ScriptCounts

\* A request is counted before it leaves, whatever becomes of it.
LEMMA ScriptAsks ==
  ASSUME Script!ScriptAssumption, ScriptInv, NEW n \in Sizes, Script!Request(n)
  PROVE  ScriptInv'
<1> USE ScriptConstants DEF ScriptInv
<1>1. /\ xState = "runs" /\ xCalls < ScriptCalls /\ xCalls' = xCalls + 1 /\ "HTTP" \in xCaps
      /\ UNCHANGED <<xCaps, xQuota, xIntervals, xLate, xOutput, xSize, xCut, xWrote, xMade,
           xPrinted>>
      /\ \/ UNCHANGED <<xRequests, xSent>>
         \/ /\ xRequests' = xRequests + 1
            /\ xSent' = xSent \/ (xRequests + 1 <= MaxRequests /\ xSent' = xSent + 1)
      /\ xState' \in {"runs", "failed"} /\ xCaught' \in BOOLEAN /\ xCaught' \in {xCaught, TRUE}
  <2>1. /\ xState = "runs" /\ xCalls < ScriptCalls /\ xCalls' = xCalls + 1 /\ "HTTP" \in xCaps
        /\ UNCHANGED <<xCaps, xQuota, xIntervals, xLate, xOutput, xSize, xCut, xWrote, xMade,
             xPrinted>>
    BY DEF Script!Request, Script!Call, Script!buffer
  <2>2. xState' \in {"runs", "failed"} /\ xCaught' \in BOOLEAN /\ xCaught' \in {xCaught, TRUE}
    BY <2>1 DEF Script!Request, Script!Raises, Script!Returns, ScriptStates
  <2>3. \/ UNCHANGED <<xRequests, xSent>>
        \/ /\ xRequests' = xRequests + 1
           /\ xSent' = xSent \/ (~(xRequests' > MaxRequests) /\ xSent' = xSent + 1)
    BY DEF Script!Request
  <2>4. xRequests' = xRequests + 1 /\ ~(xRequests' > MaxRequests) => xRequests + 1 <= MaxRequests
    BY DEF ScriptCounts
  <2>5. QED
    BY Zenon, <2>1, <2>2, <2>3, <2>4
<1>2. xCaps # Script!Safe
  BY <1>1
<1>3. ScriptStates' /\ ScriptCounts'
  <2>1. ScriptStates'
    BY <1>1 DEF ScriptStates
  <2>2. ScriptCounts'
    <3>1. xSent' \in Nat /\ xWrote' \in Nat /\ xMade' \in Nat
      BY <1>1 DEF ScriptCounts
    <3>2. QED
      BY <1>1, <3>1, CallCounted
  <2>3. QED
    BY <2>1, <2>2
<1>4. Metered'
  BY <1>1, <1>2 DEF Metered, ScriptCounts
<1>5. Printing' /\ Hooked'
  BY <1>1, StillHooked DEF Printing
<1>6. QED
  BY <1>3, <1>4, <1>5

\* A download counts its file first and its bytes when they are there, and gives
\* back what it does not come to write.
LEMMA ScriptDownloads ==
  ASSUME Script!ScriptAssumption, ScriptInv, NEW n \in Sizes, Script!Download(n)
  PROVE  ScriptInv'
<1> USE ScriptConstants DEF ScriptInv
<1> DEFINE first == [xQuota EXCEPT !.files = @ + 1]
           both == [first EXCEPT !.bytes = @ + n]
<1>1. /\ xState = "runs" /\ xCalls < ScriptCalls /\ xCalls' = xCalls + 1 /\
           {"HTTP", "FS_WRITE"} \subseteq xCaps
      /\ UNCHANGED <<xCaps, xIntervals, xLate, xOutput, xSize, xCut, xPrinted>>
  BY DEF Script!Download, Script!Call, Script!buffer
<1>2. /\ n \in Nat /\ xWrote \in Nat /\ xMade \in Nat /\ xRequests \in Nat /\ xSent \in Nat
      /\ xQuota = [bytes |-> xWrote, files |-> xMade] /\ xCaps # Script!Safe
  BY <1>1 DEF ScriptCounts, Metered
<1>3. /\ first = [bytes |-> xWrote, files |-> xMade + 1] /\ first.files = xMade + 1
      /\ both = [bytes |-> xWrote + n, files |-> xMade + 1] /\ both.bytes = xWrote + n
      /\ [first EXCEPT !.files = @ - 1] = xQuota /\ Script!Release(both, n) = xQuota
  <2>1. first = [bytes |-> xWrote, files |-> xMade + 1]
    BY <1>2
  <2> HIDE DEF first
  <2>2. both = [bytes |-> xWrote + n, files |-> xMade + 1]
    BY ONLY <1>2, <2>1
  <2>3. [first EXCEPT !.files = @ - 1] = xQuota
    BY ONLY <1>2, <2>1
  <2>4. Script!Release(both, n) = xQuota
    BY <1>2, <2>2 DEF Script!Release
  <2>5. QED
    BY <2>1, <2>2, <2>3, <2>4
<1>4. \/ /\ Script!Rejected
         /\ \/ UNCHANGED <<xRequests, xSent>>
            \/ xRequests' = xRequests + 1 /\ UNCHANGED xSent
      \/ /\ xRequests' = xRequests + 1 /\ xRequests' <= MaxRequests
         /\ xQuota' = [first EXCEPT !.files = @ - 1] /\ Script!NotWritten
         /\ xSent' = xSent \/ xSent' = xSent + 1
      \/ /\ xRequests' = xRequests + 1 /\ xRequests' <= MaxRequests /\ xSent' = xSent + 1
         /\ xQuota' = Script!Release(both, n) /\ Script!NotWritten
      \/ /\ xRequests' = xRequests + 1 /\ xRequests' <= MaxRequests /\ xSent' = xSent + 1
         /\ first.files <= MaxFiles /\ both.bytes <= MaxBytes /\ xQuota' = both
         /\ Script!Written(n)
  BY DEF Script!Download
<1> HIDE DEF first, both
<1>5. /\ \/ UNCHANGED <<xWrote, xMade, xQuota>>
         \/ /\ xWrote + n <= MaxBytes /\ xMade + 1 <= MaxFiles
            /\ xWrote' = xWrote + n /\ xMade' = xMade + 1
            /\ xQuota' = [bytes |-> xWrote + n, files |-> xMade + 1]
      /\ \/ UNCHANGED <<xRequests, xSent>>
         \/ /\ xRequests' = xRequests + 1
            /\ xSent' = xSent \/ (xRequests + 1 <= MaxRequests /\ xSent' = xSent + 1)
  BY <1>3, <1>4 DEF Script!Rejected, Script!NotWritten, Script!Written
<1>6. xState' \in {"runs", "failed"} /\ xCaught' \in BOOLEAN /\ xCaught' \in {xCaught, TRUE}
  BY <1>1, <1>4 DEF Script!Rejected, Script!NotWritten, Script!Written, Script!Raises,
     Script!Returns, ScriptStates
<1>7. xWrote' \in Nat /\ xMade' \in Nat /\ xSent' \in Nat
  BY <1>2, <1>5
<1>8. ScriptStates' /\ ScriptCounts'
  <2>1. ScriptStates'
    BY <1>1, <1>6, <1>7 DEF ScriptStates
  <2>2. ScriptCounts'
    <3>1. xIntervals' = xIntervals /\ (xRequests' = xRequests \/ xRequests' = xRequests + 1)
      BY <1>1, <1>5
    <3>2. QED
      BY <1>1, <1>7, <3>1, CallCounted
  <2>3. QED
    BY <2>1, <2>2
<1>9. Metered'
  BY <1>1, <1>2, <1>5 DEF Metered
<1>10. Printing' /\ Hooked'
  BY <1>1, <1>6, StillHooked DEF Printing
<1>11. QED
  BY <1>8, <1>9, <1>10


\* The hook counts an interval of instructions, and raises at the last.
LEMMA ScriptHooks ==
  ASSUME Script!ScriptAssumption, ScriptInv, Script!Hook
  PROVE  ScriptInv'
<1> USE ScriptConstants DEF ScriptInv
<1>1. /\ xState = "runs" /\ xCalls < ScriptCalls /\ xCalls' = xCalls + 1 /\
           xIntervals' = xIntervals + 1
      /\ UNCHANGED <<xCaps, xQuota, xRequests, xLate, xOutput, xSize, xCut, xWrote, xMade, xSent,
           xPrinted>>
      /\ xState' \in {"runs", "failed"} /\ xCaught' \in {xCaught, TRUE}
      /\ \/ xIntervals < MaxIntervals
         \/ xState' = "failed"
         \/ xCaught'
  <2>1. /\ xState = "runs" /\ xCalls < ScriptCalls /\ xCalls' = xCalls + 1 /\
             xIntervals' = xIntervals + 1
        /\ UNCHANGED <<xCaps, xQuota, xRequests, xLate, xOutput, xSize, xCut, xWrote, xMade,
             xSent, xPrinted>>
    BY DEF Script!Hook, Script!Call, Script!history, Script!buffer
  <2>2. CASE Script!Raises
    BY <2>1, <2>2 DEF Script!Raises, ScriptStates
  <2>3. CASE ~(xIntervals >= MaxIntervals) /\ Script!Returns
    <3>1. xIntervals < MaxIntervals
      BY <2>3 DEF ScriptCounts
    <3>2. QED
      BY <2>1, <2>3, <3>1 DEF Script!Returns
  <2>4. QED
    BY <2>2, <2>3 DEF Script!Hook
<1>2. ScriptStates' /\ ScriptCounts'
  <2>1. xCaught' \in BOOLEAN
    BY <1>1 DEF ScriptStates
  <2>2. ScriptStates'
    BY <1>1, <2>1 DEF ScriptStates
  <2>3. ScriptCounts'
    BY <1>1 DEF ScriptCounts
  <2>4. QED
    BY <2>2, <2>3
<1>3. Metered' /\ Printing'
  BY <1>1 DEF Metered, Printing
<1>4. Hooked'
  <2>1. CASE xIntervals < MaxIntervals
    BY <1>1, <2>1 DEF Hooked, ScriptCounts
  <2>2. CASE xState' = "failed"
    BY <2>2 DEF Hooked
  <2>3. CASE xCaught'
    BY <2>3 DEF Hooked
  <2>4. QED
    BY <1>1, <2>1, <2>2, <2>3
<1>5. QED
  BY <1>2, <1>3, <1>4

\* A line is printed: into the buffer, as long as all before it were.
LEMMA ScriptPrints ==
  ASSUME Script!ScriptAssumption, ScriptInv, NEW length \in Lines, Script!Echo(length)
  PROVE  ScriptInv'
<1> USE ScriptConstants DEF ScriptInv
<1>1. /\ xState = "runs" /\ xCalls < ScriptCalls /\ xCalls' = xCalls + 1
      /\ UNCHANGED <<xCaps, xState, xCaught, xQuota, xRequests, xIntervals, xLate, xWrote, xMade,
           xSent>>
      /\ xPrinted' = Append(xPrinted, length)
      /\ \/ xCut' = TRUE /\ xOutput' = xOutput /\ xSize' = xSize
         \/ xCut' = xCut /\ xCut /\ xOutput' = xOutput /\ xSize' = xSize
         \/ /\ ~xCut /\ xCut' = xCut /\ xOutput' = Append(xOutput, length)
            /\ ~(xSize + length + 1 > MaxOutput) /\ xSize' = xSize + length + 1
  BY DEF Script!Echo, Script!Call, Script!Returns, Script!counters, Script!buffer
<1>2. /\ xOutput \in Seq(Lines) /\ xPrinted \in Seq(Lines) /\ xCut \in BOOLEAN
  BY DEF ScriptStates
<1>3. /\ xPrinted' \in Seq(Lines) /\ Len(xPrinted') = Len(xPrinted) + 1
      /\ \A i \in 1 .. Len(xPrinted) : xPrinted'[i] = xPrinted[i]
  BY <1>1, <1>2, AddingAtEnd
<1>4. CASE xOutput' = xOutput /\ xSize' = xSize /\ xCut'
  <2>1. Printing'
    BY <1>2, <1>3, <1>4 DEF Printing
  <2>2. ScriptStates' /\ ScriptCounts' /\ Metered' /\ Hooked'
    BY <1>1, <1>3, <1>4 DEF ScriptStates, ScriptCounts, Metered, Hooked
  <2>3. QED
    BY <2>1, <2>2
<1>5. CASE /\ ~xCut /\ xCut' = xCut /\ xOutput' = Append(xOutput, length)
           /\ ~(xSize + length + 1 > MaxOutput) /\ xSize' = xSize + length + 1
  <2>1. xOutput = xPrinted /\ xOutput' = xPrinted'
    BY <1>1, <1>5 DEF Printing
  <2>2. Printing'
    <3>1. length \in Nat /\ xSize \in Nat
      BY DEF Printing
    <3>2. xSize' \in Nat /\ xSize' <= MaxOutput
      BY <1>5, <3>1
    <3>3. QED
      BY <1>3, <2>1, <3>2 DEF Printing
  <2>3. ScriptStates'
    BY <1>1, <1>3, <1>5, <2>1 DEF ScriptStates
  <2>4. ScriptCounts' /\ Metered' /\ Hooked'
    BY <1>1 DEF ScriptCounts, Metered, Hooked
  <2>5. QED
    BY <2>2, <2>3, <2>4
<1>6. QED
  BY <1>1, <1>4, <1>5

\* Calls nothing is counted of, the timeout, and the end.
LEMMA ScriptRest ==
  ASSUME Script!ScriptAssumption, ScriptInv,
         Script!Uncounted \/ Script!TimeOver \/ Script!Ends \/ UNCHANGED Script!vars
  PROVE  ScriptInv'
<1> USE ScriptConstants DEF ScriptInv
<1>1. /\ UNCHANGED <<xCaps, xQuota, xRequests, xIntervals, xOutput, xSize, xCut, xWrote, xMade,
           xSent, xPrinted>>
      /\ xLate' \in BOOLEAN
      /\ xCalls' = xCalls \/ (xCalls < ScriptCalls /\ xCalls' = xCalls + 1)
      /\ \/ xState = "runs" /\ xState' \in {"runs", "done", "failed"}
         \/ xState' = xState
      /\ xCaught' \in {xCaught, TRUE}
      /\ xState' = "runs" => xState = "runs"
  <2> USE DEF ScriptStates
  <2>1. CASE Script!Uncounted
    BY <2>1 DEF Script!Uncounted, Script!Call, Script!Returns, Script!Raises, Script!counters,
       Script!history, Script!buffer
  <2>2. CASE Script!TimeOver
    BY <2>2 DEF Script!TimeOver, Script!counters, Script!history, Script!buffer
  <2>3. CASE Script!Ends
    BY <2>3 DEF Script!Ends, Script!counters, Script!history, Script!buffer
  <2>4. CASE UNCHANGED Script!vars
    BY <2>4 DEF Script!vars, Script!counters, Script!history, Script!buffer
  <2>5. QED
    BY <2>1, <2>2, <2>3, <2>4
<1>2. ScriptStates' /\ ScriptCounts'
  <2>1. xCaught' \in BOOLEAN
    BY <1>1 DEF ScriptStates
  <2>2. ScriptStates'
    BY <1>1, <2>1 DEF ScriptStates
  <2>3. ScriptCounts'
    BY <1>1 DEF ScriptCounts
  <2>4. QED
    BY <2>2, <2>3
<1>3. Metered' /\ Printing'
  BY <1>1 DEF Metered, Printing
<1>4. Hooked'
  <2>1. CASE xState' = "runs"
    BY <1>1, <2>1, StillHooked
  <2>2. CASE xState' # "runs"
    BY <2>2 DEF Hooked
  <2>3. QED
    BY <2>1, <2>2
<1>5. QED
  BY <1>2, <1>3, <1>4

\* ScriptInv is an invariant of the run of a script.
THEOREM ScriptInvariant ==
  ASSUME Script!ScriptAssumption PROVE Script!Spec => []ScriptInv
<1>1. Script!Init => ScriptInv
  BY ScriptInvInit
<1>2. ScriptInv /\ [Script!Next]_(Script!vars) => ScriptInv'
  <2> SUFFICES ASSUME ScriptInv, [Script!Next]_(Script!vars) PROVE ScriptInv'
    OBVIOUS
  <2>1. CASE Script!Uncounted \/ Script!TimeOver \/ Script!Ends \/ UNCHANGED Script!vars
    BY <2>1, ScriptRest
  <2>2. CASE Script!Hook
    BY <2>2, ScriptHooks
  <2>3. CASE \E n \in Sizes : \/ Script!WriteFile(n) \/ Script!AppendFile(n)
                              \/ Script!WriteJson(n) \/ Script!Copy(n)
    BY <2>3, ScriptWrites
  <2>4. CASE \E n \in Sizes : Script!Request(n)
    BY <2>4, ScriptAsks
  <2>5. CASE \E n \in Sizes : Script!Download(n)
    BY <2>5, ScriptDownloads
  <2>6. CASE \E length \in Lines : Script!Echo(length)
    BY <2>6, ScriptPrints
  <2>7. QED
    BY Zenon, <2>1, <2>2, <2>3, <2>4, <2>5, <2>6 DEF Script!Next
<1>3. QED
  BY <1>1, <1>2, PTL DEF Script!Spec

\* Whatever step of whatever call fails, and whatever the script makes of it, the
\* quota is what was written, within its limits; no more requests leave than
\* may, and none from a safe script (QuotaIsExact).
THEOREM ScriptQuotaIsExact ==
  ASSUME Script!ScriptAssumption PROVE Script!Spec => []Script!QuotaIsExact
<1>1. ScriptInv => Script!QuotaIsExact
  BY DEF ScriptInv, Metered, Script!QuotaIsExact
<1>2. QED
  BY <1>1, ScriptInvariant, PTL

\* The types, and the counts within the calls.
LEMMA ScriptTypedFollows ==
  ASSUME Script!ScriptAssumption, ScriptInv PROVE Script!TypeOK
<1> USE ScriptConstants DEF ScriptInv
<1>1. {xRequests, xIntervals, xCalls} \subseteq 0 .. ScriptCalls
  BY DEF ScriptCounts
<1>2. {xLate, xCut, xCaught} \subseteq BOOLEAN /\ xSize \in Nat
  BY DEF ScriptStates, Printing
<1>3. Script!ToSet(xOutput) \union Script!ToSet(xPrinted) \subseteq Lines
  BY DEF ScriptStates, Script!ToSet
<1>4. xQuota \in [bytes : Nat, files : Nat]
  BY DEF ScriptCounts, Metered
<1>5. QED
  BY <1>1, <1>2, <1>3, <1>4 DEF ScriptStates, Script!TypeOK

\* The types of the buffer, the counters and the bounds.
THEOREM ScriptTypes == ASSUME Script!ScriptAssumption PROVE Script!Spec => []Script!TypeOK
BY ScriptInvariant, ScriptTypedFollows, PTL

\* The output begins what was printed and is all of it unless it was cut, within
\* its size, and a script that catches nothing does not outlive its instructions.
LEMMA ScriptOutputFollows ==
  ASSUME Script!ScriptAssumption, ScriptInv PROVE Script!OutputIsPrefix
<1>1. /\ xOutput \in Seq(Lines) /\ xPrinted \in Seq(Lines) /\ Len(xOutput) <= Len(xPrinted)
      /\ \A i \in 1 .. Len(xOutput) : xOutput[i] = xPrinted[i]
  BY DEF ScriptInv, ScriptStates, Printing
<1>2. SubSeq(xOutput, 1, Len(xOutput)) = SubSeq(xPrinted, 1, Len(xOutput))
  BY <1>1
<1>3. Script!IsPrefix(xOutput, xPrinted)
  BY <1>1, <1>2 DEF Script!IsPrefix
<1>4. QED
  BY <1>3 DEF ScriptInv, Printing, Hooked, Script!OutputIsPrefix

\* What a script printed is kept in its order, up to the first line that does not
\* fit, whatever else it calls (OutputIsPrefix).
THEOREM ScriptOutputIsPrefix ==
  ASSUME Script!ScriptAssumption PROVE Script!Spec => []Script!OutputIsPrefix
BY ScriptInvariant, ScriptOutputFollows, PTL

-----------------------------------------------------------------------------
(* TerminalSessions: no shell is lost, and no more of them than may be      *)


CallerSteps == {"idle", "reap", "check", "spawn", "insert", "kill", "wait", "drain"}

TableTyped ==
  /\ tTable \in SUBSET ShellIds /\ tShell \in [ShellIds -> BOOLEAN]
  /\ tPc \in [Callers -> CallerSteps] /\ tId \in [Callers -> ShellIds \union {0}]
  /\ \A c \in Callers : tPc[c] \in {"insert", "kill"} => tId[c] \in ShellIds

TableInv == TableTyped /\ Terminal!WithinLimit /\ Terminal!NoShellIsLost

\* The operators are the same wherever they are instantiated.
LEMMA SameSize ==
  ASSUME NEW S
  PROVE  Terminal!Cardinality(S) = Cardinality(S) /\ (Terminal!IsFiniteSet(S) <=> IsFiniteSet(S))
BY DEF Terminal!Cardinality, Cardinality, Terminal!IsFiniteSet, IsFiniteSet

\* Sets of sessions are finite; one fewer are no more, and one more is one more.
LEMMA TablesCount ==
  ASSUME Terminal!SessionsAssumption, NEW S \in SUBSET ShellIds, NEW s \in ShellIds
  PROVE  /\ Terminal!Cardinality(S) \in Nat
         /\ Terminal!Cardinality(S \ {s}) <= Terminal!Cardinality(S)
         /\ Terminal!Cardinality(S \union {s}) <= Terminal!Cardinality(S) + 1
<1>1. IsFiniteSet(S)
  BY FS_Subset, SameSize DEF Terminal!SessionsAssumption
<1>2. /\ Cardinality(S) \in Nat
      /\ Cardinality(S \union {s}) = IF s \in S THEN Cardinality(S) ELSE Cardinality(S) + 1
      /\ Cardinality(S \ {s}) <= Cardinality(S)
  <2>1. S \ {s} \in SUBSET S
    OBVIOUS
  <2>2. QED
    BY <1>1, <2>1, FS_CardinalityType, FS_AddElement, FS_Subset
<1>3. QED
  BY <1>2, SameSize

\* A caller gets a shell in its hands, or lets go of one, by the steps it takes
\* towards the table or away from it.
LEMMA CallerKeeps ==
  ASSUME Terminal!SessionsAssumption, TableInv, NEW c \in Callers,
         \/ Terminal!Spawn(c) \/ Terminal!Insert(c) \/ Terminal!Reap(c)
         \/ Terminal!KillSession(c) \/ \E s \in ShellIds : Terminal!KillRequest(c, s)
  PROVE  TableInv'
<1> USE DEF TableInv, TableTyped, CallerSteps
<1>0. /\ \A s \in ShellIds : tShell[s] => s \in tTable
           \/ \E d \in Callers : tId[d] = s /\ tPc[d] \in {"insert", "kill"}
      /\ Terminal!Cardinality(tTable) <= MaxSessions /\ MaxSessions \in Nat
  BY DEF Terminal!NoShellIsLost, Terminal!WithinLimit, Terminal!SessionsAssumption
<1>1. CASE Terminal!Spawn(c)
  <2>1. /\ tPc[c] = "spawn" /\ tBorn + 1 \in ShellIds /\ tTable' = tTable
        /\ tShell' = [tShell EXCEPT ![tBorn + 1] = TRUE]
        /\ tId' = [tId EXCEPT ![c] = tBorn + 1] /\ tPc' = [tPc EXCEPT ![c] = "insert"]
    BY <1>1 DEF Terminal!Spawn, Terminal!With, Terminal!Go
  <2>2. TableTyped'
    BY <2>1
  <2>3. Terminal!NoShellIsLost'
    BY <1>0, <2>1 DEF Terminal!NoShellIsLost
  <2>4. Terminal!WithinLimit'
    BY <2>1 DEF Terminal!WithinLimit
  <2>5. QED
    BY <2>2, <2>3, <2>4
<1>2. CASE Terminal!Insert(c)
  <2>1. /\ tPc[c] = "insert" /\ tId[c] \in ShellIds /\ tPc' = [tPc EXCEPT ![c] = "idle"] /\
             tId' = tId
        /\ \/ /\ Terminal!Cardinality(tTable) < MaxSessions
              /\ tTable' = tTable \union {tId[c]} /\ tShell' = tShell
           \/ tTable' = tTable /\ tShell' = [tShell EXCEPT ![tId[c]] = FALSE]
    BY <1>2 DEF Terminal!Insert, Terminal!Kill, Terminal!Go, Terminal!RoomLeft
  <2>2. TableTyped'
    BY <2>1
  <2>3. Terminal!NoShellIsLost'
    BY <1>0, <2>1 DEF Terminal!NoShellIsLost
  <2>4. Terminal!WithinLimit'
    <3>1. CASE tTable' = tTable
      BY <1>0, <3>1 DEF Terminal!WithinLimit
    <3>2. CASE /\ Terminal!Cardinality(tTable) < MaxSessions
               /\ tTable' = tTable \union {tId[c]}
      <4>1. /\ Terminal!Cardinality(tTable) \in Nat
            /\ Terminal!Cardinality(tTable \union {tId[c]}) <= Terminal!Cardinality(tTable) + 1
            /\ Terminal!Cardinality(tTable \union {tId[c]}) \in Nat
        <5>1. tTable \in SUBSET ShellIds /\ tTable \union {tId[c]} \in SUBSET ShellIds /\
                tId[c] \in ShellIds
          BY <2>1
        <5>2. QED
          BY <5>1, TablesCount
      <4>2. QED
        BY <1>0, <3>2, <4>1 DEF Terminal!WithinLimit
    <3>3. QED
      BY <2>1, <3>1, <3>2
  <2>5. QED
    BY <2>2, <2>3, <2>4
<1>3. CASE Terminal!Reap(c)
  <2>1. PICK s \in tDoomed[c] :
          /\ tTable' = tTable \ {s} /\ tPc' = tPc /\ tId' = tId
          /\ IF s \in tTable THEN tShell' = [tShell EXCEPT ![s] = FALSE] ELSE tShell' = tShell
    BY <1>3 DEF Terminal!Reap, Terminal!Kill
  <2>2. TableTyped'
    BY <2>1
  <2>3. Terminal!NoShellIsLost'
    BY <1>0, <2>1 DEF Terminal!NoShellIsLost
  <2>4. Terminal!WithinLimit'
    <3>1. CASE s \in tTable
      BY <1>0, <2>1, <3>1, TablesCount DEF Terminal!WithinLimit
    <3>2. CASE s \notin tTable
      BY <1>0, <2>1, <3>2 DEF Terminal!WithinLimit
    <3>3. QED
      BY <3>1, <3>2
  <2>5. QED
    BY <2>2, <2>3, <2>4
<1>4. CASE Terminal!KillSession(c)
  <2>1. /\ tPc[c] = "kill" /\ tPc' = [tPc EXCEPT ![c] = "idle"] /\ tId' = tId
        /\ tTable' = tTable /\ tShell' = [tShell EXCEPT ![tId[c]] = FALSE]
    BY <1>4 DEF Terminal!KillSession, Terminal!Kill, Terminal!Go, Terminal!manager
  <2>2. TableTyped'
    BY <2>1
  <2>3. Terminal!NoShellIsLost'
    BY <1>0, <2>1 DEF Terminal!NoShellIsLost
  <2>4. Terminal!WithinLimit'
    BY <2>1 DEF Terminal!WithinLimit
  <2>5. QED
    BY <2>2, <2>3, <2>4
<1>5. ASSUME NEW s \in ShellIds, Terminal!KillRequest(c, s) PROVE TableInv'
  <2>1. /\ tPc[c] = "idle" /\ tPc' = [tPc EXCEPT ![c] = "kill"]
        /\ tId' = [tId EXCEPT ![c] = s] /\ tShell' = tShell
        /\ s \in tTable /\ tTable' = tTable \ {s}
    BY <1>5 DEF Terminal!KillRequest, Terminal!Call, Terminal!With, Terminal!Go, Terminal!session
  <2>2. TableTyped'
    BY <2>1
  <2>3. Terminal!NoShellIsLost'
    BY <1>0, <2>1 DEF Terminal!NoShellIsLost
  <2>4. Terminal!WithinLimit'
    BY <1>0, <2>1, TablesCount DEF Terminal!WithinLimit
  <2>5. QED
    BY <2>2, <2>3, <2>4
<1>6. QED
  BY <1>1, <1>2, <1>3, <1>4, <1>5

\* All other steps neither start a shell nor move one.
LEMMA OthersKeep ==
  ASSUME TableInv,
         \/ \E c \in Callers :
              \/ Terminal!Create(c) \/ Terminal!PreCheck(c) \/ Terminal!SpawnFails(c)
              \/ \E timeout \in BOOLEAN : Terminal!Look(c, timeout)
              \/ Terminal!LookAtDead(c) \/ Terminal!Drain(c)
              \/ \E s \in ShellIds, timed \in BOOLEAN : Terminal!ReadOutput(c, s, timed)
         \/ \E s \in ShellIds : Terminal!Pump(s) \/ Terminal!PumpChunk(s) \/ Terminal!Exits(s)
         \/ Terminal!Tick \/ UNCHANGED Terminal!vars
  PROVE  TableInv'
<1> USE DEF TableInv, TableTyped, CallerSteps
<1>1. ASSUME tTable' = tTable, tShell' = tShell, NEW c \in Callers,
        tPc[c] \notin {"insert", "kill"},
          \E to \in CallerSteps \ {"insert", "kill"} : tPc' = [tPc EXCEPT ![c] = to], tId' = tId \/
            \E s \in ShellIds : tId' = [tId EXCEPT ![c] = s]
      PROVE  TableInv'
  <2>1. TableTyped'
    BY <1>1
  <2>2. Terminal!NoShellIsLost' /\ Terminal!WithinLimit'
    BY <1>1 DEF Terminal!NoShellIsLost, Terminal!WithinLimit
  <2>3. QED
    BY <2>1, <2>2
<1>2. ASSUME NEW c \in Callers,
             \/ Terminal!Create(c) \/ Terminal!PreCheck(c) \/ Terminal!SpawnFails(c)
             \/ \E timeout \in BOOLEAN : Terminal!Look(c, timeout)
             \/ Terminal!LookAtDead(c) \/ Terminal!Drain(c)
             \/ \E s \in ShellIds, timed \in BOOLEAN : Terminal!ReadOutput(c, s, timed)
      PROVE  TableInv'
  <2>1. /\ tTable' = tTable /\ tShell' = tShell /\ tPc[c] \notin {"insert", "kill"}
        /\ \E to \in CallerSteps \ {"insert", "kill"} : tPc' = [tPc EXCEPT ![c] = to]
        /\ tId' = tId \/ \E s \in ShellIds : tId' = [tId EXCEPT ![c] = s]
    BY <1>2 DEF Terminal!Create, Terminal!PreCheck, Terminal!SpawnFails, Terminal!Look,
       Terminal!LookAtDead, Terminal!Drain, Terminal!ReadOutput, Terminal!Call, Terminal!Go,
       Terminal!With, Terminal!manager, Terminal!session
  <2>2. QED
    BY <1>1, <2>1
<1>3. ASSUME NEW s \in ShellIds, Terminal!Pump(s) \/ Terminal!PumpChunk(s) \/ Terminal!Exits(s)
      PROVE  TableInv'
  <2>1. /\ tTable' = tTable /\ tPc' = tPc /\ tId' = tId
        /\ tShell' = tShell \/ tShell' = [tShell EXCEPT ![s] = FALSE]
    BY <1>3 DEF Terminal!Pump, Terminal!PumpChunk, Terminal!Exits, Terminal!PumpText,
       Terminal!PumpNothing, Terminal!PumpStops, Terminal!PumpEnd,
       Terminal!manager, Terminal!session, Terminal!caller
  <2>2. TableTyped'
    BY <2>1
  <2>3. Terminal!NoShellIsLost' /\ Terminal!WithinLimit'
    BY <2>1 DEF Terminal!NoShellIsLost, Terminal!WithinLimit
  <2>4. QED
    BY <2>2, <2>3
<1>4. ASSUME Terminal!Tick \/ UNCHANGED Terminal!vars PROVE TableInv'
  <2>1. UNCHANGED <<tTable, tShell, tPc, tId>>
    BY <1>4 DEF Terminal!Tick, Terminal!vars, Terminal!manager, Terminal!session, Terminal!caller
  <2>2. QED
    BY <2>1 DEF Terminal!NoShellIsLost, Terminal!WithinLimit
<1>5. QED
  BY <1>2, <1>3, <1>4

\* The table's invariant holds in every reachable state, for any number of
\* callers and sessions, and any limits.
THEOREM TableInvariant ==
  ASSUME Terminal!SessionsAssumption PROVE TerminalSafety => []TableInv
<1>1. ASSUME Terminal!Init PROVE TableInv
  <2>1. Terminal!Cardinality({}) = 0
    BY SameSize, FS_EmptySet
  <2>2. QED
    BY <1>1, <2>1 DEF Terminal!Init, TableInv, TableTyped, CallerSteps, Terminal!WithinLimit,
       Terminal!NoShellIsLost, Terminal!SessionsAssumption
<1>2. ASSUME TableInv, [Terminal!Next]_(Terminal!vars) PROVE TableInv'
  BY <1>2, CallerKeeps, OthersKeep DEF Terminal!Next, Terminal!Step
<1>3. QED
  BY <1>1, <1>2, PTL DEF TerminalSafety

\* However many create_session calls pass the first check together, the second
\* one, under the write lock, keeps the table within max_sessions.
THEOREM TableWithinLimit ==
  ASSUME Terminal!SessionsAssumption PROVE TerminalSafety => []Terminal!WithinLimit
<1>1. TableInv => Terminal!WithinLimit
  BY DEF TableInv
<1>2. QED
  BY <1>1, TableInvariant, PTL

\* A shell that runs is in the table, or in the hands of a caller that will put
\* it there or end it: no path of create, kill or reap leaks a process.
THEOREM ShellsAreReachable ==
  ASSUME Terminal!SessionsAssumption PROVE TerminalSafety => []Terminal!NoShellIsLost
<1>1. TableInv => Terminal!NoShellIsLost
  BY DEF TableInv
<1>2. QED
  BY <1>1, TableInvariant, PTL

Pumping == {"none", "read", "decode", "eof", "done"}

\* Sessions have the ids that were given out; the clock, the flags, the locks
\* and what each caller found idle.
BornTyped ==
  /\ tBorn \in ShellIds \union {0} /\ tTable \subseteq 1 .. tBorn
  /\ \A c \in Callers : tId[c] \in 0 .. tBorn
ClocksTyped ==
  /\ tClock \in 0 .. MaxTime /\ tCalls \in 0 .. MaxCalls /\ tChunks \in 0 .. MaxChunks
  /\ tUsed \in [ShellIds -> 0 .. MaxTime]
SessionsTyped ==
  /\ tAlive \in [ShellIds -> BOOLEAN] /\ tText \in [ShellIds -> BOOLEAN]
  /\ tPump \in [ShellIds -> Pumping]
  /\ tBuffer \in [ShellIds -> Callers \union {Free}] /\ tDecoder \in [ShellIds -> {"pump", Free}]
  /\ tDoomed \in [Callers -> SUBSET ShellIds]

\* There are no sessions at first.
LEMMA TerminalsTypedInit ==
  ASSUME Terminal!SessionsAssumption, Terminal!Init
  PROVE  BornTyped /\ ClocksTyped /\ SessionsTyped
BY DEF Terminal!SessionsAssumption, Terminal!Init, BornTyped, ClocksTyped, SessionsTyped, Pumping

\* The ids are the numbers from one.
LEMMA ShellsNumbered ==
  ASSUME Terminal!SessionsAssumption
  PROVE  \E n \in Nat : ShellIds = 1 .. n
<1>1. IsFiniteSet(ShellIds) /\ ShellIds = 1 .. Cardinality(ShellIds)
  BY SameSize DEF Terminal!SessionsAssumption
<1>2. QED
  BY <1>1, FS_CardinalityType

\* Only a session that was spawned gets into the table or to a caller.
LEMMA BornStep ==
  ASSUME Terminal!SessionsAssumption, TableInv, BornTyped, [Terminal!Next]_(Terminal!vars)
  PROVE  BornTyped'
<1> USE DEF BornTyped, Terminal!manager, Terminal!caller
<1> PICK n \in Nat : ShellIds = 1 .. n
  BY ShellsNumbered
<1>1. TableTyped /\ tBorn \in 0 .. n
  BY DEF TableInv
<1>2. CASE \E c \in Callers : Terminal!Spawn(c)
  <2>1. PICK c \in Callers : Terminal!Spawn(c)
    BY <1>2
  <2>2. tBorn' = tBorn + 1 /\ tBorn + 1 \in 1 .. n /\ tTable' = tTable
    BY <2>1 DEF Terminal!Spawn
  <2>3. \A d \in Callers : tId'[d] \in {tId[d], tBorn + 1}
    BY <1>1, <2>1, <2>2 DEF Terminal!Spawn, Terminal!With, TableTyped
  <2>4. QED
    BY <1>1, <2>2, <2>3
<1>3. CASE \E c \in Callers, s \in ShellIds :
             Terminal!KillRequest(c, s) \/ \E timed \in BOOLEAN : Terminal!ReadOutput(c, s, timed)
  <2>1. PICK c \in Callers, s \in ShellIds :
          Terminal!KillRequest(c, s) \/ \E timed \in BOOLEAN : Terminal!ReadOutput(c, s, timed)
    BY <1>3
  <2>2. s \in tTable /\ tTable' \subseteq tTable /\ tBorn' = tBorn /\ tId' = [tId EXCEPT ![c] = s]
    BY <2>1 DEF Terminal!KillRequest, Terminal!ReadOutput, Terminal!With
  <2>3. QED
    BY <1>1, <2>2 DEF TableTyped
<1>4. CASE \E c \in Callers : Terminal!Insert(c)
  <2>1. PICK c \in Callers : Terminal!Insert(c)
    BY <1>4
  <2>2. tId[c] \in 1 .. tBorn
    BY <1>1, <2>1 DEF Terminal!Insert, TableTyped
  <2>3. tTable' \subseteq tTable \union {tId[c]} /\ tBorn' = tBorn /\ tId' = tId
    BY <2>1 DEF Terminal!Insert
  <2>4. QED
    BY <2>2, <2>3
<1>5. CASE tBorn' = tBorn /\ tTable' \subseteq tTable /\ tId' = tId
  BY <1>5
<1>6. QED
  <2>1. CASE \E c \in Callers : \/ Terminal!Create(c) \/ Terminal!Reap(c) \/ Terminal!PreCheck(c)
                                \/ Terminal!SpawnFails(c) \/ Terminal!KillSession(c)
                                \/ Terminal!LookAtDead(c) \/ Terminal!Drain(c)
                                \/ \E timeout \in BOOLEAN : Terminal!Look(c, timeout)
    BY <2>1, <1>5 DEF Terminal!Create, Terminal!Reap, Terminal!PreCheck, Terminal!SpawnFails,
       Terminal!KillSession, Terminal!LookAtDead, Terminal!Drain, Terminal!Look
  <2>2. CASE \E s \in ShellIds : Terminal!Pump(s) \/ Terminal!PumpChunk(s) \/ Terminal!Exits(s)
    BY <2>2, <1>5 DEF Terminal!Pump, Terminal!PumpChunk, Terminal!Exits, Terminal!PumpText,
       Terminal!PumpNothing, Terminal!PumpStops, Terminal!PumpEnd
  <2>3. CASE Terminal!Tick \/ UNCHANGED Terminal!vars
    BY <2>3, <1>5 DEF Terminal!Tick, Terminal!vars
  <2>4. QED
    BY <2>1, <2>2, <2>3, <1>2, <1>3, <1>4 DEF Terminal!Next, Terminal!Step

\* Times are of the clock.
LEMMA ClocksStep ==
  ASSUME Terminal!SessionsAssumption, TableInv, ClocksTyped, [Terminal!Next]_(Terminal!vars)
  PROVE  ClocksTyped'
<1> USE DEF ClocksTyped, Terminal!bounds, Terminal!session
<1>1. {MaxTime, MaxCalls, MaxChunks} \subseteq Nat
  BY DEF Terminal!SessionsAssumption
<1>2. CASE Terminal!Tick
  BY <1>1, <1>2 DEF Terminal!Tick
<1>3. CASE \E c \in Callers :
             \/ Terminal!Create(c)
             \/ \E s \in ShellIds : \/ Terminal!KillRequest(c, s)
                                    \/ \E timed \in BOOLEAN : Terminal!ReadOutput(c, s, timed)
  BY <1>1, <1>3 DEF Terminal!Create, Terminal!KillRequest, Terminal!ReadOutput, Terminal!Call,
     Terminal!Touch
<1>4. CASE \E c \in Callers : Terminal!Step(c)
  BY <1>4 DEF Terminal!Step, Terminal!Reap, Terminal!PreCheck, Terminal!Spawn, Terminal!SpawnFails,
     Terminal!Insert, Terminal!KillSession, Terminal!LookAtDead, Terminal!Drain, Terminal!Look,
     Terminal!Touch
<1>5. CASE \E s \in ShellIds : Terminal!Pump(s) \/ Terminal!PumpChunk(s) \/ Terminal!Exits(s)
  BY <1>1, <1>5 DEF Terminal!Pump, Terminal!PumpChunk, Terminal!Exits, Terminal!PumpText,
     Terminal!PumpNothing, Terminal!PumpStops, Terminal!PumpEnd
<1>6. CASE UNCHANGED Terminal!vars
  BY <1>6 DEF Terminal!vars
<1>7. QED
  BY <1>2, <1>3, <1>4, <1>5, <1>6 DEF Terminal!Next

\* A lock is free, or whoever took it has it.
LEMMA SessionsStep ==
  ASSUME Terminal!SessionsAssumption, TableInv, SessionsTyped, [Terminal!Next]_(Terminal!vars)
  PROVE  SessionsTyped'
<1> USE DEF SessionsTyped, Pumping, Terminal!session, Terminal!locks, Terminal!caller
<1>1. tTable \subseteq ShellIds
  BY DEF TableInv, TableTyped
<1>2. CASE \E c \in Callers :
             \/ Terminal!Create(c) \/ Terminal!Reap(c) \/ Terminal!PreCheck(c)
             \/ Terminal!SpawnFails(c) \/ Terminal!KillSession(c) \/ Terminal!Insert(c)
  BY <1>1, <1>2 DEF Terminal!Create, Terminal!Reap, Terminal!PreCheck, Terminal!SpawnFails,
     Terminal!Insert, Terminal!KillSession, Terminal!Kill
<1>3. CASE \E c \in Callers :
             \/ Terminal!Spawn(c) \/ Terminal!LookAtDead(c) \/ Terminal!Drain(c)
             \/ \E timeout \in BOOLEAN : Terminal!Look(c, timeout)
             \/ \E s \in ShellIds : \/ Terminal!KillRequest(c, s)
                                    \/ \E timed \in BOOLEAN : Terminal!ReadOutput(c, s, timed)
  <2>1. PICK c \in Callers :
          \/ Terminal!Spawn(c) \/ Terminal!LookAtDead(c) \/ Terminal!Drain(c)
          \/ \E timeout \in BOOLEAN : Terminal!Look(c, timeout)
          \/ \E s \in ShellIds : \/ Terminal!KillRequest(c, s)
                                 \/ \E timed \in BOOLEAN : Terminal!ReadOutput(c, s, timed)
    BY <1>3
  <2>2. CASE Terminal!Spawn(c)
    BY <2>2 DEF Terminal!Spawn
  <2>3. CASE Terminal!LookAtDead(c)
    BY <2>3 DEF Terminal!LookAtDead
  <2>4. CASE Terminal!Drain(c)
    BY <2>4 DEF Terminal!Drain
  <2>5. CASE \E timeout \in BOOLEAN : Terminal!Look(c, timeout)
    BY <2>5 DEF Terminal!Look
  <2>6. CASE \E s \in ShellIds : \/ Terminal!KillRequest(c, s)
                                 \/ \E timed \in BOOLEAN : Terminal!ReadOutput(c, s, timed)
    BY <2>6 DEF Terminal!KillRequest, Terminal!ReadOutput
  <2>7. QED
    BY <2>1, <2>2, <2>3, <2>4, <2>5, <2>6
<1>4. CASE \E s \in ShellIds : Terminal!PumpChunk(s) \/ Terminal!Exits(s) \/ Terminal!PumpNothing(s)
                               \/ Terminal!PumpStops(s)
  BY <1>4 DEF Terminal!PumpChunk, Terminal!Exits, Terminal!PumpNothing, Terminal!PumpStops
<1>5. CASE \E s \in ShellIds : Terminal!PumpText(s) \/
             \E tail \in BOOLEAN : Terminal!PumpEnd(s, tail)
  BY <1>5 DEF Terminal!PumpText, Terminal!PumpEnd
<1>6. CASE Terminal!Tick \/ UNCHANGED Terminal!vars
  BY <1>6 DEF Terminal!Tick, Terminal!vars
<1>7. QED
  BY <1>2, <1>3, <1>4, <1>5, <1>6 DEF Terminal!Next, Terminal!Step, Terminal!Pump

\* The types of sessions, locks and callers.
LEMMA TerminalsTypedFollows ==
  ASSUME Terminal!SessionsAssumption, TableInv, BornTyped, ClocksTyped, SessionsTyped
  PROVE  Terminal!TypeOK
BY DEF TableInv, TableTyped, BornTyped, ClocksTyped, SessionsTyped, Pumping, CallerSteps,
  Terminal!TypeOK

\* The types; and no session is in the table that was not spawned.
THEOREM TerminalStates ==
  ASSUME Terminal!SessionsAssumption PROVE TerminalSafety => []Terminal!TypeOK
<1>1. Terminal!Init => BornTyped /\ ClocksTyped /\ SessionsTyped
  BY TerminalsTypedInit
<1>2. TableInv /\ BornTyped /\ ClocksTyped /\ SessionsTyped /\ [Terminal!Next]_(Terminal!vars) =>
        (BornTyped /\ ClocksTyped /\ SessionsTyped)'
  BY BornStep, ClocksStep, SessionsStep
<1>3. TableInv /\ BornTyped /\ ClocksTyped /\ SessionsTyped => Terminal!TypeOK
  BY TerminalsTypedFollows
<1>4. QED
  BY <1>1, <1>2, <1>3, TableInvariant, PTL DEF TerminalSafety

-----------------------------------------------------------------------------
(* TerminalScreen: the cursor stays on the screen, the shell's screen as it was *)

Characters == {" ", "x", "W"}
CellRow(cols) == [0 .. cols - 1 -> Characters \union {"_"}]
CellGrid(cols, rows) == [0 .. rows - 1 -> CellRow(cols)]
Saved == {lines \in Seq(UNION {CellRow(cols) : cols \in Nat}) : Len(lines) <= MaxScrollback}

\* The screens of a size.
Screens(cols, rows) ==
  [cols : {cols}, rows : {rows}, active : Screen!Buffers,
    grid : [Screen!Buffers -> CellGrid(cols, rows)], row : Nat, col : Nat, saved : Nat \X Nat,
      wrap : BOOLEAN, top : Nat, bottom : 0 .. rows - 1, autowrap : BOOLEAN, origin : BOOLEAN,
   last : Characters, back : Saved, dead : BOOLEAN]

\* The cursor and the one that is saved are on the screen.
OnIt(s) ==
  /\ ~s.dead /\ s.row < s.rows /\ s.col < s.cols
  /\ s.saved[1] < s.rows /\ s.saved[2] < s.cols /\ s.top <= s.bottom

\* An operation from s to t keeps the types, the cursor where it may be, and on
\* the alternate screen the shell's.
Keeps(s, t) ==
  /\ t \in Screens(s.cols, s.rows)
  /\ OnIt(s) => OnIt(t)
  /\ s.active = "alternate" => t.grid["primary"] = s.grid["primary"] /\ t.back = s.back

\* ... and stays on the screen it is on.
Stays(s, t) == Keeps(s, t) /\ t.active = s.active

\* One operation after another is an operation.
LEMMA StaysStays ==
  ASSUME NEW s, NEW t, NEW u, s \in Screens(s.cols, s.rows), Stays(s, t), Stays(t, u)
  PROVE  Stays(s, u)
<1>1. t.cols = s.cols /\ t.rows = s.rows
  BY DEF Stays, Keeps, Screens
<1>2. QED
  BY <1>1 DEF Stays, Keeps

\* Nothing done is an operation.
LEMMA StaysAsItIs == ASSUME NEW s, s \in Screens(s.cols, s.rows) PROVE Stays(s, s)
BY DEF Stays, Keeps

\* Writing into a screen's cells changes nothing else.
LEMMA DrawStays ==
  ASSUME NEW c \in Nat \ {0}, NEW r \in Nat \ {0}, NEW s \in Screens(c, r), NEW f \in CellGrid(c, r)
  PROVE  /\ Stays(s, Screen!Draw(s, f)) /\ Screen!Draw(s, f) \in Screens(c, r)
         /\ Screen!Cells(Screen!Draw(s, f)) = f
         /\ \A field \in DOMAIN s \ {"grid"} : Screen!Draw(s, f)[field] = s[field]
<1> DEFINE t == Screen!Draw(s, f)
<1>1. /\ s.cols = c /\ s.rows = r /\ s.active \in Screen!Buffers
      /\ s.grid \in [Screen!Buffers -> CellGrid(c, r)]
  BY DEF Screens
<1>2. t = [s EXCEPT !.grid = [s.grid EXCEPT ![s.active] = f]]
  BY DEF Screen!Draw
<1>3. [s.grid EXCEPT ![s.active] = f] \in [Screen!Buffers -> CellGrid(c, r)]
  BY <1>1
<1>4. t \in Screens(c, r)
  BY <1>2, <1>3 DEF Screens
<1>5. \A field \in DOMAIN s \ {"grid"} : t[field] = s[field]
  BY <1>2
<1>6. t.grid = [s.grid EXCEPT ![s.active] = f]
  BY <1>2 DEF Screens
<1>7. /\ t.cols = s.cols /\ t.rows = s.rows /\ t.active = s.active /\ t.row = s.row /\ t.col = s.col
      /\ t.saved = s.saved /\ t.top = s.top /\ t.bottom = s.bottom /\ t.dead = s.dead
      /\ t.back = s.back
  BY <1>2 DEF Screens
<1>8. s.active = "alternate" => t.grid["primary"] = s.grid["primary"]
  BY <1>1, <1>6 DEF Screen!Buffers
<1>9. Screen!Cells(t) = f
  BY <1>1, <1>6, <1>7 DEF Screen!Cells
<1>10. QED
  BY <1>1, <1>4, <1>5, <1>7, <1>8, <1>9 DEF Stays, Keeps, OnIt

\* A cursor moved within the screen.
LEMMA MoveStays ==
  ASSUME NEW c \in Nat \ {0}, NEW r \in Nat \ {0}, NEW s \in Screens(c, r),
         NEW row \in Nat, NEW col \in Nat, OnIt(s) => row < r /\ col < c
  PROVE  Stays(s, Screen!Move(s, row, col)) /\ Screen!Move(s, row, col) \in Screens(c, r)
BY DEF Screens, Screen!Move, Stays, Keeps, OnIt

\* Lines shifted within the screen.
LEMMA ShiftStays ==
  ASSUME NEW c \in Nat \ {0}, NEW r \in Nat \ {0}, NEW s \in Screens(c, r),
         NEW n \in Nat, NEW first \in Nat, NEW last \in Nat, last < r, n <= last - first
  PROVE  /\ Stays(s, Screen!ShiftUp(s, n, first, last))
         /\ Screen!ShiftUp(s, n, first, last) \in Screens(c, r)
         /\ Stays(s, Screen!ShiftDown(s, n, first, last))
         /\ Screen!ShiftDown(s, n, first, last) \in Screens(c, r)
<1>1. s.cols = c /\ s.rows = r /\ Screen!Cells(s) \in CellGrid(c, r)
  BY DEF Screens, Screen!Cells
<1>2. Screen!BlankRow(s) \in CellRow(c)
  BY <1>1 DEF Screen!BlankRow, CellRow, Characters
<1> DEFINE g == Screen!Cells(s)
           b == Screen!BlankRow(s)
           up == [i \in 0 .. r - 1 |->
                    CASE i \in first .. last - n -> g[i + n]
                      [] i \in last - n + 1 .. last -> b
                      [] OTHER -> g[i]]
           down == [i \in 0 .. r - 1 |->
                      CASE i \in first + n .. last -> g[i - n]
                        [] i \in first .. first + n - 1 -> b
                        [] OTHER -> g[i]]
<1> HIDE DEF g, b
<1>3. g \in [0 .. r - 1 -> CellRow(c)] /\ b \in CellRow(c)
  BY <1>1, <1>2 DEF CellGrid, g, b
<1>4. up \in [0 .. r - 1 -> CellRow(c)]
  <2> SUFFICES ASSUME NEW i \in 0 .. r - 1 PROVE up[i] \in CellRow(c)
    OBVIOUS
  <2>1. CASE i \in first .. last - n
    BY <1>3, <2>1
  <2>2. CASE i \notin first .. last - n
    BY <1>3, <2>2
  <2>3. QED
    BY <2>1, <2>2
<1>5. down \in [0 .. r - 1 -> CellRow(c)]
  <2> SUFFICES ASSUME NEW i \in 0 .. r - 1 PROVE down[i] \in CellRow(c)
    OBVIOUS
  <2>1. CASE i \in first + n .. last
    BY <1>3, <2>1
  <2>2. CASE i \notin first + n .. last
    BY <1>3, <2>2
  <2>3. QED
    BY <2>1, <2>2
<1>6. /\ Screen!ShiftUp(s, n, first, last) = Screen!Draw(s, up)
      /\ Screen!ShiftDown(s, n, first, last) = Screen!Draw(s, down)
  BY <1>1 DEF Screen!ShiftUp, Screen!ShiftDown, g, b
<1> HIDE DEF up, down
<1>7. QED
  BY <1>4, <1>5, <1>6, DrawStays DEF CellGrid

\* Changing the cursor and the modes, but neither the cells nor the scrollback.
LEMMA FieldsStay ==
  ASSUME NEW c \in Nat \ {0}, NEW r \in Nat \ {0}, NEW s \in Screens(c, r), NEW t \in Screens(c, r),
         t.grid = s.grid, t.back = s.back, t.active = s.active, OnIt(s) => OnIt(t)
  PROVE  Stays(s, t)
BY DEF Screens, Stays, Keeps

\* The lines that leave the top are kept in the scrollback, up to its limit.
LEMMA NotedIsSaved ==
  ASSUME MaxScrollback \in Nat,
         NEW c \in Nat \ {0}, NEW r \in Nat \ {0}, NEW s \in Screens(c, r), NEW n \in Nat,
         NEW lines, lines = s.back \o [i \in 1 .. n |-> Screen!Cells(s)[0]]
  PROVE  SubSeq(lines, Screen!Most(1, Len(lines) - MaxScrollback + 1), Len(lines)) \in Saved
<1> DEFINE Line == UNION {CellRow(cols) : cols \in Nat}
           out == [i \in 1 .. n |-> Screen!Cells(s)[0]]
           from == Screen!Most(1, Len(lines) - MaxScrollback + 1)
           kept == SubSeq(lines, from, Len(lines))
<1>1. Screen!Cells(s)[0] \in CellRow(c)
  BY DEF Screens, Screen!Cells, CellGrid
<1>2. Screen!Cells(s)[0] \in Line
  BY <1>1
<1>3. s.back \in Seq(Line)
  BY DEF Screens, Saved
<1> HIDE DEF Line
<1>4. out \in Seq(Line)
  BY <1>2
<1>5. lines \in Seq(Line)
  BY <1>3, <1>4
<1>6. Len(lines) \in Nat
  BY <1>5
<1>7. from \in Nat /\ from >= 1 /\ Len(lines) - from + 1 <= MaxScrollback
  BY <1>6 DEF Screen!Most
<1> HIDE DEF from
<1>8. kept \in Seq(Line) /\ Len(kept) <= MaxScrollback
  <2>1. \A q \in Seq(Line), k \in Nat : k >= 1 =>
          SubSeq(q, k, Len(q)) \in Seq(Line) /\
            Len(SubSeq(q, k, Len(q))) = IF k <= Len(q) THEN Len(q) - k + 1 ELSE 0
    OBVIOUS
  <2>2. kept \in Seq(Line) /\ Len(kept) = IF from <= Len(lines) THEN Len(lines) - from + 1 ELSE 0
    BY <1>5, <1>7, <2>1
  <2>3. QED
    BY <1>7, <2>2
<1> HIDE DEF kept
<1>9. kept \in Saved
  BY <1>8 DEF Line, Saved
<1>10. QED
  BY <1>9 DEF kept, from

\* Lines scrolled up, and noted for the scrollback on the primary screen only.
LEMMA ScrollUpStays ==
  ASSUME MaxScrollback \in Nat,
         NEW c \in Nat \ {0}, NEW r \in Nat \ {0}, NEW s \in Screens(c, r), NEW n \in Nat
  PROVE  Stays(s, Screen!ScrollUp(s, n)) /\ Screen!ScrollUp(s, n) \in Screens(c, r)
<1> DEFINE lines == s.back \o [i \in 1 .. n |-> Screen!Cells(s)[0]]
           kept == SubSeq(lines, Screen!Most(1, Len(lines) - MaxScrollback + 1), Len(lines))
           noted == IF Screen!SavesLines(s) THEN [s EXCEPT !.back = kept] ELSE s
           m == Screen!Least(n, s.bottom - s.top)
<1>1. kept \in Saved
  BY NotedIsSaved
<1>2. Screen!ScrollUp(s, n) = IF s.top >= s.bottom \/ n = 0 THEN noted
                       ELSE Screen!ShiftUp(noted, m, s.top, s.bottom)
  BY DEF Screen!ScrollUp
<1> HIDE DEF kept, lines
<1>3. noted \in Screens(c, r) /\ Stays(s, noted)
  BY <1>1 DEF Screens, Stays, Keeps, OnIt, Screen!SavesLines
<1> HIDE DEF noted
<1>4. s.top \in Nat /\ s.bottom \in Nat /\ s.bottom < r
  BY DEF Screens
<1>5. CASE s.top >= s.bottom \/ n = 0
  BY <1>2, <1>3, <1>5
<1>6. CASE ~(s.top >= s.bottom \/ n = 0)
  <2>1. m \in Nat /\ m <= s.bottom - s.top
    BY <1>4, <1>6 DEF Screen!Least
  <2> HIDE DEF m
  <2>2. /\ Stays(noted, Screen!ShiftUp(noted, m, s.top, s.bottom))
        /\ Screen!ShiftUp(noted, m, s.top, s.bottom) \in Screens(c, r)
    BY <1>3, <1>4, <2>1, ShiftStays
  <2>3. s \in Screens(s.cols, s.rows)
    BY DEF Screens
  <2>4. QED
    BY <1>2, <1>3, <1>6, <2>2, <2>3, StaysStays
<1>7. QED
  BY <1>5, <1>6

\* Lines scrolled down.
LEMMA ScrollDownStays ==
  ASSUME NEW c \in Nat \ {0}, NEW r \in Nat \ {0}, NEW s \in Screens(c, r), NEW n \in Nat
  PROVE  Stays(s, Screen!ScrollDown(s, n)) /\ Screen!ScrollDown(s, n) \in Screens(c, r)
<1> DEFINE m == Screen!Least(n, s.bottom - s.top)
<1>1. s.top \in Nat /\ s.bottom \in Nat /\ s.bottom < r /\ s \in Screens(s.cols, s.rows)
  BY DEF Screens
<1>2. CASE s.top >= s.bottom \/ n = 0
  BY <1>1, <1>2, StaysAsItIs DEF Screen!ScrollDown
<1>3. CASE ~(s.top >= s.bottom \/ n = 0)
  <2>1. m \in Nat /\ m <= s.bottom - s.top
    BY <1>1, <1>3 DEF Screen!Least
  <2>2. Screen!ScrollDown(s, n) = Screen!ShiftDown(s, m, s.top, s.bottom)
    BY <1>3 DEF Screen!ScrollDown
  <2> HIDE DEF m
  <2>3. QED
    BY <1>1, <2>1, <2>2, ShiftStays
<1>4. QED
  BY <1>2, <1>3

\* A line feed, which scrolls at the bottom.
LEMMA LinefeedStays ==
  ASSUME MaxScrollback \in Nat,
         NEW c \in Nat \ {0}, NEW r \in Nat \ {0}, NEW s \in Screens(c, r)
  PROVE  Stays(s, Screen!Linefeed(s)) /\ Screen!Linefeed(s) \in Screens(c, r)
<1>1. CASE s.row = s.bottom
  BY <1>1, ScrollUpStays DEF Screen!Linefeed
<1>2. CASE s.row # s.bottom
  BY <1>2 DEF Screen!Linefeed, Screens, Stays, Keeps, OnIt
<1>3. QED
  BY <1>1, <1>2

\* A character put into a grid.
LEMMA SetCell ==
  ASSUME NEW c, NEW r, NEW g \in CellGrid(c, r),
         NEW i \in 0 .. r - 1, NEW j \in 0 .. c - 1, NEW k \in Characters \union {"_"}
  PROVE  [g EXCEPT ![i][j] = k] \in CellGrid(c, r)
<1>1. g[i] \in CellRow(c)
  BY DEF CellGrid
<1>2. [g[i] EXCEPT ![j] = k] \in CellRow(c)
  BY <1>1 DEF CellRow
<1>3. [g EXCEPT ![i] = [g[i] EXCEPT ![j] = k]] \in CellGrid(c, r)
  BY <1>2 DEF CellGrid
<1>4. [g EXCEPT ![i][j] = k] = [g EXCEPT ![i] = [g[i] EXCEPT ![j] = k]]
  BY <1>1 DEF CellGrid
<1>5. QED
  BY <1>3, <1>4

\* A line wrapped where a character has no room.
LEMMA WrappedStays ==
  ASSUME MaxScrollback \in Nat,
         NEW c \in Nat \ {0}, NEW r \in Nat \ {0}, NEW s \in Screens(c, r), NEW k \in Characters
  PROVE  Stays(s, Screen!Wrapped(s, k)) /\ Screen!Wrapped(s, k) \in Screens(c, r)
<1> DEFINE moved == Screen!Move(s, s.row, 0)
           pending == IF s.wrap THEN Screen!Linefeed(moved) ELSE s
           back == [pending EXCEPT !.col = 0]
<1>1. Screen!Wrapped(s, k) = IF pending.col + Screen!Width(k) > s.cols /\
        s.autowrap THEN Screen!Linefeed(back) ELSE pending
  BY DEF Screen!Wrapped
<1>2. s \in Screens(s.cols, s.rows)
  BY DEF Screens
<1>3. moved \in Screens(c, r) /\ Stays(s, moved)
  <2>1. s.row \in Nat /\ (OnIt(s) => s.row < r /\ 0 < c)
    BY DEF Screens, OnIt
  <2>2. QED
    BY <2>1, MoveStays
<1> HIDE DEF moved
<1>4. Screen!Linefeed(moved) \in Screens(c, r) /\ Stays(moved, Screen!Linefeed(moved))
  BY <1>3, LinefeedStays
<1>5. Stays(s, Screen!Linefeed(moved))
  BY <1>2, <1>3, <1>4, StaysStays
<1>6. pending \in Screens(c, r) /\ Stays(s, pending)
  BY <1>2, <1>4, <1>5, StaysAsItIs
<1> HIDE DEF pending
<1>7. back \in Screens(c, r) /\ Stays(pending, back)
  BY <1>6 DEF Screens, Stays, Keeps, OnIt
<1> HIDE DEF back
<1>8. Stays(s, back)
  BY <1>2, <1>6, <1>7, StaysStays
<1>9. Screen!Linefeed(back) \in Screens(c, r) /\ Stays(back, Screen!Linefeed(back))
  BY <1>7, LinefeedStays
<1>10. Stays(s, Screen!Linefeed(back))
  BY <1>2, <1>8, <1>9, StaysStays
<1>11. QED
  BY <1>1, <1>6, <1>9, <1>10

\* The other halves of wide characters that get overwritten.
LEMMA ClearHalvesStays ==
  ASSUME NEW c \in Nat \ {0}, NEW r \in Nat \ {0}, NEW s \in Screens(c, r), NEW k \in Characters,
         NEW at \in 0 .. c - 1, s.row < r
  PROVE  /\ Stays(s, Screen!ClearHalves(s, k, at)) /\ Screen!ClearHalves(s, k, at) \in Screens(c, r)
         /\ Screen!ClearHalves(s, k, at).row = s.row
<1> DEFINE g == Screen!Cells(s)
           left == at > 0 /\ g[s.row][at] = "_"
           right == ~left /\ at + 1 < s.cols /\ g[0][at + 1] = "_"
           gone == [g EXCEPT ![s.row][at - 1] = " "]
           both == [gone EXCEPT ![s.row][at] = " "]
           next == [g EXCEPT ![0][at + 1] = " "]
           g1 == IF left THEN [g EXCEPT ![s.row][at - 1] = " ", ![s.row][at] = " "]
                 ELSE IF right THEN next ELSE g
           g2 == IF k = "W" /\ at + 1 < s.cols THEN [g1 EXCEPT ![0][at + 1] = " "] ELSE g1
<1>1. s.cols = c /\ s.rows = r /\ g \in CellGrid(c, r) /\ s.row \in 0 .. r - 1 /\ 0 \in 0 .. r - 1
  BY DEF Screens, Screen!Cells
<1>2. Screen!ClearHalves(s, k, at) = Screen!Draw(s, g2)
  BY DEF Screen!ClearHalves
<1>3. " " \in Characters \union {"_"}
  BY DEF Characters
<1>4. [g EXCEPT ![s.row][at - 1] = " ", ![s.row][at] = " "] = both
  OBVIOUS
<1> HIDE DEF g
<1>5. g1 \in CellGrid(c, r)
  <2>1. CASE left
    <3>0. at > 0
      BY <2>1, Zenon
    <3>1. at - 1 \in 0 .. c - 1
      BY <3>0
    <3>2. gone \in CellGrid(c, r)
      BY <1>1, <1>3, <3>1, SetCell
    <3> HIDE DEF gone
    <3>3. both \in CellGrid(c, r)
      BY <1>1, <1>3, <3>2, SetCell
    <3>4. QED
      BY <2>1, <1>4, <3>3
  <2>2. CASE ~left /\ right
    <3>0. at + 1 < s.cols
      BY <2>2, Zenon
    <3>1. at + 1 \in 0 .. c - 1
      BY <1>1, <3>0
    <3>2. next \in CellGrid(c, r)
      BY <1>1, <1>3, <3>1, SetCell
    <3> HIDE DEF next
    <3>3. QED
      BY <2>2, <3>2
  <2>3. CASE ~left /\ ~right
    BY <1>1, <2>3
  <2>4. QED
    BY <2>1, <2>2, <2>3
<1> HIDE DEF g1
<1>6. g2 \in CellGrid(c, r)
  <2>1. CASE k = "W" /\ at + 1 < s.cols
    <3>1. at + 1 \in 0 .. c - 1
      BY <1>1, <2>1
    <3>2. [g1 EXCEPT ![0][at + 1] = " "] \in CellGrid(c, r)
      BY <1>1, <1>3, <1>5, <3>1, SetCell
    <3>3. QED
      BY <2>1, <3>2
  <2>2. CASE ~(k = "W" /\ at + 1 < s.cols)
    BY <1>5, <2>2
  <2>3. QED
    BY <2>1, <2>2
<1> HIDE DEF g2
<1>7. Stays(s, Screen!Draw(s, g2)) /\ Screen!Draw(s, g2) \in Screens(c, r)
  BY <1>6, DrawStays
<1>8. Screen!Draw(s, g2).row = s.row
  BY DEF Screen!Draw, Screens
<1>9. QED
  BY <1>2, <1>7, <1>8

\* A character printed.
LEMMA PutCharStays ==
  ASSUME MaxScrollback \in Nat,
         NEW c \in Nat \ {0}, NEW r \in Nat \ {0}, NEW s \in Screens(c, r), NEW k \in Characters
  PROVE  Stays(s, Screen!PutChar(s, k)) /\ Screen!PutChar(s, k) \in Screens(c, r)
<1> DEFINE w == Screen!Wrapped(s, k)
           at == IF w.col + Screen!Width(k) > s.cols THEN Screen!Most(s.cols - Screen!Width(k),
                   0) ELSE w.col
           d == Screen!ClearHalves(w, k, at)
           one == [Screen!Cells(d) EXCEPT ![w.row][at] = k]
           both == IF k = "W" /\ at + 1 < s.cols THEN [one EXCEPT ![w.row][at + 1] = "_"] ELSE one
           full == at + Screen!Width(k) >= s.cols
           drawn == Screen!Draw(d, both)
           last == [drawn EXCEPT !.col = IF full THEN s.cols - 1 ELSE at + Screen!Width(k),
                                 !.wrap = full /\ s.autowrap, !.last = k]
<1>1. Screen!PutChar(s, k) = CASE s.dead -> s
                        [] ~s.dead /\ w.row >= s.rows -> Screen!Panic(w)
                        [] OTHER -> last
  BY DEF Screen!PutChar
<1>2. /\ s \in Screens(s.cols, s.rows) /\ s.cols = c /\ s.rows = r /\ s.dead \in BOOLEAN
      /\ s.autowrap \in BOOLEAN
  BY DEF Screens
<1>3. w \in Screens(c, r) /\ Stays(s, w)
  BY WrappedStays
<1> HIDE DEF w
<1>4. Screen!Width(k) \in 1 .. 2 /\ w.row \in Nat /\ w.col \in Nat
  BY <1>3 DEF Screen!Width, Screens
<1>5. CASE s.dead
  BY <1>1, <1>2, <1>5, StaysAsItIs
<1>6. CASE ~s.dead /\ w.row >= s.rows
  <2>1. ~OnIt(s)
    BY <1>2, <1>3, <1>4, <1>6 DEF Stays, Keeps, OnIt, Screens
  <2>2. Screen!Panic(w) \in Screens(c, r)
    BY <1>3 DEF Screen!Panic, Screens
  <2>3. /\ Screen!Panic(w).grid = w.grid /\ Screen!Panic(w).back = w.back
        /\ Screen!Panic(w).active = w.active
    BY <1>3 DEF Screen!Panic, Screens
  <2>4. Stays(s, Screen!Panic(w))
    BY <1>2, <1>3, <2>1, <2>2, <2>3 DEF Stays, Keeps
  <2>5. QED
    BY <1>1, <1>6, <2>2, <2>4
<1>7. CASE ~s.dead /\ ~(w.row >= s.rows)
  <2>1. at \in 0 .. c - 1
    BY <1>2, <1>4 DEF Screen!Most
  <2>2. w.row < r /\ w.row \in 0 .. r - 1
    BY <1>2, <1>4, <1>7
  <2> HIDE DEF at
  <2>3. d \in Screens(c, r) /\ Stays(w, d)
    BY <1>3, <2>1, <2>2, ClearHalvesStays
  <2> HIDE DEF d
  <2>4. Screen!Cells(d) \in CellGrid(c, r)
    BY <2>3 DEF Screen!Cells, Screens
  <2>5. one \in CellGrid(c, r)
    BY <2>1, <2>2, <2>4, SetCell
  <2> HIDE DEF one
  <2>6. both \in CellGrid(c, r)
    <3>1. CASE k = "W" /\ at + 1 < s.cols
      <4>1. at + 1 \in 0 .. c - 1 /\ "_" \in Characters \union {"_"}
        BY <1>2, <2>1, <3>1
      <4>2. [one EXCEPT ![w.row][at + 1] = "_"] \in CellGrid(c, r)
        BY <2>2, <2>5, <4>1, SetCell
      <4>3. QED
        BY <3>1, <4>2
    <3>2. CASE ~(k = "W" /\ at + 1 < s.cols)
      BY <2>5, <3>2
    <3>3. QED
      BY <3>1, <3>2
  <2> HIDE DEF both
  <2>7. drawn \in Screens(c, r) /\ Stays(d, drawn)
    BY <2>3, <2>6, DrawStays
  <2> HIDE DEF drawn
  <2>8. Stays(s, d)
    BY <1>2, <1>3, <2>3, StaysStays
  <2>9. Stays(s, drawn)
    BY <1>2, <2>7, <2>8, StaysStays
  <2>10. /\ (IF full THEN s.cols - 1 ELSE at + Screen!Width(k)) \in 0 .. c - 1
         /\ (full /\ s.autowrap) \in BOOLEAN
    BY <1>2, <1>4, <2>1
  <2> HIDE DEF full
  <2>11. last \in Screens(c, r) /\ Stays(drawn, last)
    <3> DEFINE col == IF full THEN s.cols - 1 ELSE at + Screen!Width(k)
               wrap == full /\ s.autowrap
    <3> HIDE DEF col, wrap
    <3>1. last = [drawn EXCEPT !.col = col, !.wrap = wrap, !.last = k]
      BY DEF col, wrap
    <3>2. col \in Nat /\ col < c /\ wrap \in BOOLEAN
      BY <2>10 DEF col, wrap
    <3> HIDE DEF last
    <3>3. last \in Screens(c, r)
      BY <2>7, <3>1, <3>2 DEF Screens
    <3>4. /\ last.grid = drawn.grid /\ last.back = drawn.back /\ last.active = drawn.active
          /\ last.row = drawn.row /\ last.col = col /\ last.rows = r /\ last.cols = c
          /\ drawn.cols = c /\ drawn.rows = r /\ last.saved = drawn.saved
          /\ last.top = drawn.top /\ last.bottom = drawn.bottom /\ last.dead = drawn.dead
      BY <2>7, <3>1 DEF Screens
    <3>5. OnIt(drawn) => OnIt(last)
      BY <3>2, <3>4 DEF OnIt
    <3>6. QED
      BY <2>7, <3>3, <3>4, <3>5, FieldsStay
  <2> HIDE DEF last
  <2>12. Stays(s, last)
    BY <1>2, <2>9, <2>11, StaysStays
  <2>13. QED
    BY <1>1, <1>7, <2>11, <2>12
<1>8. QED
  BY <1>2, <1>5, <1>6, <1>7

\* Natural numbers have a least one.
LEMMA LeastNatural ==
  ASSUME NEW S, S \subseteq Nat, S # {}
  PROVE  \E m \in S : \A j \in S : m <= j
<1>1. PICK m \in S : \A j \in S : <<j, m>> \notin OpToRel(<, Nat)
  <2> DEFINE R == OpToRel(<, Nat)
  <2>1. IsWellFoundedOn(R, Nat)
    BY NatLessThanWellFounded, Zenon
  <2> HIDE DEF R
  <2>2. \E x \in S : \A y \in S : ~(<<y, x>> \in R)
    BY <2>1, WFMin
  <2>3. QED
    BY <2>2, Zenon DEF R
<1>2. \A j \in S : ~(j < m)
  BY <1>1 DEF OpToRel
<1>3. QED
  BY <1>2

\* A repetition is one character after another: the function that Repeat
\* defines exists, and each of its values stays on the screen.
IsRepetition(f, s, n) == f = [i \in 0 .. n |-> IF i =
  0 THEN s ELSE Screen!PutChar(f[i - 1], s.last)]

\* A repetition has every length: the first without would follow one that has.
LEMMA RepetitionExists ==
  ASSUME NEW s, NEW n \in Nat
  PROVE  \E f : IsRepetition(f, s, n)
<1> DEFINE Failing == {m \in Nat : ~\E f : IsRepetition(f, s, m)}
<1>1. SUFFICES ASSUME Failing # {} PROVE FALSE
  OBVIOUS
<1>2. PICK m \in Failing : \A j \in Failing : m <= j
  <2>1. Failing \subseteq Nat
    OBVIOUS
  <2> HIDE DEF Failing
  <2>2. QED
    BY <1>1, <2>1, LeastNatural
<1>3. CASE m = 0
  <2>1. IsRepetition([i \in 0 .. 0 |-> s], s, 0)
    BY DEF IsRepetition
  <2>2. QED
    BY <1>2, <1>3, <2>1
<1>4. CASE m # 0
  <2>1. m - 1 \in Nat /\ m - 1 \notin Failing
    BY <1>2, <1>4
  <2>2. PICK f : IsRepetition(f, s, m - 1)
    BY <2>1
  <2> DEFINE g == [i \in 0 .. m |-> IF i = m THEN Screen!PutChar(f[m - 1], s.last) ELSE f[i]]
  <2>3. \A i \in 0 .. m - 1 : f[i] = IF i = 0 THEN s ELSE Screen!PutChar(f[i - 1], s.last)
    BY <2>2, Zenon DEF IsRepetition
  <2>4. \A i \in 0 .. m - 1 : g[i] = f[i]
    BY <2>1
  <2>5. \A i \in 0 .. m : g[i] = IF i = 0 THEN s ELSE Screen!PutChar(g[i - 1], s.last)
    <3> TAKE i \in 0 .. m
    <3>1. CASE i = m
      <4>1. g[i - 1] = f[m - 1] /\ g[i] = Screen!PutChar(f[m - 1], s.last) /\ i # 0
        BY <1>4, <2>1, <2>4, <3>1
      <4> HIDE DEF g
      <4>2. QED
        BY <4>1
    <3>2. CASE i # m /\ i # 0
      <4>1. i \in 0 .. m - 1 /\ i - 1 \in 0 .. m - 1
        BY <2>1, <3>2
      <4> HIDE DEF g
      <4>2. g[i] = f[i] /\ g[i - 1] = f[i - 1] /\ f[i] = Screen!PutChar(f[i - 1], s.last)
        BY <2>3, <2>4, <3>2, <4>1
      <4>3. QED
        BY <3>2, <4>2
    <3>3. CASE i # m /\ i = 0
      <4>1. 0 \in 0 .. m - 1
        BY <2>1
      <4> HIDE DEF g
      <4>2. g[i] = s
        BY <2>3, <2>4, <3>3, <4>1
      <4>3. QED
        BY <3>3, <4>2
    <3>4. QED
      BY <3>1, <3>2, <3>3
  <2>6. IsRepetition(g, s, m)
    <3>1. g = [i \in 0 .. m |-> g[i]]
      OBVIOUS
    <3> HIDE DEF g
    <3>2. [i \in 0 .. m |-> g[i]] = [i \in 0 .. m |-> IF i =
            0 THEN s ELSE Screen!PutChar(g[i - 1], s.last)]
      BY <2>5, Zenon
    <3>3. QED
      BY <3>1, <3>2, Zenon DEF IsRepetition
  <2>7. QED
    BY <1>2, <2>6
<1>5. QED
  BY <1>3, <1>4

\* Each character of a repetition is printed as one is.
LEMMA RepetitionStays ==
  ASSUME MaxScrollback \in Nat,
         NEW c \in Nat \ {0}, NEW r \in Nat \ {0}, NEW s \in Screens(c, r), NEW n \in Nat,
         NEW f, IsRepetition(f, s, n)
  PROVE  Stays(s, f[n]) /\ f[n] \in Screens(c, r)
<1> DEFINE Good(t) == Stays(s, t) /\ t \in Screens(c, r)
           Failing == {i \in Nat : i <= n /\ ~Good(f[i])}
<1>1. \A i \in 0 .. n : f[i] = IF i = 0 THEN s ELSE Screen!PutChar(f[i - 1], s.last)
  BY Zenon DEF IsRepetition
<1>2. s \in Screens(s.cols, s.rows) /\ s.last \in Characters
  BY DEF Screens
<1>3. Good(s)
  BY <1>2, StaysAsItIs
<1>4. \A t : Good(t) => Good(Screen!PutChar(t, s.last))
  <2> SUFFICES ASSUME NEW t, Good(t) PROVE Good(Screen!PutChar(t, s.last))
    OBVIOUS
  <2>1. Stays(t, Screen!PutChar(t, s.last)) /\ Screen!PutChar(t, s.last) \in Screens(c, r)
    BY <1>2, PutCharStays
  <2>2. QED
    BY <1>2, <2>1, StaysStays
<1> HIDE DEF Good
<1>5. Failing = {}
  <2> SUFFICES ASSUME Failing # {} PROVE FALSE
    OBVIOUS
  <2>1. PICK m \in Failing : \A j \in Failing : m <= j
    <3>1. Failing \subseteq Nat
      OBVIOUS
    <3> HIDE DEF Failing
    <3>2. QED
      BY <3>1, LeastNatural
  <2>2. m # 0
    BY <1>1, <1>3, <2>1
  <2>3. m - 1 \in Nat /\ m - 1 \notin Failing /\ m \in 0 .. n
    BY <2>1, <2>2
  <2>4. Good(f[m - 1])
    BY <2>3
  <2>5. f[m] = Screen!PutChar(f[m - 1], s.last)
    BY <1>1, <2>2, <2>3
  <2>6. QED
    BY <1>4, <2>1, <2>4, <2>5
<1>6. Good(f[n])
  BY <1>5
<1>7. QED
  BY <1>6 DEF Good

\* The last character printed again, n times.
LEMMA RepeatStays ==
  ASSUME MaxScrollback \in Nat,
         NEW c \in Nat \ {0}, NEW r \in Nat \ {0}, NEW s \in Screens(c, r), NEW n \in Nat
  PROVE  Stays(s, Screen!Repeat(s, n)) /\ Screen!Repeat(s, n) \in Screens(c, r)
<1> DEFINE after[i \in 0 .. n] == IF i = 0 THEN s ELSE Screen!PutChar(after[i - 1], s.last)
<1>1. Screen!Repeat(s, n) = after[n]
  BY DEF Screen!Repeat
<1>2. PICK f : IsRepetition(f, s, n)
  BY RepetitionExists
<1>3. after = CHOOSE g : g = [i \in 0 .. n |-> IF i =
        0 THEN s ELSE Screen!PutChar(g[i - 1], s.last)]
  BY DEF after
<1> HIDE DEF after
<1>4. after = [i \in 0 .. n |-> IF i = 0 THEN s ELSE Screen!PutChar(after[i - 1], s.last)]
  BY <1>2, <1>3, Zenon DEF IsRepetition
<1>5. IsRepetition(after, s, n)
  BY <1>4, Zenon DEF IsRepetition
<1>6. QED
  BY <1>1, <1>5, RepetitionStays

\* Changing one field that only the types constrain.
LEMMA SetStays ==
  ASSUME NEW c \in Nat \ {0}, NEW r \in Nat \ {0}, NEW s \in Screens(c, r),
         NEW on \in BOOLEAN, NEW at \in Nat \X Nat, OnIt(s) => at[1] < r /\ at[2] < c
  PROVE  /\ Stays(s, [s EXCEPT !.origin = on]) /\ [s EXCEPT !.origin = on] \in Screens(c, r)
         /\ Stays(s, [s EXCEPT !.wrap = on]) /\ [s EXCEPT !.wrap = on] \in Screens(c, r)
         /\ Stays(s, [s EXCEPT !.saved = at]) /\ [s EXCEPT !.saved = at] \in Screens(c, r)
<1>1. [s EXCEPT !.origin = on] \in Screens(c, r) /\ [s EXCEPT !.wrap = on] \in Screens(c, r)
  BY DEF Screens
<1>2. [s EXCEPT !.saved = at] \in Screens(c, r)
  BY DEF Screens
<1>3. Stays(s, [s EXCEPT !.origin = on]) /\ Stays(s, [s EXCEPT !.wrap = on])
  BY <1>1 DEF Stays, Keeps, OnIt, Screens
<1>4. Stays(s, [s EXCEPT !.saved = at])
  BY <1>2 DEF Stays, Keeps, OnIt, Screens
<1>5. QED
  BY <1>1, <1>2, <1>3, <1>4

\* The control characters that move the cursor, and the cursor saved and restored.
LEMMA CursorStays ==
  ASSUME NEW c \in Nat \ {0}, NEW r \in Nat \ {0}, NEW s \in Screens(c, r)
  PROVE  /\ Stays(s, Screen!CarriageReturn(s)) /\ Stays(s, Screen!Backspace(s))
         /\ Stays(s, Screen!Tab(s))
         /\ Stays(s, Screen!SaveCursor(s)) /\ Stays(s, Screen!RestoreCursor(s))
<1>1. /\ s.cols = c /\ s.rows = r /\ s.row \in Nat /\ s.col \in Nat /\ s.saved \in Nat \X Nat
      /\ (OnIt(s) => s.row < r /\ s.col < c /\ s.saved[1] < r /\ s.saved[2] < c)
  BY DEF Screens, OnIt
<1>2. Stays(s, Screen!CarriageReturn(s))
  BY <1>1, MoveStays DEF Screen!CarriageReturn
<1>3. Stays(s, Screen!Backspace(s))
  <2>1. Screen!Most(s.col - 1, 0) \in Nat /\ (s.col < c => Screen!Most(s.col - 1, 0) < c)
    BY <1>1 DEF Screen!Most
  <2>2. QED
    BY <1>1, <2>1, MoveStays DEF Screen!Backspace
<1>4. Stays(s, Screen!Tab(s))
  <2> DEFINE k == (s.col \div 8 + 1) * 8
  <2>1. k \in Nat
    BY <1>1
  <2> HIDE DEF k
  <2>2. Screen!Least(k, s.cols - 1) \in Nat /\ Screen!Least(k, s.cols - 1) < c
    BY <1>1, <2>1 DEF Screen!Least
  <2>3. Screen!Tab(s) = Screen!Move(s, s.row, Screen!Least(k, s.cols - 1))
    BY DEF Screen!Tab, k
  <2>4. QED
    BY <1>1, <2>2, <2>3, MoveStays
<1>5. Stays(s, Screen!SaveCursor(s))
  <2>1. <<s.row, s.col>> \in Nat \X Nat
    BY <1>1
  <2>2. QED
    BY <1>1, <2>1, SetStays DEF Screen!SaveCursor
<1>6. Stays(s, Screen!RestoreCursor(s))
  BY <1>1, MoveStays DEF Screen!RestoreCursor
<1>7. QED
  BY <1>2, <1>3, <1>4, <1>5, <1>6

\* The cursor moved by a count, or to a column or a row.
LEMMA CursorCountedStays ==
  ASSUME NEW c \in Nat \ {0}, NEW r \in Nat \ {0}, NEW s \in Screens(c, r), NEW n \in Nat
  PROVE  /\ Stays(s, Screen!CursorUp(s, n)) /\ Stays(s, Screen!CursorDown(s, n))
         /\ Stays(s, Screen!CursorForward(s, n)) /\ Stays(s, Screen!CursorBack(s, n))
         /\ Stays(s, Screen!CursorNextLine(s, n)) /\ Stays(s, Screen!CursorPreviousLine(s, n))
         /\ Stays(s, Screen!Horizontal(s, n)) /\ Stays(s, Screen!Vertical(s, n))
<1>1. /\ s.cols = c /\ s.rows = r /\ s.row \in Nat /\ s.col \in Nat
      /\ (OnIt(s) => s.row < r /\ s.col < c)
  BY DEF Screens, OnIt
<1> DEFINE up == Screen!Most(s.row - n, 0)
           down == Screen!Least(s.row + n, s.rows - 1)
           right == Screen!Least(s.col + n, s.cols - 1)
           left == Screen!Most(s.col - n, 0)
           column == Screen!Least(Screen!Most(n, 1) - 1, s.cols - 1)
           line == Screen!Least(Screen!Most(n, 1) - 1, s.rows - 1)
<1>2. up \in Nat /\ (s.row < r => up < r) /\ left \in Nat /\ (s.col < c => left < c)
  BY <1>1 DEF Screen!Most
<1>3. down \in Nat /\ down < r /\ right \in Nat /\ right < c
  BY <1>1 DEF Screen!Least
<1>4. column \in Nat /\ column < c /\ line \in Nat /\ line < r
  BY <1>1 DEF Screen!Least, Screen!Most
<1>5. /\ Screen!CursorUp(s, n) = Screen!Move(s, up, s.col)
      /\ Screen!CursorDown(s, n) = Screen!Move(s, down, s.col)
      /\ Screen!CursorForward(s, n) = Screen!Move(s, s.row, right)
      /\ Screen!CursorBack(s, n) = Screen!Move(s, s.row, left)
      /\ Screen!CursorNextLine(s, n) = Screen!Move(s, down, 0)
      /\ Screen!CursorPreviousLine(s, n) = Screen!Move(s, up, 0)
      /\ Screen!Horizontal(s, n) = Screen!Move(s, s.row, column)
      /\ Screen!Vertical(s, n) = Screen!Move(s, line, s.col)
  BY DEF Screen!CursorUp, Screen!CursorDown, Screen!CursorForward, Screen!CursorBack,
    Screen!CursorNextLine, Screen!CursorPreviousLine, Screen!Horizontal, Screen!Vertical
<1> HIDE DEF up, down, right, left, column, line
<1>6. /\ Stays(s, Screen!Move(s, up, s.col)) /\ Stays(s, Screen!Move(s, down, s.col))
      /\ Stays(s, Screen!Move(s, s.row, right)) /\ Stays(s, Screen!Move(s, s.row, left))
  BY <1>1, <1>2, <1>3, MoveStays
<1>7. /\ Stays(s, Screen!Move(s, down, 0)) /\ Stays(s, Screen!Move(s, up, 0))
      /\ Stays(s, Screen!Move(s, s.row, column)) /\ Stays(s, Screen!Move(s, line, s.col))
  BY <1>1, <1>2, <1>3, <1>4, MoveStays
<1>8. QED
  BY <1>5, <1>6, <1>7

\* The cursor put at a row and a column, within the region in origin mode.
LEMMA CursorPositionStays ==
  ASSUME NEW c \in Nat \ {0}, NEW r \in Nat \ {0}, NEW s \in Screens(c, r),
         NEW m \in Nat, NEW n \in Nat, NEW checked \in BOOLEAN
  PROVE  Stays(s, Screen!CursorPosition(s, m, n, checked))
<1> DEFINE base == IF s.origin THEN s.top ELSE 0
           room == (IF s.origin THEN s.bottom ELSE s.rows - 1) - base
           asked == Screen!Most(m, 1) - 1
           down == IF room >= 0 THEN Screen!Least(asked, room) ELSE asked
           row == Screen!Least(base + down, s.rows - 1)
           col == Screen!Least(Screen!Most(n, 1) - 1, s.cols - 1)
           unwrapped == [s EXCEPT !.wrap = FALSE]
<1>1. /\ s.cols = c /\ s.rows = r /\ s.top \in Nat /\ s.bottom \in Nat /\ s.bottom < r
      /\ s.origin \in BOOLEAN /\ (OnIt(s) => s.top <= s.bottom) /\ s \in Screens(s.cols, s.rows)
  BY DEF Screens, OnIt
<1>2. Screen!CursorPosition(s, m, n, checked) = IF room < 0 /\
        checked THEN Screen!Panic(unwrapped) ELSE Screen!Move(s, row, col)
  BY DEF Screen!CursorPosition
<1>3. base \in Nat /\ room \in Int /\ (OnIt(s) => room >= 0)
  BY <1>1
<1> HIDE DEF base, room
<1>4. asked \in Nat
  BY DEF Screen!Most
<1> HIDE DEF asked
<1>5. down \in Nat
  BY <1>3, <1>4 DEF Screen!Least
<1> HIDE DEF down
<1>6. row \in Nat /\ row < r
  BY <1>1, <1>3, <1>5 DEF Screen!Least
<1>7. col \in Nat /\ col < c
  BY <1>1 DEF Screen!Least, Screen!Most
<1> HIDE DEF row, col
<1>8. Stays(s, Screen!Move(s, row, col))
  BY <1>6, <1>7, MoveStays
<1>9. ASSUME room < 0 PROVE Stays(s, Screen!Panic(unwrapped))
  <2>1. ~OnIt(s)
    BY <1>3, <1>9
  <2>2. Screen!Panic(unwrapped) \in Screens(c, r)
    BY DEF Screen!Panic, Screens
  <2>3. /\ Screen!Panic(unwrapped).grid = s.grid /\ Screen!Panic(unwrapped).back = s.back
        /\ Screen!Panic(unwrapped).active = s.active
    BY DEF Screen!Panic, Screens
  <2>4. QED
    BY <1>1, <2>1, <2>2, <2>3 DEF Stays, Keeps
<1>10. QED
  BY <1>2, <1>8, <1>9

\* The scrolling region set, and the cursor put home.
LEMMA SetScrollingRegionStays ==
  ASSUME NEW c \in Nat \ {0}, NEW r \in Nat \ {0}, NEW s \in Screens(c, r), NEW m \in Nat,
    NEW n \in Nat
  PROVE  Stays(s, Screen!SetScrollingRegion(s, m, n))
<1> DEFINE top == IF m = 0 THEN 0 ELSE m - 1
           bottom == IF n = 0 THEN s.rows - 1 ELSE Screen!Least(n, s.rows) - 1
           t == [s EXCEPT !.top = top, !.bottom = bottom]
<1>1. s.rows = r /\ s.cols = c
  BY DEF Screens
<1>2. Screen!SetScrollingRegion(s, m, n) = IF top < bottom THEN t ELSE s
  BY DEF Screen!SetScrollingRegion
<1>3. top \in Nat /\ bottom \in 0 .. r - 1
  BY <1>1 DEF Screen!Least
<1> HIDE DEF top, bottom
<1>4. t \in Screens(c, r)
  BY <1>3 DEF Screens
<1>5. top < bottom => (OnIt(s) => OnIt(t))
  BY <1>3 DEF OnIt, Screens
<1>6. t.grid = s.grid /\ t.back = s.back /\ t.active = s.active
  BY DEF Screens
<1> HIDE DEF t
<1>7. top < bottom => Stays(s, t)
  BY <1>4, <1>5, <1>6, FieldsStay
<1>8. QED
  BY <1>1, <1>2, <1>7, StaysAsItIs

\* Origin mode and autowrap switched.
LEMMA ModesStay ==
  ASSUME NEW c \in Nat \ {0}, NEW r \in Nat \ {0}, NEW s \in Screens(c, r), NEW on \in BOOLEAN
  PROVE  Stays(s, Screen!OriginMode(s, on)) /\ Stays(s, Screen!AutoWrap(s, on))
<1>1. /\ s \in Screens(s.cols, s.rows) /\ s.top \in Nat /\ s.bottom \in Nat /\ s.bottom < r
      /\ s.cols = c /\ s.rows = r /\ s.wrap \in BOOLEAN
  BY DEF Screens
<1>2. Stays(s, Screen!OriginMode(s, on))
  <2> DEFINE t == [s EXCEPT !.origin = on]
             row == IF on THEN s.top ELSE 0
  <2>1. <<0, 0>> \in Nat \X Nat /\ 0 < r /\ 0 < c
    OBVIOUS
  <2>2. t \in Screens(c, r) /\ Stays(s, t)
    BY <2>1, SetStays
  <2>3. t.top = s.top /\ t.bottom = s.bottom
    BY DEF Screens
  <2> HIDE DEF t
  <2>4. row \in Nat /\ (OnIt(t) => row < r)
    BY <1>1, <2>3 DEF OnIt
  <2> HIDE DEF row
  <2>5. Stays(t, Screen!Move(t, row, 0))
    BY <2>1, <2>2, <2>4, MoveStays
  <2>6. Stays(s, Screen!Move(t, row, 0))
    BY <1>1, <2>2, <2>5, StaysStays
  <2>7. QED
    BY <2>6 DEF Screen!OriginMode, t, row
<1>3. Stays(s, Screen!AutoWrap(s, on))
  <2> DEFINE w == s.wrap /\ on
             t == [s EXCEPT !.autowrap = on, !.wrap = w]
  <2>1. w \in BOOLEAN
    OBVIOUS
  <2>2. Screen!AutoWrap(s, on) = t
    BY DEF Screen!AutoWrap
  <2> HIDE DEF w
  <2>3. t \in Screens(c, r)
    BY <2>1 DEF Screens
  <2>4. OnIt(s) => OnIt(t)
    BY DEF OnIt, Screens
  <2>5. t.grid = s.grid /\ t.back = s.back /\ t.active = s.active
    BY DEF Screens
  <2> HIDE DEF t
  <2>6. QED
    BY <2>2, <2>3, <2>4, <2>5, FieldsStay
<1>4. QED
  BY <1>2, <1>3

\* Rewriting the cursor's row: a panic only when the cursor is below the screen.
LEMMA RowStays ==
  ASSUME NEW c \in Nat \ {0}, NEW r \in Nat \ {0}, NEW s \in Screens(c, r), NEW line \in CellRow(c)
  PROVE  /\ s.row < r => Stays(s, Screen!Draw(s, [Screen!Cells(s) EXCEPT ![s.row] = line]))
         /\ s.row >= r => Stays(s, Screen!Panic(s))
<1>1. /\ s.cols = c /\ s.rows = r /\ s.row \in Nat /\ Screen!Cells(s) \in CellGrid(c, r)
      /\ s \in Screens(s.cols, s.rows)
  BY DEF Screens, Screen!Cells
<1>2. [Screen!Cells(s) EXCEPT ![s.row] = line] \in CellGrid(c, r)
  BY <1>1 DEF CellGrid
<1>3. Stays(s, Screen!Draw(s, [Screen!Cells(s) EXCEPT ![s.row] = line]))
  BY <1>2, DrawStays
<1>4. ASSUME s.row >= r PROVE Stays(s, Screen!Panic(s))
  <2>1. ~OnIt(s)
    BY <1>1, <1>4 DEF OnIt
  <2>2. Screen!Panic(s) \in Screens(c, r)
    BY DEF Screen!Panic, Screens
  <2>3. /\ Screen!Panic(s).grid = s.grid /\ Screen!Panic(s).back = s.back
        /\ Screen!Panic(s).active = s.active
    BY DEF Screen!Panic, Screens
  <2>4. QED
    BY <1>1, <2>1, <2>2, <2>3 DEF Stays, Keeps
<1>5. QED
  BY <1>3, <1>4

\* A line erased, in whole or in part.
LEMMA EraseInLineStays ==
  ASSUME NEW c \in Nat \ {0}, NEW r \in Nat \ {0}, NEW s \in Screens(c, r), NEW mode
  PROVE  Stays(s, Screen!EraseInLine(s, mode))
<1> DEFINE C == Screen!Columns(s, mode)
           line == [i \in 0 .. c - 1 |-> IF i \in C THEN " " ELSE Screen!Cells(s)[s.row][i]]
<1>1. /\ s.cols = c /\ s.rows = r /\ s.row \in Nat /\ Screen!Cells(s) \in CellGrid(c, r)
      /\ s \in Screens(s.cols, s.rows)
  BY DEF Screens, Screen!Cells
<1> HIDE DEF C
<1>2. Screen!EraseInLine(s, mode) = IF C = {} THEN s ELSE IF s.row >= s.rows THEN Screen!Panic(s)
        ELSE Screen!Draw(s, [Screen!Cells(s) EXCEPT ![s.row] =
          [i \in 0 .. s.cols - 1 |-> IF i \in C THEN " " ELSE @[i]]])
  BY DEF Screen!EraseInLine, C
<1>3. CASE s.row < r
  <2>1. s.row \in 0 .. r - 1
    BY <1>1, <1>3
  <2>2. Screen!Cells(s)[s.row] \in CellRow(c)
    BY <1>1, <2>1 DEF CellGrid
  <2>3. line \in CellRow(c)
    BY <2>2 DEF CellRow, Characters
  <2>4. [Screen!Cells(s) EXCEPT ![s.row] =
          [i \in 0 .. s.cols - 1 |-> IF i \in C THEN " " ELSE @[i]]]
          = [Screen!Cells(s) EXCEPT ![s.row] = line]
    BY <1>1
  <2> HIDE DEF line
  <2>5. Stays(s, Screen!Draw(s, [Screen!Cells(s) EXCEPT ![s.row] = line]))
    BY <1>3, <2>3, RowStays
  <2>6. ~(s.row >= s.rows)
    BY <1>1, <1>3
  <2>7. Stays(s, s)
    BY <1>1, StaysAsItIs
  <2>8. QED
    BY <1>2, <2>4, <2>5, <2>6, <2>7, Zenon
<1>4. CASE ~(s.row < r)
  <2>1. s.row >= r /\ s.row >= s.rows
    BY <1>1, <1>4
  <2>2. Screen!BlankRow(s) \in CellRow(c)
    BY <1>1 DEF Screen!BlankRow, CellRow, Characters
  <2>3. Stays(s, Screen!Panic(s))
    BY <2>1, <2>2, RowStays
  <2>4. Stays(s, s)
    BY <1>1, StaysAsItIs
  <2>5. QED
    BY <1>2, <2>1, <2>3, <2>4, Zenon
<1>5. QED
  BY <1>3, <1>4

\* The screen erased, in whole or in part.
LEMMA EraseInDisplayStays ==
  ASSUME NEW c \in Nat \ {0}, NEW r \in Nat \ {0}, NEW s \in Screens(c, r), NEW mode
  PROVE  Stays(s, Screen!EraseInDisplay(s, mode))
<1> DEFINE Whole(i) == CASE mode = "to end" -> i > s.row
                         [] mode = "to start" -> i < s.row
                         [] mode = "all" -> TRUE
           f == [i \in 0 .. s.rows - 1 |-> IF Whole(i) THEN Screen!BlankRow(s) ELSE Screen!Cells(s)[i]]
           others == Screen!Draw(s, f)
<1>1. Screen!EraseInDisplay(s, mode) = IF mode =
        "all" THEN others ELSE Screen!EraseInLine(others, mode)
  BY DEF Screen!EraseInDisplay
<1>2. /\ s.cols = c /\ s.rows = r /\ Screen!Cells(s) \in CellGrid(c, r)
      /\ s \in Screens(s.cols, s.rows)
  BY DEF Screens, Screen!Cells
<1>3. Screen!BlankRow(s) \in CellRow(c)
  BY <1>2 DEF Screen!BlankRow, CellRow, Characters
<1> HIDE DEF Whole
<1>4. f \in CellGrid(c, r)
  BY <1>2, <1>3 DEF CellGrid
<1> HIDE DEF f
<1>5. Stays(s, others) /\ others \in Screens(c, r)
  BY <1>4, DrawStays
<1> HIDE DEF others
<1>6. Stays(others, Screen!EraseInLine(others, mode))
  BY <1>5, EraseInLineStays
<1>7. Stays(s, Screen!EraseInLine(others, mode))
  BY <1>2, <1>5, <1>6, StaysStays
<1>8. QED
  BY <1>1, <1>5, <1>7

\* Lines inserted and deleted.
LEMMA LinesStay ==
  ASSUME NEW c \in Nat \ {0}, NEW r \in Nat \ {0}, NEW s \in Screens(c, r), NEW n \in Nat
  PROVE  Stays(s, Screen!InsertLine(s, n)) /\ Stays(s, Screen!DeleteLine(s, n))
<1> DEFINE m == Screen!Least(n, s.bottom - s.row)
<1>1. s.row \in Nat /\ s.bottom \in Nat /\ s.bottom < r /\ s \in Screens(s.cols, s.rows)
  BY DEF Screens
<1>2. CASE s.row >= s.bottom
  BY <1>1, <1>2, StaysAsItIs DEF Screen!InsertLine, Screen!DeleteLine
<1>3. CASE ~(s.row >= s.bottom)
  <2>1. m \in Nat /\ m <= s.bottom - s.row
    BY <1>1, <1>3 DEF Screen!Least
  <2>2. /\ Screen!InsertLine(s, n) = Screen!ShiftDown(s, m, s.row, s.bottom)
        /\ Screen!DeleteLine(s, n) = Screen!ShiftUp(s, m, s.row, s.bottom)
    BY <1>3 DEF Screen!InsertLine, Screen!DeleteLine
  <2> HIDE DEF m
  <2>3. QED
    BY <1>1, <2>1, <2>2, ShiftStays
<1>4. QED
  BY <1>2, <1>3

\* Characters inserted and deleted.
LEMMA CharactersStay ==
  ASSUME NEW c \in Nat \ {0}, NEW r \in Nat \ {0}, NEW s \in Screens(c, r), NEW n \in Nat
  PROVE  Stays(s, Screen!InsertCharacter(s, n)) /\ Stays(s, Screen!DeleteCharacter(s, n))
<1> DEFINE m == Screen!Least(n, s.cols - s.col)
           g == Screen!Cells(s)[s.row]
           wider == [i \in 0 .. s.cols - 1 |->
                       CASE i < s.col -> g[i]
                         [] i \in s.col .. s.col + m - 1 -> " "
                         [] OTHER -> g[i - m]]
           narrower == [i \in 0 .. s.cols - 1 |->
                          CASE i < s.col -> g[i]
                            [] i >= s.cols - m -> " "
                            [] OTHER -> g[i + m]]
<1>1. /\ s.cols = c /\ s.rows = r /\ s.row \in Nat /\ s.col \in Nat
      /\ Screen!Cells(s) \in CellGrid(c, r) /\ s \in Screens(s.cols, s.rows)
  BY DEF Screens, Screen!Cells
<1>2. /\ Screen!InsertCharacter(s, n) = Screen!EditLine(s, wider)
      /\ Screen!DeleteCharacter(s, n) = Screen!EditLine(s, narrower)
  BY DEF Screen!InsertCharacter, Screen!DeleteCharacter
<1>3. CASE s.col >= s.cols
  BY <1>1, <1>2, <1>3, StaysAsItIs DEF Screen!EditLine
<1>4. CASE ~(s.col >= s.cols) /\ s.row >= s.rows
  <2>1. Screen!BlankRow(s) \in CellRow(c)
    BY <1>1 DEF Screen!BlankRow, CellRow, Characters
  <2>2. Stays(s, Screen!Panic(s))
    BY <1>1, <1>4, <2>1, RowStays
  <2> HIDE DEF wider, narrower
  <2>3. QED
    BY <1>2, <1>4, <2>2 DEF Screen!EditLine
<1>5. CASE ~(s.col >= s.cols) /\ ~(s.row >= s.rows)
  <2>1. m \in Nat /\ m <= c - s.col
    BY <1>1, <1>5 DEF Screen!Least
  <2>2. s.row \in 0 .. r - 1 /\ s.row < r
    BY <1>1, <1>5
  <2>3. g \in CellRow(c)
    BY <1>1, <2>2 DEF CellGrid
  <2> HIDE DEF m, g
  <2>4. wider \in CellRow(c)
    <3>1. \A i \in 0 .. c - 1 : wider[i] \in Characters \union {"_"}
      <4> TAKE i \in 0 .. c - 1
      <4>1. g \in [0 .. c - 1 -> Characters \union {"_"}]
        BY <2>3 DEF CellRow
      <4>2. CASE i < s.col
        <5>1. i \notin s.col .. s.col + m - 1
          BY <1>1, <2>1, <4>2
        <5>2. wider[i] = g[i]
          BY <1>1, <4>2, <5>1
        <5> HIDE DEF wider
        <5>3. QED
          BY <4>1, <5>2
      <4>3. CASE ~(i < s.col) /\ i \in s.col .. s.col + m - 1
        BY <1>1, <4>3 DEF Characters
      <4>4. CASE ~(i < s.col) /\ i \notin s.col .. s.col + m - 1
        <5>1. i - m \in 0 .. c - 1
          BY <1>1, <2>1, <4>4
        <5>2. wider[i] = g[i - m]
          BY <1>1, <4>4
        <5>3. QED
          BY <4>1, <5>1, <5>2
      <4>5. QED
        BY <4>2, <4>3, <4>4
    <3>2. QED
      BY <1>1, <3>1 DEF CellRow
  <2>5. narrower \in CellRow(c)
    <3>1. \A i \in 0 .. c - 1 : narrower[i] \in Characters \union {"_"}
      <4> TAKE i \in 0 .. c - 1
      <4>1. g \in [0 .. c - 1 -> Characters \union {"_"}]
        BY <2>3 DEF CellRow
      <4>2. CASE i < s.col
        <5>1. ~(i >= s.cols - m)
          BY <1>1, <2>1, <4>2
        <5>2. narrower[i] = g[i]
          BY <1>1, <4>2, <5>1
        <5> HIDE DEF narrower
        <5>3. QED
          BY <4>1, <5>2
      <4>3. CASE ~(i < s.col) /\ i >= s.cols - m
        BY <1>1, <2>1, <4>3 DEF Characters
      <4>4. CASE ~(i < s.col) /\ ~(i >= s.cols - m)
        <5>1. i + m \in 0 .. c - 1
          BY <1>1, <2>1, <4>4
        <5>2. narrower[i] = g[i + m]
          BY <1>1, <4>4
        <5>3. QED
          BY <4>1, <5>1, <5>2
      <4>5. QED
        BY <4>2, <4>3, <4>4
    <3>2. QED
      BY <1>1, <3>1 DEF CellRow
  <2> HIDE DEF wider, narrower
  <2>6. /\ Stays(s, Screen!Draw(s, [Screen!Cells(s) EXCEPT ![s.row] = wider]))
        /\ Stays(s, Screen!Draw(s, [Screen!Cells(s) EXCEPT ![s.row] = narrower]))
    BY <2>2, <2>4, <2>5, RowStays
  <2>7. QED
    BY <1>2, <1>5, <2>6 DEF Screen!EditLine
<1>6. QED
  BY <1>3, <1>4, <1>5

\* A blank screen is one of its size.
LEMMA BlankIsGrid ==
  ASSUME NEW c, NEW r PROVE Screen!Blank(c, r) \in CellGrid(c, r)
BY DEF Screen!Blank, CellGrid, CellRow, Characters

\* The alternate screen entered and left.
LEMMA AlternateKeeps ==
  ASSUME NEW c \in Nat \ {0}, NEW r \in Nat \ {0}, NEW s \in Screens(c, r)
  PROVE  Keeps(s, Screen!EnterAlternate(s)) /\ Keeps(s, Screen!LeaveAlternate(s))
<1>1. s.cols = c /\ s.rows = r /\ s \in Screens(s.cols, s.rows) /\ s.active \in Screen!Buffers
  BY DEF Screens
<1>2. Keeps(s, s)
  BY <1>1, StaysAsItIs DEF Stays
<1>3. CASE s.active = "alternate"
  <2>1. s.active # "primary"
    BY <1>3
  <2>2. Screen!LeaveAlternate(s) = [Screen!WholeScreen(s) EXCEPT !.active = "primary"]
    BY <2>1 DEF Screen!LeaveAlternate
  <2> DEFINE t == [s EXCEPT !.top = 0, !.bottom = s.rows - 1, !.active = "primary"]
  <2>3. Screen!LeaveAlternate(s) = t
    BY <2>2 DEF Screen!WholeScreen, Screens
  <2>4. t \in Screens(c, r)
    <3>1. s.rows - 1 \in 0 .. r - 1 /\ "primary" \in Screen!Buffers
      BY <1>1 DEF Screen!Buffers
    <3>2. QED
      BY <1>1, <3>1 DEF Screens
  <2>5. Keeps(s, t)
    BY <1>1, <2>4 DEF Keeps, OnIt, Screens
  <2>6. QED
    BY <1>2, <1>3, <2>3, <2>5 DEF Screen!EnterAlternate
<1>4. CASE s.active = "primary"
  <2>1. s.active # "alternate"
    BY <1>4
  <2> DEFINE b == Screen!Blank(s.cols, s.rows)
             h == [s.grid EXCEPT !["alternate"] = b]
             t == [s EXCEPT !.row = 0, !.col = 0, !.wrap = FALSE, !.top = 0, !.bottom = s.rows - 1,
                            !.active = "alternate", !.saved = <<0, 0>>, !.grid = h]
  <2>2. b \in CellGrid(c, r)
    BY <1>1, BlankIsGrid
  <2> HIDE DEF b
  <2>3. h \in [Screen!Buffers -> CellGrid(c, r)]
    BY <2>2 DEF Screens
  <2>4. Screen!EnterAlternate(s) = t
    <3>1. Screen!EnterAlternate(s) = [Screen!WholeScreen(Screen!Move(s, 0, 0)) EXCEPT
            !.active = "alternate", !.saved = <<0, 0>>, !.grid["alternate"] = b]
      BY <2>1 DEF Screen!EnterAlternate, b
    <3>2. QED
      BY <3>1 DEF Screen!WholeScreen, Screen!Move, Screens
  <2> HIDE DEF h
  <2>5. t \in Screens(c, r)
    <3>1. s.rows - 1 \in 0 .. r - 1 /\ "alternate" \in Screen!Buffers /\ <<0, 0>> \in Nat \X Nat
      BY <1>1 DEF Screen!Buffers
    <3>2. QED
      BY <1>1, <2>3, <3>1 DEF Screens
  <2>6. Keeps(s, t)
    BY <1>1, <2>1, <2>5 DEF Keeps, OnIt, Screens
  <2>7. QED
    BY <1>2, <1>4, <2>4, <2>6 DEF Screen!LeaveAlternate
<1>5. QED
  BY <1>1, <1>3, <1>4 DEF Screen!Buffers

\* Resizing gives a screen of the new size; a larger one keeps the cursor on it.
LEMMA ResizeKeeps ==
  ASSUME NEW c \in Nat \ {0}, NEW r \in Nat \ {0}, NEW s \in Screens(c, r),
         NEW cols \in Nat \ {0}, NEW rows \in Nat \ {0}
  PROVE  /\ Screen!Resize(s, cols, rows) \in Screens(cols, rows)
         /\ OnIt(s) /\ c <= cols /\ r <= rows => OnIt(Screen!Resize(s, cols, rows))
<1> DEFINE Cut(g) == [i \in 0 .. rows - 1 |-> [j \in 0 .. cols - 1 |->
                        IF i < s.rows /\ j < s.cols THEN g[i][j] ELSE " "]]
           h == [b \in Screen!Buffers |-> Cut(s.grid[b])]
           row == Screen!Least(s.row, rows - 1)
           col == Screen!Least(s.col, cols - 1)
           t == [s EXCEPT !.cols = cols, !.rows = rows, !.grid = h, !.bottom = rows - 1,
                          !.row = row, !.col = col]
<1>1. /\ s.cols = c /\ s.rows = r /\ s.row \in Nat /\ s.col \in Nat
      /\ s.grid \in [Screen!Buffers -> CellGrid(c, r)]
      /\ s.top \in Nat /\ s.bottom \in 0 .. r - 1 /\ s.saved \in Nat \X Nat
  BY DEF Screens
<1>2. \A g \in CellGrid(c, r) : Cut(g) \in CellGrid(cols, rows)
  <2> TAKE g \in CellGrid(c, r)
  <2>1. \A i \in 0 .. rows - 1, j \in 0 .. cols - 1 :
          (IF i < s.rows /\ j < s.cols THEN g[i][j] ELSE " ") \in Characters \union {"_"}
    <3> TAKE i \in 0 .. rows - 1, j \in 0 .. cols - 1
    <3>1. CASE i < s.rows /\ j < s.cols
      <4>1. i \in 0 .. r - 1 /\ j \in 0 .. c - 1
        BY <1>1, <3>1
      <4>2. g[i] \in [0 .. c - 1 -> Characters \union {"_"}]
        BY <4>1 DEF CellGrid, CellRow
      <4>3. g[i][j] \in Characters \union {"_"}
        BY <4>1, <4>2
      <4>4. QED
        BY <3>1, <4>3
    <3>2. CASE ~(i < s.rows /\ j < s.cols)
      BY <3>2 DEF Characters
    <3>3. QED
      BY <3>1, <3>2
  <2>2. QED
    BY <2>1 DEF CellGrid, CellRow
<1>3. h \in [Screen!Buffers -> CellGrid(cols, rows)]
  <2> HIDE DEF Cut
  <2>1. QED
    BY <1>1, <1>2
<1>4. Screen!Resize(s, cols, rows) = t
  BY <1>1 DEF Screen!Resize, Screen!Buffers
<1> HIDE DEF h
<1>5. row \in Nat /\ row < rows /\ col \in Nat /\ col < cols
  BY <1>1 DEF Screen!Least
<1> HIDE DEF row, col
<1>6. t \in Screens(cols, rows)
  <2>1. rows - 1 \in 0 .. rows - 1
    OBVIOUS
  <2>2. QED
    BY <1>3, <1>5, <2>1 DEF Screens
<1>7. OnIt(s) /\ c <= cols /\ r <= rows => OnIt(t)
  <2>1. /\ t.dead = s.dead /\ t.row = row /\ t.col = col /\ t.rows = rows /\ t.cols = cols
        /\ t.saved = s.saved /\ t.top = s.top /\ t.bottom = rows - 1
    BY DEF Screens
  <2> HIDE DEF t
  <2>2. QED
    BY <1>1, <1>5, <2>1 DEF OnIt
<1>8. QED
  BY <1>4, <1>6, <1>7

\* The screen is one of its size, and unless it was made smaller the cursor is on it.
ScreenInv ==
  /\ <<vScreen.cols, vScreen.rows>> \in ScreenSizes
  /\ vScreen \in Screens(vScreen.cols, vScreen.rows)
  /\ vShrunk \in BOOLEAN /\ (vShrunk \/ OnIt(vScreen))
  /\ vOps \in 0 .. ScreenOps

\* The sizes of screens are positive.
LEMMA ScreenTyped ==
  ASSUME Screen!ScreenAssumption, ScreenInv
  PROVE  /\ vScreen.cols \in Nat \ {0} /\ vScreen.rows \in Nat \ {0} /\ MaxScrollback \in Nat
         /\ \A size \in ScreenSizes : size[1] \in Nat \ {0} /\ size[2] \in Nat \ {0} /\
              size = <<size[1], size[2]>>
<1>1. \A size \in ScreenSizes : size[1] \in Nat \ {0} /\ size[2] \in Nat \ {0} /\
        size = <<size[1], size[2]>>
  BY DEF Screen!ScreenAssumption
<1>2. QED
  BY <1>1 DEF Screen!ScreenAssumption, ScreenInv

\* Each operation but a resize keeps what Keeps says.
LEMMA OperationsKeep ==
  ASSUME Screen!ScreenAssumption, ScreenInv, Screen!Next,
    \A size \in ScreenSizes : ~Screen!ResizeTo(size)
  PROVE  Screen!Do(vScreen') /\ Keeps(vScreen, vScreen')
<1> DEFINE c == vScreen.cols
           r == vScreen.rows
<1>1. c \in Nat \ {0} /\ r \in Nat \ {0} /\ MaxScrollback \in Nat /\ vScreen \in Screens(c, r)
  BY ScreenTyped DEF ScreenInv
<1>2. Parameters \subseteq Nat
  BY DEF Screen!ScreenAssumption
<1> HIDE DEF c, r
<1>3. \A t : Screen!Do(t) /\ Keeps(vScreen, t) => Screen!Do(vScreen') /\ Keeps(vScreen, vScreen')
  BY DEF Screen!Do
<1>4. \A t : Screen!Do(t) /\ Stays(vScreen, t) => Screen!Do(vScreen') /\ Keeps(vScreen, vScreen')
  BY <1>3 DEF Stays
<1>5. CASE \E k \in {"x", "W"} : Screen!PrintText(k)
  <2>1. \A k \in {"x", "W"} : Stays(vScreen, Screen!PutChar(vScreen, k))
    BY <1>1, PutCharStays DEF Characters
  <2>2. QED
    BY <1>3, <1>4, <1>5, <2>1 DEF Screen!PrintText
<1>6. CASE Screen!Plain
  <2>1. Stays(vScreen, Screen!Linefeed(vScreen))
    BY <1>1, LinefeedStays
  <2>2. /\ Stays(vScreen, Screen!CarriageReturn(vScreen))
        /\ Stays(vScreen, Screen!Backspace(vScreen))
        /\ Stays(vScreen, Screen!Tab(vScreen)) /\ Stays(vScreen, Screen!SaveCursor(vScreen))
        /\ Stays(vScreen, Screen!RestoreCursor(vScreen))
    BY <1>1, CursorStays
  <2>3. /\ Keeps(vScreen, Screen!EnterAlternate(vScreen))
        /\ Keeps(vScreen, Screen!LeaveAlternate(vScreen))
    BY <1>1, AlternateKeeps
  <2>4. QED
    BY <1>3, <1>4, <1>6, <2>1, <2>2, <2>3, Zenon DEF Screen!Plain
<1>7. ASSUME NEW n \in Parameters, Screen!Counted(n)
      PROVE  Screen!Do(vScreen') /\ Keeps(vScreen, vScreen')
  <2>1. n \in Nat
    BY <1>2
  <2>2. Stays(vScreen, Screen!Repeat(vScreen, n)) /\ Stays(vScreen, Screen!ScrollUp(vScreen, n))
    BY <1>1, <2>1, RepeatStays, ScrollUpStays
  <2>3. Stays(vScreen, Screen!ScrollDown(vScreen, n))
    BY <1>1, <2>1, ScrollDownStays
  <2>4. /\ Stays(vScreen, Screen!CursorUp(vScreen, n))
        /\ Stays(vScreen, Screen!CursorDown(vScreen, n))
        /\ Stays(vScreen, Screen!CursorForward(vScreen, n))
        /\ Stays(vScreen, Screen!CursorBack(vScreen, n))
        /\ Stays(vScreen, Screen!CursorNextLine(vScreen, n))
        /\ Stays(vScreen, Screen!CursorPreviousLine(vScreen, n))
        /\ Stays(vScreen, Screen!Horizontal(vScreen, n))
        /\ Stays(vScreen, Screen!Vertical(vScreen, n))
    BY <1>1, <2>1, CursorCountedStays
  <2>5. /\ Stays(vScreen, Screen!InsertLine(vScreen, n))
        /\ Stays(vScreen, Screen!DeleteLine(vScreen, n))
        /\ Stays(vScreen, Screen!InsertCharacter(vScreen, n))
        /\ Stays(vScreen, Screen!DeleteCharacter(vScreen, n))
    BY <1>1, <2>1, LinesStay, CharactersStay
  <2>6. QED
    BY <1>3, <1>4, <1>7, <2>2, <2>3, <2>4, <2>5, Zenon DEF Screen!Counted
<1>8. CASE \E on \in BOOLEAN : Screen!Switch(on)
  <2>1. \A on \in BOOLEAN : Stays(vScreen, Screen!OriginMode(vScreen, on)) /\
          Stays(vScreen, Screen!AutoWrap(vScreen, on))
    BY <1>1, ModesStay
  <2>2. QED
    BY <1>3, <1>4, <1>8, <2>1, Zenon DEF Screen!Switch
<1>9. CASE \E mode \in Screen!Modes : Screen!Erase(mode)
  <2>1. \A mode : Stays(vScreen, Screen!EraseInDisplay(vScreen, mode)) /\
          Stays(vScreen, Screen!EraseInLine(vScreen, mode))
    BY <1>1, EraseInDisplayStays, EraseInLineStays
  <2>2. QED
    BY <1>3, <1>4, <1>9, <2>1, Zenon DEF Screen!Erase
<1>10. CASE \E m, n \in Parameters, checked \in BOOLEAN : Screen!Position(m, n, checked)
  <2>1. \A m, n \in Parameters, checked \in BOOLEAN :
          Stays(vScreen, Screen!CursorPosition(vScreen, m, n, checked))
    BY <1>1, <1>2, CursorPositionStays
  <2>2. QED
    BY <1>3, <1>4, <1>10, <2>1, Zenon DEF Screen!Position
<1>11. CASE \E m, n \in Parameters \union {0} : Screen!Region(m, n)
  <2>1. \A m, n \in Parameters \union {0} : Stays(vScreen, Screen!SetScrollingRegion(vScreen, m, n))
    BY <1>1, <1>2, SetScrollingRegionStays
  <2>2. QED
    BY <1>3, <1>4, <1>11, <2>1, Zenon DEF Screen!Region
<1>12. QED
  BY <1>5, <1>6, <1>7, <1>8, <1>9, <1>10, <1>11 DEF Screen!Next

\* At first the screen is blank, and the cursor home.
LEMMA ScreenInvInit == ASSUME Screen!ScreenAssumption, Screen!Init PROVE ScreenInv
<1> DEFINE c == FirstSize[1]
           r == FirstSize[2]
<1>1. /\ c \in Nat \ {0} /\ r \in Nat \ {0} /\ FirstSize = <<c, r>> /\ MaxScrollback \in Nat
      /\ ScreenOps \in Nat
  BY DEF Screen!ScreenAssumption
<1> HIDE DEF c, r
<1>2. vScreen = Screen!New(c, r) /\ vOps = 0 /\ vShrunk = FALSE
  BY DEF Screen!Init, c, r
<1>3. <<>> \in Saved
  BY <1>1 DEF Saved
<1>4. [b \in Screen!Buffers |-> Screen!Blank(c, r)] \in [Screen!Buffers -> CellGrid(c, r)]
  BY BlankIsGrid
<1>5. r - 1 \in 0 .. r - 1 /\ "primary" \in Screen!Buffers /\ " " \in Characters
  BY <1>1 DEF Screen!Buffers, Characters
<1> HIDE DEF Screen!Init
<1>6. vScreen \in Screens(c, r) /\ vScreen.cols = c /\ vScreen.rows = r
  BY <1>1, <1>2, <1>3, <1>4, <1>5 DEF Screen!New, Screens
<1>7. OnIt(vScreen)
  <2>1. /\ vScreen.dead = FALSE /\ vScreen.row = 0 /\ vScreen.col = 0 /\ vScreen.saved = <<0, 0>>
        /\ vScreen.top = 0 /\ vScreen.bottom = r - 1
    BY <1>2 DEF Screen!New
  <2>2. QED
    BY <1>1, <1>6, <2>1 DEF OnIt
<1>8. <<vScreen.cols, vScreen.rows>> \in ScreenSizes
  <2>1. FirstSize \in ScreenSizes
    BY DEF Screen!ScreenAssumption
  <2>2. QED
    BY <1>1, <1>6, <2>1
<1>9. vOps \in 0 .. ScreenOps /\ vShrunk \in BOOLEAN
  <2>1. vOps \in 0 .. ScreenOps
    BY <1>1, <1>2
  <2>2. vShrunk \in BOOLEAN
    BY <1>2
  <2>3. QED
    BY <2>1, <2>2
<1>10. vScreen \in Screens(vScreen.cols, vScreen.rows)
  BY <1>6
<1>11. QED
  BY <1>7, <1>8, <1>9, <1>10 DEF ScreenInv

\* An operation keeps the types, and the cursor on the screen unless that shrank.
LEMMA ScreenInvStep ==
  ASSUME Screen!ScreenAssumption, ScreenInv, [Screen!Next]_(Screen!vars) PROVE ScreenInv'
<1>1. CASE UNCHANGED Screen!vars
  BY <1>1 DEF Screen!vars, ScreenInv, Screens, OnIt, Saved, CellGrid, CellRow, Characters
<1>2. CASE Screen!Next /\ \A size \in ScreenSizes : ~Screen!ResizeTo(size)
  <2>1. Screen!Do(vScreen') /\ Keeps(vScreen, vScreen')
    BY <1>2, OperationsKeep
  <2>2. vScreen'.cols = vScreen.cols /\ vScreen'.rows = vScreen.rows
    BY <2>1 DEF Keeps, Screens
  <2>3. vOps' = vOps + 1 /\ vOps < ScreenOps /\ vShrunk' = vShrunk /\ ScreenOps \in Nat
    BY <2>1 DEF Screen!Do, Screen!ScreenAssumption
  <2>4. QED
    BY <2>1, <2>2, <2>3 DEF ScreenInv, Keeps
<1>3. ASSUME NEW size \in ScreenSizes, Screen!ResizeTo(size) PROVE ScreenInv'
  <2> DEFINE t == Screen!Resize(vScreen, size[1], size[2])
  <2>1. /\ vScreen.cols \in Nat \ {0} /\ vScreen.rows \in Nat \ {0}
        /\ size[1] \in Nat \ {0} /\ size[2] \in Nat \ {0} /\ size = <<size[1], size[2]>>
    BY ScreenTyped
  <2>2. /\ vScreen' = t /\ vOps' = vOps + 1 /\ vOps < ScreenOps /\ ScreenOps \in Nat
        /\ vShrunk' = (vShrunk \/ size[1] < vScreen.cols \/ size[2] < vScreen.rows)
    BY <1>3 DEF Screen!ResizeTo, Screen!ScreenAssumption
  <2>3. vScreen \in Screens(vScreen.cols, vScreen.rows)
    BY DEF ScreenInv
  <2>4. /\ t \in Screens(size[1], size[2])
        /\ OnIt(vScreen) /\ vScreen.cols <= size[1] /\ vScreen.rows <= size[2] => OnIt(t)
    BY <2>1, <2>3, ResizeKeeps
  <2> HIDE DEF t
  <2>5. t.cols = size[1] /\ t.rows = size[2]
    BY <2>4 DEF Screens
  <2>6. vShrunk' \in BOOLEAN /\ (vShrunk' \/ OnIt(t))
    <3>1. vShrunk \in BOOLEAN /\ (vShrunk \/ OnIt(vScreen))
      BY DEF ScreenInv
    <3>2. CASE vShrunk \/ size[1] < vScreen.cols \/ size[2] < vScreen.rows
      BY <2>2, <3>2
    <3>3. CASE ~(vShrunk \/ size[1] < vScreen.cols \/ size[2] < vScreen.rows)
      <4>1. vScreen.cols <= size[1] /\ vScreen.rows <= size[2] /\ OnIt(vScreen)
        BY <2>1, <3>1, <3>3
      <4>2. vShrunk' = FALSE
        BY <2>2, <3>3, Zenon
      <4>3. QED
        BY <2>4, <4>1, <4>2
    <3>4. QED
      BY <3>2, <3>3
  <2>7. QED
    BY <2>1, <2>2, <2>4, <2>5, <2>6 DEF ScreenInv
<1>4. QED
  BY <1>1, <1>2, <1>3

\* On the alternate screen the shell's cells and its scrollback stay as they are.
LEMMA ShellKeptStep ==
  ASSUME Screen!ScreenAssumption, ScreenInv, [Screen!Next]_(Screen!vars)
  PROVE  [/\ vScreen.active = "alternate"
          /\ <<vScreen'.cols, vScreen'.rows>> = <<vScreen.cols, vScreen.rows>>
          => /\ vScreen'.grid["primary"] = vScreen.grid["primary"]
             /\ vScreen'.back = vScreen.back]_(Screen!vars)
<1>1. CASE UNCHANGED Screen!vars
  BY <1>1
<1>2. CASE Screen!Next /\ \A size \in ScreenSizes : ~Screen!ResizeTo(size)
  BY <1>2, OperationsKeep DEF Keeps
<1>3. ASSUME NEW size \in ScreenSizes, Screen!ResizeTo(size)
      PROVE  <<vScreen'.cols, vScreen'.rows>> # <<vScreen.cols, vScreen.rows>>
  <2>1. size # <<vScreen.cols, vScreen.rows>> /\ vScreen' = Screen!Resize(vScreen, size[1], size[2])
    BY <1>3 DEF Screen!ResizeTo
  <2>2. /\ vScreen.cols \in Nat \ {0} /\ vScreen.rows \in Nat \ {0}
        /\ vScreen \in Screens(vScreen.cols, vScreen.rows)
        /\ size[1] \in Nat \ {0} /\ size[2] \in Nat \ {0} /\ size = <<size[1], size[2]>>
    BY ScreenTyped DEF ScreenInv
  <2>3. vScreen' \in Screens(size[1], size[2])
    BY <2>1, <2>2, ResizeKeeps
  <2>4. vScreen'.cols = size[1] /\ vScreen'.rows = size[2]
    BY <2>3 DEF Screens
  <2>5. QED
    BY <2>1, <2>2, <2>4
<1>4. QED
  BY <1>1, <1>2, <1>3

\* Screens are of their type, and the cursor on them unless they shrank.
THEOREM ScreenInvariant == ASSUME Screen!ScreenAssumption PROVE Screen!Spec => []ScreenInv
BY ScreenInvInit, ScreenInvStep, PTL DEF Screen!Spec

\* The cells, the cursor, the region and the scrollback stay within their types.
THEOREM ScreenStates == ASSUME Screen!ScreenAssumption PROVE Screen!Spec => []Screen!TypeOK
<1>1. ScreenInv => Screen!TypeOK
  <2> SUFFICES ASSUME ScreenInv PROVE Screen!TypeOK
    OBVIOUS
  <2>1. vScreen \in Screens(vScreen.cols, vScreen.rows)
    BY DEF ScreenInv
  <2>2. /\ vScreen.active \in Screen!Buffers
        /\ vScreen.grid \in [Screen!Buffers -> CellGrid(vScreen.cols, vScreen.rows)]
        /\ vScreen.row \in Nat /\ vScreen.col \in Nat /\ vScreen.saved \in Nat \X Nat
        /\ vScreen.top \in Nat
        /\ vScreen.bottom \in 0 .. vScreen.rows - 1 /\ vScreen.back \in Saved
    BY <2>1 DEF Screens
  <2>3. \A b \in Screen!Buffers : vScreen.grid[b] \in
          [0 .. vScreen.rows - 1 -> [0 .. vScreen.cols - 1 -> {" ", "x", "W", "_"}]]
    <3>1. Characters \union {"_"} = {" ", "x", "W", "_"}
      BY DEF Characters
    <3>2. QED
      BY <2>2, <3>1 DEF CellGrid, CellRow
  <2>4. {vScreen.row, vScreen.col, vScreen.saved[1], vScreen.saved[2], vScreen.top} \subseteq Nat
    BY <2>2
  <2>5. Len(vScreen.back) <= MaxScrollback
    BY <2>2 DEF Saved
  <2>6. QED
    BY <2>2, <2>3, <2>4, <2>5 DEF Screen!TypeOK, ScreenInv
<1>2. QED
  BY <1>1, ScreenInvariant, PTL

\* A screen that nobody makes smaller has its cursor on it, and never panics.
THEOREM CursorStaysOnScreen ==
  ASSUME Screen!ScreenAssumption PROVE Screen!Spec => []Screen!OnScreenUnlessShrunk
<1>1. ScreenInv => Screen!OnScreenUnlessShrunk
  BY DEF ScreenInv, OnIt, Screen!OnScreenUnlessShrunk
<1>2. QED
  BY <1>1, ScreenInvariant, PTL

\* What a full-screen program does leaves the shell's screen as it was.
THEOREM ShellScreenStays ==
  ASSUME Screen!ScreenAssumption PROVE Screen!Spec => Screen!ShellScreenIsKept
BY ScreenInvariant, ShellKeptStep, PTL DEF Screen!Spec, Screen!ShellScreenIsKept

-----------------------------------------------------------------------------
(* ConversationHistory: told in its order, and nothing left out unoffered    *)

HistoryEntries ==
  [role : {"user", "assistant", "system"}, id : 0 .. MaxMessages, cut : Cuts \union {FALSE},
   tells : SUBSET (1 .. MaxMessages)]

HistoryTyped ==
  /\ gTurn \in [pc : {"idle", "running", "dead"}, log : Seq(HistoryEntries)]
  /\ gWorker \in [busy : BOOLEAN, snap : Seq(HistoryEntries)]
  /\ gCache \in Seq(HistoryEntries) /\ gFile \in Seq(HistoryEntries)
  /\ gIndex \in Seq(HistoryEntries)
  /\ gQueue \in 0 .. QueueCap /\ gSaid \in 0 .. MaxMessages /\ gCrashes \in 0 .. MaxCrashes
  /\ gOffered \subseteq 1 .. gSaid /\ gGone \subseteq 1 .. gSaid
  /\ gTurn.pc = "running" => gSaid < MaxMessages

\* A history with the first n messages at most: summaries, two at most, and
\* then messages, in the order of their numbers.
Neat(log, n) ==
  /\ \A k \in DOMAIN log :
       IF History!IsSummary(log[k]) THEN log[k].id = 0 /\ k <= 2 ELSE log[k].id \in 1 .. n
  /\ \A j, k \in DOMAIN log :
       j < k => /\ History!IsSummary(log[k]) => History!IsSummary(log[j])
                /\ History!IsSummary(log[j]) \/ log[j].id < log[k].id

HistoryNeat ==
  /\ Neat(gTurn.log, gSaid) /\ Neat(gCache, gSaid) /\ Neat(gFile, gSaid) /\ Neat(gIndex, gSaid)
  /\ Neat(gWorker.snap, gSaid)
  /\ Len(gCache) <= MaxHistory + 1 /\ Len(gFile) <= MaxHistory + 1
  /\ Len(gWorker.snap) <= MaxHistory + 1

\* Where the messages said so far are.
SaidIsTold ==
  /\ 1 .. gSaid \subseteq History!Ids(gCache) \union gOffered \union gGone
  /\ gTurn.pc = "running" => 1 .. gSaid \subseteq History!Ids(gTurn.log) \union gOffered \union gGone

HistoryInv == HistoryTyped /\ HistoryNeat /\ SaidIsTold

\* The newest messages of a history, one by one.
LEMMA NewestAt ==
  ASSUME NEW S, NEW log \in Seq(S), NEW n \in Nat
  PROVE  LET r == History!Newest(log, n)
             d == IF n >= Len(log) THEN 0 ELSE Len(log) - n
         IN  /\ r \in Seq(S) /\ d \in Nat /\ Len(r) = Len(log) - d
             /\ \A i \in 1 .. Len(r) : i + d \in 1 .. Len(log) /\ r[i] = log[i + d]
<1>1. CASE n >= Len(log)
  BY <1>1 DEF History!Newest
<1>2. CASE n < Len(log)
  <2> DEFINE d == Len(log) - n
  <2>1. History!Newest(log, n) = SubSeq(log, d + 1, Len(log))
    BY <1>2 DEF History!Newest
  <2>2. d \in Nat /\ d + 1 \in 1 .. Len(log) + 1
    BY <1>2
  <2>3. /\ SubSeq(log, d + 1, Len(log)) \in Seq(S)
        /\ Len(SubSeq(log, d + 1, Len(log))) = Len(log) - d
        /\ \A i \in 1 .. Len(log) - d : SubSeq(log, d + 1, Len(log))[i] = log[i + d]
    BY <2>2
  <2>4. \A i \in 1 .. Len(log) - d : i + d \in 1 .. Len(log)
    BY <2>2
  <2>5. (IF n >= Len(log) THEN 0 ELSE Len(log) - n) = d
    BY <1>2
  <2> HIDE DEF d
  <2>6. QED
    BY <2>1, <2>2, <2>3, <2>4, <2>5, Zenon
<1>3. QED
  BY <1>1, <1>2

\* Two sequences one after the other.
LEMMA ConcatenationAt ==
  ASSUME NEW S, NEW a \in Seq(S), NEW b \in Seq(S)
  PROVE  /\ a \o b \in Seq(S) /\ Len(a \o b) = Len(a) + Len(b)
         /\ \A i \in 1 .. Len(a) : (a \o b)[i] = a[i]
         /\ \A i \in 1 .. Len(b) : (a \o b)[Len(a) + i] = b[i]
OBVIOUS

\* A part of a neat history, in its order, is neat.
LEMMA PartIsNeat ==
  ASSUME NEW log \in Seq(HistoryEntries), NEW n \in Nat, Neat(log, n),
         NEW t \in Seq(HistoryEntries), NEW p \in [1 .. Len(t) -> 1 .. Len(log)],
         \A i \in 1 .. Len(t) : i <= p[i] /\ t[i] = log[p[i]],
         \A i, j \in 1 .. Len(t) : i < j => p[i] < p[j]
  PROVE  Neat(t, n)
<1>0. /\ DOMAIN t = 1 .. Len(t) /\ DOMAIN log = 1 .. Len(log)
      /\ \A i \in 1 .. Len(t) : p[i] \in 1 .. Len(log)
  OBVIOUS
<1>1. ASSUME NEW k \in DOMAIN t
      PROVE  IF History!IsSummary(t[k]) THEN t[k].id = 0 /\ k <= 2 ELSE t[k].id \in 1 .. n
  <2>1. p[k] \in DOMAIN log /\ k <= p[k] /\ t[k] = log[p[k]] /\ k \in Int /\ p[k] \in Int
    BY <1>0
  <2>2. IF History!IsSummary(log[p[k]]) THEN log[p[k]].id = 0 /\
          p[k] <= 2 ELSE log[p[k]].id \in 1 .. n
    BY <2>1 DEF Neat
  <2>3. QED
    BY <2>1, <2>2
<1>2. ASSUME NEW j \in DOMAIN t, NEW k \in DOMAIN t, j < k
      PROVE  /\ History!IsSummary(t[k]) => History!IsSummary(t[j])
             /\ History!IsSummary(t[j]) \/ t[j].id < t[k].id
  <2>1. p[j] \in DOMAIN log /\ p[k] \in DOMAIN log /\ p[j] < p[k]
        /\ t[j] = log[p[j]] /\ t[k] = log[p[k]]
    BY <1>0, <1>2
  <2>2. QED
    BY <2>1 DEF Neat
<1>3. QED
  BY <1>1, <1>2 DEF Neat

\* A history stays neat when another message is said.
LEMMA NeatLater ==
  ASSUME NEW log \in Seq(HistoryEntries), NEW n \in Nat, Neat(log, n)
  PROVE  Neat(log, n + 1)
BY DEF Neat

\* What is said next has the next number.
LEMMA SaidIsEntry ==
  ASSUME NEW role \in {"user", "assistant"}, NEW cut \in Cuts, gSaid \in Nat, gSaid < MaxMessages,
         History!HistoryAssumption
  PROVE  /\ History!Said(role, cut) \in HistoryEntries /\ History!Said(role, cut).id = gSaid + 1
         /\ ~History!IsSummary(History!Said(role, cut))
<1>1. gSaid + 1 \in 0 .. MaxMessages /\ {gSaid + 1} \in SUBSET (1 .. MaxMessages)
  BY DEF History!HistoryAssumption
<1>2. QED
  BY <1>1 DEF History!Said, History!Entry, HistoryEntries, History!IsSummary

\* A message said at the end leaves a history neat.
LEMMA AppendNeat ==
  ASSUME History!HistoryAssumption, NEW log \in Seq(HistoryEntries), gSaid \in Nat,
    gSaid < MaxMessages, Neat(log, gSaid), NEW role \in {"user", "assistant"}, NEW cut \in Cuts
  PROVE  /\ Append(log, History!Said(role, cut)) \in Seq(HistoryEntries)
         /\ Neat(Append(log, History!Said(role, cut)), gSaid + 1)
<1> DEFINE t == Append(log, History!Said(role, cut))
<1>1. /\ History!Said(role, cut) \in HistoryEntries /\ History!Said(role, cut).id = gSaid + 1
      /\ ~History!IsSummary(History!Said(role, cut))
  BY SaidIsEntry
<1>2. /\ t \in Seq(HistoryEntries) /\ Len(t) = Len(log) + 1
      /\ t[Len(log) + 1] = History!Said(role, cut)
      /\ \A i \in 1 .. Len(log) : t[i] = log[i]
  BY <1>1
<1>3. \A k \in DOMAIN t :
        IF History!IsSummary(t[k]) THEN t[k].id = 0 /\ k <= 2 ELSE t[k].id \in 1 .. gSaid + 1
  BY <1>1, <1>2 DEF Neat
<1>4. ASSUME NEW j \in DOMAIN t, NEW k \in DOMAIN t, j < k
      PROVE  /\ History!IsSummary(t[k]) => History!IsSummary(t[j])
             /\ History!IsSummary(t[j]) \/ t[j].id < t[k].id
  <2>1. j \in 1 .. Len(log) /\ t[j] = log[j]
    BY <1>2, <1>4
  <2>2. CASE k = Len(log) + 1
    BY <1>1, <1>2, <2>1, <2>2 DEF Neat
  <2>3. CASE k \in 1 .. Len(log)
    BY <1>2, <1>4, <2>1, <2>3 DEF Neat
  <2>4. QED
    BY <1>2, <2>2, <2>3
<1>5. QED
  BY <1>2, <1>3, <1>4 DEF Neat

\* What the limit leaves of a history: its summary and the newest messages.
LEMMA TruncatedAt ==
  ASSUME History!HistoryAssumption, NEW log \in Seq(HistoryEntries), Len(log) > MaxHistory
  PROVE  LET t == History!Truncate(log)
             h == IF History!IsSummary(log[1]) THEN 1 ELSE 0
         IN  /\ t \in Seq(HistoryEntries) /\ Len(t) = h + MaxHistory
             /\ h = 1 => t[1] = log[1]
             /\ \A i \in 1 .. MaxHistory : t[h + i] = log[Len(log) - MaxHistory + i]
<1> DEFINE h == IF History!IsSummary(log[1]) THEN 1 ELSE 0
           r == History!Newest(log, MaxHistory)
<1>1. MaxHistory \in Nat \ {0} /\ Len(log) \in Nat /\ log # <<>> /\ log[1] \in HistoryEntries
  BY DEF History!HistoryAssumption
<1>2. r \in Seq(HistoryEntries) /\ Len(r) = MaxHistory
      /\ \A i \in 1 .. MaxHistory : r[i] = log[Len(log) - MaxHistory + i]
  <2>1. /\ r \in Seq(HistoryEntries) /\ Len(r) = Len(log) - (Len(log) - MaxHistory)
        /\ \A i \in 1 .. Len(r) : r[i] = log[i + (Len(log) - MaxHistory)]
    BY <1>1, NewestAt
  <2>2. QED
    BY <1>1, <2>1
<1>3. History!Truncate(log) = History!Leading(log) \o r
  BY <1>1 DEF History!Truncate
<1>4. CASE History!IsSummary(log[1])
  <2>1. History!Leading(log) = <<log[1]>> /\ h = 1
    BY <1>1, <1>4 DEF History!Leading
  <2>2. <<log[1]>> \in Seq(HistoryEntries) /\ Len(<<log[1]>>) = 1 /\ <<log[1]>>[1] = log[1]
    BY <1>1
  <2> HIDE DEF r, h
  <2>3. /\ History!Leading(log) \o r \in Seq(HistoryEntries)
        /\ Len(History!Leading(log) \o r) = 1 + MaxHistory
        /\ (History!Leading(log) \o r)[1] = log[1]
        /\ \A i \in 1 .. MaxHistory : (History!Leading(log) \o r)[1 + i] = r[i]
    BY <1>1, <1>2, <2>1, <2>2
  <2>4. QED
    BY <1>2, <1>3, <2>1, <2>3 DEF h
<1>5. CASE ~History!IsSummary(log[1])
  <2>1. History!Leading(log) = <<>> /\ h = 0
    BY <1>1, <1>5 DEF History!Leading
  <2> HIDE DEF r, h
  <2>2. History!Leading(log) \o r = r
    BY <1>2, <2>1
  <2>3. QED
    BY <1>1, <1>2, <1>3, <2>1, <2>2 DEF h
<1>6. QED
  BY <1>4, <1>5

\* The limit leaves a history neat, and at most a summary more than it.
LEMMA TruncateNeat ==
  ASSUME History!HistoryAssumption, NEW log \in Seq(HistoryEntries), NEW n \in Nat, Neat(log, n)
  PROVE  /\ History!Truncate(log) \in Seq(HistoryEntries) /\ Neat(History!Truncate(log), n)
         /\ Len(History!Truncate(log)) <= MaxHistory + 1
<1>1. CASE Len(log) <= MaxHistory
  BY <1>1 DEF History!Truncate, History!HistoryAssumption
<1>2. CASE Len(log) > MaxHistory
  <2> DEFINE t == History!Truncate(log)
             h == IF History!IsSummary(log[1]) THEN 1 ELSE 0
             d == Len(log) - MaxHistory
             p == [j \in 1 .. Len(t) |-> IF j <= h THEN 1 ELSE d + j - h]
  <2>1. MaxHistory \in Nat /\ h \in {0, 1} /\ d \in Nat \ {0} /\ Len(log) \in Nat
        /\ Len(log) = d + MaxHistory
    BY <1>2 DEF History!HistoryAssumption
  <2>2. /\ t \in Seq(HistoryEntries) /\ Len(t) = h + MaxHistory
        /\ h = 1 => t[1] = log[1]
        /\ \A i \in 1 .. MaxHistory : t[h + i] = log[d + i]
    BY <1>2, TruncatedAt
  <2> HIDE DEF t, h, d
  <2>3. p \in [1 .. Len(t) -> 1 .. Len(log)]
    BY <2>1, <2>2
  <2>4. ASSUME NEW i \in 1 .. Len(t) PROVE i <= p[i] /\ t[i] = log[p[i]]
    <3>1. CASE i <= h
      BY <2>1, <2>2, <3>1
    <3>2. CASE i > h
      <4>1. i - h \in 1 .. MaxHistory /\ h + (i - h) = i
        BY <2>1, <2>2, <3>2
      <4>2. t[h + (i - h)] = log[d + (i - h)]
        BY <2>2, <4>1
      <4>3. p[i] = d + (i - h) /\ i <= d + (i - h)
        BY <2>1, <3>2
      <4>4. QED
        BY <4>1, <4>2, <4>3
    <3>3. QED
      BY <2>1, <2>2, <3>1, <3>2
  <2>5. ASSUME NEW i \in 1 .. Len(t), NEW j \in 1 .. Len(t), i < j PROVE p[i] < p[j]
    BY <2>1, <2>2, <2>5
  <2> HIDE DEF p
  <2>6. Neat(t, n)
    BY <2>2, <2>3, <2>4, <2>5, PartIsNeat
  <2>7. QED
    BY <2>1, <2>2, <2>6 DEF t
<1>3. QED
  BY <1>1, <1>2 DEF History!HistoryAssumption

OpensWith(log) == IF History!IsSummary(log[1]) THEN 1 ELSE 0
CompactedAs(log, sum) == History!Leading(log) \o <<sum>> \o History!Newest(log, KeepRecent)

\* Where the entries of a compacted history come from.
LEMMA CompactAt ==
  ASSUME History!HistoryAssumption, NEW log \in Seq(HistoryEntries), History!Compacts(log),
    NEW sum \in HistoryEntries
  PROVE  /\ Len(log) \in Nat /\ KeepRecent \in Nat \ {0} /\ OpensWith(log) \in {0, 1}
         /\ OpensWith(log) + 1 <= Len(log) - KeepRecent /\ Len(log) > KeepRecent + 1
         /\ History!Old(log) = SubSeq(log, OpensWith(log) + 1, Len(log) - KeepRecent)
         /\ CompactedAs(log, sum) \in Seq(HistoryEntries)
         /\ Len(CompactedAs(log, sum)) = OpensWith(log) + 1 + KeepRecent
         /\ OpensWith(log) = 1 => CompactedAs(log, sum)[1] = log[1]
         /\ CompactedAs(log, sum)[OpensWith(log) + 1] = sum
         /\ \A i \in 1 .. KeepRecent : CompactedAs(log, sum)[OpensWith(log) + 1 + i] =
              log[Len(log) - KeepRecent + i]
<1> DEFINE h == OpensWith(log)
           r == History!Newest(log, KeepRecent)
           u == History!Leading(log) \o <<sum>>
<1>1. /\ KeepRecent \in Nat \ {0} /\ Len(log) \in Nat /\ log # <<>> /\ log[1] \in HistoryEntries
      /\ Len(log) > KeepRecent + 1
  BY DEF History!HistoryAssumption, History!Compacts
<1>2. r \in Seq(HistoryEntries) /\ Len(r) = KeepRecent /\
        \A i \in 1 .. KeepRecent : r[i] = log[Len(log) - KeepRecent + i]
  <2>1. /\ r \in Seq(HistoryEntries) /\ Len(r) = Len(log) - (Len(log) - KeepRecent)
        /\ \A i \in 1 .. Len(r) : r[i] = log[i + (Len(log) - KeepRecent)]
    BY <1>1, NewestAt
  <2>2. QED
    BY <1>1, <2>1
<1>3. /\ History!Leading(log) = IF h = 1 THEN <<log[1]>> ELSE <<>>
      /\ Len(History!Leading(log)) = h /\ h \in {0, 1}
  BY <1>1 DEF History!Leading, OpensWith
<1>4. History!Old(log) = SubSeq(log, h + 1, Len(log) - KeepRecent)
  BY <1>3 DEF History!Old
<1>5. h + 1 <= Len(log) - KeepRecent
  <2>1. SubSeq(log, h + 1, Len(log) - KeepRecent) # <<>>
    BY <1>4 DEF History!Compacts
  <2>2. QED
    BY <1>1, <1>3, <2>1
<1>6. u \in Seq(HistoryEntries) /\ Len(u) = h + 1 /\ u[h + 1] = sum /\ (h = 1 => u[1] = log[1])
  <2>1. CASE h = 1
    BY <1>1, <1>3, <2>1
  <2>2. CASE h = 0
    <3>1. u = <<sum>>
      BY <1>3, <2>2
    <3>2. <<sum>> \in Seq(HistoryEntries) /\ Len(<<sum>>) = 1 /\ <<sum>>[1] = sum
      OBVIOUS
    <3> HIDE DEF u, h
    <3>3. QED
      BY <2>2, <3>1, <3>2
  <2>3. QED
    BY <1>3, <2>1, <2>2
<1>7. CompactedAs(log, sum) = u \o r
  BY DEF CompactedAs
<1> HIDE DEF r, h, u
<1>8. /\ u \o r \in Seq(HistoryEntries) /\ Len(u \o r) = Len(u) + Len(r)
      /\ \A i \in 1 .. Len(u) : (u \o r)[i] = u[i]
      /\ \A i \in 1 .. Len(r) : (u \o r)[Len(u) + i] = r[i]
  <2>1. u \in Seq(HistoryEntries) /\ r \in Seq(HistoryEntries)
    BY <1>2, <1>6
  <2>2. QED
    BY <2>1, ConcatenationAt
<1>9. /\ Len(u \o r) = h + 1 + KeepRecent
      /\ h = 1 => (u \o r)[1] = log[1]
      /\ (u \o r)[h + 1] = sum
  <2>1. h + 1 \in 1 .. Len(u) /\ 1 \in 1 .. Len(u)
    BY <1>3, <1>6
  <2>2. QED
    BY <1>2, <1>6, <1>8, <2>1
<1>10. \A i \in 1 .. KeepRecent : (u \o r)[h + 1 + i] = log[Len(log) - KeepRecent + i]
  BY <1>2, <1>6, <1>8
<1>11. QED
  BY <1>1, <1>3, <1>4, <1>5, <1>7, <1>8, <1>9, <1>10 DEF h

\* A summary has no number.
LEMMA SummaryTyped ==
  ASSUME History!HistoryAssumption, NEW log \in Seq(HistoryEntries), History!Compacts(log)
  PROVE  /\ History!Summary(History!Old(log)) \in HistoryEntries
         /\ History!IsSummary(History!Summary(History!Old(log)))
         /\ History!Summary(History!Old(log)).id = 0
<1>1. MaxMessages \in Nat
  BY DEF History!HistoryAssumption
<1>2. History!Old(log) \in Seq(HistoryEntries)
  <2>1. History!Entry("system", 0, FALSE, {}) \in HistoryEntries
    BY <1>1 DEF History!Entry, HistoryEntries
  <2>2. /\ Len(log) \in Nat /\ KeepRecent \in Nat \ {0} /\ OpensWith(log) \in {0, 1}
        /\ History!Old(log) = SubSeq(log, OpensWith(log) + 1, Len(log) - KeepRecent)
    BY <2>1, CompactAt
  <2>3. QED
    BY <2>2
<1>3. History!Named(History!Old(log)) \subseteq HistoryEntries
  <2>1. \A k \in DOMAIN History!Old(log) : History!Old(log)[k] \in HistoryEntries
    BY <1>2
  <2>2. QED
    BY <2>1 DEF History!Named
<1>4. History!Quoted(History!Old(log)) \subseteq HistoryEntries
  <2>1. History!Newest(History!Old(log), Preview) \in Seq(HistoryEntries)
    BY <1>2, NewestAt DEF History!HistoryAssumption
  <2>2. QED
    BY <2>1 DEF History!Quoted, History!ToSet
<1>5. {e.id : e \in History!Named(History!Old(log)) \union History!Quoted(History!Old(log))} \ {0} \subseteq 1 .. MaxMessages
  <2>1. \A e \in HistoryEntries : e.id \in 0 .. MaxMessages
    BY DEF HistoryEntries
  <2>2. QED
    BY <1>1, <1>3, <1>4, <2>1
<1>6. QED
  BY <1>1, <1>5 DEF History!Summary, History!Entry, HistoryEntries, History!IsSummary

\* A compaction leaves a history neat.
LEMMA CompactNeat ==
  ASSUME History!HistoryAssumption, NEW log \in Seq(HistoryEntries), NEW n \in Nat, Neat(log, n),
    History!Compacts(log)
  PROVE  History!Compact(log) \in Seq(HistoryEntries) /\ Neat(History!Compact(log), n)
<1> DEFINE t == History!Compact(log)
           h == OpensWith(log)
           d == Len(log) - KeepRecent
           sum == History!Summary(History!Old(log))
<1>1. sum \in HistoryEntries /\ History!IsSummary(sum) /\ sum.id = 0
  BY SummaryTyped
<1>2. /\ Len(log) \in Nat /\ KeepRecent \in Nat \ {0} /\ d \in Nat /\ h + 1 <= d /\ h \in {0, 1}
      /\ h = 1 <=> History!IsSummary(log[1])
      /\ Len(log) = d + KeepRecent
      /\ t \in Seq(HistoryEntries) /\ Len(t) = h + 1 + KeepRecent
      /\ h = 1 => t[1] = log[1]
      /\ t[h + 1] = sum
      /\ \A i \in 1 .. KeepRecent : t[h + 1 + i] = log[d + i]
  <2>1. t = CompactedAs(log, sum)
    BY DEF History!Compact, CompactedAs
  <2>2. h = 1 <=> History!IsSummary(log[1])
    BY DEF OpensWith
  <2> HIDE DEF t, h, sum
  <2>3. /\ Len(log) \in Nat /\ KeepRecent \in Nat \ {0} /\ h \in {0, 1}
        /\ h + 1 <= Len(log) - KeepRecent
        /\ CompactedAs(log, sum) \in Seq(HistoryEntries)
        /\ Len(CompactedAs(log, sum)) = h + 1 + KeepRecent
        /\ h = 1 => CompactedAs(log, sum)[1] = log[1]
        /\ CompactedAs(log, sum)[h + 1] = sum
        /\ \A i \in 1 .. KeepRecent : CompactedAs(log, sum)[h + 1 + i] =
             log[Len(log) - KeepRecent + i]
    BY <1>1, CompactAt, Zenon DEF h
  <2>4. QED
    BY <2>1, <2>2, <2>3
<1> HIDE DEF t, h, d, sum
\* The newest are messages: a second summary would be among the old.
<1>3. ASSUME NEW i \in 1 .. KeepRecent PROVE d + i \in DOMAIN log /\ ~History!IsSummary(log[d + i])
  <2>1. d + i \in DOMAIN log /\ 1 \in DOMAIN log /\ 1 < d + i
    BY <1>2
  <2>2. History!IsSummary(log[d + i]) => History!IsSummary(log[1]) /\ d + i <= 2
    BY <2>1 DEF Neat
  <2>3. QED
    BY <1>2, <2>1, <2>2
<1>4. ASSUME NEW k \in DOMAIN t, k > h + 1
      PROVE  /\ k - (h + 1) \in 1 .. KeepRecent /\ t[k] = log[d + (k - (h + 1))]
             /\ ~History!IsSummary(t[k]) /\ t[k].id \in 1 .. n
  <2>1. k - (h + 1) \in 1 .. KeepRecent /\ h + 1 + (k - (h + 1)) = k
    BY <1>2, <1>4
  <2>2. t[h + 1 + (k - (h + 1))] = log[d + (k - (h + 1))]
    BY <1>2, <2>1
  <2>3. /\ d + (k - (h + 1)) \in DOMAIN log
        /\ ~History!IsSummary(log[d + (k - (h + 1))])
    BY <1>3, <2>1
  <2>4. log[d + (k - (h + 1))].id \in 1 .. n
    BY <2>3 DEF Neat
  <2>5. QED
    BY <2>1, <2>2, <2>3, <2>4
<1>5. ASSUME NEW k \in DOMAIN t, k <= h + 1 PROVE History!IsSummary(t[k]) /\ t[k].id = 0 /\ k <= 2
  <2>1. CASE k = h + 1
    BY <1>1, <1>2, <2>1
  <2>2. CASE k < h + 1
    <3>1. h = 1 /\ k = 1 /\ t[1] = log[1] /\ 1 \in DOMAIN log
      BY <1>2, <2>2
    <3>2. QED
      BY <1>2, <3>1 DEF Neat
  <2>3. QED
    BY <1>2, <1>5, <2>1, <2>2
<1>6. DOMAIN t \subseteq Int
  BY <1>2
<1>7. ASSUME NEW j \in DOMAIN t, NEW k \in DOMAIN t, j < k
      PROVE  /\ History!IsSummary(t[k]) => History!IsSummary(t[j])
             /\ History!IsSummary(t[j]) \/ t[j].id < t[k].id
  <2>1. CASE j <= h + 1
    BY <1>2, <1>4, <1>5, <1>6, <1>7, <2>1
  <2>2. CASE j > h + 1
    <3>1. k > h + 1
      BY <1>2, <1>6, <1>7, <2>2
    <3> DEFINE a == d + (j - (h + 1))
               b == d + (k - (h + 1))
    <3>2. t[j] = log[a] /\ t[k] = log[b] /\ ~History!IsSummary(t[j]) /\ ~History!IsSummary(t[k])
      BY <1>4, <2>2, <3>1
    <3>3. a \in DOMAIN log /\ b \in DOMAIN log
      BY <1>3, <1>4, <2>2, <3>1
    <3>4. a < b
      BY <1>2, <1>6, <1>7
    <3> HIDE DEF a, b
    <3>5. log[a].id < log[b].id
      BY <3>2, <3>3, <3>4 DEF Neat
    <3>6. QED
      BY <3>2, <3>5
  <2>3. QED
    BY <1>2, <1>6, <2>1, <2>2
<1>8. Neat(t, n)
  BY <1>2, <1>4, <1>5, <1>6, <1>7 DEF Neat
<1>9. QED
  BY <1>2, <1>8 DEF t

\* A history tells of messages that were said.
LEMMA IdsOfNeat ==
  ASSUME NEW log \in Seq(HistoryEntries), NEW n \in Nat, Neat(log, n)
  PROVE  History!Ids(log) \subseteq 1 .. n
BY DEF History!Ids, History!ToSet, Neat

\* A message said at the end loses none of the others.
LEMMA IdsAppended ==
  ASSUME History!HistoryAssumption, NEW log \in Seq(HistoryEntries), gSaid \in Nat,
    gSaid < MaxMessages, NEW role \in {"user", "assistant"}, NEW cut \in Cuts
  PROVE  History!Ids(log) \union {gSaid + 1} \subseteq History!Ids(Append(log,
    History!Said(role, cut)))
<1> DEFINE t == Append(log, History!Said(role, cut))
<1>1. History!Said(role, cut) \in HistoryEntries /\ History!Said(role, cut).id = gSaid + 1
  BY SaidIsEntry
<1>2. /\ t \in Seq(HistoryEntries) /\ DOMAIN t = 1 .. Len(log) + 1
      /\ t[Len(log) + 1] = History!Said(role, cut)
      /\ \A i \in DOMAIN log : i \in DOMAIN t /\ t[i] = log[i]
      /\ Len(log) + 1 \in DOMAIN t
  BY <1>1
<1> HIDE DEF t
<1>3. gSaid + 1 \in History!Ids(t)
  BY <1>1, <1>2 DEF History!Ids, History!ToSet
<1>4. History!Ids(log) \subseteq History!Ids(t)
  BY <1>2 DEF History!Ids, History!ToSet
<1>5. QED
  BY <1>3, <1>4 DEF t

\* No message leaves a history but those the hooks are shown.
LEMMA IdsCompacted ==
  ASSUME History!HistoryAssumption, NEW log \in Seq(HistoryEntries), History!Compacts(log)
  PROVE  /\ History!Ids(log) \subseteq History!Ids(History!Compact(log)) \union History!Ids(History!Old(log))
         /\ History!Ids(History!Old(log)) \subseteq History!Ids(log)
<1> DEFINE t == History!Compact(log)
           h == OpensWith(log)
           d == Len(log) - KeepRecent
           sum == History!Summary(History!Old(log))
<1>1. sum \in HistoryEntries
  BY SummaryTyped
<1>2. t = CompactedAs(log, sum)
  BY DEF History!Compact, CompactedAs
<1>3. /\ Len(log) \in Nat /\ KeepRecent \in Nat \ {0} /\ h \in {0, 1}
      /\ h + 1 <= Len(log) - KeepRecent
      /\ History!Old(log) = SubSeq(log, h + 1, Len(log) - KeepRecent)
      /\ CompactedAs(log, sum) \in Seq(HistoryEntries)
      /\ Len(CompactedAs(log, sum)) = h + 1 + KeepRecent
      /\ h = 1 => CompactedAs(log, sum)[1] = log[1]
      /\ \A i \in 1 .. KeepRecent : CompactedAs(log, sum)[h + 1 + i] =
           log[Len(log) - KeepRecent + i]
  <2> HIDE DEF t, sum
  <2>1. QED
    BY <1>1, CompactAt, Zenon DEF h
<1> HIDE DEF t, h, sum
<1>4. /\ DOMAIN History!Old(log) = 1 .. d - h
      /\ \A i \in 1 .. d - h : History!Old(log)[i] = log[h + i] /\ h + i \in DOMAIN log
  BY <1>3
<1>5. History!Ids(History!Old(log)) \subseteq History!Ids(log)
  BY <1>4 DEF History!Ids, History!ToSet
<1>6. ASSUME NEW k \in DOMAIN log, log[k].id # 0
      PROVE  log[k].id \in History!Ids(t) \union History!Ids(History!Old(log))
  <2>0. k \in Int /\ 1 <= k /\ k <= Len(log) /\ DOMAIN t = 1 .. h + 1 + KeepRecent
    BY <1>2, <1>3
  <2>1. CASE k <= h
    <3>1. k = 1 /\ t[1] = log[1] /\ 1 \in DOMAIN t
      BY <1>2, <1>3, <2>0, <2>1
    <3>2. QED
      BY <1>6, <3>1 DEF History!Ids, History!ToSet
  <2>2. CASE h < k /\ k <= d
    <3>1. k - h \in DOMAIN History!Old(log) /\ History!Old(log)[k - h] = log[k]
      BY <1>3, <1>4, <2>0, <2>2
    <3>2. QED
      BY <1>6, <3>1 DEF History!Ids, History!ToSet
  <2>3. CASE k > d
    <3>1. k - d \in 1 .. KeepRecent /\ d + (k - d) = k /\ h + 1 + (k - d) \in DOMAIN t
      BY <1>3, <2>0, <2>3
    <3>2. t[h + 1 + (k - d)] = log[k]
      BY <1>2, <1>3, <3>1
    <3>3. QED
      BY <1>6, <3>1, <3>2 DEF History!Ids, History!ToSet
  <2>4. QED
    BY <1>3, <2>0, <2>1, <2>2, <2>3
<1>7. History!Ids(log) \subseteq History!Ids(t) \union History!Ids(History!Old(log))
  BY <1>6 DEF History!Ids, History!ToSet
<1>8. QED
  BY <1>5, <1>7 DEF t

\* At first nothing is said.
LEMMA HistoryInvInit == ASSUME History!HistoryAssumption, History!Init PROVE HistoryInv
<1>1. <<>> \in Seq(HistoryEntries) /\ Len(<<>>) = 0 /\ DOMAIN <<>> = {}
  OBVIOUS
<1>2. Neat(<<>>, 0) /\ History!Ids(<<>>) = {}
  BY <1>1 DEF Neat, History!Ids, History!ToSet
<1>3. HistoryTyped
  BY <1>1 DEF History!HistoryAssumption, History!Init, HistoryTyped, History!NoTurn, History!NoWork
<1>4. HistoryNeat /\ SaidIsTold
  BY <1>1, <1>2 DEF History!HistoryAssumption, History!Init, HistoryNeat, SaidIsTold,
    History!NoTurn, History!NoWork
<1>5. QED
  BY <1>3, <1>4 DEF HistoryInv

\* A history that is saved fits its limit, and what it lost is noted.
LEMMA Saves ==
  ASSUME History!HistoryAssumption, NEW log \in Seq(HistoryEntries), NEW n \in Nat, Neat(log, n)
  PROVE  /\ History!Truncate(log) \in Seq(HistoryEntries) /\ Neat(History!Truncate(log), n)
         /\ Len(History!Truncate(log)) <= MaxHistory + 1
         /\ History!Dropped(log) \subseteq 1 .. n
         /\ History!Ids(log) \subseteq History!Ids(History!Truncate(log)) \union History!Dropped(log)
<1>1. QED
  BY TruncateNeat, IdsOfNeat DEF History!Dropped

\* A turn begins: the message, the compaction and the hooks before it.
LEMMA HistoryBegin ==
  ASSUME History!HistoryAssumption, HistoryInv, NEW cut \in Cuts, History!Begin(cut)
  PROVE  HistoryInv'
<1> DEFINE log == Append(gCache, History!Said("user", cut))
<1>0. /\ gSaid \in Nat /\ gSaid + 1 < MaxMessages /\ gSaid' = gSaid + 1 /\ gTurn.pc = "idle"
      /\ MaxMessages \in Nat /\ QueueCap \in Nat /\ gSaid + 1 \in Nat
  <2>1. gSaid + 1 < MaxMessages /\ gSaid' = gSaid + 1 /\ gTurn.pc = "idle"
    BY Zenon DEF History!Begin
  <2>2. gSaid \in Nat /\ MaxMessages \in Nat /\ QueueCap \in Nat
    BY DEF HistoryInv, HistoryTyped, History!HistoryAssumption
  <2>3. QED
    BY <2>1, <2>2
<1> USE DEF HistoryInv, HistoryTyped, HistoryNeat, SaidIsTold
<1>1. /\ log \in Seq(HistoryEntries) /\ Neat(log, gSaid + 1)
      /\ History!Ids(gCache) \union {gSaid + 1} \subseteq History!Ids(log)
  BY <1>0, AppendNeat, IdsAppended
<1>2. 1 .. gSaid' \subseteq History!Ids(log) \union gOffered \union gGone
  BY <1>0, <1>1
<1>3. /\ Neat(gCache, gSaid') /\ Neat(gFile, gSaid') /\ Neat(gIndex, gSaid')
      /\ Neat(gWorker.snap, gSaid') /\ Neat(log, gSaid')
  BY <1>0, <1>1, NeatLater
<1>4. UNCHANGED <<gFile, gWorker, gCrashes>>
  BY DEF History!Begin
<1> HIDE DEF log
<1>5. CASE ~History!Compacts(log)
  <2>1. /\ gTurn' = [pc |-> "running", log |-> log] /\ gCache' = History!Truncate(log)
        /\ gGone' = gGone \union History!Dropped(log) /\ UNCHANGED <<gIndex, gOffered>>
        /\ gQueue' = IF gQueue < QueueCap THEN gQueue + 1 ELSE gQueue
    BY <1>5 DEF History!Begin, History!SaveAsync, log
  <2>2. /\ gCache' \in Seq(HistoryEntries) /\ Neat(gCache', gSaid + 1)
        /\ Len(gCache') <= MaxHistory + 1
        /\ History!Dropped(log) \subseteq 1 .. gSaid + 1
        /\ History!Ids(log) \subseteq History!Ids(gCache') \union History!Dropped(log)
    <3>1. /\ History!Truncate(log) \in Seq(HistoryEntries) /\ Neat(History!Truncate(log), gSaid + 1)
          /\ Len(History!Truncate(log)) <= MaxHistory + 1
          /\ History!Dropped(log) \subseteq 1 .. gSaid + 1
          /\ History!Ids(log) \subseteq History!Ids(History!Truncate(log)) \union History!Dropped(log)
      BY <1>0, <1>1, Saves, Zenon
    <3>2. QED
      BY <2>1, <3>1, Zenon
  <2>3. HistoryTyped'
    <3>1. /\ gTurn' \in [pc : {"idle", "running", "dead"}, log : Seq(HistoryEntries)]
          /\ gSaid' < MaxMessages /\ gSaid' \in 0 .. MaxMessages
      <4>1. gTurn' \in [pc : {"idle", "running", "dead"}, log : Seq(HistoryEntries)]
        BY <2>1, <1>1
      <4>2. gSaid' < MaxMessages /\ gSaid' \in 0 .. MaxMessages
        BY <1>0
      <4>3. QED
        BY <4>1, <4>2
    <3>2. gOffered' \subseteq 1 .. gSaid' /\ gGone' \subseteq 1 .. gSaid'
      <4>1. gOffered \subseteq 1 .. gSaid + 1 /\ gGone \subseteq 1 .. gSaid + 1
        BY <1>0
      <4>2. QED
        BY <1>0, <2>1, <2>2, <4>1
    <3>3. gQueue' \in 0 .. QueueCap
      BY <1>0, <2>1
    <3>4. gIndex' \in Seq(HistoryEntries)
      BY <1>1, <2>1
    <3>5. QED
      BY <1>4, <2>2, <3>1, <3>2, <3>3, <3>4
  <2>4. HistoryNeat'
    BY <1>0, <1>3, <1>4, <2>1, <2>2
  <2>5. SaidIsTold'
    BY <1>2, <2>1, <2>2
  <2>6. QED
    BY <2>3, <2>4, <2>5
<1>6. CASE History!Compacts(log) /\ History!Panics(History!Old(log))
  <2>1. /\ gTurn' = [pc |-> "dead", log |-> log] /\ gGone' = gGone \union {gSaid'}
        /\ UNCHANGED <<gCache, gIndex, gQueue, gOffered>>
    BY <1>6 DEF History!Begin, log
  <2>2. HistoryTyped'
    BY <1>0, <1>1, <1>4, <2>1
  <2>3. HistoryNeat'
    BY <1>3, <1>4, <2>1
  <2>4. SaidIsTold'
    BY <1>0, <2>1
  <2>5. QED
    BY <2>2, <2>3, <2>4
<1>7. CASE History!Compacts(log) /\ ~History!Panics(History!Old(log))
  <2> DEFINE c == History!Compact(log)
  <2>1. /\ gTurn' = [pc |-> "running", log |-> c] /\ gCache' = History!Truncate(c)
        /\ gGone' = gGone \union History!Dropped(c) /\ gIndex' = log
        /\ gOffered' = gOffered \union History!Ids(History!Old(log))
        /\ gQueue' = IF gQueue < QueueCap THEN gQueue + 1 ELSE gQueue
    BY <1>7 DEF History!Begin, History!SaveAsync, log
  <2>2. c \in Seq(HistoryEntries) /\ Neat(c, gSaid + 1)
    BY <1>0, <1>1, <1>7, CompactNeat
  <2>3. /\ History!Ids(log) \subseteq History!Ids(c) \union History!Ids(History!Old(log))
        /\ History!Ids(History!Old(log)) \subseteq 1 .. gSaid'
    BY <1>0, <1>1, <1>7, IdsCompacted, IdsOfNeat
  <2> HIDE DEF c
  <2>4. /\ gCache' \in Seq(HistoryEntries) /\ Neat(gCache', gSaid + 1)
        /\ Len(gCache') <= MaxHistory + 1
        /\ History!Dropped(c) \subseteq 1 .. gSaid + 1
        /\ History!Ids(c) \subseteq History!Ids(gCache') \union History!Dropped(c)
    <3>1. /\ History!Truncate(c) \in Seq(HistoryEntries) /\ Neat(History!Truncate(c), gSaid + 1)
          /\ Len(History!Truncate(c)) <= MaxHistory + 1
          /\ History!Dropped(c) \subseteq 1 .. gSaid + 1
          /\ History!Ids(c) \subseteq History!Ids(History!Truncate(c)) \union History!Dropped(c)
      BY <1>0, <2>2, Saves, Zenon
    <3>2. QED
      BY <2>1, <3>1, Zenon
  <2>5. HistoryTyped'
    <3>1. /\ gTurn' \in [pc : {"idle", "running", "dead"}, log : Seq(HistoryEntries)]
          /\ gSaid' < MaxMessages /\ gSaid' \in 0 .. MaxMessages
      <4>1. gTurn' \in [pc : {"idle", "running", "dead"}, log : Seq(HistoryEntries)]
        BY <2>1, <2>2
      <4>2. gSaid' < MaxMessages /\ gSaid' \in 0 .. MaxMessages
        BY <1>0
      <4>3. QED
        BY <4>1, <4>2
    <3>2. gOffered' \subseteq 1 .. gSaid' /\ gGone' \subseteq 1 .. gSaid'
      <4>1. gOffered \subseteq 1 .. gSaid + 1 /\ gGone \subseteq 1 .. gSaid + 1
        BY <1>0
      <4>2. QED
        BY <1>0, <2>1, <2>3, <2>4, <4>1
    <3>3. gQueue' \in 0 .. QueueCap
      BY <1>0, <2>1
    <3>4. gIndex' \in Seq(HistoryEntries)
      BY <1>1, <2>1
    <3>5. QED
      BY <1>4, <2>4, <3>1, <3>2, <3>3, <3>4
  <2>6. HistoryNeat'
    BY <1>0, <1>3, <1>4, <2>1, <2>2, <2>4
  <2>7. SaidIsTold'
    BY <1>2, <2>1, <2>3, <2>4
  <2>8. QED
    BY <2>5, <2>6, <2>7
<1>8. QED
  BY <1>5, <1>6, <1>7

\* A turn ends with an answer, and is saved.
LEMMA HistoryAnswer ==
  ASSUME History!HistoryAssumption, HistoryInv, NEW cut \in Cuts, History!Answer(cut)
  PROVE  HistoryInv'
<1> DEFINE log == Append(gTurn.log, History!Said("assistant", cut))
<1>0. /\ gSaid \in Nat /\ gSaid < MaxMessages /\ gTurn.pc = "running"
      /\ gTurn.log \in Seq(HistoryEntries)
      /\ MaxMessages \in Nat
  BY DEF History!Answer, HistoryInv, HistoryTyped, History!HistoryAssumption
<1>1. /\ gSaid' = gSaid + 1 /\ gCache' = History!Truncate(log) /\ gFile' = History!Truncate(log)
      /\ gIndex' = log
      /\ gGone' = gGone \union History!Dropped(log) /\ gTurn' = History!NoTurn
      /\ UNCHANGED <<gQueue, gWorker, gOffered, gCrashes>>
  BY Zenon DEF History!Answer, History!Save
<1>2. /\ log \in Seq(HistoryEntries) /\ Neat(log, gSaid + 1)
      /\ History!Ids(gTurn.log) \union {gSaid + 1} \subseteq History!Ids(log)
  BY <1>0, AppendNeat, IdsAppended DEF HistoryInv, HistoryNeat
<1> HIDE DEF log
<1>3. /\ History!Truncate(log) \in Seq(HistoryEntries) /\ Neat(History!Truncate(log), gSaid + 1)
      /\ Len(History!Truncate(log)) <= MaxHistory + 1
      /\ History!Dropped(log) \subseteq 1 .. gSaid + 1
      /\ History!Ids(log) \subseteq History!Ids(History!Truncate(log)) \union History!Dropped(log)
  BY <1>0, <1>2, Saves
<1>4. 1 .. gSaid + 1 \subseteq History!Ids(log) \union gOffered \union gGone
  BY <1>0, <1>2 DEF HistoryInv, SaidIsTold
<1>5. /\ gOffered \subseteq 1 .. gSaid + 1 /\ gGone \subseteq 1 .. gSaid + 1
      /\ Neat(gWorker.snap, gSaid + 1) /\ Len(gWorker.snap) <= MaxHistory + 1
      /\ gWorker \in [busy : BOOLEAN, snap : Seq(HistoryEntries)]
  BY <1>0, NeatLater DEF HistoryInv, HistoryTyped, HistoryNeat
<1>6. <<>> \in Seq(HistoryEntries) /\ Neat(<<>>, gSaid + 1)
  BY DEF Neat
<1>7. HistoryTyped'
  <2>1. gOffered' \subseteq 1 .. gSaid' /\ gGone' \subseteq 1 .. gSaid'
    BY <1>1, <1>3, <1>5
  <2>2. gSaid' \in 0 .. MaxMessages
    BY <1>0, <1>1
  <2>3. /\ gCache' \in Seq(HistoryEntries) /\ gFile' \in Seq(HistoryEntries)
        /\ gIndex' \in Seq(HistoryEntries)
    BY <1>1, <1>2, <1>3
  <2>4. /\ gTurn' \in [pc : {"idle", "running", "dead"}, log : Seq(HistoryEntries)]
        /\ gTurn'.pc # "running"
    BY <1>1, <1>6 DEF History!NoTurn
  <2>5. gQueue' \in 0 .. QueueCap /\ gCrashes' \in 0 .. MaxCrashes
        /\ gWorker' \in [busy : BOOLEAN, snap : Seq(HistoryEntries)]
    BY <1>1 DEF HistoryInv, HistoryTyped
  <2>6. QED
    BY <2>1, <2>2, <2>3, <2>4, <2>5 DEF HistoryTyped
<1>8. HistoryNeat'
  BY <1>1, <1>2, <1>3, <1>5, <1>6 DEF HistoryNeat, History!NoTurn
<1>9. SaidIsTold'
  BY <1>1, <1>3, <1>4 DEF SaidIsTold, History!NoTurn
<1>10. QED
  BY <1>7, <1>8, <1>9 DEF HistoryInv

\* A turn is interrupted, and what was said is kept.
LEMMA HistoryInterrupted ==
  ASSUME History!HistoryAssumption, HistoryInv, History!Interrupted PROVE HistoryInv'
<1> DEFINE log == gTurn.log
<1>0. gSaid \in Nat /\ gTurn.pc = "running" /\ log \in Seq(HistoryEntries) /\ Neat(log, gSaid)
  BY DEF History!Interrupted, HistoryInv, HistoryTyped, HistoryNeat, History!HistoryAssumption
<1>1. /\ gCache' = History!Truncate(log) /\ gFile' = History!Truncate(log)
      /\ gIndex' = History!Truncate(log)
      /\ gGone' = gGone \union History!Dropped(log) /\ gTurn' = History!NoTurn
      /\ UNCHANGED <<gQueue, gWorker, gSaid, gOffered, gCrashes>>
  BY Zenon DEF History!Interrupted, History!Save
<1>2. 1 .. gSaid \subseteq History!Ids(log) \union gOffered \union gGone
  BY <1>0 DEF HistoryInv, SaidIsTold
<1> HIDE DEF log
<1>3. /\ History!Truncate(log) \in Seq(HistoryEntries) /\ Neat(History!Truncate(log), gSaid)
      /\ Len(History!Truncate(log)) <= MaxHistory + 1
      /\ History!Dropped(log) \subseteq 1 .. gSaid
      /\ History!Ids(log) \subseteq History!Ids(History!Truncate(log)) \union History!Dropped(log)
  BY <1>0, Saves
<1>4. <<>> \in Seq(HistoryEntries) /\ Neat(<<>>, gSaid)
  BY DEF Neat
<1>5. HistoryTyped'
  BY <1>0, <1>1, <1>3, <1>4 DEF HistoryInv, HistoryTyped, History!NoTurn
<1>6. HistoryNeat'
  BY <1>1, <1>3, <1>4 DEF HistoryInv, HistoryNeat, History!NoTurn
<1>7. SaidIsTold'
  BY <1>1, <1>2, <1>3 DEF SaidIsTold, History!NoTurn
<1>8. QED
  BY <1>5, <1>6, <1>7 DEF HistoryInv

\* A turn fails before it says anything more.
LEMMA HistoryFails == ASSUME HistoryInv, History!Fails PROVE HistoryInv'
<1>1. <<>> \in Seq(HistoryEntries) /\ Neat(<<>>, gSaid)
  BY DEF Neat
<1>2. HistoryTyped'
  BY <1>1 DEF HistoryInv, HistoryTyped, History!Fails, History!NoTurn
<1>3. HistoryNeat' /\ SaidIsTold'
  BY <1>1 DEF HistoryInv, HistoryNeat, SaidIsTold, History!Fails, History!NoTurn
<1>4. QED
  BY <1>2, <1>3 DEF HistoryInv

\* The writer takes what waits for it, and writes it.
LEMMA HistoryWorker ==
  ASSUME History!HistoryAssumption, HistoryInv, History!WorkerReads \/ History!WorkerWrites
  PROVE  HistoryInv'
<1>0. <<>> \in Seq(HistoryEntries) /\ Neat(<<>>, gSaid) /\ Len(<<>>) = 0 /\ MaxHistory \in Nat
      /\ QueueCap \in Nat
  BY DEF Neat, History!HistoryAssumption
<1>1. CASE History!WorkerReads
  <2>1. HistoryTyped'
    BY <1>0, <1>1 DEF HistoryInv, HistoryTyped, History!WorkerReads
  <2>2. HistoryNeat' /\ SaidIsTold'
    BY <1>1 DEF HistoryInv, HistoryNeat, SaidIsTold, History!WorkerReads
  <2>3. QED
    BY <2>1, <2>2 DEF HistoryInv
<1>2. CASE History!WorkerWrites
  <2>1. HistoryTyped'
    BY <1>0, <1>2 DEF HistoryInv, HistoryTyped, History!WorkerWrites, History!NoWork
  <2>2. HistoryNeat' /\ SaidIsTold'
    BY <1>0, <1>2 DEF HistoryInv, HistoryNeat, SaidIsTold, History!WorkerWrites, History!NoWork
  <2>3. QED
    BY <2>1, <2>2 DEF HistoryInv
<1>3. QED
  BY <1>1, <1>2

\* A restart reads what was saved.
LEMMA HistoryRestart ==
  ASSUME History!HistoryAssumption, HistoryInv, History!Restart PROVE HistoryInv'
<1>0. <<>> \in Seq(HistoryEntries) /\ Neat(<<>>, gSaid) /\ Len(<<>>) = 0 /\ MaxHistory \in Nat
      /\ QueueCap \in Nat /\ MaxCrashes \in Nat
  BY DEF Neat, History!HistoryAssumption
<1>1. History!Ids(gCache) \subseteq 1 .. gSaid /\ History!Ids(gTurn.log) \subseteq 1 .. gSaid
  <2>1. gTurn.log \in Seq(HistoryEntries) /\ gCache \in Seq(HistoryEntries) /\ gSaid \in Nat
        /\ Neat(gTurn.log, gSaid) /\ Neat(gCache, gSaid)
    BY DEF HistoryInv, HistoryTyped, HistoryNeat, History!HistoryAssumption
  <2>2. QED
    BY <2>1, IdsOfNeat
<1>2. HistoryTyped'
  <2>1. gOffered' \subseteq 1 .. gSaid' /\ gGone' \subseteq 1 .. gSaid'
    BY <1>1 DEF HistoryInv, HistoryTyped, History!Restart
  <2>2. gSaid' \in 0 .. MaxMessages /\ gCrashes' \in 0 .. MaxCrashes /\ gQueue' \in 0 .. QueueCap
    BY <1>0 DEF HistoryInv, HistoryTyped, History!Restart
  <2>3. /\ gCache' \in Seq(HistoryEntries) /\ gFile' \in Seq(HistoryEntries)
        /\ gIndex' \in Seq(HistoryEntries)
    BY DEF HistoryInv, HistoryTyped, History!Restart
  <2>4. /\ gTurn' \in [pc : {"idle", "running", "dead"}, log : Seq(HistoryEntries)]
        /\ gTurn'.pc # "running"
        /\ gWorker' \in [busy : BOOLEAN, snap : Seq(HistoryEntries)]
    BY <1>0 DEF History!Restart, History!NoTurn, History!NoWork
  <2>5. QED
    BY <2>1, <2>2, <2>3, <2>4 DEF HistoryTyped
<1>3. HistoryNeat' /\ SaidIsTold'
  BY <1>0 DEF HistoryInv, HistoryNeat, SaidIsTold, History!Restart, History!NoTurn, History!NoWork
<1>4. QED
  BY <1>2, <1>3 DEF HistoryInv

\* No step of the history changes nothing of it.
LEMMA HistoryStands == ASSUME HistoryInv, UNCHANGED History!vars PROVE HistoryInv'
BY DEF HistoryInv, HistoryTyped, HistoryNeat, SaidIsTold, History!vars

\* Histories are neat, and every message said is in them, was offered or is gone.
LEMMA HistoryInvariant == ASSUME History!HistoryAssumption PROVE History!Spec => []HistoryInv
<1>1. History!Init => HistoryInv
  BY HistoryInvInit
<1>2. HistoryInv /\ [History!Next]_(History!vars) => HistoryInv'
  BY HistoryBegin, HistoryAnswer, HistoryInterrupted, HistoryFails, HistoryWorker, HistoryRestart,
     HistoryStands DEF History!Next
<1>3. QED
  BY <1>1, <1>2, PTL DEF History!Spec

\* The types of ConversationHistory.
THEOREM HistoryStates ==
  ASSUME History!HistoryAssumption PROVE History!Spec => []History!TypeOK
<1>1. ASSUME NEW log \in Seq(HistoryEntries) PROVE History!HistoryOK(log)
  <2>1. \A e \in History!ToSet(log) : e \in HistoryEntries
    BY DEF History!ToSet
  <2>2. QED
    BY <2>1 DEF History!HistoryOK, HistoryEntries
<1>2. HistoryInv => History!TypeOK
  <2> SUFFICES ASSUME HistoryInv PROVE History!TypeOK
    OBVIOUS
  <2>1. /\ gTurn.pc \in {"idle", "running", "dead"} /\ gWorker.busy \in BOOLEAN
        /\ \A log \in {gTurn.log, gCache, gFile, gIndex, gWorker.snap} : log \in Seq(HistoryEntries)
        /\ gQueue \in 0 .. QueueCap /\ gSaid \in 0 .. MaxMessages /\ gCrashes \in 0 .. MaxCrashes
    BY DEF HistoryInv, HistoryTyped
  <2>2. gOffered \union gGone \subseteq 1 .. MaxMessages
    BY DEF HistoryInv, HistoryTyped, History!HistoryAssumption
  <2>3. QED
    BY <1>1, <2>1, <2>2 DEF History!TypeOK
<1>3. QED
  BY <1>2, HistoryInvariant, PTL

\* A conversation is told in the order it took, nothing twice, and the
\* summaries before it.
THEOREM HistoryToldInOrder ==
  ASSUME History!HistoryAssumption PROVE History!Spec => []History!InOrder
<1>1. HistoryInv => History!InOrder
  BY DEF HistoryInv, HistoryNeat, Neat, History!InOrder
<1>2. QED
  BY <1>1, HistoryInvariant, PTL

\* There are no more than two summaries, and no more messages than may be.
THEOREM HistoryStaysBounded ==
  ASSUME History!HistoryAssumption PROVE History!Spec => []History!Bounded
<1>1. HistoryInv => History!Bounded
  BY DEF HistoryInv, HistoryNeat, Neat, History!Bounded
<1>2. QED
  BY <1>1, HistoryInvariant, PTL

\* What left the history was shown to the hooks, cut off or lost in a crash.
THEOREM HistoryOffered ==
  ASSUME History!HistoryAssumption PROVE History!Spec => []History!OfferedFirst
<1>1. HistoryInv => History!OfferedFirst
  <2> SUFFICES ASSUME HistoryInv PROVE History!OfferedFirst
    OBVIOUS
  <2>1. History!Ids(gCache) \subseteq 1 .. gSaid
    BY IdsOfNeat DEF HistoryInv, HistoryTyped, HistoryNeat, History!HistoryAssumption
  <2>2. QED
    BY <2>1 DEF HistoryInv, HistoryTyped, SaidIsTold, History!OfferedFirst
<1>2. QED
  BY <1>1, HistoryInvariant, PTL

\* The last of a history is what Newest gives.
LEMMA LastIsNewest ==
  ASSUME NEW t \in Seq(HistoryEntries), Len(t) > 0
  PROVE  History!Newest(t, 1)[1] = t[Len(t)]
<1>1. Len(t) = 1 \/ Len(t) > 1
  <2>1. \A n \in Nat : n > 0 => n = 1 \/ n > 1
    OBVIOUS
  <2>2. Len(t) \in Nat
    OBVIOUS
  <2>3. QED
    BY <2>1, <2>2
<1>2. CASE Len(t) = 1
  BY <1>2 DEF History!Newest
<1>3. CASE Len(t) > 1
  BY <1>3 DEF History!Newest
<1>4. QED
  BY <1>1, <1>2, <1>3

\* The newest are kept, the last of them the one to answer.
THEOREM HistoryKeepsRecent ==
  ASSUME History!HistoryAssumption PROVE History!Spec => History!RecentIsKept
<1> DEFINE A == gTurn'.pc = "running" /\ gTurn.pc = "idle" =>
                  /\ History!Newest(gTurn'.log, 1)[1].id = gSaid'
                  /\ \A e \in History!ToSet(History!Newest(gCache, KeepRecent - 1)) :
                       e \in History!ToSet(gTurn'.log)
<1>1. HistoryInv /\ [History!Next]_(History!vars) => [A]_(History!vars)
  <2> SUFFICES ASSUME HistoryInv, History!Next, gTurn'.pc = "running", gTurn.pc = "idle" PROVE A
    OBVIOUS
  <2>1. PICK cut \in Cuts : History!Begin(cut)
    <3>1. CASE \E cut \in Cuts : History!Begin(cut)
      BY <3>1
    <3>2. CASE \E cut \in Cuts : History!Answer(cut)
      BY <3>2 DEF History!Answer
    <3>3. CASE History!Interrupted \/ History!Fails \/ History!WorkerReads \/
                 History!WorkerWrites \/ History!Restart
      BY <3>3 DEF History!Interrupted, History!Fails, History!WorkerReads, History!WorkerWrites,
        History!Restart, History!NoTurn
    <3>4. QED
      BY <3>1, <3>2, <3>3 DEF History!Next
  <2> DEFINE log == Append(gCache, History!Said("user", cut))
             e == History!Said("user", cut)
  <2>2. /\ gSaid \in Nat /\ gSaid < MaxMessages /\ gSaid' = gSaid + 1
        /\ gCache \in Seq(HistoryEntries)
        /\ KeepRecent \in Nat \ {0}
    <3>1. gSaid + 1 < MaxMessages /\ gSaid' = gSaid + 1
      BY <2>1, Zenon DEF History!Begin
    <3>2. QED
      BY <3>1 DEF HistoryInv, HistoryTyped, History!HistoryAssumption
  <2>3. e \in HistoryEntries /\ e.id = gSaid'
    BY <2>2, SaidIsEntry
  <2>4. /\ log \in Seq(HistoryEntries) /\ Len(log) = Len(gCache) + 1 /\ log[Len(log)] = e
        /\ \A i \in 1 .. Len(gCache) : log[i] = gCache[i]
    BY <2>2, <2>3
  <2> HIDE DEF log, e
  <2>5. ASSUME NEW t \in Seq(HistoryEntries), Len(t) > 0, t[Len(t)] = e
        PROVE  History!Newest(t, 1)[1].id = gSaid'
    BY <2>3, <2>5, LastIsNewest
  \* An element of the cache's newest has its place in the cache.
  <2>6. ASSUME NEW m \in History!ToSet(History!Newest(gCache, KeepRecent - 1))
        PROVE  \E k \in 1 .. Len(gCache) : m = gCache[k] /\ k > Len(gCache) - (KeepRecent - 1)
    <3> DEFINE r == History!Newest(gCache, KeepRecent - 1)
               d == IF KeepRecent - 1 >= Len(gCache) THEN 0 ELSE Len(gCache) - (KeepRecent - 1)
    <3>0. KeepRecent - 1 \in Nat
      BY <2>2
    <3>1. /\ r \in Seq(HistoryEntries) /\ d \in Nat /\ Len(r) = Len(gCache) - d
          /\ \A i \in 1 .. Len(r) : i + d \in 1 .. Len(gCache) /\ r[i] = gCache[i + d]
      BY <2>2, <3>0, NewestAt, Zenon
    <3>2. PICK i \in 1 .. Len(r) : m = r[i]
      BY <2>6, <3>1 DEF History!ToSet
    <3>3. i + d \in 1 .. Len(gCache) /\ m = gCache[i + d]
      BY <3>1, <3>2
    <3>4. i + d > Len(gCache) - (KeepRecent - 1)
      BY <2>2, <3>1, <3>2
    <3>5. QED
      BY <3>3, <3>4
  <2>7. CASE ~History!Compacts(log)
    <3>1. gTurn'.log = log
      BY <2>1, <2>7 DEF History!Begin, log
    <3>2. ASSUME NEW m \in History!ToSet(History!Newest(gCache, KeepRecent - 1))
          PROVE  m \in History!ToSet(log)
      <4>1. PICK k \in 1 .. Len(gCache) : m = gCache[k]
        BY <2>6
      <4>2. k \in DOMAIN log /\ log[k] = m
        BY <2>2, <2>4, <4>1
      <4>3. QED
        BY <4>2 DEF History!ToSet
    <3>3. QED
      BY <2>4, <2>5, <3>1, <3>2
  <2>8. CASE History!Compacts(log)
    <3> DEFINE t == CompactedAs(log, History!Summary(History!Old(log)))
               h == OpensWith(log)
    <3>1. gTurn'.log = t
      <4>1. \/ gTurn' = [pc |-> "running", log |-> History!Compact(log)]
            \/ gTurn' = [pc |-> "dead", log |-> log]
        BY <2>1, <2>8, Zenon DEF History!Begin, log
      <4>2. gTurn'.log = History!Compact(log)
        BY <4>1
      <4>3. QED
        BY <4>2 DEF History!Compact, CompactedAs
    <3>2. History!Summary(History!Old(log)) \in HistoryEntries
      BY <2>4, <2>8, SummaryTyped
    <3>3. /\ t \in Seq(HistoryEntries) /\ Len(t) = h + 1 + KeepRecent /\ h \in {0, 1}
          /\ Len(log) \in Nat
          /\ \A i \in 1 .. KeepRecent : t[h + 1 + i] = log[Len(log) - KeepRecent + i]
      BY <2>4, <2>8, <3>2, CompactAt, Zenon
    <3> HIDE DEF t, h
    <3>4. Len(t) > 0 /\ t[Len(t)] = e
      <4>1. KeepRecent \in 1 .. KeepRecent /\ Len(log) - KeepRecent + KeepRecent = Len(log)
        BY <2>2, <3>3
      <4>2. t[h + 1 + KeepRecent] = log[Len(log) - KeepRecent + KeepRecent]
        BY <3>3, <4>1
      <4>3. QED
        BY <2>2, <2>4, <3>3, <4>1, <4>2
    <3>5. ASSUME NEW m \in History!ToSet(History!Newest(gCache, KeepRecent - 1))
          PROVE  m \in History!ToSet(t)
      <4>1. PICK k \in 1 .. Len(gCache) : m = gCache[k] /\ k > Len(gCache) - (KeepRecent - 1)
        BY <2>6
      <4> DEFINE i == k - (Len(log) - KeepRecent)
      <4>2. i \in 1 .. KeepRecent /\ Len(log) - KeepRecent + i = k
        BY <2>2, <2>4, <4>1
      <4>3. t[h + 1 + i] = m /\ h + 1 + i \in DOMAIN t
        <5>1. t[h + 1 + i] = log[Len(log) - KeepRecent + i]
          BY <3>3, <4>2
        <5>2. log[k] = m
          BY <2>4, <4>1
        <5>3. h + 1 + i \in DOMAIN t
          BY <2>2, <3>3, <4>2
        <5>4. QED
          BY <4>2, <5>1, <5>2, <5>3
      <4>4. QED
        BY <4>3 DEF History!ToSet
    <3>6. QED
      BY <2>5, <3>1, <3>3, <3>4, <3>5
  <2>9. QED
    BY <2>7, <2>8
<1>2. QED
  BY <1>1, HistoryInvariant, PTL DEF History!Spec, History!RecentIsKept

=============================================================================
