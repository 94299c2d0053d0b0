----------------------------- MODULE TokenBucket -----------------------------
(***************************************************************************)
(* The token bucket that throttles the calls of a provider: lock-free, so  *)
(* callers race on the time of the last refill and on the tokens.  The     *)
(* retried compare_exchange on the tokens is one step; the one on the time *)
(* is tried once, and its loser adds its tokens all the same.              *)
(*                                                                         *)
(* Time passes in units of refill_interval.                                *)
(***************************************************************************)
EXTENDS Integers, FiniteSets

CONSTANTS
  Callers,
  Capacity, RefillAmount,
  Word,      \* one more than the largest u64
  MaxTime, MaxCalls

BucketAssumption ==
  /\ {Capacity, RefillAmount, Word} \subseteq Nat \ {0} /\ Capacity < Word
  /\ {MaxTime, MaxCalls} \subseteq Nat
  /\ IsFiniteSet(Callers)

VARIABLES
  now, last, tokens,  \* the clock, and the two atomics
  pc,                 \* where each caller is
  seen, add,          \* last_refill_ms as it loaded it, and the periods it will add
  granted,            \* history: tokens consumed
  doubled,            \* history: periods that were added by a loser of the exchange
  calls

vars == <<now, last, tokens, pc, seen, add, granted, doubled, calls>>

TypeOK ==
  /\ now \in 0 .. MaxTime /\ last \in 0 .. now /\ tokens \in 0 .. Capacity
  /\ pc \in [Callers -> {"idle", "refill", "exchange", "add", "consume", "sleep"}]
  /\ seen \in [Callers -> 0 .. MaxTime] /\ add \in [Callers -> 0 .. MaxTime]
  /\ granted \in 0 .. MaxCalls /\ doubled \in Nat /\ calls \in 0 .. MaxCalls

Init ==
  /\ now = 0 /\ last = 0 /\ tokens = Capacity
  /\ pc = [c \in Callers |-> "idle"]
  /\ seen = [c \in Callers |-> 0] /\ add = [c \in Callers |-> 0]
  /\ granted = 0 /\ doubled = 0 /\ calls = 0

Goes(c, from, to) == pc[c] = from /\ pc' = [pc EXCEPT ![c] = to]

Acquire(c) ==
  /\ Goes(c, "idle", "refill")
  /\ calls < MaxCalls
  /\ calls' = calls + 1
  /\ UNCHANGED <<now, last, tokens, seen, add, granted, doubled>>

\* The clock and the time of the last refill are read; before a period has
\* passed there is nothing to add.
ReadClock(c) ==
  /\ Goes(c, "refill", IF now > last THEN "exchange" ELSE "consume")
  /\ seen' = [seen EXCEPT ![c] = last]
  /\ add' = [add EXCEPT ![c] = now - last]
  /\ UNCHANGED <<now, last, tokens, granted, doubled, calls>>

\* compare_exchange: only from the value that was read.
Moved(c) == IF last = seen[c] THEN seen[c] + add[c] ELSE last

ExchangeTime(c) ==
  /\ Goes(c, "exchange", "add")
  /\ last' = Moved(c)
  /\ doubled' = IF last = seen[c] THEN doubled ELSE doubled + add[c]
  /\ UNCHANGED <<now, tokens, seen, add, granted, calls>>

\* The sum is taken before the minimum, in 64 bits.
AddTokens(c) ==
  /\ Goes(c, "add", "consume")
  /\ LET sum == (tokens + add[c] * RefillAmount) % Word
     IN  tokens' = IF sum < Capacity THEN sum ELSE Capacity
  /\ UNCHANGED <<now, last, seen, add, granted, doubled, calls>>

ConsumeOne(c) ==
  /\ Goes(c, "consume", IF tokens = 0 THEN "sleep" ELSE "idle")
  /\ tokens' = IF tokens = 0 THEN 0 ELSE tokens - 1
  /\ granted' = IF tokens = 0 THEN granted ELSE granted + 1
  /\ UNCHANGED <<now, last, seen, add, doubled, calls>>

\* acquire sleeps and begins anew; try_acquire gives up.
Wake(c) ==
  /\ pc[c] = "sleep"
  /\ \E to \in {"refill", "idle"} : pc' = [pc EXCEPT ![c] = to]
  /\ UNCHANGED <<now, last, tokens, seen, add, granted, doubled, calls>>

Advance ==
  /\ now < MaxTime
  /\ now' = now + 1
  /\ UNCHANGED <<last, tokens, pc, seen, add, granted, doubled, calls>>

Call(c) == Acquire(c) \/ ReadClock(c) \/ ExchangeTime(c) \/ AddTokens(c) \/ ConsumeOne(c) \/ Wake(c)
Next == Advance \/ \E c \in Callers : Call(c)

Spec == Init /\ [][Next]_vars

-----------------------------------------------------------------------------

\* No token comes from nowhere: what was consumed and what is left was in the
\* bucket at first, or a period gave it, or the race for a period gave it once
\* more.  Callers that do not race keep to the rate.
NoTokenFromNowhere == granted + tokens <= Capacity + RefillAmount * (last + doubled)
=============================================================================
