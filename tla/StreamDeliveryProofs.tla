------------------------ MODULE StreamDeliveryProofs ------------------------
(* Proofs about StreamDelivery for every number of runs, attempts, chunks   *)
(* and events, and every capacity of the broadcast.                         *)
EXTENDS StreamDelivery, TLAPS

Pcs == {"start", "stream", "toolcall", "tools", "join", "reply", "over"}
States == {"unborn", "drain", "events", "show", "ended", "aborted"}
ConsumerRecord ==
  [st : States, rx : Seq(Text \cup {Done}), lagged : BOOLEAN, ev : Seq({"tool", "other"}),
   acc : SUBSET Text, done : BOOLEAN, break : BOOLEAN, hasId : BOOLEAN, edits : BOOLEAN]
Settlements ==
  [run : Nat, answer : SUBSET Text, by : Consumers,
   result : {"none", "ok", "cancelled", "error"}, how : {"streamed", "published", "timeout"}]

\* Types, and what bounds the numbers: there is room for the run, the
\* iteration and the consumer that the code is about to use.
RunTyped ==
  /\ pc \in Pcs /\ run \in 1 .. MaxRuns + 1 /\ iter \in 1 .. MaxIterations /\ sent \in 0 .. Chunks
  /\ result \in {"none", "ok", "cancelled", "error"}
  /\ spawned \in 0 .. MaxConsumers /\ others \in 0 .. MaxOther
  /\ pc # "over" => run <= MaxRuns
  /\ pc \in {"toolcall", "tools"} => iter < MaxIterations
  /\ pc \notin {"start", "over"} => spawned >= 1

ConsumersTyped ==
  /\ con \in [Consumers -> ConsumerRecord]
  /\ \A c \in Consumers : Len(con[c].rx) <= StreamCap
  /\ screen \in [Consumers -> SUBSET Text]
  /\ settled \subseteq Settlements

StreamTyped == RunTyped /\ ConsumersTyped

\* The text of r, in its buffer and accumulated.
TextOf(r) == r.acc \cup (ToSet(r.rx) \ {Done})
Own(c) == {t \in Text : t[1] = c}

\* The current consumer, the last one spawned, has and shows only text of its
\* own attempt; older ones may come to hold and show text of later attempts.
OwnText ==
  /\ \A c \in Consumers : c > spawned => con[c].st = "unborn" /\ screen[c] = {}
  /\ spawned >= 1 => /\ TextOf(con[spawned]) \subseteq Own(spawned)
                     /\ screen[spawned] \subseteq Own(spawned)
                     /\ con[spawned].hasId => screen[spawned] # {}

StreamInv == StreamTyped /\ OwnText /\ SuppressedWasSeen

\* No tool is called, the platform refuses nothing, no deadline expires, and
\* the buffer of a consumer holds all chunks of an answer.
Undisturbed == ~SendsMayFail /\ ~MayTimeOut /\ MaxIterations = 1 /\ Chunks < StreamCap

SentText == {<<spawned, 1, k>> : k \in 1 .. sent}

\* Then a consumer is alive only while its run streams or waits for it, nothing
\* breaks its segment and nothing is forgotten.
Undelayed(r) ==
  ~r.lagged /\ r.edits /\ ~r.break /\ \A i \in 1 .. Len(r.ev) : r.ev[i] = "other"

OneAlive ==
  \A c \in Consumers : /\ Alive(c) => c = spawned /\ pc \in {"stream", "join"}
                       /\ Undelayed(con[c]) /\ screen[c] \subseteq Own(c)

\* The current consumer r holds what was sent, of which the user is shown this,
\* and once it has ended all of it.
Holds(r, shown) ==
  /\ TextOf(r) = SentText
  /\ Len(r.rx) <= sent + (IF pc = "stream" THEN 0 ELSE 1)
  /\ r.st \in {"drain", "events", "show", "ended"}
  /\ shown \subseteq r.acc /\ (r.hasId <=> shown # {})
  /\ Done \in ToSet(r.rx) \/ r.done \/ r.st = "ended" =>
       pc \in {"join", "reply"} /\ result \in {"ok", "cancelled"}
  /\ r.done \/ r.st = "ended" => r.rx = <<>>
  /\ r.st = "ended" => shown = r.acc

RunHolds ==
  pc \in {"stream", "join", "reply"} =>
    /\ Holds(con[spawned], screen[spawned])
    /\ pc # "stream" /\ result = "ok" => sent = Chunks
    /\ pc = "reply" => con[spawned].st = "ended"

\* What was settled is of attempts that are over.
SettledIsOver ==
  \A s \in settled :
    /\ s.answer \subseteq Own(s.by) /\ s.by <= spawned
    /\ pc \notin {"start", "over"} => s.by < spawned

PlainInv ==
  /\ OneAlive /\ RunHolds /\ SettledIsOver
  /\ AnswerReachesUser /\ AnswerShownOnce

-----------------------------------------------------------------------------
(* Buffers.                                                                 *)

\* The bounds are positive numbers.
LEMMA BoundsTyped ==
  ASSUME StreamAssumption
  PROVE  /\ MaxRuns \in Nat \ {0} /\ MaxIterations \in Nat \ {0} /\ Chunks \in Nat \ {0}
         /\ MaxConsumers \in Nat \ {0} /\ StreamCap \in Nat \ {0} /\ MaxOther \in Nat
         /\ SendsMayFail \in BOOLEAN /\ MayTimeOut \in BOOLEAN
  BY DEF StreamAssumption

\* Appending to a buffer and taking its head, as sets.
LEMMA AppendAsSet ==
  ASSUME NEW S, NEW q \in Seq(S), NEW x \in S
  PROVE  /\ Append(q, x) \in Seq(S) /\ Len(Append(q, x)) = Len(q) + 1
         /\ ToSet(Append(q, x)) = ToSet(q) \cup {x}
<1>1. /\ Append(q, x) \in Seq(S) /\ Len(Append(q, x)) = Len(q) + 1 /\ Len(q) \in Nat
      /\ \A i \in 1 .. Len(q) : Append(q, x)[i] = q[i]
      /\ Append(q, x)[Len(q) + 1] = x
  OBVIOUS
<1>2. ToSet(q) = {q[i] : i \in 1 .. Len(q)}
      /\ ToSet(Append(q, x)) = {Append(q, x)[i] : i \in 1 .. Len(q) + 1}
  BY <1>1 DEF ToSet
<1>3. 1 .. Len(q) + 1 = (1 .. Len(q)) \cup {Len(q) + 1}
  BY <1>1
<1> QED
  BY <1>1, <1>2, <1>3

\* What is left of a buffer when its head is taken.
LEMMA TailAsSet ==
  ASSUME NEW S, NEW q \in Seq(S), q # <<>>
  PROVE  Tail(q) \in Seq(S) /\ Len(Tail(q)) = Len(q) - 1 /\ ToSet(Tail(q)) \subseteq ToSet(q)
<1>1. /\ Tail(q) \in Seq(S) /\ Len(Tail(q)) = Len(q) - 1 /\ Len(q) \in Nat \ {0}
      /\ \A i \in 1 .. Len(q) - 1 : Tail(q)[i] = q[i + 1]
  OBVIOUS
<1>2. ToSet(q) = {q[i] : i \in 1 .. Len(q)} /\ ToSet(Tail(q)) = {Tail(q)[i] : i \in 1 .. Len(q) - 1}
  <2>1. DOMAIN Tail(q) = 1 .. Len(q) - 1 /\ DOMAIN q = 1 .. Len(q)
    BY <1>1
  <2> QED
    BY <2>1 DEF ToSet
<1>3. \A i \in 1 .. Len(q) - 1 : i + 1 \in 1 .. Len(q)
  BY <1>1
<1>4. ToSet(Tail(q)) \subseteq ToSet(q)
  <2> SUFFICES ASSUME NEW i \in 1 .. Len(q) - 1
               PROVE  Tail(q)[i] \in ToSet(q)
    BY <1>2
  <2>1. Tail(q)[i] = q[i + 1] /\ i + 1 \in 1 .. Len(q)
    BY <1>1, <1>3
  <2> QED
    BY <1>2, <2>1
<1> QED
  BY <1>1, <1>4

\* The set of a sequence has its elements.
LEMMA SetOfSequence ==
  ASSUME NEW S, NEW q \in Seq(S)
  PROVE  /\ ToSet(q) \subseteq S /\ Len(q) \in Nat /\ (q = <<>> => ToSet(q) = {})
         /\ \A i \in 1 .. Len(q) : q[i] \in S
  BY DEF ToSet

\* A text chunk is not the done chunk.
LEMMA DoneIsNoText ==
  ASSUME StreamAssumption
  PROVE  Done \notin Text
  BY BoundsTyped DEF Done, Text, Consumers

\* What a receiver has once it received a chunk: everything it had unless its
\* buffer was full.
LEMMA ReceiveKeeps ==
  ASSUME StreamAssumption, NEW r \in ConsumerRecord, Len(r.rx) <= StreamCap,
         NEW chunk \in Text \cup {Done}, NEW n, n = Receive(r, chunk)
  PROVE  /\ n \in ConsumerRecord /\ Len(n.rx) <= StreamCap
         /\ n.st = r.st /\ n.ev = r.ev /\ n.acc = r.acc /\ n.done = r.done /\ n.break = r.break
         /\ n.hasId = r.hasId /\ n.edits = r.edits
         /\ TextOf(n) \subseteq TextOf(r) \cup ({chunk} \ {Done})
         /\ Len(r.rx) < StreamCap =>
              /\ n.lagged = r.lagged /\ Len(n.rx) = Len(r.rx) + 1
              /\ ToSet(n.rx) = ToSet(r.rx) \cup {chunk}
              /\ TextOf(n) = TextOf(r) \cup ({chunk} \ {Done})
<1>1. /\ r.rx \in Seq(Text \cup {Done}) /\ Len(r.rx) \in Nat /\ StreamCap \in Nat \ {0}
  BY BoundsTyped DEF ConsumerRecord
<1>2. CASE Len(r.rx) < StreamCap
  <2>1. n = [r EXCEPT !.rx = Append(r.rx, chunk)]
    BY <1>2 DEF Receive
  <2>2. /\ Append(r.rx, chunk) \in Seq(Text \cup {Done})
        /\ Len(Append(r.rx, chunk)) = Len(r.rx) + 1
        /\ ToSet(Append(r.rx, chunk)) = ToSet(r.rx) \cup {chunk}
    BY <1>1, AppendAsSet
  <2>3. /\ n \in ConsumerRecord /\ n.rx = Append(r.rx, chunk)
        /\ n.st = r.st /\ n.ev = r.ev /\ n.acc = r.acc /\ n.done = r.done /\ n.break = r.break
        /\ n.hasId = r.hasId /\ n.edits = r.edits /\ n.lagged = r.lagged
    BY <2>1, <2>2 DEF ConsumerRecord
  <2>4. TextOf(n) = TextOf(r) \cup ({chunk} \ {Done})
    BY <2>2, <2>3 DEF TextOf
  <2> QED
    BY <1>1, <1>2, <2>2, <2>3, <2>4
<1>3. CASE ~(Len(r.rx) < StreamCap)
  <2> DEFINE left == Tail(r.rx)
  <2>1. n = [r EXCEPT !.rx = Append(left, chunk), !.lagged = TRUE]
    BY <1>3 DEF Receive
  <2>2. r.rx # <<>> /\ Len(r.rx) = StreamCap
    BY <1>1, <1>3
  <2>3. left \in Seq(Text \cup {Done}) /\ Len(left) = Len(r.rx) - 1 /\ ToSet(left) \subseteq ToSet(r.rx)
    BY <1>1, <2>2, TailAsSet
  <2> HIDE DEF left
  <2>4. /\ Append(left, chunk) \in Seq(Text \cup {Done})
        /\ Len(Append(left, chunk)) = Len(left) + 1
        /\ ToSet(Append(left, chunk)) = ToSet(left) \cup {chunk}
    BY <2>3, AppendAsSet
  <2>5. /\ n \in ConsumerRecord /\ n.rx = Append(left, chunk)
        /\ n.st = r.st /\ n.ev = r.ev /\ n.acc = r.acc /\ n.done = r.done /\ n.break = r.break
        /\ n.hasId = r.hasId /\ n.edits = r.edits
    BY <2>1, <2>4 DEF ConsumerRecord
  <2>6. TextOf(n) \subseteq TextOf(r) \cup ({chunk} \ {Done})
    BY <2>3, <2>4, <2>5 DEF TextOf
  <2> QED
    BY <1>1, <1>3, <2>2, <2>3, <2>4, <2>5, <2>6
<1> QED
  BY <1>2, <1>3

-----------------------------------------------------------------------------
(* The steps, under StreamInv.                                              *)

\* Screens only grow, so what vouched for a settlement stays on them.
LEMMA ScreensGrow ==
  ASSUME SuppressedWasSeen, settled' = settled, settled \subseteq Settlements,
         \A c \in Consumers : screen[c] \subseteq screen'[c]
  PROVE  SuppressedWasSeen'
<1> SUFFICES ASSUME NEW s \in settled, s.how = "streamed"
             PROVE  \E t \in screen'[s.by] : t[1] = s.by
  BY DEF SuppressedWasSeen
<1>1. s.by \in Consumers
  BY DEF Settlements
<1> QED
  BY <1>1 DEF SuppressedWasSeen

\* A poll of a live consumer: it comes to r, its text from the same chunks, and
\* has an id only with something on the screen.
LEMMA PollKeeps ==
  ASSUME StreamAssumption, StreamInv, NEW c \in Consumers, Alive(c),
         NEW r \in ConsumerRecord, con' = [con EXCEPT ![c] = r],
         Len(r.rx) <= StreamCap, TextOf(r) \subseteq TextOf(con[c]),
         NEW new \in SUBSET TextOf(con[c]), screen' = [screen EXCEPT ![c] = @ \cup new],
         r.hasId => con[c].hasId \/ new # {},
         UNCHANGED <<runVars, spawned, settled, others>>
  PROVE  StreamInv'
<1> USE DEF StreamInv, StreamTyped
<1>1. RunTyped'
  BY DEF RunTyped, runVars
<1>2. con[c] \in ConsumerRecord /\ new \subseteq Text
  <2>1. con[c] \in ConsumerRecord
    BY DEF ConsumersTyped
  <2>2. con[c].acc \subseteq Text /\ ToSet(con[c].rx) \subseteq Text \cup {Done}
    BY <2>1, SetOfSequence DEF ConsumerRecord
  <2> QED
    BY <2>1, <2>2 DEF TextOf
<1>3. /\ \A d \in Consumers : con'[d] = IF d = c THEN r ELSE con[d]
      /\ \A d \in Consumers : screen'[d] = IF d = c THEN screen[c] \cup new ELSE screen[d]
      /\ con' \in [Consumers -> ConsumerRecord] /\ screen' \in [Consumers -> SUBSET Text]
  BY <1>2 DEF ConsumersTyped
<1>4. ConsumersTyped'
  BY <1>3 DEF ConsumersTyped
<1>5. c <= spawned /\ spawned \in Int /\ c \in Int
  BY BoundsTyped DEF OwnText, Alive, RunTyped, Consumers
<1>6. OwnText'
  <2>1. \A d \in Consumers : d > spawned => con'[d].st = "unborn" /\ screen'[d] = {}
    BY <1>3, <1>5 DEF OwnText
  <2>2. ASSUME spawned >= 1
        PROVE  /\ TextOf(con'[spawned]) \subseteq Own(spawned)
               /\ screen'[spawned] \subseteq Own(spawned)
               /\ con'[spawned].hasId => screen'[spawned] # {}
    <3>1. spawned \in Consumers
      BY <2>2, BoundsTyped DEF RunTyped, Consumers
    <3>2. CASE spawned # c
      BY <1>3, <2>2, <3>1, <3>2 DEF OwnText
    <3>3. CASE spawned = c
      BY <1>3, <2>2, <3>3 DEF OwnText
    <3> QED
      BY <3>2, <3>3
  <2> QED
    BY <2>1, <2>2 DEF OwnText
<1>7. SuppressedWasSeen'
  BY <1>3, ScreensGrow DEF ConsumersTyped
<1> QED
  BY <1>1, <1>4, <1>6, <1>7

\* A step of a consumer, which changes its own record and screen only.
LEMMA ConsumerStepKeeps ==
  ASSUME StreamAssumption, StreamInv, NEW c \in Consumers, ConsumerStep(c)
  PROVE  StreamInv'
<1> DEFINE me == con[c]
<1>1. /\ me \in ConsumerRecord /\ con \in [Consumers -> ConsumerRecord] /\ Len(me.rx) <= StreamCap
      /\ screen \in [Consumers -> SUBSET Text]
      /\ me.rx \in Seq(Text \cup {Done}) /\ ToSet(me.rx) \subseteq Text \cup {Done}
      /\ me.acc \subseteq Text
  <2>1. me \in ConsumerRecord /\ con \in [Consumers -> ConsumerRecord] /\ Len(me.rx) <= StreamCap
        /\ screen \in [Consumers -> SUBSET Text]
    BY DEF StreamInv, StreamTyped, ConsumersTyped
  <2> QED
    BY <2>1, SetOfSequence DEF ConsumerRecord
<1>2. Alive(c) /\ UNCHANGED <<runVars, spawned, settled, others>>
  BY DEF ConsumerStep, Drain, ReadEvents, ShowText, FailToShow, ShowNothing, Alive
<1>3. PICK none : none = {}
  OBVIOUS
<1>x. screen = [screen EXCEPT ![c] = @ \cup none]
  BY <1>1, <1>3
<1>y. ASSUME screen' = screen, NEW r \in ConsumerRecord, con' = [con EXCEPT ![c] = r],
             Len(r.rx) <= StreamCap, TextOf(r) \subseteq TextOf(me), r.hasId => me.hasId
      PROVE  StreamInv'
  BY <1>2, <1>3, <1>x, <1>y, PollKeeps
<1> HIDE DEF me
<1>4. CASE Drain(c)
  <2> DEFINE r == IF me.lagged THEN [me EXCEPT !.st = "events", !.lagged = FALSE]
                  ELSE [me EXCEPT !.st = "events", !.rx = <<>>,
                                  !.acc = @ \cup (ToSet(me.rx) \ {Done}),
                                  !.done = Done \in ToSet(me.rx)]
  <2>1. con' = [con EXCEPT ![c] = r] /\ screen' = screen
    BY <1>1, <1>4 DEF Drain, me
  <2>2. /\ r \in ConsumerRecord /\ r.hasId = me.hasId
        /\ me.lagged => r.rx = me.rx /\ r.acc = me.acc
        /\ ~me.lagged => r.rx = <<>> /\ r.acc = me.acc \cup (ToSet(me.rx) \ {Done})
    <3>1. CASE me.lagged
      BY <1>1, <3>1 DEF ConsumerRecord, States
    <3>2. CASE ~me.lagged
      <4> DEFINE all == me.acc \cup (ToSet(me.rx) \ {Done})
                 over == Done \in ToSet(me.rx)
      <4>1. all \in SUBSET Text /\ over \in BOOLEAN /\ <<>> \in Seq(Text \cup {Done})
        BY <1>1
      <4>2. r = [me EXCEPT !.st = "events", !.rx = <<>>, !.acc = all, !.done = over]
        BY <3>2
      <4> HIDE DEF all, over, r
      <4>3. r \in ConsumerRecord /\ r.hasId = me.hasId /\ r.rx = <<>> /\ r.acc = all
        BY <1>1, <4>1, <4>2 DEF ConsumerRecord, States
      <4> QED
        BY <3>2, <4>3 DEF all
    <3> QED
      BY <3>1, <3>2
  <2> HIDE DEF r
  <2>3. Len(r.rx) <= StreamCap /\ TextOf(r) \subseteq TextOf(me)
    <3>1. Len(<<>>) = 0 /\ ToSet(<<>>) = {}
      BY DEF ToSet
    <3> QED
      BY <1>1, <2>2, <3>1, BoundsTyped DEF TextOf
  <2> QED
    BY <1>y, <2>1, <2>2, <2>3
<1>5. CASE ReadEvents(c)
  <2>1. PICK k \in 0 .. Len(me.ev) :
          con' = [con EXCEPT ![c].st = "show", ![c].break = k > 0,
                             ![c].ev = SubSeq(me.ev, k + 2, Len(me.ev))]
    BY <1>5 DEF ReadEvents, me
  <2> DEFINE r == [me EXCEPT !.st = "show", !.break = k > 0,
                             !.ev = SubSeq(me.ev, k + 2, Len(me.ev))]
  <2>2. con' = [con EXCEPT ![c] = r] /\ screen' = screen
    BY <1>1, <1>5, <2>1 DEF ReadEvents, me
  <2>3. me.ev \in Seq({"tool", "other"}) /\ Len(me.ev) \in Nat
    BY <1>1 DEF ConsumerRecord
  <2>4. SubSeq(me.ev, k + 2, Len(me.ev)) \in Seq({"tool", "other"})
    BY <2>3
  <2>5. r \in ConsumerRecord /\ r.hasId = me.hasId /\ r.rx = me.rx /\ r.acc = me.acc
    <3> DEFINE left == SubSeq(me.ev, k + 2, Len(me.ev))
               any == k > 0
    <3>1. left \in Seq({"tool", "other"}) /\ any \in BOOLEAN
      BY <2>4
    <3>2. r = [me EXCEPT !.st = "show", !.break = any, !.ev = left]
      OBVIOUS
    <3> HIDE DEF left, any, r
    <3> QED
      BY <1>1, <3>1, <3>2 DEF ConsumerRecord, States
  <2> HIDE DEF r
  <2>6. TextOf(r) \subseteq TextOf(me)
    BY <2>5 DEF TextOf
  <2> QED
    BY <1>1, <1>y, <2>2, <2>5, <2>6
<1>6. ASSUME NEW q \in ConsumerRecord, con' = [con EXCEPT ![c] = EndPoll(q)],
             q.rx = me.rx, q.acc = me.acc,
             NEW new \in SUBSET me.acc, screen' = [screen EXCEPT ![c] = @ \cup new],
             q.hasId => me.hasId \/ new # {}
      PROVE  StreamInv'
  <2> DEFINE r == EndPoll(q)
  <2>1. /\ r \in ConsumerRecord /\ r.rx = q.rx /\ r.acc \subseteq q.acc
        /\ r.hasId => q.hasId
    BY <1>6 DEF EndPoll, ConsumerRecord, States
  <2> HIDE DEF r
  <2>2. TextOf(r) \subseteq TextOf(me) /\ new \in SUBSET TextOf(me)
    BY <1>6, <2>1 DEF TextOf
  <2>3. con' = [con EXCEPT ![c] = r] /\ (r.hasId => con[c].hasId \/ new # {})
        /\ Len(r.rx) <= StreamCap
    BY <1>1, <1>6, <2>1 DEF r, me
  <2>4. TextOf(r) \subseteq TextOf(con[c]) /\ new \in SUBSET TextOf(con[c])
    BY <2>2 DEF me
  <2> QED
    BY <1>2, <1>6, <2>1, <2>2, <2>3, <2>4, PollKeeps
<1>7. CASE ShowText(c)
  <2> DEFINE q == [me EXCEPT !.hasId = TRUE]
  <2>1. /\ screen' = [screen EXCEPT ![c] = @ \cup me.acc]
        /\ con' = [con EXCEPT ![c] = EndPoll(q)] /\ me.acc # {}
    BY <1>1, <1>7 DEF ShowText, me
  <2>2. q \in ConsumerRecord /\ q.rx = me.rx /\ q.acc = me.acc
    BY <1>1 DEF ConsumerRecord
  <2> HIDE DEF q
  <2> QED
    BY <1>6, <2>1, <2>2
<1>8. CASE FailToShow(c)
  <2>1. PICK edits \in BOOLEAN : con' = [con EXCEPT ![c] = EndPoll([me EXCEPT !.edits = edits])]
    BY <1>1, <1>8 DEF FailToShow, me
  <2> DEFINE q == [me EXCEPT !.edits = edits]
  <2>2. screen' = [screen EXCEPT ![c] = @ \cup none] /\ con' = [con EXCEPT ![c] = EndPoll(q)]
    BY <1>x, <1>8, <2>1 DEF FailToShow
  <2>3. q \in ConsumerRecord /\ q.rx = me.rx /\ q.acc = me.acc /\ q.hasId = me.hasId
    BY <1>1 DEF ConsumerRecord
  <2> HIDE DEF q
  <2> QED
    BY <1>3, <1>6, <2>2, <2>3
<1>9. CASE ShowNothing(c)
  <2>1. screen' = [screen EXCEPT ![c] = @ \cup none] /\ con' = [con EXCEPT ![c] = EndPoll(me)]
    BY <1>1, <1>x, <1>9 DEF ShowNothing, me
  <2> QED
    BY <1>1, <1>3, <1>6, <2>1
<1> QED
  BY <1>4, <1>5, <1>7, <1>8, <1>9 DEF ConsumerStep

\* A chunk is sent to whoever is alive.
LEMMA EmitKeeps ==
  ASSUME StreamAssumption, StreamInv, spawned >= 1,
         NEW chunk \in Own(spawned) \cup {Done}, Emit(chunk),
         UNCHANGED <<spawned, screen, settled>>
  PROVE  ConsumersTyped' /\ OwnText' /\ SuppressedWasSeen'
<1> USE DEF StreamInv, StreamTyped
<1>1. chunk \in Text \cup {Done} /\ spawned \in Consumers
  BY BoundsTyped DEF Own, RunTyped, Consumers
<1>2. /\ con' = [c \in Consumers |-> IF Alive(c) THEN Receive(con[c], chunk) ELSE con[c]]
      /\ con \in [Consumers -> ConsumerRecord]
      /\ \A c \in Consumers : con[c] \in ConsumerRecord /\ Len(con[c].rx) <= StreamCap
  BY DEF Emit, ConsumersTyped
<1>3. ASSUME NEW c \in Consumers
      PROVE  /\ con'[c] \in ConsumerRecord /\ Len(con'[c].rx) <= StreamCap
             /\ con'[c].st = con[c].st /\ con'[c].hasId = con[c].hasId
             /\ TextOf(con'[c]) \subseteq TextOf(con[c]) \cup ({chunk} \ {Done})
  <2>1. CASE ~Alive(c)
    BY <1>2, <2>1
  <2>2. CASE Alive(c)
    <3>1. con'[c] = Receive(con[c], chunk)
      BY <1>2, <2>2
    <3> QED
      BY <1>1, <1>2, <3>1, ReceiveKeeps
  <2> QED
    BY <2>1, <2>2
<1>4. ConsumersTyped'
  BY <1>2, <1>3 DEF ConsumersTyped
<1>5. OwnText'
  <2>1. /\ TextOf(con[spawned]) \subseteq Own(spawned) /\ screen[spawned] \subseteq Own(spawned)
        /\ con[spawned].hasId => screen[spawned] # {}
    BY DEF OwnText
  <2>2. /\ TextOf(con'[spawned]) \subseteq TextOf(con[spawned]) \cup ({chunk} \ {Done})
        /\ con'[spawned].hasId = con[spawned].hasId
    BY <1>1, <1>3
  <2>3. \A c \in Consumers : c > spawned => con'[c].st = "unborn" /\ screen[c] = {}
    BY <1>3 DEF OwnText
  <2> QED
    BY <2>1, <2>2, <2>3 DEF OwnText
<1>6. SuppressedWasSeen'
  BY ScreensGrow DEF ConsumersTyped
<1> QED
  BY <1>4, <1>5, <1>6

\* An event is sent to whoever is alive.
LEMMA EventKeeps ==
  ASSUME StreamAssumption, StreamInv, NEW e \in {"tool", "other"}, EmitEvent(e),
         UNCHANGED <<spawned, screen, settled>>
  PROVE  ConsumersTyped' /\ OwnText' /\ SuppressedWasSeen'
<1> USE DEF StreamInv, StreamTyped
<1>1. /\ con' = [c \in Consumers |->
                   IF Alive(c) THEN [con[c] EXCEPT !.ev = Append(@, e)] ELSE con[c]]
      /\ con \in [Consumers -> ConsumerRecord]
      /\ \A c \in Consumers : con[c] \in ConsumerRecord /\ Len(con[c].rx) <= StreamCap
  BY DEF EmitEvent, ConsumersTyped
<1>2. ASSUME NEW c \in Consumers
      PROVE  /\ con'[c] \in ConsumerRecord /\ con'[c].rx = con[c].rx /\ con'[c].acc = con[c].acc
             /\ con'[c].st = con[c].st /\ con'[c].hasId = con[c].hasId
  <2>1. CASE ~Alive(c)
    BY <1>1, <2>1
  <2>2. CASE Alive(c)
    <3>1. con[c].ev \in Seq({"tool", "other"}) /\ con[c] \in ConsumerRecord
      BY <1>1 DEF ConsumerRecord
    <3>2. Append(con[c].ev, e) \in Seq({"tool", "other"})
      BY <3>1
    <3>3. con'[c] = [con[c] EXCEPT !.ev = Append(con[c].ev, e)]
      BY <1>1, <2>2
    <3> QED
      BY <3>1, <3>2, <3>3 DEF ConsumerRecord
  <2> QED
    BY <2>1, <2>2
<1>3. ConsumersTyped'
  BY <1>1, <1>2 DEF ConsumersTyped
<1>4. OwnText'
  <2>1. ASSUME spawned >= 1
        PROVE  TextOf(con'[spawned]) = TextOf(con[spawned])
               /\ con'[spawned].hasId = con[spawned].hasId
    <3>1. spawned \in Consumers
      BY <2>1, BoundsTyped DEF RunTyped, Consumers
    <3> QED
      BY <1>2, <3>1 DEF TextOf
  <2> QED
    BY <1>2, <2>1 DEF OwnText
<1>5. SuppressedWasSeen'
  BY ScreensGrow DEF ConsumersTyped
<1> QED
  BY <1>3, <1>4, <1>5

\* Nothing happens to the consumers.
LEMMA NothingKeeps ==
  ASSUME StreamInv, UNCHANGED <<spawned, con, screen, settled>>
  PROVE  ConsumersTyped' /\ OwnText' /\ SuppressedWasSeen'
  BY DEF StreamInv, StreamTyped, ConsumersTyped, OwnText, SuppressedWasSeen

\* A run is settled: as streamed only if the current consumer has an id.
LEMMA SettleKeeps ==
  ASSUME StreamAssumption, StreamInv, pc \notin {"start", "over"},
         NEW how \in {"streamed", "published", "timeout"}, EndRun(how),
         how = "streamed" => con[spawned].hasId,
         UNCHANGED <<iter, sent, result, spawned, con, screen, others>>
  PROVE  StreamInv'
<1> USE DEF StreamInv, StreamTyped
<1>1. /\ spawned \in Consumers /\ spawned >= 1 /\ run \in Nat /\ run <= MaxRuns
      /\ run \in 1 .. MaxRuns + 1 /\ pc' = (IF run < MaxRuns THEN "start" ELSE "over")
      /\ run' = run + 1 /\ settled' = settled \cup {Settlement(how)}
  BY BoundsTyped DEF RunTyped, Consumers, EndRun
<1>2. RunTyped'
  <2>1. run' \in 1 .. MaxRuns + 1 /\ (pc' # "over" => run' <= MaxRuns) /\ pc' \in {"start", "over"}
    BY <1>1, BoundsTyped
  <2> QED
    BY <2>1 DEF RunTyped, Pcs
<1>3. Answer \subseteq Text
  BY <1>1 DEF Answer, Text, RunTyped
<1>4. /\ Settlement(how) \in Settlements
      /\ Settlement(how).how = how /\ Settlement(how).by = spawned
  BY <1>1, <1>3 DEF Settlement, Settlements, RunTyped
<1>5. ConsumersTyped' /\ OwnText'
  BY <1>1, <1>4 DEF ConsumersTyped, OwnText
<1>6. SuppressedWasSeen'
  <2>1. ASSUME how = "streamed"
        PROVE  \E t \in screen[spawned] : t[1] = spawned
    BY <1>1, <2>1 DEF OwnText, Own
  <2> QED
    BY <1>1, <1>4, <2>1 DEF SuppressedWasSeen
<1> QED
  BY <1>2, <1>5, <1>6

\* Before the first run nothing is streamed or shown.
LEMMA StreamInvInit ==
  ASSUME StreamAssumption, Init
  PROVE  StreamInv
<1> USE BoundsTyped DEF Init
<1>1. RunTyped
  BY DEF RunTyped, Pcs
<1> DEFINE unborn == [NewConsumer EXCEPT !.st = "unborn"]
<1>2. /\ unborn \in ConsumerRecord /\ unborn.rx = <<>> /\ unborn.st = "unborn"
      /\ con = [c \in Consumers |-> unborn]
  <2>1. NewConsumer \in ConsumerRecord /\ NewConsumer.rx = <<>>
    <3>1. {} \in SUBSET Text /\ <<>> \in Seq(Text \cup {Done}) /\ <<>> \in Seq({"tool", "other"})
      OBVIOUS
    <3> QED
      BY <3>1 DEF NewConsumer, ConsumerRecord, States
  <2>2. con = [c \in Consumers |-> unborn]
    OBVIOUS
  <2> QED
    BY <2>1, <2>2 DEF ConsumerRecord, States
<1> HIDE DEF unborn
<1>3. ConsumersTyped
  <2>1. \A c \in Consumers : con[c] = unborn
    BY <1>2
  <2>2. Len(<<>>) <= StreamCap
    OBVIOUS
  <2> QED
    BY <1>2, <2>1, <2>2 DEF ConsumersTyped
<1>4. OwnText /\ SuppressedWasSeen
  BY <1>2 DEF OwnText, SuppressedWasSeen, Consumers
<1> QED
  BY <1>1, <1>3, <1>4 DEF StreamInv, StreamTyped

\* A step of the run, which changes a consumer only by spawning it, sending to
\* it or aborting it.
LEMMA RunStepKeeps ==
  ASSUME StreamAssumption, StreamInv, RunStep \/ Timeout \/ OtherEvent
  PROVE  StreamInv'
<1>1. RunTyped /\ ConsumersTyped /\ OwnText /\ SuppressedWasSeen
  BY DEF StreamInv, StreamTyped
<1> USE BoundsTyped
<1>2. CASE Spawn
  <2>1. /\ spawned + 1 \in Consumers /\ spawned + 1 >= 1
        /\ spawned' = spawned + 1 /\ con' = [con EXCEPT ![spawned + 1] = NewConsumer]
        /\ screen' = screen /\ settled' = settled
    BY <1>1, <1>2 DEF Spawn, RunTyped, Consumers
  <2>2. NewConsumer \in ConsumerRecord /\ NewConsumer.rx = <<>> /\ TextOf(NewConsumer) = {}
        /\ NewConsumer.hasId = FALSE
    <3>1. ToSet(<<>>) = {}
      BY DEF ToSet
    <3> QED
      BY <3>1 DEF NewConsumer, ConsumerRecord, States, TextOf
  <2>3. RunTyped'
    BY <1>1, <1>2, <2>1 DEF Spawn, RunTyped, Pcs, Consumers
  <2>4. ConsumersTyped'
    BY <1>1, <2>1, <2>2 DEF ConsumersTyped
  <2>5. screen[spawned + 1] = {} /\ con'[spawned + 1] = NewConsumer
    BY <1>1, <2>1 DEF OwnText, RunTyped, ConsumersTyped
  <2>6. \A c \in Consumers : c > spawned + 1 => con'[c] = con[c] /\ c > spawned
    BY <1>1, <2>1 DEF ConsumersTyped, RunTyped, Consumers
  <2>7. OwnText'
    BY <1>1, <2>1, <2>2, <2>5, <2>6 DEF OwnText
  <2>8. SuppressedWasSeen'
    BY <1>1, <2>1 DEF SuppressedWasSeen
  <2> QED
    BY <2>3, <2>4, <2>7, <2>8 DEF StreamInv, StreamTyped
<1>3. CASE EmitText
  <2>1. /\ spawned >= 1 /\ sent + 1 \in 1 .. Chunks /\ iter \in 1 .. MaxIterations
        /\ spawned \in Consumers
    BY <1>1, <1>3 DEF EmitText, RunTyped, Consumers
  <2>2. PICK chunk : chunk = <<spawned, iter, sent + 1>>
    OBVIOUS
  <2>3. chunk \in Own(spawned) /\ Emit(chunk) /\ UNCHANGED <<spawned, screen, settled>>
    BY <1>3, <2>1, <2>2 DEF EmitText, Own, Text
  <2>4. RunTyped'
    BY <1>1, <1>3, <2>1 DEF EmitText, RunTyped
  <2> QED
    BY <2>1, <2>3, <2>4, EmitKeeps DEF StreamInv, StreamTyped
<1>4. CASE EmitDone \/ SeeCancelled
  <2>1. spawned >= 1 /\ Emit(Done) /\ UNCHANGED <<spawned, screen, settled>>
    BY <1>1, <1>4 DEF EmitDone, SeeCancelled, AtHead, RunTyped
  <2>2. RunTyped'
    BY <1>1, <1>4 DEF EmitDone, SeeCancelled, AtHead, RunTyped, Pcs
  <2> QED
    BY <2>1, <2>2, EmitKeeps DEF StreamInv, StreamTyped
<1>5. CASE EmitToolCall \/ OtherEvent
  <2>1. \E e \in {"tool", "other"} : EmitEvent(e)
    BY <1>5 DEF EmitToolCall, OtherEvent
  <2>2. RunTyped' /\ UNCHANGED <<spawned, screen, settled>>
    BY <1>1, <1>5 DEF EmitToolCall, OtherEvent, RunTyped, runVars, Pcs
  <2> QED
    BY <2>1, <2>2, EventKeeps DEF StreamInv, StreamTyped
<1>6. CASE NextIteration \/ FailRun \/ Join
  <2>1. RunTyped' /\ UNCHANGED <<spawned, con, screen, settled>>
    BY <1>1, <1>6 DEF NextIteration, FailRun, Join, RunTyped, Pcs
  <2> QED
    BY <2>1, NothingKeeps DEF StreamInv, StreamTyped
<1>7. CASE RetryRun
  <2>1. /\ RunTyped' /\ UNCHANGED <<spawned, screen, settled>> /\ spawned \in Consumers
        /\ con' = [con EXCEPT ![spawned].st = IF Alive(spawned) THEN "aborted" ELSE @]
    BY <1>1, <1>7 DEF RetryRun, RunTyped, Pcs, Consumers
  <2>2. PICK st \in States : st = IF Alive(spawned) THEN "aborted" ELSE con[spawned].st
    BY <1>1, <2>1 DEF States, ConsumersTyped, ConsumerRecord
  <2>3. /\ con' \in [Consumers -> ConsumerRecord]
        /\ \A c \in Consumers : c # spawned => con'[c] = con[c]
        /\ con'[spawned].rx = con[spawned].rx /\ con'[spawned].acc = con[spawned].acc
        /\ con'[spawned].hasId = con[spawned].hasId
    <3>1. con' = [con EXCEPT ![spawned] = [con[spawned] EXCEPT !.st = st]]
      BY <1>1, <2>1, <2>2 DEF ConsumersTyped
    <3>2. con[spawned] \in ConsumerRecord /\ con \in [Consumers -> ConsumerRecord]
      BY <1>1, <2>1 DEF ConsumersTyped
    <3>3. /\ [con[spawned] EXCEPT !.st = st] \in ConsumerRecord
          /\ [con[spawned] EXCEPT !.st = st].rx = con[spawned].rx
          /\ [con[spawned] EXCEPT !.st = st].acc = con[spawned].acc
          /\ [con[spawned] EXCEPT !.st = st].hasId = con[spawned].hasId
      BY <3>2 DEF ConsumerRecord
    <3> QED
      BY <2>1, <3>1, <3>2, <3>3
  <2>4. ConsumersTyped'
    <3>1. \A c \in Consumers : con'[c].rx = con[c].rx
      BY <2>3
    <3> QED
      BY <1>1, <2>1, <2>3, <3>1 DEF ConsumersTyped
  <2>5. OwnText'
    <3>1. \A c \in Consumers : c > spawned => con'[c] = con[c]
      BY <1>1, <2>3 DEF RunTyped, Consumers
    <3>2. TextOf(con'[spawned]) = TextOf(con[spawned])
      BY <2>3 DEF TextOf
    <3> QED
      BY <1>1, <2>1, <2>3, <3>1, <3>2 DEF OwnText
  <2>6. SuppressedWasSeen'
    BY <1>1, <2>1 DEF SuppressedWasSeen
  <2> QED
    BY <2>1, <2>4, <2>5, <2>6 DEF StreamInv, StreamTyped
<1>8. CASE Reply
  <2>1. PICK how : how = IF result # "error" /\ con[spawned].hasId THEN "streamed" ELSE "published"
    OBVIOUS
  <2>2. /\ how \in {"streamed", "published", "timeout"} /\ EndRun(how) /\ pc \notin {"start", "over"}
        /\ how = "streamed" => con[spawned].hasId
        /\ UNCHANGED <<iter, sent, result, spawned, con, screen, others>>
    BY <1>8, <2>1 DEF Reply
  <2> QED
    BY <2>2, SettleKeeps
<1>9. CASE Timeout
  <2>1. /\ "timeout" \in {"streamed", "published", "timeout"} /\ EndRun("timeout")
        /\ pc \notin {"start", "over"}
        /\ UNCHANGED <<iter, sent, result, spawned, con, screen, others>>
    BY <1>9 DEF Timeout
  <2> QED
    BY <2>1, SettleKeeps
<1> QED
  BY <1>2, <1>3, <1>4, <1>5, <1>6, <1>7, <1>8, <1>9 DEF RunStep

\* Every step keeps the invariant of the stream.
LEMMA StreamInvStep ==
  ASSUME StreamAssumption, StreamInv, [Next]_vars
  PROVE  StreamInv'
<1>1. CASE RunStep \/ Timeout \/ OtherEvent
  BY <1>1, RunStepKeeps
<1>2. ASSUME NEW c \in Consumers, ConsumerStep(c)
      PROVE  StreamInv'
  BY <1>2, ConsumerStepKeeps
<1>3. CASE UNCHANGED vars
  <2>1. RunTyped' /\ UNCHANGED <<spawned, con, screen, settled>>
    BY <1>3 DEF StreamInv, StreamTyped, RunTyped, vars, runVars
  <2> QED
    BY <2>1, NothingKeeps DEF StreamInv, StreamTyped
<1> QED
  BY <1>1, <1>2, <1>3 DEF Next

-----------------------------------------------------------------------------
(* The steps, when nothing disturbs them.                                   *)

\* What the screens of other attempts show does not matter to a settlement.
LEMMA SettledStays ==
  ASSUME StreamInv, StreamInv', PlainInv, settled' = settled,
         spawned' = spawned \/ spawned' = spawned + 1,
         pc' \notin {"start", "over"} => pc \notin {"start", "over"} \/ spawned' = spawned + 1,
         \A c \in Consumers : /\ screen[c] \subseteq screen'[c] /\ screen'[c] \subseteq Own(c)
                              /\ screen'[c] # screen[c] =>
                                   c = spawned /\ pc \notin {"start", "over"}
  PROVE  SettledIsOver' /\ AnswerReachesUser' /\ AnswerShownOnce'
<1> USE DEF PlainInv
<1>1. /\ settled \subseteq Settlements /\ spawned \in Int
      /\ \A s \in settled : s.by \in Consumers /\ s.by \in Int
  BY DEF StreamInv, StreamTyped, ConsumersTyped, RunTyped, Settlements, Consumers
<1>2. SettledIsOver'
  BY <1>1 DEF SettledIsOver
<1>3. AnswerReachesUser'
  <2> SUFFICES ASSUME NEW s \in settled, s.result = "ok", s.how # "timeout"
               PROVE  s.answer \subseteq Seen(s)'
    BY DEF AnswerReachesUser
  <2>1. s.answer \subseteq Seen(s)
    BY DEF AnswerReachesUser
  <2>2. Seen(s) \subseteq Seen(s)'
    BY DEF Seen
  <2> QED
    BY <2>1, <2>2
<1>4. AnswerShownOnce'
  <2>1. ASSUME NEW s \in settled, s.how = "published"
        PROVE  screen'[s.by] \cap s.answer = {}
    <3>1. screen[s.by] \cap s.answer = {}
      BY <2>1 DEF AnswerShownOnce
    <3>2. screen'[s.by] = screen[s.by]
      BY <1>1, <2>1 DEF SettledIsOver
    <3> QED
      BY <3>1, <3>2
  <2>2. \A c, d \in Consumers : c # d => screen'[c] \cap screen'[d] = {}
    BY DEF Own
  <2> QED
    BY <2>1, <2>2 DEF AnswerShownOnce
<1> QED
  BY <1>2, <1>3, <1>4

\* While a run streams or is joined, the current consumer is the one alive.
LEMMA CurrentHolds ==
  ASSUME StreamAssumption, StreamInv, PlainInv, pc \in {"stream", "join", "reply"}
  PROVE  /\ spawned \in Consumers /\ con[spawned] \in ConsumerRecord
         /\ Holds(con[spawned], screen[spawned]) /\ Undelayed(con[spawned])
         /\ Len(con[spawned].rx) \in Nat /\ sent \in 0 .. Chunks
         /\ con[spawned].rx \in Seq(Text \cup {Done})
         /\ con \in [Consumers -> ConsumerRecord]
<1>1. spawned \in Consumers /\ sent \in 0 .. Chunks
  BY BoundsTyped DEF StreamInv, StreamTyped, RunTyped, Consumers
<1>2. con[spawned] \in ConsumerRecord /\ con \in [Consumers -> ConsumerRecord]
  BY <1>1 DEF StreamInv, StreamTyped, ConsumersTyped
<1>3. con[spawned].rx \in Seq(Text \cup {Done}) /\ Len(con[spawned].rx) \in Nat
  BY <1>2 DEF ConsumerRecord
<1> QED
  BY <1>1, <1>2, <1>3 DEF PlainInv, RunHolds, OneAlive

\* A chunk sent while the run streams reaches the current consumer.
LEMMA ChunkArrives ==
  ASSUME StreamAssumption, Undisturbed, StreamInv, PlainInv, pc = "stream",
         NEW chunk \in Text \cup {Done}, Emit(chunk)
  PROVE  /\ \A c \in Consumers : con'[c].st = con[c].st /\ Undelayed(con'[c])
         /\ con[spawned].st \in {"drain", "events", "show"}
         /\ TextOf(con'[spawned]) = SentText \cup ({chunk} \ {Done})
         /\ Len(con'[spawned].rx) <= sent + 1
         /\ ToSet(con'[spawned].rx) = ToSet(con[spawned].rx) \cup {chunk}
         /\ Done \notin ToSet(con[spawned].rx) /\ ~con'[spawned].done
         /\ con'[spawned].acc = con[spawned].acc /\ con'[spawned].hasId = con[spawned].hasId
<1> DEFINE me == con[spawned]
<1>1. /\ spawned \in Consumers /\ me \in ConsumerRecord /\ Holds(me, screen[spawned])
      /\ Len(me.rx) \in Nat /\ sent \in 0 .. Chunks
  BY CurrentHolds
<1>2. /\ me.st \in {"drain", "events", "show"} /\ Done \notin ToSet(me.rx) /\ ~me.done
      /\ Len(me.rx) <= sent /\ Len(me.rx) < StreamCap /\ Len(me.rx) <= StreamCap
      /\ TextOf(me) = SentText
  BY <1>1, BoundsTyped DEF Holds, Undisturbed
<1>3. con'[spawned] = Receive(me, chunk)
  BY <1>1, <1>2 DEF Emit, Alive
<1>4. /\ con'[spawned].st = me.st /\ con'[spawned].ev = me.ev /\ con'[spawned].acc = me.acc
      /\ con'[spawned].done = me.done /\ con'[spawned].break = me.break
      /\ con'[spawned].hasId = me.hasId /\ con'[spawned].edits = me.edits
      /\ con'[spawned].lagged = me.lagged /\ Len(con'[spawned].rx) = Len(me.rx) + 1
      /\ ToSet(con'[spawned].rx) = ToSet(me.rx) \cup {chunk}
      /\ TextOf(con'[spawned]) = TextOf(me) \cup ({chunk} \ {Done})
  <2>1. PICK n : n = con'[spawned]
    OBVIOUS
  <2>2. PICK r \in ConsumerRecord : r = me
    BY <1>1
  <2>3. /\ n = Receive(r, chunk) /\ Len(r.rx) <= StreamCap /\ Len(r.rx) < StreamCap
        /\ chunk \in Text \cup {Done}
    BY <1>1, <1>2, <1>3, <2>1, <2>2
  <2>4. /\ n.st = r.st /\ n.ev = r.ev /\ n.acc = r.acc /\ n.done = r.done /\ n.break = r.break
        /\ n.hasId = r.hasId /\ n.edits = r.edits
        /\ n.lagged = r.lagged /\ Len(n.rx) = Len(r.rx) + 1
        /\ ToSet(n.rx) = ToSet(r.rx) \cup {chunk}
        /\ TextOf(n) = TextOf(r) \cup ({chunk} \ {Done})
    <3>1. n.st = r.st /\ n.ev = r.ev /\ n.acc = r.acc /\ n.done = r.done /\ n.break = r.break
        /\ n.hasId = r.hasId /\ n.edits = r.edits
       BY <2>3, ReceiveKeeps
    <3>2. n.lagged = r.lagged /\ Len(n.rx) = Len(r.rx) + 1
       BY <2>3, ReceiveKeeps
    <3>3. ToSet(n.rx) = ToSet(r.rx) \cup {chunk}
       BY <2>3, ReceiveKeeps
    <3>4. TextOf(n) = TextOf(r) \cup ({chunk} \ {Done})
       BY <2>3, ReceiveKeeps
    <3> QED
      BY <3>1, <3>2, <3>3, <3>4
  <2> QED
    BY <2>1, <2>2, <2>4
<1>5. ASSUME NEW c \in Consumers
      PROVE  con'[c].st = con[c].st /\ Undelayed(con'[c])
  <2>1. CASE c = spawned
    BY <1>4, <2>1 DEF PlainInv, OneAlive, Undelayed
  <2>2. CASE c # spawned
    <3>1. con'[c] = con[c]
      BY <2>2 DEF PlainInv, OneAlive, Emit
    <3> QED
      BY <3>1 DEF PlainInv, OneAlive
  <2> QED
    BY <2>1, <2>2
<1>6. Len(con'[spawned].rx) <= sent + 1
  BY <1>1, <1>2, <1>4
<1> QED
  BY <1>2, <1>4, <1>5, <1>6

\* Undisturbed, what a run has sent is with its one consumer.
LEMMA PlainRunStepKeeps ==
  ASSUME StreamAssumption, Undisturbed, StreamInv, StreamInv', PlainInv,
         RunStep \/ Timeout \/ OtherEvent
  PROVE  PlainInv'
<1> DEFINE me == con[spawned]
<1>0. OneAlive /\ RunHolds /\ RunTyped /\ RunTyped'
  BY DEF PlainInv, StreamInv, StreamTyped
<1>a. pc \notin {"toolcall", "tools"} /\ iter = 1 /\ iter' = 1
  BY <1>0, BoundsTyped DEF Undisturbed, RunTyped
<1>b. ASSUME settled' = settled, screen' = screen, spawned' = spawned,
             pc' \notin {"start", "over"} => pc \notin {"start", "over"}
      PROVE  SettledIsOver' /\ AnswerReachesUser' /\ AnswerShownOnce'
  BY <1>0, <1>b, SettledStays DEF OneAlive
<1>1. CASE Spawn
  <2>1. /\ spawned + 1 \in Consumers /\ spawned' = spawned + 1 /\ pc' = "stream" /\ pc = "start"
        /\ sent' = 0 /\ result' = "none" /\ screen' = screen /\ settled' = settled
        /\ con' = [con EXCEPT ![spawned + 1] = NewConsumer]
    BY <1>0, <1>1, BoundsTyped DEF Spawn, RunTyped, Consumers
  <2>2. /\ con'[spawned + 1] = NewConsumer /\ screen[spawned + 1] = {}
        /\ \A c \in Consumers : c # spawned + 1 => con'[c] = con[c]
    BY <1>0, <2>1 DEF StreamInv, StreamTyped, ConsumersTyped, OwnText, RunTyped
  <2>3. /\ Undelayed(NewConsumer) /\ TextOf(NewConsumer) = {} /\ NewConsumer.rx = <<>>
        /\ NewConsumer.acc = {} /\ ~NewConsumer.hasId /\ NewConsumer.st = "drain"
        /\ ToSet(NewConsumer.rx) = {} /\ ~NewConsumer.done /\ Len(NewConsumer.rx) = 0
    <3>1. ToSet(<<>>) = {}
      BY DEF ToSet
    <3> QED
      BY <3>1 DEF Undelayed, NewConsumer, TextOf
  <2>4. SentText' = {}
    BY <2>1 DEF SentText
  <2>5. OneAlive'
    BY <1>0, <2>1, <2>2, <2>3 DEF OneAlive, Alive
  <2>6. RunHolds'
    BY <2>1, <2>2, <2>3, <2>4 DEF RunHolds, Holds
  <2>7. SettledIsOver' /\ AnswerReachesUser' /\ AnswerShownOnce'
    BY <1>0, <2>1, SettledStays DEF OneAlive
  <2> QED
    BY <2>5, <2>6, <2>7 DEF PlainInv
<1>2. CASE EmitText
  <2>1. /\ pc = "stream" /\ pc' = "stream" /\ sent' = sent + 1 /\ sent + 1 \in 1 .. Chunks
        /\ UNCHANGED <<result, spawned, screen, settled>>
    BY <1>0, <1>2 DEF EmitText, RunTyped
  <2>2. spawned \in Consumers /\ Holds(me, screen[spawned]) /\ sent \in Nat
    BY <2>1, CurrentHolds
  <2>3. PICK chunk : chunk = <<spawned, 1, sent + 1>>
    OBVIOUS
  <2>4. chunk \in Text /\ Emit(chunk) /\ chunk # Done
    <3>1. chunk \in Text
      BY <2>1, <2>2, <2>3, BoundsTyped DEF Text
    <3> QED
      BY <1>2, <1>a, <2>3, <3>1, DoneIsNoText DEF EmitText
  <2>5. /\ \A c \in Consumers : con'[c].st = con[c].st /\ Undelayed(con'[c])
        /\ me.st \in {"drain", "events", "show"}
        /\ TextOf(con'[spawned]) = SentText \cup ({chunk} \ {Done})
        /\ Len(con'[spawned].rx) <= sent + 1
        /\ ToSet(con'[spawned].rx) = ToSet(me.rx) \cup {chunk}
        /\ Done \notin ToSet(me.rx) /\ ~con'[spawned].done
        /\ con'[spawned].acc = me.acc /\ con'[spawned].hasId = me.hasId
    BY <2>1, <2>4, ChunkArrives
  <2>6. SentText' = SentText \cup {chunk}
    <3>1. 1 .. sent + 1 = (1 .. sent) \cup {sent + 1}
      BY <2>2
    <3>2. SentText' = {<<spawned, 1, k>> : k \in 1 .. sent + 1}
      BY <2>1 DEF SentText
    <3> QED
      BY <2>3, <3>1, <3>2 DEF SentText
  <2>7. OneAlive'
    BY <1>0, <2>1, <2>5 DEF OneAlive, Alive
  <2>8. Holds(con[spawned], screen[spawned])'
    BY <2>1, <2>2, <2>4, <2>5, <2>6 DEF Holds
  <2>9. RunHolds'
    BY <2>1, <2>8 DEF RunHolds
  <2> QED
    BY <1>b, <2>1, <2>7, <2>9 DEF PlainInv
<1>3. CASE EmitDone \/ SeeCancelled
  <2>1. /\ pc = "stream" /\ pc' = "join" /\ Emit(Done) /\ result' \in {"ok", "cancelled"}
        /\ result' = "ok" => sent = Chunks
        /\ UNCHANGED <<sent, spawned, screen, settled>>
    BY <1>0, <1>3, <1>a, BoundsTyped DEF EmitDone, SeeCancelled, AtHead, RunTyped, Undisturbed
  <2>2. spawned \in Consumers /\ Holds(me, screen[spawned]) /\ sent \in Nat
    BY <2>1, CurrentHolds
  <2>3. /\ \A c \in Consumers : con'[c].st = con[c].st /\ Undelayed(con'[c])
        /\ me.st \in {"drain", "events", "show"}
        /\ TextOf(con'[spawned]) = SentText \cup ({Done} \ {Done})
        /\ Len(con'[spawned].rx) <= sent + 1 /\ ~con'[spawned].done
        /\ con'[spawned].acc = me.acc /\ con'[spawned].hasId = me.hasId
    BY <2>1, ChunkArrives
  <2>4. SentText' = SentText
    BY <2>1 DEF SentText
  <2>5. OneAlive'
    BY <1>0, <2>1, <2>3 DEF OneAlive, Alive
  <2>6. Holds(con[spawned], screen[spawned])'
    BY <2>1, <2>2, <2>3, <2>4 DEF Holds
  <2>7. RunHolds'
    BY <2>1, <2>6 DEF RunHolds
  <2> QED
    BY <1>b, <2>1, <2>5, <2>7 DEF PlainInv
<1>4. CASE RetryRun
  <2>1. /\ pc = "stream" /\ pc' = "start" /\ UNCHANGED <<spawned, screen, settled>>
        /\ con' = [con EXCEPT ![spawned].st = IF Alive(spawned) THEN "aborted" ELSE @]
    BY <1>4 DEF RetryRun
  <2>2. spawned \in Consumers /\ con \in [Consumers -> ConsumerRecord] /\ me.st # "aborted"
    <3>1. me.st \in {"drain", "events", "show", "ended"}
      BY <2>1, CurrentHolds DEF Holds
    <3> QED
      BY <2>1, <3>1, CurrentHolds
  <2>3. con' = [con EXCEPT ![spawned] = [me EXCEPT !.st = IF Alive(spawned) THEN "aborted" ELSE me.st]]
    BY <2>1, <2>2
  <2>4. ASSUME NEW c \in Consumers
        PROVE  ~Alive(c)' /\ Undelayed(con'[c])
    <3>1. CASE c # spawned
      BY <1>0, <2>2, <2>3, <3>1 DEF OneAlive, Alive
    <3>2. CASE c = spawned
      <4>1. con'[c] = [me EXCEPT !.st = IF Alive(spawned) THEN "aborted" ELSE me.st]
        BY <2>2, <2>3, <3>2
      <4>2. /\ con'[c].lagged = me.lagged /\ con'[c].edits = me.edits
            /\ con'[c].break = me.break /\ con'[c].ev = me.ev
            /\ con'[c].st = IF Alive(spawned) THEN "aborted" ELSE me.st
        BY <2>2, <4>1 DEF ConsumerRecord
      <4>3. ~Alive(c)'
        BY <3>2, <4>2 DEF Alive
      <4> QED
        BY <1>0, <3>2, <4>2, <4>3 DEF OneAlive, Undelayed
    <3> QED
      BY <3>1, <3>2
  <2>5. OneAlive' /\ RunHolds'
    BY <1>0, <2>1, <2>4 DEF OneAlive, RunHolds
  <2> QED
    BY <1>b, <2>1, <2>5 DEF PlainInv
<1>5. CASE FailRun
  <2>1. /\ pc = "stream" /\ pc' = "join" /\ result' = "error"
        /\ UNCHANGED <<sent, spawned, con, screen, settled>>
    BY <1>5 DEF FailRun
  <2>2. Holds(me, screen[spawned]) /\ sent \in Nat /\ Len(me.rx) \in Nat
    BY <2>1, CurrentHolds
  <2>3. SentText' = SentText
    BY <2>1 DEF SentText
  <2>4. Holds(con[spawned], screen[spawned])'
    BY <2>1, <2>2, <2>3 DEF Holds
  <2>5. OneAlive' /\ RunHolds'
    BY <1>0, <2>1, <2>4 DEF OneAlive, RunHolds, Alive
  <2> QED
    BY <1>b, <2>1, <2>5 DEF PlainInv
<1>6. CASE Join
  <2>1. /\ pc = "join" /\ pc' = "reply" /\ me.st = "ended"
        /\ UNCHANGED <<sent, result, spawned, con, screen, settled>>
    BY <1>6 DEF Join
  <2>2. Holds(me, screen[spawned]) /\ (result = "ok" => sent = Chunks)
    BY <1>0, <2>1 DEF RunHolds
  <2>3. SentText' = SentText
    BY <2>1 DEF SentText
  <2>4. Holds(con[spawned], screen[spawned])'
    BY <2>1, <2>2, <2>3 DEF Holds
  <2>5. RunHolds'
    BY <2>1, <2>2, <2>4 DEF RunHolds
  <2>6. OneAlive'
    BY <1>0, <2>1 DEF OneAlive, Alive
  <2> QED
    BY <1>b, <2>1, <2>5, <2>6 DEF PlainInv
<1>7. CASE Reply
  <2>1. PICK how : how = IF result # "error" /\ me.hasId THEN "streamed" ELSE "published"
    OBVIOUS
  <2>2. /\ pc = "reply" /\ pc' \in {"start", "over"} /\ settled' = settled \cup {Settlement(how)}
        /\ UNCHANGED <<iter, sent, result, spawned, con, screen, others>>
    BY <1>7, <2>1 DEF Reply, EndRun
  <2>3. /\ spawned \in Consumers /\ Holds(me, screen[spawned]) /\ me.st = "ended"
        /\ result = "ok" => sent = Chunks
    BY <1>0, <2>2, CurrentHolds DEF RunHolds
  <2>4. /\ screen[spawned] = me.acc /\ me.acc = SentText /\ (me.hasId <=> screen[spawned] # {})
        /\ result \in {"ok", "cancelled"}
    <3>1. me.rx = <<>> /\ ToSet(<<>>) = {}
      BY <2>3 DEF Holds, ToSet
    <3> QED
      BY <2>3, <3>1 DEF Holds, TextOf
  <2>5. /\ result = "ok" => Answer = SentText
        /\ Answer \subseteq Own(spawned)
    BY <1>a, <2>3, BoundsTyped DEF Answer, SentText, Own, Text
  <2> DEFINE new == Settlement(how)
  <2>6. /\ new.by = spawned /\ new.how = how /\ new.result = result
        /\ new.answer = IF result = "ok" THEN Answer ELSE {}
    BY DEF Settlement
  <2> HIDE DEF new
  <2>7. SettledIsOver'
    <3>1. \A s \in settled : s.answer \subseteq Own(s.by) /\ s.by <= spawned
      BY DEF PlainInv, SettledIsOver
    <3>2. new.answer \subseteq Own(new.by) /\ new.by <= spawned
      BY <2>3, <2>5, <2>6 DEF Consumers
    <3> QED
      BY <2>2, <3>1, <3>2 DEF SettledIsOver, new
  <2>8. AnswerReachesUser'
    <3>1. \A s \in settled : s.result = "ok" /\ s.how # "timeout" => s.answer \subseteq Seen(s)
      BY DEF PlainInv, AnswerReachesUser
    <3>2. new.result = "ok" => new.answer \subseteq Seen(new)
      BY <2>1, <2>3, <2>4, <2>5, <2>6 DEF Seen
    <3>3. \A s : Seen(s)' = UNION {screen[c] : c \in Consumers}
                            \cup (IF s.how = "published" THEN s.answer ELSE {})
      BY <2>2 DEF Seen
    <3> QED
      BY <2>2, <3>1, <3>2, <3>3 DEF AnswerReachesUser, Seen, new
  <2>9. AnswerShownOnce'
    <3>1. \A s \in settled : s.how = "published" => screen[s.by] \cap s.answer = {}
      BY DEF PlainInv, AnswerShownOnce
    <3>2. new.how = "published" => screen[new.by] \cap new.answer = {}
      BY <2>1, <2>4, <2>6
    <3>3. \A c, d \in Consumers : c # d => screen[c] \cap screen[d] = {}
      BY <1>0 DEF OneAlive, Own
    <3> QED
      BY <2>2, <3>1, <3>2, <3>3 DEF AnswerShownOnce, new
  <2>10. OneAlive' /\ RunHolds'
    BY <1>0, <2>2, <2>3 DEF OneAlive, RunHolds, Alive
  <2> QED
    BY <2>7, <2>8, <2>9, <2>10 DEF PlainInv
<1>8. CASE OtherEvent
  <2>1. EmitEvent("other") /\ UNCHANGED <<pc, iter, sent, result, spawned, screen, settled>>
    BY <1>8 DEF OtherEvent, runVars
  <2>2. ASSUME NEW c \in Consumers
        PROVE  /\ con'[c].st = con[c].st /\ con'[c].rx = con[c].rx /\ con'[c].acc = con[c].acc
               /\ con'[c].done = con[c].done /\ con'[c].hasId = con[c].hasId
               /\ Undelayed(con'[c])
    <3>1. con[c] \in ConsumerRecord /\ Undelayed(con[c])
      BY <1>0 DEF OneAlive, StreamInv, StreamTyped, ConsumersTyped
    <3>2. CASE ~Alive(c)
      BY <2>1, <3>1, <3>2 DEF EmitEvent
    <3>3. CASE Alive(c)
      <4> DEFINE ev == Append(con[c].ev, "other")
      <4>1. con'[c] = [con[c] EXCEPT !.ev = ev]
        BY <2>1, <3>3 DEF EmitEvent
      <4>2. con[c].ev \in Seq({"tool", "other"})
        BY <3>1 DEF ConsumerRecord
      <4>3. \A i \in 1 .. Len(ev) : ev[i] = "other"
        BY <3>1, <4>2 DEF Undelayed
      <4> HIDE DEF ev
      <4>4. /\ con'[c].st = con[c].st /\ con'[c].rx = con[c].rx /\ con'[c].acc = con[c].acc
            /\ con'[c].done = con[c].done /\ con'[c].hasId = con[c].hasId
            /\ con'[c].lagged = con[c].lagged /\ con'[c].edits = con[c].edits
            /\ con'[c].break = con[c].break /\ con'[c].ev = ev
        BY <3>1, <4>1 DEF ConsumerRecord
      <4> QED
        BY <3>1, <4>3, <4>4 DEF Undelayed
    <3> QED
      BY <3>2, <3>3
  <2>3. OneAlive'
    BY <1>0, <2>1, <2>2 DEF OneAlive, Alive
  <2>4. RunHolds'
    <3>1. SentText' = SentText
      BY <2>1 DEF SentText
    <3>2. ASSUME pc \in {"stream", "join", "reply"}
          PROVE  Holds(con[spawned], screen[spawned])' /\ con'[spawned].st = me.st
      <4>1. spawned \in Consumers /\ Holds(me, screen[spawned])
        BY <3>2, CurrentHolds
      <4> QED
        BY <2>1, <2>2, <3>1, <4>1 DEF Holds, TextOf
    <3> QED
      BY <1>0, <2>1, <3>2 DEF RunHolds
  <2> QED
    BY <1>b, <2>1, <2>3, <2>4 DEF PlainInv
<1> QED
  BY <1>1, <1>2, <1>3, <1>4, <1>5, <1>6, <1>7, <1>8, <1>a
     DEF RunStep, EmitToolCall, NextIteration, Timeout, Undisturbed

\* A poll of the current consumer that comes to r, still holding what was sent.
LEMMA PlainPollKeeps ==
  ASSUME StreamAssumption, StreamInv, StreamInv', PlainInv,
         pc \in {"stream", "join"}, NEW r \in ConsumerRecord,
         con' = [con EXCEPT ![spawned] = r], Undelayed(r),
         NEW new \in SUBSET con[spawned].acc, screen' = [screen EXCEPT ![spawned] = @ \cup new],
         Holds(r, screen[spawned] \cup new),
         UNCHANGED <<runVars, spawned, settled, others>>
  PROVE  PlainInv'
<1>1. /\ spawned \in Consumers /\ con \in [Consumers -> ConsumerRecord]
      /\ con[spawned].acc \subseteq Own(spawned) /\ OneAlive /\ RunHolds
      /\ screen \in [Consumers -> SUBSET Text]
  <2>1. /\ spawned \in Consumers /\ spawned >= 1 /\ con \in [Consumers -> ConsumerRecord]
        /\ screen \in [Consumers -> SUBSET Text]
    BY BoundsTyped DEF StreamInv, StreamTyped, RunTyped, ConsumersTyped, Consumers
  <2> QED
    BY <2>1 DEF StreamInv, OwnText, TextOf, PlainInv
<1>2. /\ con'[spawned] = r /\ screen'[spawned] = screen[spawned] \cup new
      /\ \A c \in Consumers : c # spawned => con'[c] = con[c] /\ screen'[c] = screen[c]
  BY <1>1
<1>3. OneAlive'
  <2> SUFFICES ASSUME NEW c \in Consumers
               PROVE  /\ Alive(c)' => c = spawned
                      /\ Undelayed(con'[c]) /\ screen'[c] \subseteq Own(c)
    BY DEF OneAlive, runVars
  <2>1. CASE c = spawned
    BY <1>1, <1>2, <2>1 DEF OneAlive
  <2>2. CASE c # spawned
    BY <1>1, <1>2, <2>2 DEF OneAlive, Alive
  <2> QED
    BY <2>1, <2>2
<1>4. RunHolds'
  <2>1. SentText' = SentText /\ UNCHANGED <<pc, sent, result, spawned>>
    BY DEF SentText, runVars
  <2>2. Holds(con[spawned], screen[spawned])'
    BY <1>2, <2>1 DEF Holds
  <2> QED
    BY <1>1, <2>1, <2>2 DEF RunHolds
<1>5. SettledIsOver' /\ AnswerReachesUser' /\ AnswerShownOnce'
  <2>1. pc' = pc
    BY DEF runVars
  <2>2. \A c \in Consumers : /\ screen[c] \subseteq screen'[c] /\ screen'[c] \subseteq Own(c)
                             /\ screen'[c] # screen[c] => c = spawned
    BY <1>1, <1>2 DEF OneAlive
  <2> QED
    BY <2>1, <2>2, SettledStays
<1> QED
  BY <1>3, <1>4, <1>5 DEF PlainInv

\* Undisturbed, a consumer loses nothing of what it takes out of its buffer.
LEMMA PlainConsumerStepKeeps ==
  ASSUME StreamAssumption, Undisturbed, StreamInv, StreamInv', PlainInv,
         NEW c \in Consumers, ConsumerStep(c)
  PROVE  PlainInv'
<1> DEFINE me == con[c]
           shown == screen[c]
<1>1. Alive(c) /\ UNCHANGED <<runVars, spawned, settled, others>>
  BY DEF ConsumerStep, Drain, ReadEvents, ShowText, FailToShow, ShowNothing, Alive
<1>2. c = spawned /\ pc \in {"stream", "join"}
  BY <1>1 DEF PlainInv, OneAlive
<1>3. /\ me \in ConsumerRecord /\ Holds(me, shown) /\ Undelayed(me) /\ sent \in Nat
      /\ con \in [Consumers -> ConsumerRecord] /\ screen \in [Consumers -> SUBSET Text]
      /\ shown \subseteq me.acc /\ me.st # "ended"
  BY <1>1, <1>2, CurrentHolds DEF Holds, Alive, StreamInv, StreamTyped, ConsumersTyped
<1>4. ASSUME NEW r \in ConsumerRecord, con' = [con EXCEPT ![c] = r], Undelayed(r),
             NEW new \in SUBSET me.acc, screen' = [screen EXCEPT ![c] = @ \cup new],
             Holds(r, shown \cup new)
      PROVE  PlainInv'
  BY <1>1, <1>2, <1>4, PlainPollKeeps
<1>5. ASSUME screen' = screen, NEW r \in ConsumerRecord, con' = [con EXCEPT ![c] = r],
             Undelayed(r), Holds(r, shown)
      PROVE  PlainInv'
  <2>1. PICK none : none = {}
    OBVIOUS
  <2>2. /\ none \in SUBSET me.acc /\ screen' = [screen EXCEPT ![c] = @ \cup none]
        /\ shown \cup none = shown
    BY <1>3, <1>5, <2>1
  <2> HIDE DEF me, shown
  <2> QED
    BY <1>4, <1>5, <2>2
<1> HIDE DEF me, shown
<1>6. CASE Drain(c)
  <2> DEFINE all == me.acc \cup (ToSet(me.rx) \ {Done})
             over == Done \in ToSet(me.rx)
             r == [me EXCEPT !.st = "events", !.rx = <<>>, !.acc = all, !.done = over]
  <2>1. /\ con' = [con EXCEPT ![c] = r] /\ screen' = screen
    BY <1>3, <1>6 DEF Drain, Undelayed, me
  <2>2. all \in SUBSET Text /\ over \in BOOLEAN /\ <<>> \in Seq(Text \cup {Done}) /\ all = TextOf(me)
    <3>1. me.rx \in Seq(Text \cup {Done}) /\ me.acc \subseteq Text
      BY <1>3 DEF ConsumerRecord
    <3>2. ToSet(me.rx) \subseteq Text \cup {Done}
      BY <3>1, SetOfSequence
    <3> QED
      BY <3>1, <3>2 DEF TextOf
  <2> HIDE DEF all
  <2>3. /\ r \in ConsumerRecord /\ r.st = "events" /\ r.rx = <<>> /\ r.acc = all
        /\ r.done = over /\ r.lagged = me.lagged /\ r.ev = me.ev /\ r.break = me.break
        /\ r.hasId = me.hasId /\ r.edits = me.edits
    <3> HIDE DEF over
    <3> QED
      BY <1>3, <2>2 DEF ConsumerRecord, States
  <2>4. ToSet(<<>>) = {} /\ Len(<<>>) = 0
    BY DEF ToSet
  <2> HIDE DEF r
  <2>5. TextOf(r) = TextOf(me)
    BY <2>2, <2>3, <2>4 DEF TextOf
  <2>6. shown \subseteq all
    BY <1>3 DEF all
  <2>7. Undelayed(r) /\ Holds(r, shown)
    <3>1. Undelayed(r)
      BY <1>3, <2>3 DEF Undelayed
    <3>2. r.done => Done \in ToSet(me.rx)
      BY <2>3
    <3>3. r.done => pc \in {"join", "reply"} /\ result \in {"ok", "cancelled"}
      BY <1>3, <3>2 DEF Holds
    <3>4. /\ Len(r.rx) <= sent + (IF pc = "stream" THEN 0 ELSE 1)
          /\ Done \notin ToSet(r.rx) /\ shown \subseteq r.acc /\ (r.hasId <=> shown # {})
      BY <1>3, <2>3, <2>4, <2>6 DEF Holds
    <3>5. TextOf(r) = SentText
      BY <1>3, <2>5 DEF Holds
    <3> QED
      BY <2>3, <3>1, <3>3, <3>4, <3>5 DEF Holds
  <2> QED
    BY <1>5, <2>1, <2>3, <2>7
<1>7. CASE ReadEvents(c)
  <2>1. PICK k \in 0 .. Len(me.ev) :
          /\ \A i \in 1 .. k : me.ev[i] = "tool"
          /\ con' = [con EXCEPT ![c].st = "show", ![c].break = k > 0,
                                ![c].ev = SubSeq(me.ev, k + 2, Len(me.ev))]
    BY <1>7 DEF ReadEvents, me
  <2> DEFINE left == SubSeq(me.ev, k + 2, Len(me.ev))
             r == [me EXCEPT !.st = "show", !.break = FALSE, !.ev = left]
  <2>2. me.ev \in Seq({"tool", "other"}) /\ Len(me.ev) \in Nat
    BY <1>3 DEF ConsumerRecord
  <2>3. k = 0
    <3>1. ASSUME k # 0
          PROVE  FALSE
      <4>1. 1 \in 1 .. k /\ 1 \in 1 .. Len(me.ev)
        BY <2>2, <3>1
      <4>2. me.ev[1] = "tool" /\ me.ev[1] = "other"
        BY <1>3, <2>1, <4>1 DEF Undelayed
      <4> QED
        BY <4>2
    <3> QED
      BY <3>1
  <2>4. con' = [con EXCEPT ![c] = r] /\ screen' = screen
    <3>1. (k > 0) = FALSE
      BY <2>3
    <3>2. con' = [con EXCEPT ![c].st = "show", ![c].break = FALSE, ![c].ev = left]
      BY <2>1, <3>1
    <3> HIDE DEF left
    <3> QED
      BY <1>3, <1>7, <3>2 DEF ReadEvents, me
  <2>5. left \in Seq({"tool", "other"}) /\ \A i \in 1 .. Len(left) : left[i] = "other"
    <3>1. k + 2 = 2
      BY <2>3
    <3>2. /\ SubSeq(me.ev, 2, Len(me.ev)) \in Seq({"tool", "other"})
          /\ \A i \in 1 .. Len(SubSeq(me.ev, 2, Len(me.ev))) :
               i + 1 \in 1 .. Len(me.ev) /\ SubSeq(me.ev, 2, Len(me.ev))[i] = me.ev[i + 1]
      BY <2>2
    <3> QED
      BY <1>3, <3>1, <3>2 DEF Undelayed
  <2> HIDE DEF left
  <2>6. /\ r \in ConsumerRecord /\ r.st = "show" /\ r.rx = me.rx /\ r.acc = me.acc
        /\ r.done = me.done /\ r.lagged = me.lagged /\ r.ev = left /\ r.break = FALSE
        /\ r.hasId = me.hasId /\ r.edits = me.edits
    BY <1>3, <2>5 DEF ConsumerRecord, States
  <2> HIDE DEF r
  <2>7. Undelayed(r) /\ Holds(r, shown)
    BY <1>3, <2>5, <2>6 DEF Undelayed, Holds, TextOf
  <2> QED
    BY <1>5, <2>4, <2>6, <2>7
<1>8. CASE ShowText(c)
  <2> DEFINE q == [me EXCEPT !.hasId = TRUE]
             r == [q EXCEPT !.st = IF me.done THEN "ended" ELSE "drain"]
  <2>1. q.break = FALSE /\ q.done = me.done /\ q \in ConsumerRecord
    BY <1>3 DEF ConsumerRecord, Undelayed
  <2>2. /\ screen' = [screen EXCEPT ![c] = @ \cup me.acc] /\ me.acc # {}
        /\ con' = [con EXCEPT ![c] = EndPoll(q)]
    BY <1>3, <1>8 DEF ShowText, me
  <2>3. EndPoll(q) = r
    BY <2>1 DEF EndPoll
  <2>4. /\ r \in ConsumerRecord /\ r.rx = me.rx /\ r.acc = me.acc
        /\ r.done = me.done /\ r.lagged = me.lagged /\ r.ev = me.ev /\ r.break = me.break
        /\ r.hasId = TRUE /\ r.edits = me.edits
        /\ r.st = IF me.done THEN "ended" ELSE "drain"
    BY <1>3 DEF ConsumerRecord, States
  <2> HIDE DEF r, q
  <2>5. Undelayed(r) /\ Holds(r, shown \cup me.acc)
    <3>1. shown \cup me.acc = me.acc
      BY <1>3
    <3> QED
      BY <1>3, <2>2, <2>4, <3>1 DEF Undelayed, Holds, TextOf
  <2>6. con' = [con EXCEPT ![c] = r] /\ me.acc \in SUBSET me.acc
    BY <2>2, <2>3
  <2> QED
    BY <1>4, <2>2, <2>4, <2>5, <2>6
<1>9. CASE ShowNothing(c)
  <2> DEFINE r == [me EXCEPT !.st = IF me.done THEN "ended" ELSE "drain"]
  <2>1. con' = [con EXCEPT ![c] = EndPoll(me)] /\ screen' = screen
        /\ (me.acc = {} \/ ~me.done)
    BY <1>3, <1>9 DEF ShowNothing, Undelayed, me
  <2>2. EndPoll(me) = r
    BY <1>3 DEF EndPoll, Undelayed
  <2>3. /\ r \in ConsumerRecord /\ r.rx = me.rx /\ r.acc = me.acc
        /\ r.done = me.done /\ r.lagged = me.lagged /\ r.ev = me.ev /\ r.break = me.break
        /\ r.hasId = me.hasId /\ r.edits = me.edits
        /\ r.st = IF me.done THEN "ended" ELSE "drain"
    BY <1>3 DEF ConsumerRecord, States
  <2> HIDE DEF r
  <2>4. Undelayed(r) /\ Holds(r, shown)
    BY <1>3, <2>1, <2>3 DEF Undelayed, Holds, TextOf
  <2> QED
    BY <1>5, <2>1, <2>2, <2>3, <2>4
<1>10. ~FailToShow(c)
  BY DEF FailToShow, Undisturbed
<1> QED
  BY <1>6, <1>7, <1>8, <1>9, <1>10 DEF ConsumerStep

\* Every step keeps the invariant of an undisturbed stream.
LEMMA PlainInvStep ==
  ASSUME StreamAssumption, Undisturbed, StreamInv, StreamInv', PlainInv, [Next]_vars
  PROVE  PlainInv'
<1>1. CASE RunStep \/ Timeout \/ OtherEvent
  BY <1>1, PlainRunStepKeeps
<1>2. ASSUME NEW c \in Consumers, ConsumerStep(c)
      PROVE  PlainInv'
  BY <1>2, PlainConsumerStepKeeps
<1>3. CASE UNCHANGED vars
  <2>1. UNCHANGED <<pc, run, iter, sent, result, spawned, con, screen, settled, others>>
    BY <1>3 DEF vars, runVars
  <2>2. OneAlive' /\ RunHolds' /\ SettledIsOver' /\ AnswerReachesUser' /\ AnswerShownOnce'
    BY <2>1 DEF PlainInv, OneAlive, Alive, RunHolds, Holds, SentText, SettledIsOver,
                AnswerReachesUser, Seen, AnswerShownOnce
  <2> QED
    BY <2>2 DEF PlainInv
<1> QED
  BY <1>1, <1>2, <1>3 DEF Next

\* It holds before the first run.
LEMMA PlainInvInit ==
  ASSUME StreamAssumption, Init
  PROVE  PlainInv
<1> DEFINE unborn == [NewConsumer EXCEPT !.st = "unborn"]
<1>1. con = [c \in Consumers |-> unborn] /\ screen = [c \in Consumers |-> {}] /\ settled = {}
      /\ pc = "start"
  BY DEF Init
<1>2. unborn.st = "unborn" /\ Undelayed(unborn)
  BY DEF NewConsumer, Undelayed
<1> HIDE DEF unborn
<1>3. OneAlive
  BY <1>1, <1>2 DEF OneAlive, Alive
<1>4. RunHolds /\ SettledIsOver /\ AnswerReachesUser /\ AnswerShownOnce
  BY <1>1 DEF RunHolds, SettledIsOver, AnswerReachesUser, AnswerShownOnce
<1> QED
  BY <1>3, <1>4 DEF PlainInv

-----------------------------------------------------------------------------
(* What follows for every behaviour.                                        *)

\* The inductive invariant of every behaviour of the stream.
THEOREM StreamInvariant ==
  ASSUME StreamAssumption
  PROVE  Spec => []StreamInv
<1>1. Init => StreamInv
  BY StreamInvInit
<1>2. StreamInv /\ [Next]_vars => StreamInv'
  BY StreamInvStep
<1> QED
  BY <1>1, <1>2, PTL DEF Spec

\* The inductive invariant says what the types are.
LEMMA InvTyped ==
  ASSUME StreamInv
  PROVE  TypeOK
<1>1. ASSUME NEW c \in Consumers
      PROVE  /\ con[c].st \in States
             /\ ToSet(con[c].rx) \subseteq Text \cup {Done} /\ Len(con[c].rx) <= StreamCap
             /\ ToSet(con[c].ev) \subseteq {"tool", "other"} /\ con[c].acc \subseteq Text
             /\ screen[c] \subseteq Text
  <2>1. /\ con[c] \in ConsumerRecord /\ Len(con[c].rx) <= StreamCap
        /\ screen[c] \subseteq Text
    BY DEF StreamInv, StreamTyped, ConsumersTyped
  <2>2. /\ con[c].rx \in Seq(Text \cup {Done}) /\ con[c].ev \in Seq({"tool", "other"})
        /\ con[c].st \in States /\ con[c].acc \subseteq Text
    BY <2>1 DEF ConsumerRecord
  <2> QED
    BY <2>1, <2>2, SetOfSequence
<1>2. \A s \in settled : s.answer \subseteq Text /\ s.how \in {"streamed", "published", "timeout"}
  BY DEF StreamInv, StreamTyped, ConsumersTyped, Settlements
<1> QED
  BY <1>1, <1>2 DEF TypeOK, StreamInv, StreamTyped, RunTyped, Pcs, States

\* Types, and no receiver's buffer exceeds the capacity of the broadcast.
THEOREM StreamsTyped ==
  ASSUME StreamAssumption
  PROVE  Spec => []TypeOK
BY InvTyped, StreamInvariant, PTL

\* process_message suppresses the answer only when the consumer it waited for
\* put text of this very attempt before the user, whatever is refused, forgotten,
\* retried or cut off by a deadline.
THEOREM SuppressionIsEarned ==
  ASSUME StreamAssumption
  PROVE  Spec => []SuppressedWasSeen
<1>1. StreamInv => SuppressedWasSeen
  BY DEF StreamInv
<1> QED
  BY <1>1, StreamInvariant, PTL

\* Without tools, refusals, deadlines and overflow, an answer reaches the user
\* whole, however many chunks it has and however often attempts are retried ...
THEOREM AnswersReachUsers ==
  ASSUME StreamAssumption, Undisturbed
  PROVE  Spec => []AnswerReachesUser
<1>1. Init => StreamInv /\ PlainInv
  BY StreamInvInit, PlainInvInit
<1>2. StreamInv /\ PlainInv /\ [Next]_vars => StreamInv' /\ PlainInv'
  BY StreamInvStep, PlainInvStep
<1>3. PlainInv => AnswerReachesUser
  BY DEF PlainInv
<1> QED
  BY <1>1, <1>2, <1>3, PTL DEF Spec

\* ... and none of it twice, neither by two consumers nor by a consumer and the
\* outbound queue.
THEOREM AnswersShownOnce ==
  ASSUME StreamAssumption, Undisturbed
  PROVE  Spec => []AnswerShownOnce
<1>1. Init => StreamInv /\ PlainInv
  BY StreamInvInit, PlainInvInit
<1>2. StreamInv /\ PlainInv /\ [Next]_vars => StreamInv' /\ PlainInv'
  BY StreamInvStep, PlainInvStep
<1>3. PlainInv => AnswerShownOnce
  BY DEF PlainInv
<1> QED
  BY <1>1, <1>2, <1>3, PTL DEF Spec
=============================================================================
