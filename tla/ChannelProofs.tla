--------------------------- MODULE ChannelProofs ----------------------------
(***************************************************************************)
(* Proofs about the channel manager and the platform adapters: one part    *)
(* for each instance of Channels, with its inductive invariant, and a last *)
(* part that puts them side by side.                                       *)
(***************************************************************************)
EXTENDS Channels, FiniteSetTheorems, TLAPS

-----------------------------------------------------------------------------
(* TelegramChannel: no update is forgotten, none is handled twice           *)

PollTyped ==
  /\ tPhase \in {"poll", "batch", "sleep", "stopped"}
  /\ tRunning \in BOOLEAN /\ tStale \in BOOLEAN /\ tProxyUp \in BOOLEAN
  /\ tOffset \in 0 .. MaxUpdates + 1 /\ tBackoff \in 1 .. MaxBackoff
  /\ tFailures \in 0 .. Threshold
  /\ tBatch \in Seq(Telegram!Updates) /\ tTaken \in Seq(Telegram!Updates)
  /\ tInbox \in Seq(Telegram!Updates) /\ Len(tInbox) <= InboxCap
  /\ tArrived \in 0 .. MaxUpdates /\ tConfirmed \in Nat
  /\ tFaults \in Nat /\ tRestarts \in Nat
  /\ tHandled \subseteq Telegram!Updates

\* The response still to be handled begins after what is confirmed or will be,
\* has no gap, and names no update that does not exist.
BatchFollows ==
  /\ tPhase # "batch" => tBatch = <<>>
  /\ \A i \in 1 .. Len(tBatch) : tBatch[i] = Telegram!Confirm + i
  /\ Telegram!Confirm + Len(tBatch) <= tArrived

\* Whatever the next request confirms was handled.
AckFollows == \A u \in Telegram!Updates : u <= Telegram!Confirm => u \in tHandled

\* The offset is the number after the last update this process handled.
OffsetFollows == tTaken # <<>> => tOffset = tTaken[Len(tTaken)] + 1 /\ tConfirmed < tOffset

PollInv == PollTyped /\ BatchFollows /\ AckFollows /\ OffsetFollows /\ Telegram!OncePerProcess

-----------------------------------------------------------------------------
(* Lemmas about Telegram and about sequences                                *)

\* The constants as numbers.
LEMMA TelegramConstants ==
  ASSUME Telegram!TelegramAssumption
  PROVE  /\ MaxUpdates \in Nat \ {0} /\ MaxBackoff \in Nat \ {0}
         /\ Threshold \in Nat \ {0} /\ InboxCap \in Nat \ {0}
         /\ MaxFaults \in Nat /\ MaxRestarts \in Nat
         /\ Local \subseteq Telegram!Updates
BY DEF Telegram!TelegramAssumption, Telegram!Updates

\* What a request confirms: all below the offset, or what was confirmed before.
LEMMA Confirming ==
  ASSUME Telegram!TelegramAssumption, PollTyped
  PROVE  /\ Telegram!Confirm \in Nat /\ tConfirmed <= Telegram!Confirm
         /\ tOffset <= Telegram!Confirm + 1
         /\ Telegram!Confirm = tConfirmed \/ Telegram!Confirm + 1 = tOffset
BY TelegramConstants DEF PollTyped, Telegram!Confirm

\* The first member of a sequence, and the rest.
LEMMA TakingFirst ==
  ASSUME NEW S, NEW s \in Seq(S), s # <<>>
  PROVE  /\ Head(s) \in S /\ Head(s) = s[1] /\ Len(s) \in Nat \ {0}
         /\ Tail(s) \in Seq(S) /\ Len(Tail(s)) = Len(s) - 1
         /\ \A i \in 1 .. Len(s) - 1 : Tail(s)[i] = s[i + 1]
OBVIOUS

\* A sequence with one more member.
LEMMA AddingLast ==
  ASSUME NEW S, NEW s \in Seq(S), NEW e \in S
  PROVE  /\ Append(s, e) \in Seq(S) /\ Len(Append(s, e)) = Len(s) + 1
         /\ Append(s, e)[Len(s) + 1] = e /\ Len(s) \in Nat
         /\ \A i \in 1 .. Len(s) : Append(s, e)[i] = s[i]
OBVIOUS

-----------------------------------------------------------------------------
(* The invariant                                                            *)

\* A process that has just connected has nothing to confirm.
LEMMA PollInvInit ==
  ASSUME Telegram!TelegramAssumption, Telegram!Init
  PROVE  PollInv
<1> USE TelegramConstants DEF Telegram!Init, Telegram!Fresh
<1>1. tBatch = <<>> /\ tTaken = <<>> /\ tInbox = <<>>
  OBVIOUS
<1>2. Len(tBatch) = 0 /\ Len(tTaken) = 0 /\ Len(tInbox) = 0 /\ Telegram!Confirm = 0
  BY <1>1 DEF Telegram!Confirm
<1>3. PollTyped
  <2>1. <<>> \in Seq(Telegram!Updates) /\ {} \subseteq Telegram!Updates
    OBVIOUS
  <2>2. /\ tOffset \in 0 .. MaxUpdates + 1 /\ tBackoff \in 1 .. MaxBackoff
        /\ tFailures \in 0 .. Threshold /\ tArrived \in 0 .. MaxUpdates
        /\ Len(tInbox) <= InboxCap
    BY <1>2
  <2>3. /\ tBatch \in Seq(Telegram!Updates) /\ tTaken \in Seq(Telegram!Updates)
        /\ tInbox \in Seq(Telegram!Updates) /\ tHandled \subseteq Telegram!Updates
    BY <1>1, <2>1
  <2>4. QED
    BY <2>2, <2>3 DEF PollTyped
<1>4. QED
  BY <1>1, <1>2, <1>3 DEF PollInv, BatchFollows, AckFollows, OffsetFollows,
     Telegram!OncePerProcess, Telegram!Updates

\* The answer to a request confirms what it names, and begins right after.
LEMMA PollSucceedsKeeps ==
  ASSUME Telegram!TelegramAssumption, PollInv, Telegram!PollSucceeds
  PROVE  PollInv'
<1> USE TelegramConstants DEF PollInv
<1>1. /\ Telegram!Confirm \in Nat /\ tConfirmed <= Telegram!Confirm /\
           tOffset <= Telegram!Confirm + 1
      /\ tBatch = <<>> /\ Telegram!Confirm <= tArrived
  BY Confirming DEF Telegram!PollSucceeds, BatchFollows
<1>2. Telegram!Confirm' = Telegram!Confirm /\ tConfirmed' = Telegram!Confirm /\ tArrived' = tArrived
  BY <1>1 DEF Telegram!PollSucceeds, Telegram!Confirm, PollTyped
<1>3. /\ tBatch' \in Seq(Telegram!Updates)
      /\ Len(tBatch') = tArrived - Telegram!Confirm
      /\ \A i \in 1 .. Len(tBatch') : tBatch'[i] = Telegram!Confirm + i
  BY <1>1 DEF Telegram!PollSucceeds, PollTyped, Telegram!Updates
<1>4. PollTyped'
  BY <1>1, <1>2, <1>3 DEF Telegram!PollSucceeds, PollTyped, Telegram!poller, Telegram!faulty
<1>5. BatchFollows'
  BY <1>1, <1>2, <1>3 DEF Telegram!PollSucceeds, BatchFollows, PollTyped
<1>6. AckFollows'
  BY <1>2 DEF Telegram!PollSucceeds, AckFollows
<1>7. OffsetFollows'
  BY <1>1, <1>2, Confirming DEF Telegram!PollSucceeds, OffsetFollows, PollTyped
<1>8. Telegram!OncePerProcess'
  BY DEF Telegram!PollSucceeds, Telegram!OncePerProcess
<1>9. QED
  BY <1>4, <1>5, <1>6, <1>7, <1>8

\* The update handled next is the one after the last; the offset passes it.
LEMMA HandleUpdateKeeps ==
  ASSUME Telegram!TelegramAssumption, PollInv, Telegram!HandleUpdate
  PROVE  PollInv'
<1> USE TelegramConstants DEF PollInv
<1>0. /\ tOffset \in Nat /\ tConfirmed \in Nat /\ tArrived \in Nat
      /\ tOffset <= MaxUpdates + 1
  BY DEF PollTyped
<1> DEFINE u == Head(tBatch)
<1>1. /\ tBatch # <<>> /\ u \in Telegram!Updates
      /\ Len(tBatch) \in Nat \ {0} /\ u = tBatch[1] /\ 1 \in 1 .. Len(tBatch)
  BY TakingFirst DEF Telegram!HandleUpdate, PollTyped
<1>2. /\ tBatch' \in Seq(Telegram!Updates) /\ Len(tBatch') = Len(tBatch) - 1
      /\ \A i \in 1 .. Len(tBatch') : tBatch'[i] = tBatch[i + 1]
  BY <1>1, TakingFirst DEF Telegram!HandleUpdate, PollTyped
<1>3. /\ tOffset' = u + 1 /\ tHandled' = tHandled \union {u} /\ tPhase' = tPhase
      /\ tConfirmed' = tConfirmed /\ tArrived' = tArrived
  BY DEF Telegram!HandleUpdate, Telegram!Ack, Telegram!telegram
<1>4. /\ tTaken' \in Seq(Telegram!Updates) /\ Len(tTaken') = Len(tTaken) + 1
      /\ tTaken'[Len(tTaken) + 1] = u /\ Len(tTaken) \in Nat
      /\ \A i \in 1 .. Len(tTaken) : tTaken'[i] = tTaken[i]
  BY <1>1, AddingLast DEF Telegram!HandleUpdate, PollTyped
<1>5. tInbox' \in Seq(Telegram!Updates) /\ Len(tInbox') <= InboxCap
  BY <1>1, AddingLast, SMTT(30) DEF Telegram!HandleUpdate, PollTyped
<1>6. u = Telegram!Confirm + 1 /\ Telegram!Confirm \in Nat /\ tConfirmed <= Telegram!Confirm
  BY <1>1, Confirming DEF BatchFollows
<1> HIDE DEF u
<1>60. Telegram!Confirm' = u
  BY <1>0, <1>1, <1>3, <1>6 DEF Telegram!Confirm, Telegram!Updates
<1>7. PollTyped'
  <2>1. tOffset' \in 0 .. MaxUpdates + 1
    BY <1>1, <1>3 DEF Telegram!Updates
  <2>2. tHandled' \subseteq Telegram!Updates
    BY <1>1, <1>3 DEF PollTyped
  <2>3. QED
    BY <1>2, <1>3, <1>4, <1>5, <2>1, <2>2 DEF Telegram!HandleUpdate, PollTyped, Telegram!faulty
<1>8. BatchFollows'
  <2>1. tPhase' # "batch" => tBatch' = <<>>
    BY <1>3 DEF Telegram!HandleUpdate
  <2>2. Len(tBatch') \in Nat /\ Len(tBatch) \in Nat
    BY <1>1, <1>2
  <2>3. Telegram!Confirm' + Len(tBatch') <= tArrived'
    BY <1>1, <1>2, <1>3, <1>6, <1>60, <2>2 DEF BatchFollows, PollTyped
  <2>4. ASSUME NEW i \in 1 .. Len(tBatch')
        PROVE  tBatch'[i] = Telegram!Confirm' + i
    <3>1. i + 1 \in 1 .. Len(tBatch)
      BY <1>2, <2>2
    <3>2. tBatch[i + 1] = Telegram!Confirm + (i + 1)
      BY <3>1 DEF BatchFollows
    <3>3. QED
      BY <1>2, <1>6, <1>60, <3>2
  <2>5. QED
    BY <2>1, <2>3, <2>4 DEF BatchFollows
<1>9. AckFollows'
  BY <1>1, <1>3, <1>6, <1>60 DEF AckFollows, Telegram!Updates
<1>10. OffsetFollows'
  BY <1>0, <1>1, <1>3, <1>4, <1>6 DEF OffsetFollows, Telegram!Updates
<1>11. Telegram!OncePerProcess'
  <2>1. SUFFICES ASSUME NEW i \in 1 .. Len(tTaken') - 1
                 PROVE  tTaken'[i + 1] = tTaken'[i] + 1
    BY DEF Telegram!OncePerProcess
  <2>2. i \in 1 .. Len(tTaken) /\ tTaken'[i] = tTaken[i]
    BY <1>4, <2>1
  <2>3. CASE i < Len(tTaken)
    BY <1>4, <2>2, <2>3 DEF Telegram!OncePerProcess
  <2>4. CASE i = Len(tTaken)
    <3>1. tTaken # <<>>
      BY <2>2
    <3>2. tOffset = tTaken[Len(tTaken)] + 1 /\ tConfirmed < tOffset
      BY <3>1 DEF OffsetFollows
    <3>3. u = tOffset
      BY <1>0, <1>6, <3>2 DEF Telegram!Confirm
    <3>4. QED
      BY <1>4, <2>2, <2>4, <3>2, <3>3
  <2>5. QED
    BY <1>4, <2>2, <2>3, <2>4
<1>12. QED
  BY <1>7, <1>8, <1>9, <1>10, <1>11

\* A response that is lost may confirm, but only what was handled; and while
\* the task polls it holds no updates.
LEMMA PollFailsKeeps ==
  ASSUME Telegram!TelegramAssumption, PollInv,
         Telegram!PollFails \/ \E parsed \in BOOLEAN : Telegram!PollRefused(parsed)
  PROVE  PollInv'
<1> USE TelegramConstants DEF PollInv
<1>1. /\ tPhase = "poll" /\ tConfirmed' \in {tConfirmed, Telegram!Confirm}
      /\ tOffset' = tOffset /\ tBatch' = tBatch /\ tTaken' = tTaken
      /\ tHandled' = tHandled /\ tArrived' = tArrived /\ tInbox' = tInbox
  BY DEF Telegram!PollFails, Telegram!PollRefused
<1>2. /\ Telegram!Confirm \in Nat /\ tConfirmed <= Telegram!Confirm /\
           tOffset <= Telegram!Confirm + 1
      /\ tBatch = <<>>
  BY <1>1, Confirming DEF BatchFollows
<1>3. Telegram!Confirm' = Telegram!Confirm
  BY <1>1, <1>2 DEF Telegram!Confirm, PollTyped
<1>4. PollTyped'
  <2>1. tConfirmed' \in Nat
    BY <1>1, <1>2 DEF PollTyped
  <2>2. /\ tPhase' \in {"poll", "sleep", "stopped"} /\ tBackoff' \in 1 .. MaxBackoff
        /\ tFailures' \in 0 .. Threshold /\ tFaults' \in Nat
        /\ tRunning' = tRunning /\ tStale' \in BOOLEAN /\ tProxyUp' = tProxyUp
        /\ tRestarts' = tRestarts
    <3>1. CASE Telegram!PollFails
      <4>1. tFailures' \in 0 .. Threshold /\ tBackoff' \in 1 .. MaxBackoff
        <5>1. /\ tFailures \in 0 .. Threshold /\ tBackoff \in 1 .. MaxBackoff
              /\ Threshold \in Nat \ {0} /\ MaxBackoff \in Nat \ {0}
          BY DEF PollTyped
        <5>2. /\ \/ tFailures + 1 >= Threshold /\ tFailures' = 0
                 \/ ~(tFailures + 1 >= Threshold) /\ tFailures' = tFailures + 1
              /\ tBackoff' = 1 \/ tBackoff' = tBackoff
          BY <3>1 DEF Telegram!PollFails, Telegram!Rebuild
        <5>3. QED
          BY <5>1, <5>2
      <4>2. tPhase' \in {"poll", "sleep", "stopped"}
        BY <3>1 DEF Telegram!PollFails, Telegram!Loop
      <4>5. /\ tFaults' \in Nat
            /\ tRunning' = tRunning /\ tProxyUp' = tProxyUp
            /\ tRestarts' = tRestarts
        <5>1. tFaults \in Nat
          BY DEF PollTyped
        <5>2. /\ tFaults' = tFaults \/ tFaults' = tFaults + 1
              /\ tRunning' = tRunning /\ tProxyUp' = tProxyUp
              /\ tRestarts' = tRestarts
          BY <3>1 DEF Telegram!PollFails
        <5>3. QED
          BY <5>1, <5>2
      <4>3. tStale' \in BOOLEAN
        BY <3>1, Zenon DEF Telegram!PollFails, Telegram!Rebuild, PollTyped
      <4>4. QED
        BY <4>1, <4>2, <4>3, <4>5
    <3>2. CASE \E parsed \in BOOLEAN : Telegram!PollRefused(parsed)
      BY <3>2 DEF Telegram!PollRefused, Telegram!Loop, PollTyped
    <3>3. QED
      BY <3>1, <3>2
  <2>3. QED
    BY <1>1, <2>1, <2>2 DEF PollTyped
<1>5. BatchFollows'
  BY <1>1, <1>2, <1>3 DEF BatchFollows
<1>6. AckFollows'
  BY <1>1, <1>3 DEF AckFollows
<1>7. OffsetFollows'
  BY <1>1, <1>2, Confirming DEF OffsetFollows, PollTyped
<1>8. Telegram!OncePerProcess'
  BY <1>1 DEF Telegram!OncePerProcess
<1>9. QED
  BY <1>4, <1>5, <1>6, <1>7, <1>8

\* A new process has no offset: what it asks for first confirms nothing new.
LEMMA PollRestartKeeps ==
  ASSUME Telegram!TelegramAssumption, PollInv, Telegram!Restart
  PROVE  PollInv'
<1> USE TelegramConstants DEF PollInv
<1>1. /\ tOffset' = 0 /\ tBatch' = <<>> /\ tTaken' = <<>> /\ tInbox' = <<>>
      /\ tConfirmed' = tConfirmed /\ tHandled' = tHandled /\ tArrived' = tArrived
  BY DEF Telegram!Restart, Telegram!telegram
<1>2. /\ Len(tBatch') = 0 /\ Len(tTaken') = 0 /\ Len(tInbox') = 0
      /\ Telegram!Confirm' = tConfirmed
  BY <1>1 DEF Telegram!Confirm, PollTyped
<1>3. PollTyped'
  <2>1. <<>> \in Seq(Telegram!Updates)
    OBVIOUS
  <2>2. /\ tOffset' \in 0 .. MaxUpdates + 1 /\ tBackoff' \in 1 .. MaxBackoff
        /\ tFailures' \in 0 .. Threshold /\ Len(tInbox') <= InboxCap
        /\ tRestarts' \in Nat
    BY <1>1, <1>2 DEF Telegram!Restart, PollTyped
  <2>3. QED
    BY <1>1, <2>1, <2>2 DEF Telegram!Restart, PollTyped
<1>4. Telegram!Confirm \in Nat /\ tConfirmed <= Telegram!Confirm /\ Len(tBatch) \in Nat
  BY Confirming DEF PollTyped
<1>5. BatchFollows'
  BY <1>1, <1>2, <1>4 DEF BatchFollows, PollTyped
<1>6. AckFollows'
  BY <1>1, <1>2, <1>4 DEF AckFollows, PollTyped, Telegram!Updates
<1>7. OffsetFollows' /\ Telegram!OncePerProcess'
  BY <1>1, <1>2 DEF OffsetFollows, Telegram!OncePerProcess
<1>8. QED
  BY <1>3, <1>5, <1>6, <1>7

\* Every step keeps the invariant.
LEMMA PollInvStep ==
  ASSUME Telegram!TelegramAssumption, PollInv, [Telegram!Next]_(Telegram!vars)
  PROVE  PollInv'
<1>1. CASE Telegram!Sleep
  <2>1. UNCHANGED <<tOffset, tBatch, tTaken, tHandled, Telegram!telegram, tInbox>>
    BY <1>1 DEF Telegram!Sleep
  <2>2. tBackoff' \in 1 .. MaxBackoff
    BY <1>1, TelegramConstants DEF Telegram!Sleep, Telegram!Slept, PollInv, PollTyped
  <2>3. Telegram!Confirm' = Telegram!Confirm
    BY <2>1 DEF Telegram!Confirm, Telegram!telegram
  <2>4. tBatch = <<>> /\ tPhase' \in {"poll", "stopped"}
    BY <1>1 DEF Telegram!Sleep, Telegram!Loop, PollInv, BatchFollows
  <2>5. QED
    BY <1>1, <2>1, <2>2, <2>3, <2>4 DEF Telegram!Sleep, Telegram!telegram, Telegram!faulty, PollInv,
       PollTyped, BatchFollows, AckFollows, OffsetFollows, Telegram!OncePerProcess
<1>2. CASE Telegram!EndOfBatch \/ Telegram!Disconnect \/ Telegram!ProxyRestart
  <2>1. UNCHANGED <<tOffset, tBatch, tTaken, tHandled, Telegram!telegram, tInbox, tBackoff,
                    tFailures, tFaults, tRestarts>>
    BY <1>2 DEF Telegram!EndOfBatch, Telegram!Disconnect, Telegram!ProxyRestart, Telegram!faulty
  <2>2. Telegram!Confirm' = Telegram!Confirm
    BY <2>1 DEF Telegram!Confirm, Telegram!telegram
  <2>3. /\ tPhase' # "batch" => tBatch = <<>>
        /\ tPhase' \in {"poll", "batch", "sleep", "stopped"}
        /\ tRunning' \in BOOLEAN /\ tStale' \in BOOLEAN /\ tProxyUp' \in BOOLEAN
    BY <1>2 DEF Telegram!EndOfBatch, Telegram!Disconnect, Telegram!ProxyRestart,
       Telegram!Loop, PollInv, PollTyped,
       BatchFollows, Telegram!faulty
  <2>4. QED
    BY <2>1, <2>2, <2>3 DEF Telegram!telegram, PollInv, PollTyped, BatchFollows,
       AckFollows, OffsetFollows, Telegram!OncePerProcess
<1>3. CASE Telegram!Arrive
  <2>1. UNCHANGED <<Telegram!poller, tConfirmed, tInbox, Telegram!faulty>> /\
          tArrived' = tArrived + 1
    BY <1>3 DEF Telegram!Arrive
  <2>2. tArrived' \in 0 .. MaxUpdates /\ tArrived <= tArrived'
    BY <1>3, TelegramConstants DEF Telegram!Arrive, PollInv, PollTyped
  <2>3. Telegram!Confirm' = Telegram!Confirm /\ Telegram!Confirm \in Nat /\ Len(tBatch) \in Nat
    BY <2>1, Confirming DEF Telegram!Confirm, Telegram!poller, PollInv, PollTyped
  <2>4. PollTyped'
    BY <2>1, <2>2 DEF Telegram!poller, Telegram!faulty, PollInv, PollTyped
  <2>5. BatchFollows'
    BY <2>1, <2>2, <2>3 DEF Telegram!poller, PollInv, PollTyped, BatchFollows
  <2>6. QED
    BY <2>1, <2>3, <2>4, <2>5
       DEF Telegram!poller, PollInv, AckFollows, OffsetFollows, Telegram!OncePerProcess
<1>4. CASE Telegram!ConsumeInbound
  <2>1. /\ UNCHANGED <<Telegram!poller, Telegram!telegram, Telegram!faulty>>
        /\ tInbox' \in Seq(Telegram!Updates) /\ Len(tInbox') <= InboxCap
    BY <1>4, TakingFirst, TelegramConstants DEF Telegram!ConsumeInbound, PollInv, PollTyped
  <2>2. Telegram!Confirm' = Telegram!Confirm
    BY <2>1 DEF Telegram!Confirm, Telegram!poller, Telegram!telegram
  <2>3. QED
    BY <2>1, <2>2 DEF Telegram!poller, Telegram!telegram, Telegram!faulty,
       PollInv, PollTyped,
       BatchFollows,
       AckFollows, OffsetFollows, Telegram!OncePerProcess
<1>5. CASE UNCHANGED Telegram!vars
  <2>1. Telegram!Confirm' = Telegram!Confirm
    BY <1>5 DEF Telegram!Confirm, Telegram!vars, Telegram!poller, Telegram!telegram
  <2>2. QED
    BY <1>5, <2>1 DEF Telegram!vars, Telegram!poller, Telegram!telegram, Telegram!faulty,
       PollInv, PollTyped,
       BatchFollows, AckFollows, OffsetFollows, Telegram!OncePerProcess
<1>6. QED
  BY <1>1, <1>2, <1>3, <1>4, <1>5, PollSucceedsKeeps, HandleUpdateKeeps,
     PollFailsKeeps, PollRestartKeeps DEF Telegram!Next

\* The invariant holds in every reachable state, whatever is lost or killed.
THEOREM PollInvariant == ASSUME Telegram!TelegramAssumption PROVE Telegram!Spec => []PollInv
BY PollInvInit, PollInvStep, PTL DEF Telegram!Spec

\* PollInv implies what the next theorem states.
LEMMA IntakeTypedFollows ==
  ASSUME Telegram!TelegramAssumption PROVE PollInv => Telegram!TypeOK
<1>1. SUFFICES ASSUME PollInv PROVE Telegram!TypeOK
  OBVIOUS
<1>2. tConfirmed <= tArrived
  <2>1. Telegram!Confirm \in Nat /\ tConfirmed <= Telegram!Confirm /\ Len(tBatch) \in Nat
    BY <1>1, Confirming DEF PollInv, PollTyped
  <2>2. QED
    BY <1>1, <2>1 DEF PollInv, PollTyped, BatchFollows
<1>3. \A i \in DOMAIN tBatch : tBatch[i] \in Telegram!Updates
  BY <1>1 DEF PollInv, PollTyped
<1>4. QED
  BY <1>1, <1>2, <1>3 DEF PollInv, PollTyped, Telegram!TypeOK

\* Every reachable state of the intake is well typed; in particular no request
\* confirms an update that has not arrived.
THEOREM IntakeTyped ==
  ASSUME Telegram!TelegramAssumption PROVE Telegram!Spec => []Telegram!TypeOK
BY IntakeTypedFollows, PollInvariant, PTL

\* PollInv implies what the next theorem states.
LEMMA NoUpdateForgottenFollows ==
  ASSUME Telegram!TelegramAssumption PROVE PollInv => Telegram!ForgottenWasHandled
BY Confirming DEF PollInv, PollTyped, AckFollows, Telegram!ForgottenWasHandled, Telegram!Updates

\* Telegram forgets no update that was not handled: poll_loop advances the
\* offset one update at a time, as each is handled, so that no kill and no lost
\* response puts a confirmation ahead of the handling.
THEOREM NoUpdateForgotten ==
  ASSUME Telegram!TelegramAssumption PROVE Telegram!Spec => []Telegram!ForgottenWasHandled
BY NoUpdateForgottenFollows, PollInvariant, PTL

\* PollInv implies what the next theorem states.
LEMMA UpdatesOnceInOrderFollows ==
  ASSUME Telegram!TelegramAssumption PROVE PollInv => Telegram!OncePerProcess
BY DEF PollInv

\* One process handles the updates in their order and each once.
THEOREM UpdatesOnceInOrder ==
  ASSUME Telegram!TelegramAssumption PROVE Telegram!Spec => []Telegram!OncePerProcess
BY UpdatesOnceInOrderFollows, PollInvariant, PTL

-----------------------------------------------------------------------------
(* FeishuChannel: acknowledged is handed over, and a stop is noticed        *)

FeishuTyped ==
  /\ fPhase \in {"off", "connect", "listen", "wait", "over"} /\ fRunning \in BOOLEAN
  /\ fFrames \in Seq(Feishu!Events \union {Feishu!Ping}) /\ fInbox \in Seq(Feishu!Events)
  /\ fHolding \in Feishu!Events \union {0} /\ Len(fInbox) <= InboxCap
  /\ fHappened \in 0 .. MaxEvents /\ fAcked \subseteq Feishu!Events
  /\ fHandled \subseteq Feishu!Events

\* Once an event was handed over after disconnect, the loop holds no other and
\* never reads one again: it was disconnected, and only connect undoes that.
LateIsLast ==
  /\ fLate \in {0, 1}
  /\ fLate = 1 => ~fRunning /\ fHolding = 0
  /\ fPhase = "off" => fLate = 0 /\ fHolding = 0

LongInv == FeishuTyped /\ Feishu!AckedWasHandled /\ LateIsLast

\* What the assumption says of the numbers, and what an event is.
LEMMA FeishuConstants ==
  ASSUME Feishu!FeishuAssumption
  PROVE  /\ MaxEvents \in Nat \ {0} /\ InboxCap \in Nat \ {0} /\ Unreadable \subseteq Feishu!Events
         /\ Feishu!Ping = 0 /\ \A e \in Feishu!Events : e \in 1 .. MaxEvents /\ e # 0
BY DEF Feishu!FeishuAssumption, Feishu!Events, Feishu!Ping

\* Nothing was acknowledged at first.
LEMMA LongInvInit == ASSUME Feishu!FeishuAssumption, Feishu!Init PROVE LongInv
<1>1. /\ <<>> \in Seq(Feishu!Events \union {Feishu!Ping}) /\ <<>> \in Seq(Feishu!Events)
      /\ Len(<<>>) = 0
  OBVIOUS
<1>2. /\ fRunning = FALSE /\ fPhase = "off" /\ fHolding = 0 /\ fAcked = {} /\ fHandled = {}
      /\ fHappened = 0 /\ fLate = 0 /\ fFrames = <<>> /\ fInbox = <<>>
  BY DEF Feishu!Init
<1>3. Len(fInbox) <= InboxCap
  BY <1>1, <1>2, FeishuConstants
<1>4. FeishuTyped
  <2>1. fHappened \in 0 .. MaxEvents
    BY <1>2, FeishuConstants
  <2>2. QED
    BY <1>1, <1>2, <1>3, <2>1 DEF FeishuTyped
<1>5. QED
  BY <1>2, <1>4 DEF LongInv, Feishu!AckedWasHandled, LateIsLast

\* The frames of a connection: what is read leaves the front.
LEMMA FeishuReads ==
  ASSUME Feishu!FeishuAssumption, LongInv, Feishu!Pong \/ Feishu!ReadEvent \/ Feishu!NoticeStop
  PROVE  LongInv'
<1> USE FeishuConstants DEF LongInv
<1>0. /\ fFrames # <<>> /\ fFrames \in Seq(Feishu!Events \union {Feishu!Ping}) /\ fHolding = 0
      /\ fPhase = "listen"
  BY DEF Feishu!Pong, Feishu!ReadEvent, Feishu!NoticeStop, Feishu!Reads, FeishuTyped
<1>1. /\ Head(fFrames) \in Feishu!Events \union {Feishu!Ping}
      /\ Tail(fFrames) \in Seq(Feishu!Events \union {Feishu!Ping})
      /\ <<>> \in Seq(Feishu!Events \union {Feishu!Ping})
  BY <1>0, TakingFirst
<1>2. CASE Feishu!Pong
  BY <1>1, <1>2 DEF Feishu!Pong, Feishu!loop, Feishu!feishu, Feishu!history, FeishuTyped,
     Feishu!AckedWasHandled, LateIsLast
<1>3. CASE Feishu!ReadEvent
  <2>1. /\ fRunning /\ UNCHANGED <<fPhase, fRunning, fInbox, fHappened, fHandled, fLate>>
        /\ fFrames' = Tail(fFrames) /\ fHolding' \in Feishu!Events \union {0}
        /\ fAcked' \subseteq fAcked \union Unreadable
    BY <1>1, <1>3 DEF Feishu!ReadEvent, Feishu!Stopped, Feishu!AckUnreadable, Feishu!history
  <2>2. QED
    BY <1>0, <1>1, <2>1 DEF FeishuTyped, Feishu!AckedWasHandled, LateIsLast
<1>4. CASE Feishu!NoticeStop
  BY <1>0, <1>1, <1>4 DEF Feishu!NoticeStop, Feishu!Back, Feishu!feishu, Feishu!history,
     FeishuTyped, Feishu!AckedWasHandled, LateIsLast
<1>5. QED
  BY <1>2, <1>3, <1>4

\* An event is acknowledged after it is in the inbound channel, if at all.
LEMMA FeishuDispatches ==
  ASSUME Feishu!FeishuAssumption, LongInv, NEW lost \in BOOLEAN, Feishu!Dispatch(lost)
  PROVE  LongInv'
<1> USE FeishuConstants DEF LongInv
<1>1. /\ fHolding \in Feishu!Events /\ Len(fInbox) < InboxCap
      /\ fAcked' \subseteq fAcked \union {fHolding} /\ fHandled' = fHandled \union {fHolding}
      /\ fInbox' = Append(fInbox, fHolding) /\ fHolding' = 0
      /\ UNCHANGED <<fPhase, fRunning, fFrames, fHappened>>
  BY DEF Feishu!Dispatch, FeishuTyped
<1>2. fInbox' \in Seq(Feishu!Events) /\ Len(fInbox') <= InboxCap
  BY <1>1, AddingLast DEF FeishuTyped
<1>3. fLate = 0 /\ fLate' = (IF fRunning THEN 0 ELSE 1) /\ fPhase # "off"
  BY <1>1 DEF Feishu!Dispatch, LateIsLast
<1>4. QED
  BY <1>1, <1>2, <1>3 DEF FeishuTyped, Feishu!AckedWasHandled, LateIsLast

\* Connections come and go, and events happen, without an acknowledgement.
LEMMA FeishuElse ==
  ASSUME Feishu!FeishuAssumption, LongInv,
         \/ Feishu!Connect \/ Feishu!Disconnect \/ Feishu!Reconnect \/ Feishu!Open
         \/ Feishu!ConnectFails \/ Feishu!Closed \/ Feishu!Happen \/ Feishu!ConsumeInbound
         \/ \E frame \in Feishu!Events \union {Feishu!Ping} : Feishu!Push(frame)
         \/ UNCHANGED Feishu!vars
  PROVE  LongInv'
<1> USE FeishuConstants DEF LongInv
<1>1. UNCHANGED <<fHolding, fAcked, fHandled, fLate>>
  BY DEF Feishu!Connect, Feishu!Disconnect, Feishu!Reconnect, Feishu!Open, Feishu!ConnectFails,
     Feishu!Closed, Feishu!Happen, Feishu!ConsumeInbound, Feishu!Push, Feishu!vars, Feishu!loop,
     Feishu!feishu, Feishu!history
<1>6. \/ fRunning' = fRunning \/ fRunning' = FALSE
      \/ fRunning' = TRUE /\ fPhase = "off"
  BY DEF Feishu!Connect, Feishu!Disconnect, Feishu!Reconnect, Feishu!Open, Feishu!ConnectFails,
     Feishu!Closed, Feishu!Happen, Feishu!ConsumeInbound, Feishu!Push, Feishu!vars
<1>7. fPhase' = fPhase \/ fPhase' \in {"connect", "listen", "wait", "over"}
  BY Zenon DEF Feishu!Connect, Feishu!Disconnect, Feishu!Reconnect, Feishu!Open,
     Feishu!ConnectFails, Feishu!Closed, Feishu!Happen, Feishu!ConsumeInbound, Feishu!Push,
     Feishu!vars, Feishu!loop, Feishu!Back
<1>2. fFrames' \in Seq(Feishu!Events \union {Feishu!Ping})
  <2>1. \/ fFrames' = fFrames \/ fFrames' = <<>>
        \/ \E frame \in Feishu!Events \union {Feishu!Ping} : fFrames' = <<frame>>
    <3>1. CASE \E frame \in Feishu!Events \union {Feishu!Ping} : Feishu!Push(frame)
      BY <3>1, Zenon DEF Feishu!Push
    <3>2. CASE ~\E frame \in Feishu!Events \union {Feishu!Ping} : Feishu!Push(frame)
      BY <3>2 DEF Feishu!Connect, Feishu!Disconnect, Feishu!Reconnect, Feishu!Open,
         Feishu!ConnectFails, Feishu!Closed, Feishu!Happen, Feishu!ConsumeInbound, Feishu!vars
    <3>3. QED
      BY <3>1, <3>2
  <2>2. QED
    <3>1. /\ fFrames \in Seq(Feishu!Events \union {Feishu!Ping})
          /\ <<>> \in Seq(Feishu!Events \union {Feishu!Ping})
          /\ \A frame \in Feishu!Events \union {Feishu!Ping} :
                <<frame>> \in Seq(Feishu!Events \union {Feishu!Ping})
      BY DEF FeishuTyped
    <3>2. QED
      BY <2>1, <3>1, Zenon
<1>3. fInbox' \in Seq(Feishu!Events) /\ Len(fInbox') <= InboxCap
  <2>1. CASE Feishu!ConsumeInbound
    BY <2>1, TakingFirst DEF Feishu!ConsumeInbound, FeishuTyped
  <2>2. CASE fInbox' = fInbox
    BY <2>2 DEF FeishuTyped
  <2>3. QED
    BY <2>1, <2>2 DEF Feishu!Connect, Feishu!Disconnect, Feishu!Reconnect, Feishu!Open,
       Feishu!ConnectFails, Feishu!Closed, Feishu!Happen, Feishu!Push, Feishu!vars
<1>4. fHappened' \in 0 .. MaxEvents
  <2>1. fHappened' = fHappened \/ (fHappened < MaxEvents /\ fHappened' = fHappened + 1)
    BY DEF Feishu!Connect, Feishu!Disconnect, Feishu!Reconnect, Feishu!Open,
       Feishu!ConnectFails, Feishu!Closed, Feishu!Happen, Feishu!ConsumeInbound, Feishu!Push,
       Feishu!vars, Feishu!feishu
  <2>2. QED
    BY <2>1 DEF FeishuTyped
<1>8. fRunning' \in BOOLEAN /\ fPhase' \in {"off", "connect", "listen", "wait", "over"}
  BY <1>6, <1>7 DEF FeishuTyped
<1>9. FeishuTyped'
  BY <1>1, <1>2, <1>3, <1>4, <1>8 DEF FeishuTyped
<1>10. LateIsLast'
  BY <1>1, <1>6, <1>7 DEF LateIsLast
<1>11. QED
  BY <1>1, <1>9, <1>10 DEF Feishu!AckedWasHandled

\* Every step keeps LongInv.
LEMMA LongInvStep ==
  ASSUME Feishu!FeishuAssumption, LongInv, [Feishu!Next]_(Feishu!vars)
  PROVE  LongInv'
BY FeishuReads, FeishuDispatches, FeishuElse DEF Feishu!Next, Feishu!Loop

\* The invariant of the long connection holds in every reachable state.
THEOREM LongInvariant == ASSUME Feishu!FeishuAssumption PROVE Feishu!Spec => []LongInv
BY LongInvInit, LongInvStep, PTL DEF Feishu!Spec

\* LongInv implies what the next theorem states.
LEMMA AckedIsHandledFollows ==
  ASSUME Feishu!FeishuAssumption PROVE LongInv => Feishu!AckedWasHandled
BY DEF LongInv

\* Feishu takes no event for done that the agent was not given: the frame is
\* answered after handler.send went through, and only what cannot be parsed is
\* answered without, so lost connections and answers cost repetitions at most.
THEOREM AckedIsHandled ==
  ASSUME Feishu!FeishuAssumption PROVE Feishu!Spec => []Feishu!AckedWasHandled
BY AckedIsHandledFollows, LongInvariant, PTL

\* LongInv implies what the next theorem states.
LEMMA StopIsNoticedFollows ==
  ASSUME Feishu!FeishuAssumption PROVE LongInv => Feishu!StopsTaking
BY DEF LongInv, LateIsLast, Feishu!StopsTaking

\* After disconnect at most the one event is handed over that the loop held.
THEOREM StopIsNoticed ==
  ASSUME Feishu!FeishuAssumption PROVE Feishu!Spec => []Feishu!StopsTaking
BY StopIsNoticedFollows, LongInvariant, PTL

\* LongInv implies what the next theorem states.
LEMMA LongStatesFollow ==
  ASSUME Feishu!FeishuAssumption PROVE LongInv => Feishu!TypeOK
BY DEF LongInv, FeishuTyped, Feishu!TypeOK

\* The types of the long connection: its loop, its frames, and an inbox within
\* its capacity.
THEOREM LongStates ==
  ASSUME Feishu!FeishuAssumption PROVE Feishu!Spec => []Feishu!TypeOK
BY LongStatesFollow, LongInvariant, PTL

-----------------------------------------------------------------------------
(* WeixinChannel: whatever is handed out again is delivered once            *)

\* A task that has got through the deduplication and is not over yet.
Through(t) == xTask[t] \notin {"none", "start", "over"}

\* Whatever got through is remembered, with no second task under way for it and
\* no delivery before; and what was delivered is remembered.
EachOnItsOwn ==
  /\ \A t \in Copies : Through(t) => Carries[t] \in xSeen
  /\ \A t, u \in Copies : Through(t) /\ Through(u) /\ Carries[t] = Carries[u] => t = u
  /\ \A t \in Copies : Through(t) => \A i \in DOMAIN xDelivered : xDelivered[i] # Carries[t]
  /\ \A i \in DOMAIN xDelivered : xDelivered[i] \in xSeen

WeixinInv ==
  /\ xTask \in [Copies -> Weixin!Steps] /\ xDelivered \in Seq(Weixin!Msgs)
  /\ EachOnItsOwn /\ Weixin!DeliveredOnce

\* A step that lets no task through and delivers nothing.
LEMMA WeixinQuiet ==
  ASSUME WeixinInv, xTask' \in [Copies -> Weixin!Steps], xDelivered' = xDelivered,
    xSeen \subseteq xSeen', \A t \in Copies : Through(t)' => Through(t)
  PROVE  WeixinInv'
BY DEF WeixinInv, EachOnItsOwn, Weixin!DeliveredOnce

\* The look and the mark are one step: of the tasks of a message one gets through.
LEMMA WeixinDeduplicates ==
  ASSUME Weixin!WeixinAssumption, WeixinInv, NEW t \in Copies, Weixin!Deduplicate(t)
  PROVE  WeixinInv'
<1> USE DEF WeixinInv
<1>1. /\ xTask[t] = "start" /\ xDelivered' = xDelivered /\ xSeen' = xSeen \union {Carries[t]}
      /\ xTask' = [xTask EXCEPT ![t] = IF Carries[t] \in xSeen THEN "over" ELSE "token"]
  BY DEF Weixin!Deduplicate, Weixin!Goes, Weixin!Remember
<1>2. xTask' \in [Copies -> Weixin!Steps]
  BY <1>1 DEF Weixin!Steps
<1>3. CASE Carries[t] \in xSeen
  <2>1. \A u \in Copies : Through(u)' => Through(u)
    BY <1>1, <1>3 DEF Through
  <2>2. QED
    BY <1>1, <1>2, <2>1, WeixinQuiet
<1>4. CASE Carries[t] \notin xSeen
  <2>1. \A u \in Copies : Through(u)' => u = t \/ Through(u)
    BY <1>1 DEF Through
  <2>2. EachOnItsOwn'
    BY <1>1, <1>4, <2>1 DEF EachOnItsOwn
  <2>3. QED
    BY <1>1, <1>2, <2>2 DEF Weixin!DeliveredOnce
<1>5. QED
  BY <1>3, <1>4

\* A task that delivers is over.
LEMMA WeixinDispatches ==
  ASSUME Weixin!WeixinAssumption, WeixinInv, NEW t \in Copies, Weixin!Dispatch(t)
  PROVE  WeixinInv'
<1> USE DEF WeixinInv
<1>1. /\ xTask[t] = "send" /\ xTask' = [xTask EXCEPT ![t] = "over"] /\ xSeen' = xSeen
      /\ xDelivered' = Append(xDelivered, Carries[t]) /\ Carries[t] \in Weixin!Msgs
  BY DEF Weixin!Dispatch, Weixin!Goes, Weixin!WeixinAssumption
<1>2. /\ xDelivered' \in Seq(Weixin!Msgs) /\ DOMAIN xDelivered' = 1 .. Len(xDelivered) + 1
      /\ xDelivered'[Len(xDelivered) + 1] = Carries[t] /\ Len(xDelivered) \in Nat
      /\ \A i \in DOMAIN xDelivered : xDelivered'[i] = xDelivered[i]
      /\ DOMAIN xDelivered = 1 .. Len(xDelivered)
  BY <1>1, AddingLast
<1>3. Through(t) /\ \A u \in Copies : Through(u)' => u # t /\ Through(u)
  BY <1>1 DEF Through
<1>4. xTask' \in [Copies -> Weixin!Steps]
  BY <1>1 DEF Weixin!Steps
<1>5. \A i \in DOMAIN xDelivered' : i \in DOMAIN xDelivered \/ i = Len(xDelivered) + 1
  BY <1>2
<1>6. EachOnItsOwn'
  BY <1>1, <1>2, <1>3, <1>5 DEF EachOnItsOwn
<1>7. Weixin!DeliveredOnce'
  BY <1>1, <1>2, <1>3, <1>5 DEF EachOnItsOwn, Weixin!DeliveredOnce
<1>8. QED
  BY <1>2, <1>4, <1>6, <1>7

\* The steps between look at files; the others begin tasks or touch none.
LEMMA WeixinInvStep ==
  ASSUME Weixin!WeixinAssumption, WeixinInv, [Weixin!Next]_(Weixin!vars)
  PROVE  WeixinInv'
<1> USE DEF WeixinInv
<1>1. CASE \E t \in Copies : \/ Weixin!SetToken(t) \/ Weixin!NoToken(t) \/ Weixin!Snapshot(t)
                             \/ Weixin!Create(t) \/ Weixin!Write(t) \/ Weixin!Rename(t)
                             \/ Weixin!Remove(t)
  <2>1. PICK t \in Copies, to \in Weixin!Steps : Weixin!Goes(t, xTask[t], to) /\ Through(t)
                                                 /\ xDelivered' = xDelivered /\ xSeen' = xSeen
    BY <1>1 DEF Weixin!SetToken, Weixin!NoToken, Weixin!Snapshot, Weixin!Create, Weixin!Write,
       Weixin!Rename, Weixin!Remove, Weixin!GoOn, Weixin!Goes, Weixin!Steps, Through
  <2>2. xTask' \in [Copies -> Weixin!Steps] /\ \A u \in Copies : Through(u)' => Through(u)
    BY <2>1 DEF Weixin!Goes, Through
  <2>3. QED
    BY <2>1, <2>2, WeixinQuiet
<1>2. CASE Weixin!Poll
  <2>1. /\ xDelivered' = xDelivered /\ xSeen' = xSeen
        /\ xTask' = [t \in Copies |-> IF t \in xPosition .. xSent THEN "start" ELSE xTask[t]]
    BY <1>2 DEF Weixin!Poll
  <2>2. xTask' \in [Copies -> Weixin!Steps] /\ \A u \in Copies : Through(u)' => Through(u)
    BY <2>1 DEF Weixin!Steps, Through
  <2>3. QED
    BY <2>1, <2>2, WeixinQuiet
<1>3. CASE \E t \in Copies : Weixin!Redeliver(t)
  <2>1. PICK t \in Copies : xDelivered' = xDelivered /\ xSeen' = xSeen
                            /\ xTask' = [xTask EXCEPT ![t] = "start"]
    BY <1>3 DEF Weixin!Redeliver
  <2>2. xTask' \in [Copies -> Weixin!Steps] /\ \A u \in Copies : Through(u)' => Through(u)
    BY <2>1 DEF Weixin!Steps, Through
  <2>3. QED
    BY <2>1, <2>2, WeixinQuiet
<1>4. CASE \/ Weixin!PollFails \/ Weixin!Disconnect \/ Weixin!Send \/ Weixin!ConsumeInbound
           \/ UNCHANGED Weixin!vars
  <2>1. xDelivered' = xDelivered /\ xSeen' = xSeen /\ xTask' = xTask
    BY <1>4 DEF Weixin!PollFails, Weixin!Disconnect, Weixin!Send, Weixin!ConsumeInbound,
       Weixin!vars
  <2>2. QED
    BY <2>1, WeixinQuiet DEF Through
<1>5. QED
  BY <1>1, <1>2, <1>3, <1>4, WeixinDeduplicates, WeixinDispatches DEF Weixin!Next, Weixin!Task

\* WeixinInv holds at the start.
LEMMA WeixinInvInit == ASSUME Weixin!WeixinAssumption, Weixin!Init PROVE WeixinInv
<1>1. xDelivered = <<>> /\ xTask = [t \in Copies |-> "none"]
  BY DEF Weixin!Init
<1>2. DOMAIN xDelivered = {} /\ xDelivered \in Seq(Weixin!Msgs)
  BY <1>1
<1>3. QED
  BY <1>1, <1>2 DEF WeixinInv, EachOnItsOwn, Through, Weixin!Steps, Weixin!DeliveredOnce

\* The invariant of the tasks holds in every reachable state.
THEOREM WeixinInvariant == ASSUME Weixin!WeixinAssumption PROVE Weixin!Spec => []WeixinInv
BY WeixinInvInit, WeixinInvStep, PTL DEF Weixin!Spec

\* What the poller, the store of tokens and the files hold; the poller forgets
\* nothing it has not passed, and passes nothing that was not sent.
WeixinTyped ==
  /\ xRunning \in BOOLEAN /\ xPosition \in 1 .. MaxMsgs + 1
  /\ xSent \in 0 .. MaxMsgs /\ xPosition <= xSent + 1
  /\ xForgotten \in Nat /\ xForgotten < xPosition
  /\ xSeen \subseteq Weixin!Msgs
  /\ xCache \in Weixin!Tables /\ xPayload \in [Copies -> Weixin!Tables]
  /\ xHandle \in [Copies -> Copies \union {0}]
  /\ xTmp \in Copies \union {0} /\ xPath \in Copies \union {0}
  /\ xData \in [Copies -> Weixin!Tables \union {Weixin!Torn}]
  /\ xInbox \in Seq(Weixin!Msgs) /\ Len(xInbox) <= InboxCap

\* The constants as numbers, and the token a task brings to its sender.
LEMMA WeixinConstants ==
  ASSUME Weixin!WeixinAssumption
  PROVE  /\ MaxMsgs \in Nat \ {0} /\ InboxCap \in Nat \ {0}
         /\ \A t \in Copies : /\ Carries[t] \in Weixin!Msgs /\ Carries[t] \in 1 .. MaxMsgs
                              /\ Sender[Carries[t]] \in Users
         /\ Weixin!Empty \in Weixin!Tables
BY DEF Weixin!WeixinAssumption, Weixin!Msgs, Weixin!Empty, Weixin!Tables

\* WeixinTyped holds at the start.
LEMMA WeixinTypedInit == ASSUME Weixin!WeixinAssumption, Weixin!Init PROVE WeixinTyped
<1> USE WeixinConstants DEF Weixin!Init
<1>1. <<>> \in Seq(Weixin!Msgs) /\ Len(<<>>) = 0
  OBVIOUS
<1>2. xInbox \in Seq(Weixin!Msgs) /\ Len(xInbox) <= InboxCap
  BY <1>1
<1>3. QED
  BY <1>2 DEF WeixinTyped

\* The steps that touch the files, or the tokens they are written from.
LEMMA WeixinStores ==
  ASSUME Weixin!WeixinAssumption, WeixinTyped, NEW t \in Copies,
         \/ Weixin!SetToken(t) \/ Weixin!Snapshot(t) \/ Weixin!Create(t) \/ Weixin!Write(t)
         \/ Weixin!Rename(t) \/ Weixin!Remove(t)
  PROVE  WeixinTyped'
<1> USE WeixinConstants
<1>1. CASE Weixin!SetToken(t)
  <2>1. xCache' = [xCache EXCEPT ![Sender[Carries[t]]] = Carries[t]]
    BY <1>1 DEF Weixin!SetToken
  <2>2. xCache' \in Weixin!Tables
    BY <2>1 DEF WeixinTyped, Weixin!Tables
  <2>3. QED
    BY <1>1, <2>2 DEF WeixinTyped, Weixin!SetToken, Weixin!poller, Weixin!server
<1>2. CASE Weixin!Snapshot(t)
  BY <1>2 DEF WeixinTyped, Weixin!Snapshot, Weixin!poller, Weixin!server
<1>3. CASE Weixin!Create(t)
  <2>1. PICK inode \in Copies :
          /\ xTmp' = inode /\ xHandle' = [xHandle EXCEPT ![t] = inode]
          /\ xData' = [xData EXCEPT ![inode] = Weixin!Empty]
    BY <1>3 DEF Weixin!Create, WeixinTyped
  <2>2. /\ xTmp' \in Copies \union {0} /\ xHandle' \in [Copies -> Copies \union {0}]
        /\ xData' \in [Copies -> Weixin!Tables \union {Weixin!Torn}]
    BY <2>1 DEF WeixinTyped
  <2>3. QED
    BY <1>3, <2>2 DEF WeixinTyped, Weixin!Create, Weixin!poller, Weixin!server
<1>4. CASE Weixin!Write(t)
  <2>1. PICK written \in Weixin!Tables \union {Weixin!Torn} :
          xData' = [xData EXCEPT ![xHandle[t]] = written]
    <3>1. xData' = [xData EXCEPT ![xHandle[t]] = Weixin!Over(xPayload[t], xData[xHandle[t]])]
      BY <1>4 DEF Weixin!Write
    <3>2. Weixin!Over(xPayload[t], xData[xHandle[t]]) \in Weixin!Tables \union {Weixin!Torn}
      BY DEF Weixin!Over, WeixinTyped
    <3>3. QED
      BY <3>1, <3>2
  <2>2. xData' \in [Copies -> Weixin!Tables \union {Weixin!Torn}]
    BY <2>1 DEF WeixinTyped
  <2>3. QED
    BY <1>4, <2>2 DEF WeixinTyped, Weixin!Write, Weixin!poller, Weixin!server
<1>5. CASE Weixin!Rename(t) \/ Weixin!Remove(t)
  BY <1>5 DEF WeixinTyped, Weixin!Rename, Weixin!Remove, Weixin!poller, Weixin!server
<1>6. QED
  BY <1>1, <1>2, <1>3, <1>4, <1>5

\* Every step keeps WeixinTyped.
LEMMA WeixinTypedStep ==
  ASSUME Weixin!WeixinAssumption, WeixinTyped, [Weixin!Next]_(Weixin!vars)
  PROVE  WeixinTyped'
<1> USE WeixinConstants DEF Weixin!store, Weixin!poller, Weixin!server
<1>1. CASE Weixin!Poll \/ Weixin!PollFails \/ Weixin!Disconnect \/ Weixin!Send
  <2>1. UNCHANGED <<xSeen, xInbox, xCache, xPayload, xHandle, xTmp, xPath, xData>>
    BY <1>1 DEF Weixin!Poll, Weixin!PollFails, Weixin!Disconnect, Weixin!Send
  <2>2. /\ MaxMsgs \in Nat /\ xPosition \in 1 .. MaxMsgs + 1
        /\ xSent \in 0 .. MaxMsgs /\ xPosition <= xSent + 1
        /\ xForgotten \in Nat /\ xForgotten < xPosition
    BY DEF WeixinTyped
  <2>3. /\ xPosition' \in 1 .. MaxMsgs + 1
        /\ xSent' \in 0 .. MaxMsgs /\ xPosition' <= xSent' + 1
        /\ xForgotten' \in Nat /\ xForgotten' < xPosition'
    <3>1. CASE Weixin!Poll
      BY <2>2, <3>1 DEF Weixin!Poll
    <3>2. CASE Weixin!PollFails
      BY <2>2, <3>2 DEF Weixin!PollFails
    <3>3. CASE Weixin!Disconnect \/ Weixin!Send
      BY <2>2, <3>3 DEF Weixin!Disconnect, Weixin!Send
    <3>4. QED
      BY <1>1, <3>1, <3>2, <3>3
  <2>4. xRunning' \in BOOLEAN
    BY <1>1 DEF WeixinTyped, Weixin!Poll, Weixin!PollFails, Weixin!Disconnect, Weixin!Send
  <2>5. QED
    BY <2>1, <2>3, <2>4 DEF WeixinTyped
<1>2. CASE Weixin!ConsumeInbound
  <2>1. xInbox' \in Seq(Weixin!Msgs) /\ Len(xInbox') <= InboxCap
    BY <1>2, TakingFirst DEF WeixinTyped, Weixin!ConsumeInbound
  <2>2. QED
    BY <1>2, <2>1 DEF WeixinTyped, Weixin!ConsumeInbound
<1>3. ASSUME NEW t \in Copies, Weixin!Dispatch(t) PROVE WeixinTyped'
  <2>1. xInbox' \in Seq(Weixin!Msgs) /\ Len(xInbox') <= InboxCap
    BY <1>3, AddingLast DEF WeixinTyped, Weixin!Dispatch
  <2>2. QED
    BY <1>3, <2>1 DEF WeixinTyped, Weixin!Dispatch
<1>4. ASSUME NEW t \in Copies,
             Weixin!Deduplicate(t) \/ Weixin!NoToken(t) \/ Weixin!Redeliver(t)
      PROVE  WeixinTyped'
  BY <1>4 DEF WeixinTyped, Weixin!Deduplicate, Weixin!Remember, Weixin!NoToken,
     Weixin!Redeliver
<1>5. CASE UNCHANGED Weixin!vars
  BY <1>5 DEF WeixinTyped, Weixin!vars
<1>6. QED
  BY <1>1, <1>2, <1>3, <1>4, <1>5, WeixinStores DEF Weixin!Next, Weixin!Task

\* WeixinInv and WeixinTyped imply what the next theorem states.
LEMMA WeixinStatesFollow ==
  ASSUME Weixin!WeixinAssumption, WeixinInv, WeixinTyped PROVE Weixin!TypeOK
BY WeixinConstants DEF WeixinInv, WeixinTyped, Weixin!TypeOK

\* Poller, tasks, tokens and files are well typed, the inbox stays within its
\* capacity, and the server forgets nothing that was not sent.
THEOREM WeixinStates ==
  ASSUME Weixin!WeixinAssumption PROVE Weixin!Spec => []Weixin!TypeOK
BY WeixinInvInit, WeixinInvStep, WeixinTypedInit, WeixinTypedStep, WeixinStatesFollow, PTL
   DEF Weixin!Spec

\* WeixinInv implies what the next theorem states.
LEMMA WeixinOnceFollows ==
  ASSUME Weixin!WeixinAssumption PROVE WeixinInv => Weixin!DeliveredOnce
BY DEF WeixinInv

\* The agent gets a message once, however often Weixin hands it out and however
\* the tasks of its copies interleave: they look it up and mark it under one lock.
THEOREM WeixinOnce ==
  ASSUME Weixin!WeixinAssumption PROVE Weixin!Spec => []Weixin!DeliveredOnce
BY WeixinOnceFollows, WeixinInvariant, PTL

-----------------------------------------------------------------------------
(* FeishuWebhook: given once, and nothing acknowledged disappears           *)

In(e, msgs) == \E i \in DOMAIN msgs : msgs[i] = e
Waits(e) == \E c \in Webhook!Chats : In(e, gPending[c].msgs)
Drained(e) == \E t \in Webhook!Tasks : \E msgs \in gOut[t] : In(e, msgs)
Kept(e) == Waits(e) \/ Drained(e) \/ gGiven[e] > 0 \/ e \in gLost

WebhookTyped ==
  /\ gPending \in [Webhook!Chats -> [msgs : Seq(HookEvents), age : 0 .. Webhook!LongWindow,
                                     extended : BOOLEAN]]
  /\ gIds \subseteq HookEvents /\ gSaid \subseteq {SaidAs[e] : e \in HookEvents}
  /\ gTokens \in 0 .. Burst /\ gUp \in BOOLEAN
  /\ gPc \in [Webhook!Tasks -> {"idle", "first", "second", "last", "end"}]
  /\ gEvent \in [Handlers -> HookEvents \union {0}]
  /\ gOut \in [Webhook!Tasks -> SUBSET Seq(HookEvents)]
  /\ gGiven \in [HookEvents -> Nat] /\ gLost \subseteq HookEvents /\ gAcked \subseteq HookEvents

\* A batch has each of its messages once.
Once(msgs) == \A i, j \in DOMAIN msgs : msgs[i] = msgs[j] => i = j

\* No message is in two places at a time: in the batch of its chat, in a batch
\* some task has drained, or with the agent; and all of them are remembered.
Apart ==
  /\ \A c \in Webhook!Chats :
       /\ Once(gPending[c].msgs)
       /\ \A e \in HookEvents : In(e, gPending[c].msgs) =>
            ChatOf[e] = c /\ e \in gIds /\ gGiven[e] = 0
  /\ \A t \in Webhook!Tasks : \A msgs \in gOut[t] :
       /\ Once(msgs)
       /\ \A e \in HookEvents : In(e, msgs) => e \in gIds /\ gGiven[e] = 0 /\ ~Waits(e)
  /\ \A t, u \in Webhook!Tasks : \A msgs \in gOut[t], more \in gOut[u] :
       \A e \in HookEvents : In(e, msgs) /\ In(e, more) => t = u /\ msgs = more
  /\ \A e \in HookEvents : gGiven[e] <= 1 /\ (gGiven[e] = 1 => e \in gIds)

\* A task drains only after it has sent all that it drained before.
Emptied ==
  /\ \A t \in Webhook!Tasks : gPc[t] \notin {"first", "last"} => gOut[t] = {}
  /\ \A h \in Handlers : gPc[h] = "idle" \/ gEvent[h] \in HookEvents

\* Whatever is remembered is kept, by itself or in the same words, or is lost.
Remembered ==
  /\ \A e \in gIds : SaidAs[e] \in gSaid \/ e \in gLost
  /\ \A s \in gSaid : \E m \in HookEvents : SaidAs[m] = s /\ Kept(m)
  /\ gAcked \subseteq gIds
  /\ \A h \in Handlers : gPc[h] \in {"second", "last"} => gEvent[h] \in gIds

WebhookInv == WebhookTyped /\ Apart /\ Emptied /\ Remembered

\* The tasks are the handlers and the flush task.
LEMMA WebhookTasks ==
  ASSUME Webhook!WebhookAssumption
  PROVE  /\ \A t : t \in Webhook!Tasks <=> t \in Handlers \/ t = "flush"
         /\ "flush" \notin Handlers
         /\ \A e \in HookEvents : ChatOf[e] \in Webhook!Chats /\ e # 0
         /\ Burst \in Nat \ {0} /\ Webhook!LongWindow = 3 /\ Webhook!ShortWindow = 1
<1>1. HookEvents = 1 .. Webhook!Cardinality(HookEvents) /\ Webhook!Cardinality(HookEvents) \in Nat
  BY FS_CardinalityType
     DEF Webhook!WebhookAssumption, Webhook!IsFiniteSet, IsFiniteSet, Webhook!Cardinality,
       Cardinality
<1>2. \A e \in HookEvents : e # 0
  BY <1>1
<1>3. \A e \in HookEvents : ChatOf[e] \in Webhook!Chats
  BY DEF Webhook!Chats
<1>4. Burst \in Nat \ {0} /\ "flush" \notin Handlers
  BY DEF Webhook!WebhookAssumption
<1>5. QED
  BY <1>2, <1>3, <1>4 DEF Webhook!Tasks, Webhook!LongWindow, Webhook!ShortWindow

\* What the table holds, and what the tasks have drained.
LEMMA HeldIs ==
  ASSUME NEW e
  PROVE  e \in Webhook!Held <=> Waits(e) \/ Drained(e)
<1>1. \A msgs : e \in Webhook!Elements(msgs) <=> In(e, msgs)
  BY DEF Webhook!Elements, In
<1>2. \A t \in Webhook!Tasks : e \in UNION {Webhook!Elements(msgs) : msgs \in gOut[t]}
                              <=> \E msgs \in gOut[t] : In(e, msgs)
  BY <1>1
<1>3. e \in Webhook!Held
        <=> \/ \E c \in Webhook!Chats : e \in Webhook!Elements(gPending[c].msgs)
            \/ \E t \in Webhook!Tasks : e \in UNION {Webhook!Elements(msgs) : msgs \in gOut[t]}
  BY Zenon DEF Webhook!Held
<1>4. QED
  BY <1>1, <1>2, <1>3 DEF Waits, Drained

\* The lesser of two numbers.
LEMMA LesserOfTwo ==
  ASSUME NEW a \in Nat, NEW b \in Nat
  PROVE  Webhook!Min({a, b}) \in {a, b} /\ Webhook!Min({a, b}) <= a /\ Webhook!Min({a, b}) <= b
<1>1. \E x \in {a, b} : \A y \in {a, b} : x <= y
  OBVIOUS
<1>2. \A y \in {a, b} : Webhook!Min({a, b}) <= y
  BY <1>1, Zenon DEF Webhook!Min
<1>3. Webhook!Min({a, b}) \in {a, b}
  BY <1>1, Zenon DEF Webhook!Min
<1>4. QED
  BY <1>2, <1>3

\* A batch that has each message once gives each once.
LEMMA OneEach ==
  ASSUME NEW msgs \in Seq(HookEvents), Once(msgs), NEW e
  PROVE  Webhook!Cardinality({i \in DOMAIN msgs : msgs[i] = e}) = IF In(e, msgs) THEN 1 ELSE 0
<1>0. \A S : Webhook!Cardinality(S) = Cardinality(S)
  BY DEF Webhook!Cardinality, Cardinality
<1>1. CASE In(e, msgs)
  <2>1. PICK i \in DOMAIN msgs : msgs[i] = e
    BY <1>1 DEF In
  <2>2. {j \in DOMAIN msgs : msgs[j] = e} = {i}
    BY <2>1 DEF Once
  <2>3. QED
    BY <1>0, <1>1, <2>2, FS_Singleton
<1>2. CASE ~In(e, msgs)
  <2>1. {j \in DOMAIN msgs : msgs[j] = e} = {}
    BY <1>2 DEF In
  <2>2. QED
    BY <1>0, <1>2, <2>1, FS_EmptySet
<1>3. QED
  BY <1>1, <1>2

\* What is drained leaves the table, whole, for a task that had nothing left.
LEMMA DrainMoves ==
  ASSUME Webhook!WebhookAssumption, WebhookInv, NEW t \in Webhook!Tasks,
         NEW chats \in SUBSET Webhook!Chats, gOut[t] = {}, Webhook!Drain(t, chats),
         UNCHANGED <<gIds, gGiven, gLost>>
  PROVE  /\ gPending' \in [Webhook!Chats -> [msgs : Seq(HookEvents), age : 0 .. Webhook!LongWindow,
                                             extended : BOOLEAN]]
         /\ gOut' \in [Webhook!Tasks -> SUBSET Seq(HookEvents)]
         /\ \A u \in Webhook!Tasks : u # t => gOut'[u] = gOut[u]
         /\ Apart' /\ \A e \in HookEvents : Kept(e) => Kept(e)'
<1> USE DEF WebhookInv
<1>1. /\ gOut' = [gOut EXCEPT ![t] = {gPending[c].msgs : c \in chats}]
      /\ gPending' = [c \in Webhook!Chats |-> IF c \in chats THEN Webhook!NoBatch ELSE gPending[c]]
  BY DEF Webhook!Drain
<1>2. Webhook!NoBatch \in [msgs : Seq(HookEvents), age : 0 .. Webhook!LongWindow,
        extended : BOOLEAN]
  BY DEF Webhook!NoBatch, Webhook!LongWindow
<1>3. \A c \in Webhook!Chats : gPending[c].msgs \in Seq(HookEvents)
  BY DEF WebhookTyped
<1>4. gPending' \in [Webhook!Chats -> [msgs : Seq(HookEvents), age : 0 .. Webhook!LongWindow,
                                       extended : BOOLEAN]]
  BY <1>1, <1>2, Zenon DEF WebhookTyped
<1>5. /\ gOut' \in [Webhook!Tasks -> SUBSET Seq(HookEvents)]
      /\ \A u \in Webhook!Tasks : u # t => gOut'[u] = gOut[u]
      /\ gOut'[t] = {gPending[c].msgs : c \in chats}
  <2>1. {gPending[c].msgs : c \in chats} \in SUBSET Seq(HookEvents)
    BY <1>3
  <2>2. QED
    BY <1>1, <2>1, Zenon DEF WebhookTyped
<1>6. \A c \in Webhook!Chats :
        /\ \A e \in HookEvents : In(e, gPending'[c].msgs) =>
             In(e, gPending[c].msgs) /\ c \notin chats
        /\ c \notin chats => gPending'[c] = gPending[c]
  <2>1. \A e \in HookEvents : ~In(e, Webhook!NoBatch.msgs)
    BY DEF In, Webhook!NoBatch
  <2>2. QED
    BY <1>1, <2>1 DEF In
<1>7. Apart'
  <2>1. ASSUME NEW c \in Webhook!Chats
        PROVE  /\ Once(gPending[c].msgs)'
               /\ \A e \in HookEvents :
                    In(e, gPending'[c].msgs) => ChatOf[e] = c /\ e \in gIds' /\ gGiven'[e] = 0
    <3>1. Once(gPending[c].msgs)'
      <4>1. Once(Webhook!NoBatch.msgs)
        BY DEF Once, Webhook!NoBatch
      <4>2. gPending'[c] = gPending[c] \/ gPending'[c] = Webhook!NoBatch
        BY <1>1
      <4>3. QED
        BY <4>1, <4>2 DEF Apart, Once
    <3>2. QED
      BY <1>6, <3>1 DEF Apart, In
  <2>2. ASSUME NEW u \in Webhook!Tasks, NEW msgs \in gOut'[u]
        PROVE  /\ Once(msgs)
               /\ \A e \in HookEvents : In(e, msgs) => e \in gIds' /\ gGiven'[e] = 0 /\ ~Waits(e)'
    <3>1. CASE u = t
      <4>1. PICK c \in chats : msgs = gPending[c].msgs
        BY <1>5, <3>1, <2>2
      <4>2. ASSUME NEW e \in HookEvents, In(e, msgs), Waits(e)'
            PROVE  FALSE
        <5>1. PICK d \in Webhook!Chats : In(e, gPending'[d].msgs)
          BY <4>2 DEF Waits
        <5>2. In(e, gPending[d].msgs) /\ d \notin chats
          BY <1>6, <5>1
        <5>3. c = ChatOf[e] /\ d = ChatOf[e]
          BY <4>1, <4>2, <5>2 DEF Apart
        <5>4. QED
          BY <4>1, <5>2, <5>3
      <4>3. QED
        BY <4>1, <4>2 DEF Apart
    <3>2. CASE u # t
      <4>1. msgs \in gOut[u]
        BY <1>5, <3>2, <2>2
      <4>2. \A e \in HookEvents : Waits(e)' => Waits(e)
        BY <1>6 DEF Waits
      <4>3. QED
        BY <4>1, <4>2 DEF Apart
    <3>3. QED
      BY <3>1, <3>2
  <2>3. ASSUME NEW u \in Webhook!Tasks, NEW v \in Webhook!Tasks, NEW msgs \in gOut'[u],
               NEW more \in gOut'[v], NEW e \in HookEvents, In(e, msgs), In(e, more)
        PROVE  u = v /\ msgs = more
    <3>1. CASE u = t /\ v = t
      <4>1. PICK c \in chats, d \in chats : msgs = gPending[c].msgs /\ more = gPending[d].msgs
        BY <1>5, <2>3, <3>1
      <4>2. QED
        BY <2>3, <3>1, <4>1 DEF Apart
    <3>2. CASE u = t /\ v # t
      <4>1. PICK c \in chats : msgs = gPending[c].msgs
        BY <1>5, <2>3, <3>2
      <4>2. Waits(e) /\ more \in gOut[v]
        BY <1>5, <2>3, <3>2, <4>1 DEF Waits
      <4>3. QED
        BY <2>3, <4>2 DEF Apart
    <3>3. CASE u # t /\ v = t
      <4>1. PICK c \in chats : more = gPending[c].msgs
        BY <1>5, <2>3, <3>3
      <4>2. Waits(e) /\ msgs \in gOut[u]
        BY <1>5, <2>3, <3>3, <4>1 DEF Waits
      <4>3. QED
        BY <2>3, <4>2 DEF Apart
    <3>4. CASE u # t /\ v # t
      BY <1>5, <2>3, <3>4 DEF Apart
    <3>5. QED
      BY <3>1, <3>2, <3>3, <3>4
  <2>4. \A e \in HookEvents : gGiven'[e] <= 1 /\ (gGiven'[e] = 1 => e \in gIds')
    BY DEF Apart
  <2>5. QED
    BY <2>1, <2>2, <2>3, <2>4 DEF Apart
<1>8. ASSUME NEW e \in HookEvents, Kept(e)
      PROVE  Kept(e)'
  <2>1. CASE Waits(e)
    <3>1. PICK c \in Webhook!Chats : In(e, gPending[c].msgs)
      BY <2>1 DEF Waits
    <3>2. CASE c \in chats
      BY <1>5, <3>1, <3>2 DEF Kept, Drained
    <3>3. CASE c \notin chats
      BY <1>6, <3>1, <3>3 DEF Kept, Waits
    <3>4. QED
      BY <3>2, <3>3
  <2>2. CASE Drained(e)
    <3>1. PICK u \in Webhook!Tasks : \E msgs \in gOut[u] : In(e, msgs)
      BY <2>2 DEF Drained
    <3>2. u # t /\ gOut'[u] = gOut[u]
      BY <1>5, <3>1
    <3>3. QED
      BY <3>1, <3>2 DEF Kept, Drained
  <2>3. QED
    BY <1>8, <2>1, <2>2 DEF Kept
<1>9. QED
  BY <1>4, <1>5, <1>7, <1>8

\* A step after which every batch is where it was, or gone.
LEMMA BatchesStay ==
  ASSUME Apart, \A c \in Webhook!Chats : gPending'[c].msgs = gPending[c].msgs,
         \A t \in Webhook!Tasks : gOut'[t] \subseteq gOut[t], gGiven' = gGiven, gIds \subseteq gIds'
  PROVE  Apart'
<1>1. \A e : Waits(e)' <=> Waits(e)
  BY DEF Waits
<1>2. QED
  BY <1>1, Zenon DEF Apart

\* What is remembered stays kept when all that was kept is.
LEMMA MemoryStays ==
  ASSUME Remembered, UNCHANGED <<gIds, gSaid>>, gLost \subseteq gLost',
         \A e \in HookEvents : Kept(e) => Kept(e)',
         gAcked' \subseteq gIds, \A h \in Handlers : gPc'[h] \in {"second", "last"} =>
           gEvent'[h] \in gIds
  PROVE  Remembered'
BY DEF Remembered

\* Batches are drained by a handler that begins or goes on, and by the flush task.
LEMMA WebhookDrains ==
  ASSUME Webhook!WebhookAssumption, WebhookInv,
         \/ \E h \in Handlers : \/ \E e \in HookEvents : Webhook!Receive(h, e)
                                \/ h # "flush" /\ Webhook!DrainAgain(h)
         \/ Webhook!FlushTick \/ Webhook!FlushAll
  PROVE  WebhookInv'
<1> USE WebhookTasks DEF WebhookInv
<1>1. PICK t \in Webhook!Tasks, chats \in SUBSET Webhook!Chats, to \in {"first", "last"} :
        /\ Webhook!Drain(t, chats) /\ gPc' = [gPc EXCEPT ![t] = to] /\ gPc[t] \in {"idle", "second"}
        /\ UNCHANGED <<gIds, gSaid, gUp, gAcked, gGiven, gLost>>
        /\ gTokens' = gTokens \/ (gTokens > 0 /\ gTokens' = gTokens - 1)
        /\ \/ to = "first" /\ t \in Handlers /\
             \E e \in HookEvents : gEvent' = [gEvent EXCEPT ![t] = e]
           \/ gEvent' = gEvent /\ (t \in Handlers => gPc[t] = "second")
  <2>1. CASE \E h \in Handlers, e \in HookEvents : Webhook!Receive(h, e)
    BY <2>1 DEF Webhook!Receive, Webhook!Due, Webhook!Go, Webhook!history
  <2>2. CASE \E h \in Handlers : Webhook!DrainAgain(h)
    BY <2>2 DEF Webhook!DrainAgain, Webhook!Due, Webhook!Go, Webhook!history
  <2>3. CASE Webhook!FlushTick
    BY <2>3 DEF Webhook!FlushTick, Webhook!Due, Webhook!Go, Webhook!history
  <2>4. CASE Webhook!FlushAll
    <3>1. {c \in Webhook!Chats : gPending[c].msgs # <<>>} \in SUBSET Webhook!Chats
      OBVIOUS
    <3>2. QED
      BY <2>4, <3>1 DEF Webhook!FlushAll, Webhook!Go, Webhook!history
  <2>5. QED
    BY <2>1, <2>2, <2>3, <2>4
<1>2. gOut[t] = {}
  BY <1>1 DEF Emptied
<1>3. /\ gPending' \in [Webhook!Chats -> [msgs : Seq(HookEvents), age : 0 .. Webhook!LongWindow,
                                          extended : BOOLEAN]]
      /\ gOut' \in [Webhook!Tasks -> SUBSET Seq(HookEvents)]
      /\ \A u \in Webhook!Tasks : u # t => gOut'[u] = gOut[u]
      /\ Apart' /\ \A e \in HookEvents : Kept(e) => Kept(e)'
  BY <1>1, <1>2, DrainMoves
<1>4. gTokens' \in 0 .. Burst
  BY <1>1 DEF WebhookTyped
<1>5. gEvent' \in [Handlers -> HookEvents \union {0}]
  BY <1>1 DEF WebhookTyped
<1>6. gPc' \in [Webhook!Tasks -> {"idle", "first", "second", "last", "end"}]
  BY <1>1 DEF WebhookTyped
<1>7. WebhookTyped'
  BY <1>1, <1>3, <1>4, <1>5, <1>6 DEF WebhookTyped
<1>8. Emptied'
  <2>1. \A u \in Webhook!Tasks : gPc'[u] \notin {"first", "last"} => u # t /\ gOut'[u] = {}
    BY <1>1, <1>3 DEF Emptied, WebhookTyped
  <2>2. \A h \in Handlers : gPc'[h] = "idle" \/ gEvent'[h] \in HookEvents
    BY <1>1 DEF Emptied, WebhookTyped
  <2>3. QED
    BY <2>1, <2>2 DEF Emptied
<1>9. \A h \in Handlers : gPc'[h] \in {"second", "last"} => gEvent'[h] \in gIds
  BY <1>1 DEF Remembered, WebhookTyped
<1>10. gAcked' \subseteq gIds /\ gLost \subseteq gLost' /\ UNCHANGED <<gIds, gSaid>>
  BY <1>1 DEF Remembered
<1>11. Remembered'
  BY <1>3, <1>9, <1>10, MemoryStays
<1>12. QED
  BY <1>3, <1>7, <1>8, <1>11

\* A batch that is sent is the agent's, and nobody's else.
LEMMA WebhookSends ==
  ASSUME Webhook!WebhookAssumption, WebhookInv, NEW t \in Webhook!Tasks, Webhook!Send(t)
  PROVE  WebhookInv'
<1> USE WebhookTasks DEF WebhookInv
<1>1. PICK msgs \in gOut[t] :
        /\ gOut' = [gOut EXCEPT ![t] = @ \ {msgs}]
        /\ gGiven' = [e \in HookEvents |->
                        gGiven[e] + Webhook!Cardinality({i \in DOMAIN msgs : msgs[i] = e})]
  BY DEF Webhook!Send
<1>2. /\ UNCHANGED <<gPending, gIds, gSaid, gTokens, gPc, gEvent, gUp, gAcked, gLost>>
      /\ gPc[t] \in {"first", "last"}
  BY DEF Webhook!Send, Webhook!batcher
<1>3. msgs \in Seq(HookEvents) /\ Once(msgs)
  BY DEF WebhookTyped, Apart
<1>4. gGiven' = [e \in HookEvents |-> gGiven[e] + IF In(e, msgs) THEN 1 ELSE 0]
  BY <1>1, <1>3, OneEach
<1>5. \A e \in HookEvents : gGiven'[e] = IF In(e, msgs) THEN 1 ELSE gGiven[e]
  BY <1>4 DEF Apart, WebhookTyped
<1>6. /\ gOut' \in [Webhook!Tasks -> SUBSET Seq(HookEvents)]
      /\ gOut'[t] = gOut[t] \ {msgs} /\ \A u \in Webhook!Tasks : u # t => gOut'[u] = gOut[u]
      /\ \A u \in Webhook!Tasks : gOut'[u] \subseteq gOut[u]
  BY <1>1 DEF WebhookTyped
<1>7. gGiven' \in [HookEvents -> Nat]
  BY <1>4 DEF WebhookTyped
<1>8. WebhookTyped'
  BY <1>2, <1>6, <1>7 DEF WebhookTyped
<1>9. \A e : Waits(e)' <=> Waits(e)
  BY <1>2 DEF Waits
<1>10. \A u \in Webhook!Tasks : \A more \in gOut'[u] : \A e \in HookEvents : In(e, more) =>
         ~In(e, msgs)
  BY <1>6 DEF Apart
<1>11. Apart'
  <2>1. \A c \in Webhook!Chats : \A e \in HookEvents : In(e, gPending[c].msgs) => ~In(e, msgs)
    BY DEF Apart, Waits
  <2>2. \A c \in Webhook!Chats :
          /\ Once(gPending'[c].msgs)
          /\ \A e \in HookEvents : In(e, gPending'[c].msgs) =>
               ChatOf[e] = c /\ e \in gIds' /\ gGiven'[e] = 0
    BY <1>2, <1>5, <2>1 DEF Apart
  <2>3. \A u \in Webhook!Tasks : \A more \in gOut'[u] :
          /\ Once(more)
          /\ \A e \in HookEvents : In(e, more) => e \in gIds' /\ gGiven'[e] = 0 /\ ~Waits(e)'
    BY <1>2, <1>5, <1>6, <1>9, <1>10 DEF Apart
  <2>4. \A u, v \in Webhook!Tasks : \A some \in gOut'[u], more \in gOut'[v] :
          \A e \in HookEvents : In(e, some) /\ In(e, more) => u = v /\ some = more
    BY <1>6 DEF Apart
  <2>5. \A e \in HookEvents : gGiven'[e] <= 1 /\ (gGiven'[e] = 1 => e \in gIds')
    BY <1>2, <1>5 DEF Apart
  <2>6. QED
    BY <2>2, <2>3, <2>4, <2>5 DEF Apart
<1>12. ASSUME NEW e \in HookEvents, Kept(e)
       PROVE  Kept(e)'
  <2>1. CASE In(e, msgs)
    BY <1>5, <2>1 DEF Kept
  <2>2. CASE ~In(e, msgs)
    <3>1. Drained(e) => Drained(e)'
      BY <1>6, <2>2 DEF Drained
    <3>2. gGiven'[e] = gGiven[e]
      BY <1>5, <2>2
    <3>3. QED
      BY <1>2, <1>9, <1>12, <3>1, <3>2 DEF Kept
  <2>3. QED
    BY <2>1, <2>2
<1>13. Emptied'
  BY <1>2, <1>6 DEF Emptied
<1>14. Remembered'
  <2>1. gAcked' \subseteq gIds /\ gLost \subseteq gLost' /\ UNCHANGED <<gIds, gSaid>>
        /\ \A h \in Handlers : gPc'[h] \in {"second", "last"} => gEvent'[h] \in gIds
    BY <1>2 DEF Remembered
  <2>2. QED
    BY <1>12, <2>1, MemoryStays
<1>15. QED
  BY <1>8, <1>11, <1>13, <1>14

\* A batch with one more message.
LEMMA BatchGrows ==
  ASSUME NEW S, NEW s \in Seq(S), NEW e \in S
  PROVE  /\ \A m : In(m, Append(s, e)) <=> In(m, s) \/ m = e
         /\ Once(s) /\ ~In(e, s) => Once(Append(s, e))
<1> DEFINE new == Append(s, e)
<1>1. /\ DOMAIN new = 1 .. Len(s) + 1 /\ new[Len(s) + 1] = e /\ Len(s) \in Nat
      /\ DOMAIN s = 1 .. Len(s) /\ \A i \in 1 .. Len(s) : new[i] = s[i]
  BY AddingLast
<1> HIDE DEF new
<1>2. \A i : i \in DOMAIN new <=> i \in DOMAIN s \/ i = Len(s) + 1
  BY <1>1
<1>3. \A m : In(m, new) <=> In(m, s) \/ m = e
  BY <1>1, <1>2 DEF In
<1>4. ASSUME Once(s), ~In(e, s), NEW i \in DOMAIN new, NEW j \in DOMAIN new, new[i] = new[j]
      PROVE  i = j
  BY <1>1, <1>2, <1>4 DEF Once, In
<1>5. QED
  BY <1>3, <1>4 DEF Once, new

\* A message that is not remembered is in no place; it joins the batch of its
\* chat, or replaces one that nobody drained in time.
LEMMA WebhookCollects ==
  ASSUME Webhook!WebhookAssumption, WebhookInv, NEW h \in Handlers, NEW e \in HookEvents,
         gPc[h] = "first", gOut[h] = {}, gEvent[h] = e, Webhook!Collect(h, e),
         UNCHANGED <<gTokens, gOut, gUp, gAcked, gGiven>>
  PROVE  WebhookInv'
<1> USE WebhookTasks DEF WebhookInv
<1> DEFINE c == ChatOf[e]
           waiting == gPending[c]
<1>1. /\ e \notin gIds /\ gIds' = gIds \union {e} /\ gSaid' = gSaid \union {SaidAs[e]}
      /\ gPc' = [gPc EXCEPT ![h] = "second"] /\ gEvent' = gEvent
  BY DEF Webhook!Collect, Webhook!Duplicate, Webhook!Go
<1>2. c \in Webhook!Chats /\ waiting \in [msgs : Seq(HookEvents), age : 0 .. Webhook!LongWindow,
                                        extended : BOOLEAN]
  BY DEF WebhookTyped
<1>3. PICK new \in [msgs : Seq(HookEvents), age : 0 .. Webhook!LongWindow, extended : BOOLEAN] :
        /\ gPending' = [gPending EXCEPT ![c] = new]
        /\ \/ new.msgs = Append(waiting.msgs, e) /\ gLost' = gLost
           \/ new.msgs = <<e>> /\ gLost' = gLost \union Webhook!Elements(waiting.msgs)
  <2>1. CASE Webhook!Active(waiting)
    <3>1. /\ gPending' = [gPending EXCEPT ![c] = [waiting EXCEPT !.msgs = Append(@, e),
                                                              !.extended = @ \/ e \in Long]]
          /\ gLost' = gLost
      BY <2>1 DEF Webhook!Collect, Webhook!Buffer
    <3>2. /\ [waiting EXCEPT !.msgs = Append(@, e), !.extended = @ \/ e \in Long]
                \in [msgs : Seq(HookEvents), age : 0 .. Webhook!LongWindow, extended : BOOLEAN]
          /\ [waiting EXCEPT !.msgs = Append(@, e), !.extended = @ \/ e \in Long].msgs
                = Append(waiting.msgs, e)
      <4>1. Append(waiting.msgs, e) \in Seq(HookEvents) /\
              (waiting.extended \/ e \in Long) \in BOOLEAN
        BY <1>2, AddingLast
      <4>2. QED
        BY <1>2, <4>1
    <3>3. QED
      BY <3>1, <3>2
  <2>2. CASE ~Webhook!Active(waiting)
    <3>1. /\ gPending' = [gPending EXCEPT ![c] =
               [msgs |-> <<e>>, age |-> 0, extended |-> e \in Long]]
          /\ gLost' = gLost \union Webhook!Elements(waiting.msgs)
      BY <2>2 DEF Webhook!Collect, Webhook!Buffer
    <3>2. [msgs |-> <<e>>, age |-> 0, extended |-> e \in Long]
            \in [msgs : Seq(HookEvents), age : 0 .. Webhook!LongWindow, extended : BOOLEAN]
      OBVIOUS
    <3>3. QED
      BY <3>1, <3>2
  <2>3. QED
    BY <2>1, <2>2
<1>4. /\ gPending'[c] = new /\ \A d \in Webhook!Chats : d # c => gPending'[d] = gPending[d]
      /\ gPending' \in [Webhook!Chats -> [msgs : Seq(HookEvents), age : 0 .. Webhook!LongWindow,
                                          extended : BOOLEAN]]
  BY <1>2, <1>3, Zenon DEF WebhookTyped
<1> HIDE DEF c, waiting
<1>5. \A i \in DOMAIN waiting.msgs : waiting.msgs[i] \in HookEvents
  BY <1>2
<1>6. /\ gLost \subseteq gLost' /\ gLost' \subseteq HookEvents
      /\ \A m : In(m, waiting.msgs) => In(m, new.msgs) \/ m \in gLost'
      /\ \A m : In(m, new.msgs) => In(m, waiting.msgs) \/ m = e
      /\ In(e, new.msgs)
  <2>1. CASE new.msgs = Append(waiting.msgs, e) /\ gLost' = gLost
    <3>1. \A m : In(m, new.msgs) <=> In(m, waiting.msgs) \/ m = e
      BY <1>2, <2>1, BatchGrows
    <3>2. QED
      BY <2>1, <3>1 DEF WebhookTyped
  <2>2. CASE new.msgs = <<e>> /\ gLost' = gLost \union Webhook!Elements(waiting.msgs)
    BY <1>5, <2>2 DEF In, Webhook!Elements, WebhookTyped
  <2>3. QED
    BY <1>3, <2>1, <2>2
<1>7. /\ ~Waits(e) /\ ~Drained(e) /\ gGiven[e] = 0
      /\ \A d \in Webhook!Chats : ~In(e, gPending[d].msgs)
      /\ \A t \in Webhook!Tasks : \A msgs \in gOut[t] : ~In(e, msgs)
  BY <1>1 DEF Apart, Waits, Drained, WebhookTyped
<1>8. Once(new.msgs)
  <2>1. Once(waiting.msgs) /\ ~In(e, waiting.msgs)
    BY <1>2, <1>7 DEF Apart, waiting
  <2>2. CASE new.msgs = Append(waiting.msgs, e)
    BY <1>2, <2>1, <2>2, BatchGrows
  <2>3. CASE new.msgs = <<e>>
    BY <2>3 DEF Once
  <2>4. QED
    BY <1>3, <2>2, <2>3
<1>9. \A m \in HookEvents : Waits(m)' => Waits(m) \/ m = e
  BY <1>2, <1>4, <1>6 DEF Waits, waiting
<1>10. Apart'
  <2>1. \A m \in HookEvents : In(m, new.msgs) => ChatOf[m] = c /\ m \in gIds' /\ gGiven'[m] = 0
    BY <1>1, <1>2, <1>6, <1>7 DEF Apart, c, waiting
  <2>2. \A d \in Webhook!Chats :
          /\ Once(gPending'[d].msgs)
          /\ \A m \in HookEvents : In(m, gPending'[d].msgs) =>
               ChatOf[m] = d /\ m \in gIds' /\ gGiven'[m] = 0
    BY <1>1, <1>4, <1>8, <2>1 DEF Apart
  <2>3. \A t \in Webhook!Tasks : \A msgs \in gOut'[t] :
          /\ Once(msgs)
          /\ \A m \in HookEvents : In(m, msgs) => m \in gIds' /\ gGiven'[m] = 0 /\ ~Waits(m)'
    BY <1>1, <1>7, <1>9 DEF Apart
  <2>4. \A m \in HookEvents : gGiven'[m] <= 1 /\ (gGiven'[m] = 1 => m \in gIds')
    BY <1>1 DEF Apart
  <2>5. \A u, v \in Webhook!Tasks : \A some \in gOut'[u], more \in gOut'[v] :
          \A m \in HookEvents : In(m, some) /\ In(m, more) => u = v /\ some = more
    BY DEF Apart
  <2>6. QED
    BY <2>2, <2>3, <2>4, <2>5 DEF Apart
<1>11. ASSUME NEW m \in HookEvents, Kept(m)
       PROVE  Kept(m)'
  <2>1. Drained(m) => Drained(m)'
    BY DEF Drained
  <2>2. Waits(m) => Waits(m)' \/ m \in gLost'
    BY <1>2, <1>4, <1>6 DEF Waits, waiting
  <2>3. QED
    BY <1>6, <1>11, <2>1, <2>2 DEF Kept
<1>12. Kept(e)'
  BY <1>2, <1>4, <1>6 DEF Kept, Waits
<1>13. WebhookTyped'
  <2>1. gPc' \in [Webhook!Tasks -> {"idle", "first", "second", "last", "end"}]
    BY <1>1 DEF WebhookTyped
  <2>2. gIds' \subseteq HookEvents /\ gSaid' \subseteq {SaidAs[m] : m \in HookEvents}
    BY <1>1 DEF WebhookTyped
  <2>3. QED
    BY <1>1, <1>4, <1>6, <2>1, <2>2 DEF WebhookTyped
<1>14. Emptied'
  <2>1. \A t \in Webhook!Tasks : gPc'[t] \notin {"first", "last"} => gOut'[t] = {}
    BY <1>1 DEF Emptied, WebhookTyped
  <2>2. \A g \in Handlers : gPc'[g] = "idle" \/ gEvent'[g] \in HookEvents
    BY <1>1 DEF Emptied, WebhookTyped
  <2>3. QED
    BY <2>1, <2>2 DEF Emptied
<1>15. Remembered'
  <2>1. \A m \in gIds' : SaidAs[m] \in gSaid' \/ m \in gLost'
    BY <1>1, <1>6 DEF Remembered
  <2>2. \A s \in gSaid' : \E m \in HookEvents : SaidAs[m] = s /\ Kept(m)'
    BY <1>1, <1>11, <1>12 DEF Remembered
  <2>3. gAcked' \subseteq gIds' /\ \A g \in Handlers : gPc'[g] \in {"second", "last"} =>
          gEvent'[g] \in gIds'
    BY <1>1 DEF Remembered, WebhookTyped
  <2>4. QED
    BY <2>1, <2>2, <2>3 DEF Remembered
<1>16. QED
  BY <1>10, <1>13, <1>14, <1>15

\* An event that was seen before is dropped where it is; one whose fingerprint
\* cannot be cut is lost with its handler.
LEMMA WebhookProcesses ==
  ASSUME Webhook!WebhookAssumption, WebhookInv, NEW h \in Handlers, Webhook!Process(h)
  PROVE  WebhookInv'
<1> USE WebhookTasks DEF WebhookInv
<1>1. /\ gPc[h] = "first" /\ gOut[h] = {} /\ UNCHANGED <<gTokens, gOut, gUp, gAcked, gGiven>>
      /\ gEvent[h] \in HookEvents
  BY DEF Webhook!Process, Emptied
<1> DEFINE e == gEvent[h]
<1>2. CASE Webhook!Collect(h, e)
  BY <1>1, <1>2, WebhookCollects
<1>3. CASE Webhook!ProcessPanics(h, e) \/ Webhook!Discard(h, e)
  <2>1. /\ gIds' = gIds \union {e} /\ UNCHANGED <<gPending, gSaid>> /\ gLost \subseteq gLost'
        /\ gLost' \subseteq HookEvents
        /\ gPc' \in [Webhook!Tasks -> {"idle", "first", "second", "last", "end"}]
        /\ gEvent' \in [Handlers -> HookEvents \union {0}]
    BY <1>1, <1>3 DEF Webhook!ProcessPanics, Webhook!Discard, Webhook!Go, WebhookTyped
  <2>2. /\ \A t \in Webhook!Tasks : t # h => gPc'[t] = gPc[t]
        /\ gPc'[h] \in {"idle", "second"}
        /\ \A g \in Handlers : g # h => gEvent'[g] = gEvent[g]
        /\ gPc'[h] = "second" => gEvent'[h] = e
    BY <1>1, <1>3 DEF Webhook!ProcessPanics, Webhook!Discard, Webhook!Go, WebhookTyped
  <2>3. SaidAs[e] \in gSaid \/ e \in gLost'
    <3>1. CASE Webhook!ProcessPanics(h, e)
      BY <3>1 DEF Webhook!ProcessPanics
    <3>2. CASE Webhook!Discard(h, e)
      BY <3>2 DEF Webhook!Discard, Webhook!Duplicate, Remembered
    <3>3. QED
      BY <1>3, <3>1, <3>2
  <2>4. WebhookTyped'
    <3>1. gIds' \subseteq HookEvents
      BY <1>1, <2>1 DEF WebhookTyped
    <3>2. QED
      BY <1>1, <2>1, <3>1 DEF WebhookTyped
  <2>5. Apart'
    BY <1>1, <2>1, BatchesStay
  <2>6. Emptied'
    BY <1>1, <2>2 DEF Emptied
  <2>7. \A m \in HookEvents : Kept(m) => Kept(m)'
    BY <1>1, <2>1 DEF Kept, Waits, Drained
  <2>8. Remembered'
    <3>1. \A m \in gIds' : SaidAs[m] \in gSaid' \/ m \in gLost'
      BY <2>1, <2>3 DEF Remembered
    <3>2. \A s \in gSaid' : \E m \in HookEvents : SaidAs[m] = s /\ Kept(m)'
      BY <2>1, <2>7 DEF Remembered
    <3>3. /\ gAcked' \subseteq gIds'
          /\ \A g \in Handlers : gPc'[g] \in {"second", "last"} => gEvent'[g] \in gIds'
      BY <1>1, <2>1, <2>2 DEF Remembered
    <3>4. QED
      BY <3>1, <3>2, <3>3 DEF Remembered
  <2>9. QED
    BY <2>4, <2>5, <2>6, <2>8
<1>4. QED
  BY <1>2, <1>3 DEF Webhook!Process

\* A handler that ends has answered what it remembered, or loses what it held.
LEMMA WebhookEnds ==
  ASSUME Webhook!WebhookAssumption, WebhookInv, NEW h \in Handlers,
         Webhook!Respond(h) \/ Webhook!HangUp(h)
  PROVE  WebhookInv'
<1> USE WebhookTasks DEF WebhookInv
<1>1. /\ UNCHANGED <<gPending, gIds, gSaid, gTokens, gUp, gGiven>> /\ h \in Webhook!Tasks
      /\ gPc' = [gPc EXCEPT ![h] = "idle"] /\ gEvent' = [gEvent EXCEPT ![h] = 0]
      /\ gOut' = [gOut EXCEPT ![h] = {}] /\ gLost \subseteq gLost'
      /\ gAcked' \subseteq gAcked \union (IF gPc[h] = "last" THEN {gEvent[h]} ELSE {})
  BY DEF Webhook!Respond, Webhook!HangUp, Webhook!Go, Webhook!batcher, Webhook!history, WebhookTyped
<1>2. \A msgs \in gOut[h] : \A m : In(m, msgs) => m \in gLost' \/ Webhook!Respond(h)
  BY DEF Webhook!HangUp, Webhook!Elements, In
<1>3. gLost' \subseteq HookEvents
  <2>1. \A msgs \in gOut[h] : Webhook!Elements(msgs) \subseteq HookEvents
    <3>1. \A msgs \in gOut[h] : msgs \in Seq(HookEvents)
      BY <1>1 DEF WebhookTyped
    <3>2. QED
      BY <3>1 DEF Webhook!Elements
  <2>2. QED
    BY <2>1 DEF Webhook!Respond, Webhook!HangUp, Webhook!history, WebhookTyped
<1>4. gAcked' \subseteq gIds
  BY <1>1 DEF Remembered
<1>5. WebhookTyped'
  BY <1>1, <1>3, <1>4 DEF WebhookTyped
<1>6. Apart'
  <2>1. \A t \in Webhook!Tasks : gOut'[t] \subseteq gOut[t]
    BY <1>1 DEF WebhookTyped
  <2>2. QED
    BY <1>1, <2>1, BatchesStay
<1>7. Emptied'
  BY <1>1 DEF Emptied, WebhookTyped
<1>8. \A m \in HookEvents : Kept(m) => Kept(m)'
  <2>1. \A m \in HookEvents : Drained(m) => Drained(m)' \/ m \in gLost'
    <3>1. ASSUME NEW m \in HookEvents, NEW t \in Webhook!Tasks, NEW msgs \in gOut[t], In(m, msgs)
          PROVE  Drained(m)' \/ m \in gLost'
      <4>1. CASE t = h
        BY <1>2, <3>1, <4>1 DEF Webhook!Respond
      <4>2. CASE t # h
        BY <1>1, <3>1, <4>2 DEF Drained, WebhookTyped
      <4>3. QED
        BY <4>1, <4>2
    <3>2. QED
      BY <3>1 DEF Drained
  <2>2. QED
    BY <1>1, <2>1 DEF Kept, Waits
<1>9. \A g \in Handlers : gPc'[g] \in {"second", "last"} => gEvent'[g] \in gIds
  BY <1>1 DEF Remembered, WebhookTyped
<1>10. Remembered'
  BY <1>1, <1>4, <1>8, <1>9, MemoryStays
<1>11. QED
  BY <1>5, <1>6, <1>7, <1>10

\* The rest moves no message: refusals, time, the agent, the flush task's rounds.
LEMMA WebhookElse ==
  ASSUME Webhook!WebhookAssumption, WebhookInv,
         \/ Webhook!Refuse \/ Webhook!Shutdown \/ Webhook!ConsumeInbound \/ Webhook!Tick
         \/ Webhook!FlushSent \/ Webhook!FlushEnds \/ UNCHANGED Webhook!vars
  PROVE  WebhookInv'
<1> USE WebhookTasks DEF WebhookInv
<1>1. /\ UNCHANGED <<gIds, gSaid, gEvent, gOut, gAcked, gGiven, gLost>>
      /\ gUp' \in BOOLEAN
  BY DEF Webhook!Refuse, Webhook!Shutdown, Webhook!ConsumeInbound, Webhook!Tick,
     Webhook!FlushSent, Webhook!FlushEnds, Webhook!vars, Webhook!batcher, Webhook!history,
     WebhookTyped
<1>2. \/ gPc' = gPc
      \/ gOut["flush"] = {} /\ \E to \in {"idle", "end"} : gPc' = [gPc EXCEPT !["flush"] = to]
  BY DEF Webhook!Refuse, Webhook!Shutdown, Webhook!ConsumeInbound, Webhook!Tick,
     Webhook!FlushSent, Webhook!FlushEnds, Webhook!vars, Webhook!Go
<1>3. /\ gPc' \in [Webhook!Tasks -> {"idle", "first", "second", "last", "end"}]
      /\ \A h \in Handlers : gPc'[h] = gPc[h]
      /\ \A t \in Webhook!Tasks : gPc'[t] = gPc[t] \/ gOut[t] = {}
  <2>1. CASE gPc' = gPc
    BY <2>1 DEF WebhookTyped
  <2>2. CASE /\ gOut["flush"] = {}
             /\ \E to \in {"idle", "end"} : gPc' = [gPc EXCEPT !["flush"] = to]
    <3>1. PICK to \in {"idle", "end"} : gPc' = [gPc EXCEPT !["flush"] = to]
      BY <2>2
    <3>2. \A t \in Webhook!Tasks : t # "flush" => gPc'[t] = gPc[t]
      BY <3>1 DEF WebhookTyped
    <3>3. QED
      BY <2>2, <3>1, <3>2 DEF WebhookTyped
  <2>3. QED
    BY <1>2, <2>1, <2>2
<1>4. gTokens' \in 0 .. Burst
  <2>1. CASE Webhook!Tick
    <3>1. gTokens' = Webhook!Min({gTokens + 1, Burst}) /\ gTokens + 1 \in Nat /\ Burst \in Nat
      BY <2>1 DEF Webhook!Tick, WebhookTyped
    <3>2. gTokens' \in {gTokens + 1, Burst} /\ gTokens' <= Burst
      BY <3>1, LesserOfTwo, Zenon
    <3>3. QED
      BY <3>1, <3>2
  <2>2. CASE gTokens' = gTokens
    BY <2>2 DEF WebhookTyped
  <2>3. QED
    BY <2>1, <2>2 DEF Webhook!Refuse, Webhook!Shutdown, Webhook!ConsumeInbound,
       Webhook!FlushSent, Webhook!FlushEnds, Webhook!vars
<1>5. /\ gPending' \in [Webhook!Chats -> [msgs : Seq(HookEvents), age : 0 .. Webhook!LongWindow,
                                          extended : BOOLEAN]]
      /\ \A c \in Webhook!Chats : gPending'[c].msgs = gPending[c].msgs
  <2>1. CASE Webhook!Tick
    <3>1. gPending' = [c \in Webhook!Chats |->
                         IF gPending[c].msgs = <<>> THEN Webhook!NoBatch
                         ELSE [gPending[c] EXCEPT
                                 !.age = Webhook!Min({@ + 1, Webhook!Window(gPending[c])})]]
      BY <2>1 DEF Webhook!Tick
    <3>2. ASSUME NEW c \in Webhook!Chats
          PROVE  /\ gPending'[c] \in [msgs : Seq(HookEvents), age : 0 .. Webhook!LongWindow,
                                      extended : BOOLEAN]
                 /\ gPending'[c].msgs = gPending[c].msgs
      <4>1. gPending[c] \in [msgs : Seq(HookEvents), age : 0 .. Webhook!LongWindow,
              extended : BOOLEAN]
        BY DEF WebhookTyped
      <4>2. CASE gPending[c].msgs = <<>>
        BY <3>1, <4>2 DEF Webhook!NoBatch
      <4>3. CASE gPending[c].msgs # <<>>
        <5>1. PICK w : w = Webhook!Window(gPending[c]) /\ w \in 0 .. Webhook!LongWindow
          BY DEF Webhook!Window
        <5>2. PICK a : a = gPending[c].age + 1 /\ a \in Nat
          BY <4>1
        <5>3. PICK n : n = Webhook!Min({a, w}) /\ n \in 0 .. Webhook!LongWindow
          <6>1. w \in Nat
            BY <5>1
          <6>2. Webhook!Min({a, w}) \in {a, w} /\ Webhook!Min({a, w}) <= w
            BY <5>2, <6>1, LesserOfTwo
          <6>3. QED
            BY <5>1, <5>2, <6>2
        <5>4. gPending'[c] = [gPending[c] EXCEPT !.age = n]
          BY <3>1, <4>3, <5>1, <5>2, <5>3
        <5>5. QED
          BY <4>1, <5>3, <5>4
      <4>4. QED
        BY <4>2, <4>3
    <3>3. gPending' = [c \in Webhook!Chats |-> gPending'[c]]
      BY <3>1, Zenon
    <3>4. QED
      BY <3>2, <3>3, Zenon
  <2>2. CASE gPending' = gPending
    BY <2>2 DEF WebhookTyped
  <2>3. QED
    BY <2>1, <2>2 DEF Webhook!Refuse, Webhook!Shutdown, Webhook!ConsumeInbound,
       Webhook!FlushSent, Webhook!FlushEnds, Webhook!vars, Webhook!batcher
<1>6. WebhookTyped'
  BY <1>1, <1>3, <1>4, <1>5 DEF WebhookTyped
<1>7. Apart'
  BY <1>1, <1>5, BatchesStay
<1>8. Emptied'
  BY <1>1, <1>3 DEF Emptied
<1>9. \A m \in HookEvents : Kept(m) => Kept(m)'
  BY <1>1, <1>5 DEF Kept, Waits, Drained
<1>10. Remembered'
  <2>1. gAcked' \subseteq gIds /\ gLost \subseteq gLost' /\ UNCHANGED <<gIds, gSaid>>
        /\ \A h \in Handlers : gPc'[h] \in {"second", "last"} => gEvent'[h] \in gIds
    BY <1>1, <1>3 DEF Remembered
  <2>2. QED
    BY <1>9, <2>1, MemoryStays
<1>11. QED
  BY <1>6, <1>7, <1>8, <1>10

\* WebhookInv holds at the start.
LEMMA WebhookInvInit == ASSUME Webhook!WebhookAssumption, Webhook!Init PROVE WebhookInv
<1> USE WebhookTasks DEF Webhook!Init
<1>1. \A c \in Webhook!Chats : gPending[c] = Webhook!NoBatch /\ gPending[c].msgs = <<>>
  BY DEF Webhook!NoBatch
<1>2. WebhookTyped
  <2>1. Webhook!NoBatch \in [msgs : Seq(HookEvents), age : 0 .. Webhook!LongWindow,
          extended : BOOLEAN]
    BY DEF Webhook!NoBatch
  <2>2. QED
    BY <2>1 DEF WebhookTyped
<1>3. Apart
  BY <1>1 DEF Apart, Once, In
<1>4. Emptied /\ Remembered
  BY DEF Emptied, Remembered
<1>5. QED
  BY <1>2, <1>3, <1>4 DEF WebhookInv

\* Every step keeps WebhookInv.
LEMMA WebhookInvStep ==
  ASSUME Webhook!WebhookAssumption, WebhookInv, [Webhook!Next]_(Webhook!vars)
  PROVE  WebhookInv'
BY WebhookTasks, WebhookDrains, WebhookSends, WebhookProcesses, WebhookEnds, WebhookElse
   DEF Webhook!Next, Webhook!Handler, Webhook!Flush

\* The webhook's invariant holds in every reachable state.
THEOREM WebhookInvariant == ASSUME Webhook!WebhookAssumption PROVE Webhook!Spec => []WebhookInv
BY WebhookInvInit, WebhookInvStep, PTL DEF Webhook!Spec

\* WebhookInv implies what the next theorem states.
LEMMA WebhookGivesOnceFollows ==
  ASSUME Webhook!WebhookAssumption PROVE WebhookInv => Webhook!GivenOnce
<1>1. SUFFICES ASSUME WebhookInv, NEW e \in HookEvents
               PROVE  gGiven[e] + (IF e \in Webhook!Held THEN 1 ELSE 0) <= 1
  BY DEF Webhook!GivenOnce
<1>2. gGiven[e] \in Nat /\ gGiven[e] <= 1
  BY <1>1 DEF WebhookInv, WebhookTyped, Apart
<1>3. e \in Webhook!Held => gGiven[e] = 0
  BY <1>1, HeldIs DEF WebhookInv, Apart, Waits, Drained
<1>4. QED
  BY <1>2, <1>3

\* However often Feishu pushes it and whoever drains its batch, a message is
\* given to the agent once: the id is looked up and marked, and a batch leaves
\* the table, under the batcher's lock.
THEOREM WebhookGivesOnce ==
  ASSUME Webhook!WebhookAssumption PROVE Webhook!Spec => []Webhook!GivenOnce
BY WebhookGivesOnceFollows, WebhookInvariant, PTL

\* WebhookInv implies what the next theorem states.
LEMMA WebhookKeepsFollows ==
  ASSUME Webhook!WebhookAssumption PROVE WebhookInv => Webhook!AckedIsKept
<1>1. SUFFICES ASSUME WebhookInv, NEW e \in gAcked
               PROVE  \E m \in HookEvents : /\ SaidAs[m] = SaidAs[e]
                                            /\ m \in Webhook!Held \union Webhook!Given \union gLost
  BY DEF Webhook!AckedIsKept
<1>2. \A m \in HookEvents : Kept(m) => m \in Webhook!Held \union Webhook!Given \union gLost
  BY HeldIs DEF Kept, Webhook!Given
<1>3. e \in gIds /\ e \in HookEvents
  BY <1>1 DEF WebhookInv, Remembered, WebhookTyped
<1>4. CASE e \in gLost
  BY <1>3, <1>4
<1>5. CASE SaidAs[e] \in gSaid
  BY <1>1, <1>2, <1>5 DEF WebhookInv, Remembered
<1>6. QED
  BY <1>1, <1>3, <1>4, <1>5 DEF WebhookInv, Remembered

\* An event that was answered 200 is on its way to the agent or was, by itself
\* or in the same words, or it is among the messages the code is known to drop.
THEOREM WebhookKeeps ==
  ASSUME Webhook!WebhookAssumption PROVE Webhook!Spec => []Webhook!AckedIsKept
BY WebhookKeepsFollows, WebhookInvariant, PTL

\* How many messages wait on the bus: a task that hands one over waits for room.
BusHolds == gInbox \in 0 .. InboxCap

\* BusHolds holds at the start.
LEMMA BusHoldsInit == ASSUME Webhook!WebhookAssumption, Webhook!Init PROVE BusHolds
BY DEF Webhook!WebhookAssumption, Webhook!Init, BusHolds

\* Every step keeps BusHolds.
LEMMA BusHoldsStep ==
  ASSUME Webhook!WebhookAssumption, BusHolds, [Webhook!Next]_(Webhook!vars)
  PROVE  BusHolds'
<1>1. InboxCap \in Nat /\ gInbox \in 0 .. InboxCap
  BY DEF Webhook!WebhookAssumption, BusHolds
<1>2. \/ gInbox' = gInbox
      \/ gInbox < InboxCap /\ gInbox' = gInbox + 1
      \/ gInbox > 0 /\ gInbox' = gInbox - 1
  BY DEF Webhook!Next, Webhook!Flush, Webhook!Handler, Webhook!Refuse, Webhook!Send,
     Webhook!FlushTick, Webhook!FlushSent, Webhook!FlushAll, Webhook!FlushEnds, Webhook!Shutdown,
     Webhook!ConsumeInbound, Webhook!Tick, Webhook!Process, Webhook!DrainAgain, Webhook!Respond,
     Webhook!HangUp, Webhook!Receive, Webhook!vars
<1>3. QED
  BY <1>1, <1>2 DEF BusHolds

\* A batch that has no message twice is no longer than there are messages.
LEMMA BatchIsShort ==
  ASSUME IsFiniteSet(HookEvents), NEW msgs \in Seq(HookEvents), Once(msgs)
  PROVE  \E n \in 0 .. Cardinality(HookEvents) : msgs \in [1 .. n -> HookEvents]
<1>1. Len(msgs) \in Nat /\ DOMAIN msgs = 1 .. Len(msgs) /\ msgs \in [1 .. Len(msgs) -> HookEvents]
  OBVIOUS
<1>2. IsFiniteSet(1 .. Len(msgs)) /\ Cardinality(1 .. Len(msgs)) = Len(msgs)
  BY <1>1, FS_Interval
<1>3. Cardinality(HookEvents) \in Nat
  BY FS_CardinalityType
<1>4. ~(Cardinality(HookEvents) < Len(msgs))
  <2>1. SUFFICES ASSUME Cardinality(HookEvents) < Len(msgs) PROVE FALSE
    OBVIOUS
  <2>2. PICK x \in 1 .. Len(msgs), y \in 1 .. Len(msgs) : x # y /\ msgs[x] = msgs[y]
    BY <1>1, <1>2, <2>1, FS_PigeonHole
  <2>3. QED
    BY <1>1, <2>2 DEF Once
<1>5. Len(msgs) \in 0 .. Cardinality(HookEvents)
  BY <1>1, <1>3, <1>4
<1>6. QED
  BY <1>1, <1>5

\* WebhookInv and BusHolds imply what the next theorem states.
LEMMA WebhookStatesFollow ==
  ASSUME Webhook!WebhookAssumption, WebhookInv, BusHolds PROVE Webhook!TypeOK
<1>1. IsFiniteSet(HookEvents) /\ Webhook!Cardinality(HookEvents) = Cardinality(HookEvents)
  BY DEF Webhook!WebhookAssumption, Webhook!IsFiniteSet, IsFiniteSet, Webhook!Cardinality,
     Cardinality
<1>2. ASSUME NEW c \in Webhook!Chats
      PROVE  gPending[c] \in
               [msgs : UNION {[1 .. n -> HookEvents] : n \in 0 .. Webhook!Cardinality(HookEvents)},
                age : 0 .. Webhook!LongWindow, extended : BOOLEAN]
  <2>1. gPending[c] \in [msgs : Seq(HookEvents), age : 0 .. Webhook!LongWindow, extended : BOOLEAN]
    BY DEF WebhookInv, WebhookTyped
  <2>2. gPending[c].msgs \in Seq(HookEvents) /\ Once(gPending[c].msgs)
    BY <2>1 DEF WebhookInv, Apart
  <2>3. \E n \in 0 .. Cardinality(HookEvents) : gPending[c].msgs \in [1 .. n -> HookEvents]
    BY <1>1, <2>2, BatchIsShort
  <2>4. QED
    BY <1>1, <2>1, <2>3
<1>3. QED
  BY <1>2 DEF WebhookInv, WebhookTyped, BusHolds, Webhook!TypeOK

\* Batches, handlers, tokens and memory of the webhook are well typed: no batch
\* is longer than there are messages, and the bus holds no more than it may.
THEOREM WebhookStates ==
  ASSUME Webhook!WebhookAssumption PROVE Webhook!Spec => []Webhook!TypeOK
BY WebhookInvInit, WebhookInvStep, BusHoldsInit, BusHoldsStep, WebhookStatesFollow, PTL
   DEF Webhook!Spec

-----------------------------------------------------------------------------
(* ChannelManager: answers in order and whole, and typing with a reason      *)

\* The user sees exactly the chunks before the one being sent.
ShownSoFar ==
  /\ \A i \in DOMAIN cShown : cShown[i] = i
  /\ cSending # NoSession => Len(cShown) = cChunk - 1

\* The mutex of the channel is held only while it is in running_channels, and
\* it is disconnected only after it was taken out of them.
StopsInOrder == (cSending # NoSession => cOpen) /\ (cOpen => cConnected)

\* What will end the indicator of s after the first i events were read: the
\* run's end, a closing event behind them, or nothing but its next run.
Ends(s, i) ==
  \/ cRun = s \/ s \in cUnclosed
  \/ \E j \in DOMAIN cEvents : j > i /\ cEvents[j] = [kind |-> "closed", session |-> s]

\* Every indicator ends, those included that an event will start.
TypingWillEnd ==
  /\ \A s \in cTyping : Ends(s, 0)
  /\ \A i \in DOMAIN cEvents : cEvents[i].kind = "started" => Ends(cEvents[i].session, i)
  /\ cStep = "idle" <=> cRun = NoSession

ManagerTyped ==
  /\ cRun \in Sessions \union {NoSession} /\ cStep \in {"idle", "reply", "close"}
  /\ cEvents \in Seq(Manager!Event) /\ Len(cEvents) <= EventCap
  /\ cOutbound \in Seq(Sessions) /\ Len(cOutbound) <= OutCap
  /\ cTyping \subseteq Sessions /\ cUnclosed \subseteq Sessions
  /\ cSending \in Sessions \union {NoSession}
  /\ cChunk \in 1 .. Chunks /\ cFormat \in 1 .. 3 /\ cShown \in Seq(1 .. Chunks)
  /\ cStopping \in BOOLEAN /\ cOpen \in BOOLEAN /\ cConnected \in BOOLEAN

ManagerInv == ManagerTyped /\ ShownSoFar /\ StopsInOrder /\ TypingWillEnd

\* The constants of the manager.
LEMMA ManagerConstants ==
  ASSUME Manager!ManagerAssumption
  PROVE  /\ EventCap \in Nat \ {0} /\ OutCap \in Nat \ {0} /\ Chunks \in Nat \ {0}
         /\ NoSession \notin Sessions /\ \A s \in Sessions : ChatKey[s] \in Sessions
         /\ Len(Manager!Formats) = 3
BY DEF Manager!ManagerAssumption, Manager!Formats

\* An event is put behind the others; when there is no room the oldest goes,
\* and a session whose closing event that was has none any more.
LEMMA EmitKeeps ==
  ASSUME Manager!ManagerAssumption, ManagerInv, NEW e \in Manager!Event, Manager!Emit(e),
         UNCHANGED cTyping,
         \/ e.kind = "started" /\ cRun = NoSession /\ cRun' = e.session
         \/ e.kind = "closed" /\ cRun = e.session /\ cRun' = NoSession
  PROVE  /\ cEvents' \in Seq(Manager!Event) /\ Len(cEvents') <= EventCap
         /\ cUnclosed' \subseteq Sessions
         /\ \A s \in cTyping' : Ends(s, 0)'
         /\ \A i \in DOMAIN cEvents' : cEvents'[i].kind = "started" => Ends(cEvents[i].session, i)'
<1> USE ManagerConstants DEF ManagerInv
<1> DEFINE full == Len(cEvents) = EventCap
           rest == IF full THEN Tail(cEvents) ELSE cEvents
           gone == IF full THEN 1 ELSE 0
           closed(s) == [kind |-> "closed", session |-> s]
<1>1. /\ cEvents \in Seq(Manager!Event) /\ Len(cEvents) <= EventCap /\ Len(cEvents) \in Nat
      /\ DOMAIN cEvents = 1 .. Len(cEvents)
  BY DEF ManagerTyped
<1>2. /\ rest \in Seq(Manager!Event) /\ Len(rest) = Len(cEvents) - gone /\ Len(rest) \in Nat
      /\ \A i \in 1 .. Len(rest) : rest[i] = cEvents[i + gone]
      /\ gone \in {0, 1}
  <2>1. CASE full
    <3>1. cEvents # <<>>
      BY <1>1, <2>1
    <3>2. QED
      BY <1>1, <2>1, <3>1, TakingFirst
  <2>2. CASE ~full
    BY <1>1, <2>2
  <2>3. QED
    BY <2>1, <2>2
<1>3. cEvents' = Append(rest, e)
  BY DEF Manager!Emit
<1>4. gone \in {0, 1} /\ (full <=> gone = 1)
  OBVIOUS
<1>5. cUnclosed' = (IF e.kind = "started" THEN cUnclosed \ {e.session} ELSE cUnclosed)
                    \union (IF full /\ cEvents[1].kind = "closed" THEN {cEvents[1].session} ELSE {})
  BY DEF Manager!Emit
<1> HIDE DEF rest, gone
<1>6. /\ cEvents' \in Seq(Manager!Event) /\ Len(cEvents') = Len(rest) + 1
      /\ cEvents'[Len(rest) + 1] = e /\ DOMAIN cEvents' = 1 .. Len(rest) + 1
      /\ \A i \in 1 .. Len(rest) : cEvents'[i] = rest[i]
  BY <1>2, <1>3, AddingLast
<1>7. \A i \in 1 .. Len(rest) : cEvents'[i] = cEvents[i + gone] /\ i + gone \in DOMAIN cEvents
  <2>1. ASSUME NEW i \in 1 .. Len(rest)
        PROVE  i + gone \in 1 .. Len(cEvents)
    BY <1>1, <1>2, <1>4
  <2>2. QED
    BY <1>1, <1>2, <1>6, <2>1
<1>8. Len(cEvents') <= EventCap
  BY <1>1, <1>2, <1>4, <1>6
<1>9. cUnclosed' \subseteq Sessions
  <2>1. full => cEvents[1] \in Manager!Event
    BY <1>1
  <2>2. QED
    BY <1>5, <2>1 DEF Manager!Event, ManagerTyped
<1>10. ASSUME NEW s \in Sessions, NEW i \in Nat, i <= Len(rest), Ends(s, i + gone)
       PROVE  Ends(s, i)'
  <2>1. CASE cRun = s
    <3>1. e = closed(s)
      BY <2>1 DEF Manager!Event
    <3>2. Len(rest) + 1 \in DOMAIN cEvents' /\ Len(rest) + 1 > i
      BY <1>2, <1>6, <1>10
    <3>3. QED
      BY <1>6, <3>1, <3>2 DEF Ends
  <2>2. CASE s \in cUnclosed
    BY <1>5, <2>2 DEF Ends
  <2>3. CASE \E j \in DOMAIN cEvents : j > i + gone /\ cEvents[j] = closed(s)
    <3>1. PICK j \in DOMAIN cEvents : j > i + gone /\ cEvents[j] = closed(s)
      BY <2>3
    <3>2. PICK k \in 1 .. Len(rest) : k = j - gone /\ k > i
      BY <1>1, <1>2, <1>10, <3>1
    <3>3. cEvents'[k] = cEvents[k + gone] /\ k + gone = j
      BY <1>1, <1>2, <1>7, <3>2
    <3>4. k \in DOMAIN cEvents' /\ cEvents'[k] = closed(s)
      BY <1>2, <1>6, <3>1, <3>2, <3>3
    <3>5. QED
      BY <3>2, <3>4 DEF Ends
  <2>4. QED
    BY <1>10, <2>1, <2>2, <2>3 DEF Ends
<1>11. ASSUME NEW s \in Sessions, Ends(s, 0)
       PROVE  Ends(s, 0)'
  <2>1. CASE full /\ cEvents[1] = closed(s)
    <3>1. s \in cUnclosed'
      BY <1>5, <2>1
    <3>2. QED
      BY <3>1 DEF Ends
  <2>2. CASE ~(full /\ cEvents[1] = closed(s))
    <3>1. Ends(s, 0 + gone)
      <4>1. \A j \in DOMAIN cEvents : j > 0 /\ cEvents[j] = closed(s) => j > 0 + gone
        BY <1>1, <1>4, <2>2
      <4>2. QED
        BY <1>11, <4>1 DEF Ends
    <3>2. QED
      BY <1>2, <1>10, <3>1
  <2>3. QED
    BY <2>1, <2>2
<1>12. \A s \in cTyping' : Ends(s, 0)'
  BY <1>11 DEF TypingWillEnd, ManagerTyped
<1>13. ASSUME NEW i \in DOMAIN cEvents', cEvents'[i].kind = "started"
       PROVE  Ends(cEvents[i].session, i)'
  <2>1. CASE i = Len(rest) + 1
    BY <1>6, <1>13, <2>1 DEF Ends
  <2>2. CASE i \in 1 .. Len(rest)
    <3>1. PICK s \in Sessions : s = cEvents'[i].session
      <4>1. cEvents'[i] \in Manager!Event
        BY <1>6, <1>13
      <4>2. QED
        BY <4>1 DEF Manager!Event
    <3>2. cEvents'[i] = cEvents[i + gone] /\ i + gone \in DOMAIN cEvents /\ i \in Nat
      BY <1>7, <2>2
    <3>3. Ends(s, i + gone)
      BY <1>13, <3>1, <3>2 DEF TypingWillEnd
    <3>4. Ends(s, i)'
      BY <1>10, <2>2, <3>2, <3>3
    <3>5. QED
      BY <3>1, <3>4 DEF Ends
  <2>3. QED
    BY <1>2, <1>6, <2>1, <2>2
<1>14. QED
  BY <1>6, <1>8, <1>9, <1>12, <1>13

\* While the queue of events stays, an indicator that ended when it goes does too.
LEMMA TypingStays ==
  ASSUME TypingWillEnd, cEvents' = cEvents, cTyping' \subseteq cTyping,
         cStep' = "idle" <=> cRun' = NoSession,
         cUnclosed \subseteq cUnclosed', cRun' = cRun \/ cRun \in cUnclosed'
  PROVE  TypingWillEnd'
BY DEF TypingWillEnd, Ends

\* The agent's steps: what it emits, and what it puts on the bus.
LEMMA AgentKeeps ==
  ASSUME Manager!ManagerAssumption, ManagerInv,
         Manager!Agent \/ \E s \in Sessions : Manager!Begin(s)
  PROVE  ManagerInv'
<1> USE ManagerConstants DEF ManagerInv
<1>1. CASE \E s \in Sessions : Manager!Begin(s)
  <2>1. PICK s \in Sessions : Manager!Begin(s)
    BY <1>1
  <2>2. /\ cStep = "idle" /\ cStep' = "reply" /\ cRun' = s /\ cRun = NoSession
        /\ UNCHANGED <<cOutbound, cTyping, cSending, cChunk, cFormat, cShown, cStopping, cOpen,
             cConnected>>
    BY <2>1 DEF Manager!Begin, Manager!consumer, Manager!shutdown, TypingWillEnd
  <2>3. PICK e \in Manager!Event : e.kind = "started" /\ e.session = s /\ Manager!Emit(e)
    BY <2>1 DEF Manager!Begin, Manager!Event
  <2>4. /\ cEvents' \in Seq(Manager!Event) /\ Len(cEvents') <= EventCap
        /\ cUnclosed' \subseteq Sessions
        /\ \A u \in cTyping' : Ends(u, 0)'
        /\ \A i \in DOMAIN cEvents' : cEvents'[i].kind = "started" => Ends(cEvents[i].session, i)'
    BY <2>2, <2>3, EmitKeeps
  <2>5. ManagerTyped'
    BY <2>2, <2>4 DEF ManagerTyped
  <2>6. TypingWillEnd'
    BY <2>2, <2>4 DEF TypingWillEnd
  <2>7. ShownSoFar' /\ StopsInOrder'
    BY <2>2 DEF ShownSoFar, StopsInOrder
  <2>8. QED
    BY <2>5, <2>6, <2>7
<1>2. CASE Manager!Close
  <2>1. /\ cStep = "close" /\ cStep' = "idle" /\ cRun' = NoSession /\ cRun \in Sessions
        /\ UNCHANGED <<cOutbound, cTyping, cSending, cChunk, cFormat, cShown, cStopping, cOpen,
             cConnected>>
    BY <1>2 DEF Manager!Close, Manager!consumer, Manager!shutdown, TypingWillEnd, ManagerTyped
  <2>2. PICK e \in Manager!Event : e.kind = "closed" /\ e.session = cRun /\ Manager!Emit(e)
    BY <1>2, <2>1 DEF Manager!Close, Manager!Event
  <2>3. /\ cEvents' \in Seq(Manager!Event) /\ Len(cEvents') <= EventCap
        /\ cUnclosed' \subseteq Sessions
        /\ \A u \in cTyping' : Ends(u, 0)'
        /\ \A i \in DOMAIN cEvents' : cEvents'[i].kind = "started" => Ends(cEvents[i].session, i)'
    BY <2>1, <2>2, EmitKeeps
  <2>4. ManagerTyped'
    BY <2>1, <2>3 DEF ManagerTyped
  <2>5. TypingWillEnd'
    BY <2>1, <2>3 DEF TypingWillEnd
  <2>6. ShownSoFar' /\ StopsInOrder'
    BY <2>1 DEF ShownSoFar, StopsInOrder
  <2>7. QED
    BY <2>4, <2>5, <2>6
<1>3. CASE Manager!Reply \/ Manager!Streamed \/ Manager!TimeOut
  <2>1. /\ cStep = "reply" /\ cRun \in Sessions
        /\ UNCHANGED <<cEvents, cTyping, cSending, cChunk, cFormat, cShown, cStopping, cOpen,
             cConnected>>
        /\ cUnclosed \subseteq cUnclosed' /\ cUnclosed' \subseteq Sessions
        /\ \/ cStep' = "close" /\ cRun' = cRun
           \/ cStep' = "idle" /\ cRun' = NoSession /\ cRun \in cUnclosed'
        /\ cOutbound' = cOutbound \/ (Len(cOutbound) < OutCap /\
             cOutbound' = Append(cOutbound, cRun))
    BY <1>3 DEF Manager!Reply, Manager!Streamed, Manager!TimeOut, Manager!consumer,
       Manager!shutdown, TypingWillEnd, ManagerTyped
  <2>2. cOutbound' \in Seq(Sessions) /\ Len(cOutbound') <= OutCap
    <3>1. CASE cOutbound' = cOutbound
      BY <3>1 DEF ManagerTyped
    <3>2. CASE Len(cOutbound) < OutCap /\ cOutbound' = Append(cOutbound, cRun)
      <4>1. /\ cOutbound' \in Seq(Sessions) /\ Len(cOutbound') = Len(cOutbound) + 1
            /\ Len(cOutbound) \in Nat
        BY <2>1, <3>2, AddingLast DEF ManagerTyped
      <4>2. QED
        BY <3>2, <4>1
    <3>3. QED
      BY <2>1, <3>1, <3>2
  <2>3. ManagerTyped'
    BY <2>1, <2>2 DEF ManagerTyped
  <2>4. cStep' = "idle" <=> cRun' = NoSession
    BY <2>1
  <2>5. TypingWillEnd'
    BY <2>1, <2>4, TypingStays
  <2>6. ShownSoFar' /\ StopsInOrder'
    BY <2>1 DEF ShownSoFar, StopsInOrder
  <2>7. QED
    BY <2>3, <2>5, <2>6
<1>4. QED
  BY <1>1, <1>2, <1>3 DEF Manager!Agent

\* The listener reads the oldest event: a start leaves behind it what will end
\* the indicator, and an end takes the indicator with it.
LEMMA ListenKeeps ==
  ASSUME Manager!ManagerAssumption, ManagerInv, Manager!Listen
  PROVE  ManagerInv'
<1> USE ManagerConstants DEF ManagerInv
<1>1. /\ cEvents # <<>> /\ cEvents' = Tail(cEvents) /\ cEvents \in Seq(Manager!Event)
      /\ UNCHANGED <<cRun, cStep, cOutbound, cSending, cChunk, cFormat, cShown, cStopping, cOpen,
                     cConnected, cUnclosed>>
  BY DEF Manager!Listen, Manager!agent, Manager!consumer, Manager!shutdown, ManagerTyped
<1>2. PICK e \in Manager!Event : e = cEvents[1] /\ e = Head(cEvents)
  BY <1>1, TakingFirst
<1>3. /\ cEvents' \in Seq(Manager!Event) /\ Len(cEvents') = Len(cEvents) - 1
      /\ Len(cEvents) \in Nat \ {0}
      /\ \A i \in 1 .. Len(cEvents) - 1 : cEvents'[i] = cEvents[i + 1]
  BY <1>1, TakingFirst
<1>4. /\ DOMAIN cEvents = 1 .. Len(cEvents) /\ DOMAIN cEvents' = 1 .. Len(cEvents) - 1
  BY <1>1, <1>3
<1>5. /\ e.kind = "started" => cTyping' = cTyping \/ cTyping' = cTyping \union {e.session}
      /\ e.kind # "started" => cTyping' = cTyping \ {e.session}
  BY <1>2 DEF Manager!Listen, Manager!StartTyping, Manager!StopTyping
<1>6. cTyping' \subseteq Sessions
  BY <1>5 DEF ManagerTyped, Manager!Event
<1>7. ManagerTyped'
  <2>1. Len(cEvents') <= EventCap
    BY <1>3 DEF ManagerTyped
  <2>2. QED
    BY <1>1, <1>3, <1>6, <2>1 DEF ManagerTyped
<1>8. \A s \in Sessions, i \in Nat : Ends(s, i + 1) => Ends(s, i)'
  <2>1. SUFFICES ASSUME NEW s \in Sessions, NEW i \in Nat, NEW j \in DOMAIN cEvents, j > i + 1,
                        cEvents[j] = [kind |-> "closed", session |-> s]
                 PROVE  Ends(s, i)'
    BY <1>1 DEF Ends
  <2>2. j - 1 \in 1 .. Len(cEvents) - 1 /\ j - 1 > i /\ (j - 1) + 1 = j
    BY <1>3, <1>4, <2>1
  <2>3. cEvents'[j - 1] = cEvents[j]
    BY <1>3, <2>2
  <2>4. QED
    BY <1>4, <2>1, <2>2, <2>3 DEF Ends
<1>9. ASSUME NEW i \in DOMAIN cEvents', cEvents'[i].kind = "started"
      PROVE  Ends(cEvents[i].session, i)'
  <2>1. i + 1 \in DOMAIN cEvents /\ i \in Nat /\ cEvents'[i] = cEvents[i + 1]
    BY <1>3, <1>4, <1>9
  <2>2. PICK s \in Sessions : s = cEvents[i + 1].session
    <3>1. cEvents[i + 1] \in Manager!Event
      BY <1>1, <2>1
    <3>2. QED
      BY <3>1 DEF Manager!Event
  <2>3. Ends(s, i + 1)
    BY <1>9, <2>1, <2>2 DEF TypingWillEnd
  <2>4. Ends(s, i)'
    BY <1>8, <2>1, <2>3
  <2>5. QED
    BY <2>1, <2>2, <2>4 DEF Ends
<1>10. ASSUME NEW s \in cTyping'
       PROVE  Ends(s, 0)'
  <2>1. s \in Sessions /\ 0 \in Nat /\ 0 + 1 = 1 /\ 1 \in DOMAIN cEvents
    BY <1>3, <1>4, <1>6, <1>10
  <2>2. Ends(s, 1)
    <3>1. CASE e.kind = "started" /\ e.session = s
      BY <1>2, <2>1, <3>1 DEF TypingWillEnd
    <3>2. CASE ~(e.kind = "started" /\ e.session = s)
      <4>1. Ends(s, 0)
        BY <1>5, <1>10, <3>2 DEF TypingWillEnd
      <4>2. cEvents[1] # [kind |-> "closed", session |-> s]
        BY <1>2, <1>5, <1>10, <3>2
      <4>3. \A j \in DOMAIN cEvents : j > 0 /\ cEvents[j] = [kind |-> "closed", session |-> s] =>
              j > 1
        BY <1>4, <4>2
      <4>4. QED
        BY <4>1, <4>3 DEF Ends
    <3>3. QED
      BY <3>1, <3>2
  <2>3. QED
    BY <1>8, <2>1, <2>2
<1>11. TypingWillEnd'
  BY <1>1, <1>9, <1>10 DEF TypingWillEnd
<1>12. ShownSoFar' /\ StopsInOrder'
  BY <1>1 DEF ShownSoFar, StopsInOrder
<1>13. QED
  BY <1>7, <1>11, <1>12

\* A chunk that is shown is the next one; nothing else is shown.
LEMMA ConsumerKeeps ==
  ASSUME Manager!ManagerAssumption, ManagerInv, Manager!Consumer
  PROVE  ManagerInv'
<1> USE ManagerConstants DEF ManagerInv
<1>1. /\ UNCHANGED <<cRun, cStep, cEvents, cStopping, cOpen, cConnected, cUnclosed>>
      /\ cTyping' \subseteq cTyping
      /\ cOutbound' = cOutbound \/ (cOutbound # <<>> /\ cOutbound' = Tail(cOutbound))
  BY DEF Manager!Consumer, Manager!TakeOutbound, Manager!DropOutbound, Manager!SendChunk,
     Manager!StopTyping, Manager!agent, Manager!consumer, Manager!shutdown
<1>2. cOutbound' \in Seq(Sessions) /\ Len(cOutbound') <= OutCap
  <2>1. CASE cOutbound' = cOutbound
    BY <2>1 DEF ManagerTyped
  <2>2. CASE cOutbound # <<>> /\ cOutbound' = Tail(cOutbound)
    <3>1. /\ cOutbound' \in Seq(Sessions) /\ Len(cOutbound') = Len(cOutbound) - 1
          /\ Len(cOutbound) \in Nat /\ Len(cOutbound) <= OutCap
      BY <2>2, TakingFirst DEF ManagerTyped
    <3>2. QED
      BY <3>1
  <2>3. QED
    BY <1>1, <2>1, <2>2
<1>3. TypingWillEnd'
  <2>1. cStep' = "idle" <=> cRun' = NoSession
    BY <1>1 DEF TypingWillEnd
  <2>2. QED
    BY <1>1, <2>1, TypingStays
<1>4. /\ cSending' \in Sessions \union {NoSession} /\ cChunk' \in 1 .. Chunks /\ cFormat' \in 1 .. 3
      /\ cShown' \in Seq(1 .. Chunks) /\ ShownSoFar' /\ (cSending' # NoSession => cOpen)
  <2>1. CASE Manager!TakeOutbound
    <3>1. /\ Head(cOutbound) \in Sessions /\ cSending' = Head(cOutbound) /\ cOpen
          /\ cChunk' = 1 /\ cFormat' = 1 /\ cShown' = <<>>
      BY <2>1, TakingFirst DEF Manager!TakeOutbound, ManagerTyped
    <3>2. <<>> \in Seq(1 .. Chunks) /\ Len(<<>>) = 0 /\ DOMAIN <<>> = {}
      OBVIOUS
    <3>3. QED
      BY <3>1, <3>2 DEF ShownSoFar
  <2>2. CASE Manager!DropOutbound
    BY <2>2 DEF Manager!DropOutbound, Manager!consumer, ShownSoFar, ManagerTyped
  <2>3. CASE \E outcome \in Manager!Outcomes : Manager!SendChunk(outcome)
    <3>1. /\ cSending # NoSession /\ cOpen /\ Len(cShown) = cChunk - 1 /\ cChunk \in 1 .. Chunks
          /\ cShown \in Seq(1 .. Chunks) /\ \A i \in DOMAIN cShown : cShown[i] = i
      BY <2>3 DEF Manager!SendChunk, ShownSoFar, StopsInOrder, ManagerTyped
    <3>2. /\ Append(cShown, cChunk) \in Seq(1 .. Chunks) /\ Len(Append(cShown, cChunk)) = cChunk
          /\ \A i \in DOMAIN Append(cShown, cChunk) : Append(cShown, cChunk)[i] = i
      BY <3>1, AddingLast
    <3>3. CASE Manager!SendChunk("shown")
      <4>1. /\ cShown' = Append(cShown, cChunk) /\ cFormat' = 1
            /\ cChunk' = IF cChunk < Chunks THEN cChunk + 1 ELSE 1
            /\ cSending' = IF cChunk < Chunks THEN cSending ELSE NoSession
        BY <3>3 DEF Manager!SendChunk
      <4>2. QED
        BY <3>1, <3>2, <4>1 DEF ShownSoFar, ManagerTyped
    <3>4. CASE Manager!SendChunk("unparsable")
      <4>1. /\ cFormat < Len(Manager!Formats) /\ cFormat' = cFormat + 1
            /\ UNCHANGED <<cSending, cChunk, cShown>>
        BY <3>4 DEF Manager!SendChunk, Manager!SameChunk
      <4>2. cFormat' \in 1 .. 3
        <5>1. cFormat \in 1 .. 3 /\ cFormat < 3
          BY <4>1 DEF ManagerTyped
        <5>2. QED
          BY <4>1, <5>1
      <4>3. ShownSoFar'
        BY <4>1 DEF ShownSoFar
      <4>4. QED
        BY <3>1, <4>1, <4>2, <4>3 DEF ManagerTyped
    <3>5. CASE Manager!SendChunk("failed")
      <4>1. /\ cShown' \in {cShown, Append(cShown, cChunk)}
            /\ cChunk' = 1 /\ cFormat' = 1 /\ cSending' = NoSession
        BY <3>5 DEF Manager!SendChunk
      <4>2. ShownSoFar' /\ cShown' \in Seq(1 .. Chunks)
        BY <3>1, <3>2, <4>1 DEF ShownSoFar
      <4>3. cChunk' \in 1 .. Chunks /\ cFormat' \in 1 .. 3
        BY <4>1
      <4>4. QED
        BY <4>1, <4>2, <4>3
    <3>6. QED
      BY <2>3, <3>3, <3>4, <3>5 DEF Manager!Outcomes
  <2>4. QED
    BY <2>1, <2>2, <2>3 DEF Manager!Consumer
<1>5. ManagerTyped'
  BY <1>1, <1>2, <1>4 DEF ManagerTyped
<1>6. StopsInOrder'
  BY <1>1, <1>4 DEF StopsInOrder
<1>7. QED
  BY <1>3, <1>4, <1>5, <1>6

\* stop_all waits for the mutex before it takes the channel away.
LEMMA StopKeeps ==
  ASSUME Manager!ManagerAssumption, ManagerInv,
         \/ Manager!AbortTyping \/ Manager!RemoveChannel \/ Manager!DisconnectChannel
         \/ UNCHANGED Manager!vars
  PROVE  ManagerInv'
<1> USE ManagerConstants DEF ManagerInv
<1>1. /\ UNCHANGED <<cRun, cStep, cEvents, cOutbound, cSending, cChunk, cFormat, cShown, cUnclosed>>
      /\ cTyping' = cTyping \/ cTyping' = {}
      /\ cStopping' = cStopping \/ cStopping' = TRUE
  BY DEF Manager!AbortTyping, Manager!RemoveChannel, Manager!DisconnectChannel, Manager!vars,
     Manager!agent, Manager!consumer, Manager!shutdown
<1>2. \/ cOpen' = cOpen /\ cConnected' = cConnected
      \/ cOpen' = FALSE /\ cSending = NoSession /\ cConnected' = cConnected
      \/ ~cOpen /\ cOpen' = cOpen /\ cConnected' = FALSE
  BY DEF Manager!AbortTyping, Manager!RemoveChannel, Manager!DisconnectChannel, Manager!vars,
     Manager!shutdown
<1>3. ManagerTyped'
  BY <1>1, <1>2 DEF ManagerTyped
<1>4. ShownSoFar'
  BY <1>1 DEF ShownSoFar
<1>5. StopsInOrder'
  BY <1>1, <1>2 DEF StopsInOrder, ManagerTyped
<1>6. TypingWillEnd'
  <2>1. cStep' = "idle" <=> cRun' = NoSession
    BY <1>1 DEF TypingWillEnd
  <2>2. QED
    BY <1>1, <2>1, TypingStays
<1>7. QED
  BY <1>3, <1>4, <1>5, <1>6

\* ManagerInv holds at the start.
LEMMA ManagerInvInit == ASSUME Manager!ManagerAssumption, Manager!Init PROVE ManagerInv
<1> USE ManagerConstants DEF Manager!Init
<1>1. /\ <<>> \in Seq(Manager!Event) /\ <<>> \in Seq(Sessions) /\ <<>> \in Seq(1 .. Chunks)
      /\ Len(<<>>) = 0 /\ DOMAIN <<>> = {}
  OBVIOUS
<1>2. ManagerTyped
  <2>1. Len(cEvents) <= EventCap /\ Len(cOutbound) <= OutCap
    BY <1>1
  <2>2. cChunk \in 1 .. Chunks /\ cFormat \in 1 .. 3
    OBVIOUS
  <2>3. /\ cEvents \in Seq(Manager!Event) /\ cOutbound \in Seq(Sessions)
        /\ cShown \in Seq(1 .. Chunks)
    BY <1>1
  <2>4. QED
    BY <2>1, <2>2, <2>3 DEF ManagerTyped
<1>3. ShownSoFar /\ StopsInOrder /\ TypingWillEnd
  BY <1>1 DEF ShownSoFar, StopsInOrder, TypingWillEnd
<1>4. QED
  BY <1>2, <1>3 DEF ManagerInv

\* Every step keeps ManagerInv.
LEMMA ManagerInvStep ==
  ASSUME Manager!ManagerAssumption, ManagerInv, [Manager!Next]_(Manager!vars)
  PROVE  ManagerInv'
BY AgentKeeps, ListenKeeps, ConsumerKeeps, StopKeeps DEF Manager!Next

\* The manager's invariant holds in every reachable state.
THEOREM ManagerInvariant == ASSUME Manager!ManagerAssumption PROVE Manager!Spec => []ManagerInv
BY ManagerInvInit, ManagerInvStep, PTL DEF Manager!Spec

\* ManagerInv implies what the next theorem states.
LEMMA ManagerStatesFollows ==
  ASSUME Manager!ManagerAssumption PROVE ManagerInv => Manager!TypeOK
<1>1. SUFFICES ASSUME ManagerInv PROVE Manager!TypeOK
  OBVIOUS
<1>2. DOMAIN Manager!Formats = 1 .. 3
  BY DEF Manager!Formats
<1>3. \A i \in DOMAIN cEvents : cEvents[i] \in Manager!Event
  BY <1>1 DEF ManagerInv, ManagerTyped
<1>4. QED
  BY <1>1, <1>2, <1>3 DEF ManagerInv, ManagerTyped, Manager!TypeOK

\* The states of the manager are what TypeOK says, for any bounds.
THEOREM ManagerStates ==
  ASSUME Manager!ManagerAssumption PROVE Manager!Spec => []Manager!TypeOK
BY ManagerStatesFollows, ManagerInvariant, PTL

\* ManagerInv implies what the next theorem states.
LEMMA AnswersInOrderFollows ==
  ASSUME Manager!ManagerAssumption PROVE ManagerInv => Manager!ShownInOrder
BY DEF ManagerInv, ShownSoFar, Manager!ShownInOrder

\* The user sees the chunks of an answer in their order, none of them twice,
\* although each may be sent in three formats and any of them may fail.
THEOREM AnswersInOrder ==
  ASSUME Manager!ManagerAssumption PROVE Manager!Spec => []Manager!ShownInOrder
BY AnswersInOrderFollows, ManagerInvariant, PTL

\* ManagerInv implies what the next theorem states.
LEMMA NoAnswerCutByStopFollows ==
  ASSUME Manager!ManagerAssumption PROVE ManagerInv => Manager!NotCutByStop
BY DEF ManagerInv, StopsInOrder, Manager!NotCutByStop

\* stop_all disconnects no channel in the middle of an answer: it waits for the
\* lock on running_channels, which handle_outbound holds until it has sent all.
THEOREM NoAnswerCutByStop ==
  ASSUME Manager!ManagerAssumption PROVE Manager!Spec => []Manager!NotCutByStop
BY NoAnswerCutByStopFollows, ManagerInvariant, PTL

\* ManagerInv implies what the next theorem states.
LEMMA IndicatorsHaveReasonFollows ==
  ASSUME Manager!ManagerAssumption PROVE ManagerInv => Manager!TypingHasReason
BY DEF ManagerInv, TypingWillEnd, Ends, Manager!TypingHasReason

\* An indicator is on only as long as something is under way that will end it,
\* unless its run emitted no closing event or the listener lagged and lost it.
THEOREM IndicatorsHaveReason ==
  ASSUME Manager!ManagerAssumption PROVE Manager!Spec => []Manager!TypingHasReason
BY IndicatorsHaveReasonFollows, ManagerInvariant, PTL

-----------------------------------------------------------------------------
(* DiscordGateway: each event once, in order, over dropped connections       *)

GatewayEvent == Discord!Posts \union {Discord!Ready, Discord!Resumed}

GatewayTyped ==
  /\ dPhase \in Discord!Phases /\ dRunning \in BOOLEAN /\ dConnected \in BOOLEAN
  /\ dSession \in Nat /\ dLastSeq \in Nat /\ dLive \in Nat /\ dCursor \in Nat
  /\ dAttempt \in 0 .. MaxAttempts /\ dBackoff \in 1 .. MaxBackoff
  /\ dHolding \in Discord!Posts \union {0} /\ dPosted \in 0 .. MaxPosts
  /\ dLog \in Seq(GatewayEvent) /\ dTaken \in Seq(Discord!Posts)
  /\ dInbox \in Seq(Discord!Posts) /\ Len(dInbox) <= InboxCap

\* The budget of attempts is looked at before each connection.
WithinBudget == dPhase \in {"off", "connect", "hello", "events"} => dAttempt < MaxAttempts

\* Messages appear in the order of posting, in the log and among those taken.
PostsInOrder ==
  /\ \A i, j \in DOMAIN dLog : dLog[i] \in Discord!Posts /\ dLog[j] \in Discord!Posts /\ i < j
                                => dLog[i] < dLog[j]
  /\ \A i \in DOMAIN dLog : dLog[i] \in Discord!Posts => dLog[i] <= dPosted
  /\ \A i, j \in DOMAIN dTaken : i < j => dTaken[i] < dTaken[j]
  /\ \A i \in DOMAIN dTaken : dTaken[i] <= dPosted

\* The bot's session is the one Discord knows, unless it is not told yet or
\* Discord forgot it; and lastSeq is the last event that arrived of it.
SessionsAgree ==
  /\ dSession = 0 => dLastSeq = 0
  /\ dLive = 0 => dLog = <<>>
  /\ dLive # 0 => /\ dSession \in {0, dLive} /\ dCursor = dLastSeq + 1
                  /\ Len(dLog) > 0 /\ dLog[1] = Discord!Ready
                  /\ dSession = 0 => dCursor = 1
                  /\ dCursor <= Len(dLog) + 1

\* What lies before the cursor was taken, and what lies from it on is younger
\* than all that was taken.
CursorDivides ==
  dLive # 0 =>
    \A i \in DOMAIN dLog : dLog[i] \in Discord!Posts =>
      /\ i < dCursor => \E j \in DOMAIN dTaken : dTaken[j] = dLog[i]
      /\ i >= dCursor => \A j \in DOMAIN dTaken : dTaken[j] < dLog[i]

\* A message that was taken after disconnect was the last one.
LastTaken ==
  /\ dLate \in {0, 1}
  /\ dLate = 1 => ~dRunning /\ (dPhase = "stopped" \/ dHolding # 0)
  /\ dHolding # 0 => dPhase = "events"

GatewayInv ==
  GatewayTyped /\ WithinBudget /\ PostsInOrder /\ SessionsAgree /\ CursorDivides /\ LastTaken

\* The constants, and what tells a message from the other events.
LEMMA GatewayConstants ==
  ASSUME Discord!GatewayAssumption
  PROVE  /\ MaxPosts \in Nat \ {0} /\ MaxAttempts \in Nat \ {0} /\ MaxBackoff \in Nat \ {0}
         /\ InboxCap \in Nat \ {0}
         /\ Discord!Ready = 0 /\ Discord!Resumed = -1
         /\ Discord!Posts = 1 .. MaxPosts
         /\ Discord!Phases = {"off", "connect", "hello", "events", "waiting", "stopped"}
BY DEF Discord!GatewayAssumption, Discord!Posts, Discord!Ready, Discord!Resumed, Discord!Phases

\* Before the first connection there are no events.
LEMMA GatewayInvInit == ASSUME Discord!GatewayAssumption, Discord!Init PROVE GatewayInv
<1> USE GatewayConstants DEF Discord!Init
<1>1. /\ <<>> \in Seq(GatewayEvent) /\ <<>> \in Seq(Discord!Posts) /\ Len(<<>>) = 0
      /\ DOMAIN <<>> = {}
  OBVIOUS
<1>2. GatewayTyped
  <2>1. /\ dLog \in Seq(GatewayEvent) /\ dTaken \in Seq(Discord!Posts)
        /\ dInbox \in Seq(Discord!Posts) /\ Len(dInbox) <= InboxCap
    BY <1>1
  <2>2. dAttempt \in 0 .. MaxAttempts /\ dBackoff \in 1 .. MaxBackoff /\ dPosted \in 0 .. MaxPosts
    OBVIOUS
  <2>3. QED
    BY <2>1, <2>2 DEF GatewayTyped
<1>3. QED
  BY <1>1, <1>2 DEF GatewayInv, WithinBudget, PostsInOrder, SessionsAgree, CursorDivides, LastTaken

\* A step that touches neither the log nor what was taken, and leaves the bot's
\* session as it is or forgets it with Discord.
LEMMA GatewayQuiet ==
  ASSUME Discord!GatewayAssumption, GatewayInv, UNCHANGED <<dTaken, dPosted>>,
         \/ UNCHANGED <<dLive, dLog, dCursor, dSession, dLastSeq>>
         \/ /\ dLive' = 0 /\ dLog' = <<>>
            /\ UNCHANGED <<dSession, dLastSeq>> \/ (dSession' = 0 /\ dLastSeq' = 0)
  PROVE  PostsInOrder' /\ SessionsAgree' /\ CursorDivides'
<1> USE GatewayConstants DEF GatewayInv
<1>1. DOMAIN <<>> = {}
  OBVIOUS
<1>2. CASE UNCHANGED <<dLive, dLog, dCursor, dSession, dLastSeq>>
  BY <1>2 DEF PostsInOrder, SessionsAgree, CursorDivides
<1>3. CASE dLive' = 0 /\ dLog' = <<>> /\ (UNCHANGED <<dSession, dLastSeq>> \/
             (dSession' = 0 /\ dLastSeq' = 0))
  BY <1>1, <1>3 DEF PostsInOrder, SessionsAgree, CursorDivides
<1>4. QED
  BY <1>2, <1>3

\* The end of a session, and what the loop does with its outcome.
LEMMA GatewayEnds ==
  ASSUME Discord!GatewayAssumption, GatewayInv,
         \/ Discord!ConnectFails \/ Discord!Rejected \/ Discord!Dropped
         \/ \E resumable \in BOOLEAN : Discord!InvalidSession(resumable)
  PROVE  GatewayInv'
<1> USE GatewayConstants DEF GatewayInv
<1>1. PICK outcome \in {"resume", "again", "fresh"} :
        /\ Discord!Ended(outcome) /\ dPhase \in {"connect", "hello", "events"} /\ dHolding = 0
        /\ UNCHANGED <<dHolding, dTaken, dLate, dRunning, dConnected, dPosted, dInbox>>
        /\ IF outcome # "fresh" THEN UNCHANGED <<dLive, dLog, dCursor>>
           ELSE \/ dLive' = 0 /\ dLog' = <<>> /\ dCursor' = dCursor
                \/ dCursor = 0 /\ UNCHANGED <<dLive, dLog, dCursor>>
  <2>1. CASE Discord!ConnectFails
    BY <2>1 DEF Discord!ConnectFails, Discord!flags, Discord!discord, LastTaken
  <2>2. CASE Discord!Rejected
    BY <2>2 DEF Discord!Rejected, Discord!flags, Discord!discord, Discord!InLoop
  <2>3. CASE Discord!Dropped
    BY <2>3 DEF Discord!Dropped, Discord!flags, Discord!discord, Discord!InLoop, LastTaken
  <2>4. CASE \E resumable \in BOOLEAN : Discord!InvalidSession(resumable)
    BY <2>4 DEF Discord!InvalidSession, Discord!flags, Discord!InLoop
  <2>5. QED
    BY <2>1, <2>2, <2>3, <2>4
<1>2. /\ dAttempt' \in 0 .. MaxAttempts /\ dBackoff' \in 1 .. MaxBackoff
      /\ dPhase' \in {"waiting", "stopped"}
  <2>1. /\ dAttempt \in 0 .. MaxAttempts /\ dAttempt < MaxAttempts /\ dBackoff \in 1 .. MaxBackoff
        /\ Discord!NextBackoff \in 1 .. MaxBackoff
    BY <1>1 DEF Discord!NextBackoff, GatewayTyped, WithinBudget
  <2>2. \/ dAttempt' = dAttempt + 1 /\ dPhase' = "waiting" /\
             dBackoff' \in {dBackoff, Discord!NextBackoff}
        \/ dAttempt' = dAttempt /\ dPhase' = "stopped" /\ dBackoff' = dBackoff
    BY <1>1 DEF Discord!Ended
  <2>3. QED
    BY <2>1, <2>2
<1>3. \/ UNCHANGED <<dSession, dLastSeq>>
      \/ outcome = "fresh" /\ dSession' = 0 /\ dLastSeq' = 0
  BY <1>1 DEF Discord!Ended, Discord!Forget
<1>4. dCursor = 0 => dLive = 0 /\ dLog = <<>>
  BY DEF SessionsAgree, GatewayTyped
<1>5. PostsInOrder' /\ SessionsAgree' /\ CursorDivides'
  <2>1. CASE outcome # "fresh"
    BY <1>1, <1>3, <2>1, GatewayQuiet
  <2>2. CASE outcome = "fresh"
    BY <1>1, <1>3, <1>4, <2>2, GatewayQuiet
  <2>3. QED
    BY <2>1, <2>2
<1>6. /\ dLog' \in Seq(GatewayEvent) /\ dLive' \in Nat /\ dCursor' \in Nat
      /\ dSession' \in Nat /\ dLastSeq' \in Nat
  <2>1. <<>> \in Seq(GatewayEvent) /\ dLog \in Seq(GatewayEvent)
    BY DEF GatewayTyped
  <2>2. dLog' = dLog \/ dLog' = <<>>
    BY <1>1
  <2>3. dLog' \in Seq(GatewayEvent)
    <3>1. CASE dLog' = dLog
      BY <2>1, <3>1
    <3>2. CASE dLog' = <<>>
      BY <2>1, <3>2
    <3>3. QED
      BY <2>2, <3>1, <3>2
  <2>4. dLive' \in Nat /\ dCursor' \in Nat /\ dSession' \in Nat /\ dLastSeq' \in Nat
    <3>1. /\ dLive' \in {dLive, 0} /\ dCursor' = dCursor
          /\ dSession' \in {dSession, 0} /\ dLastSeq' \in {dLastSeq, 0}
      BY ONLY <1>1, <1>3
    <3>2. dLive \in Nat /\ dCursor \in Nat /\ dSession \in Nat /\ dLastSeq \in Nat
      BY DEF GatewayTyped
    <3>3. QED
      BY ONLY <3>1, <3>2
  <2>5. QED
    BY <2>3, <2>4
<1>7. GatewayTyped'
  <2>1. /\ dPhase' \in Discord!Phases /\ dAttempt' \in 0 .. MaxAttempts
        /\ dBackoff' \in 1 .. MaxBackoff
    BY <1>2
  <2>2. /\ dRunning' \in BOOLEAN /\ dConnected' \in BOOLEAN
        /\ dHolding' \in Discord!Posts \union {0} /\ dPosted' \in 0 .. MaxPosts
        /\ dTaken' \in Seq(Discord!Posts) /\ dInbox' \in Seq(Discord!Posts)
        /\ Len(dInbox') <= InboxCap
    BY ONLY <1>1, GatewayInv DEF GatewayInv, GatewayTyped
  <2>3. QED
    BY <1>6, <2>1, <2>2 DEF GatewayTyped
<1>8. WithinBudget' /\ LastTaken'
  <2>1. CASE dRunning
    BY <1>1, <1>2, <2>1 DEF WithinBudget, LastTaken
  <2>2. CASE ~dRunning
    <3>1. dPhase' = "stopped"
      BY <1>1, <2>2 DEF Discord!Ended
    <3>2. QED
      BY <1>1, <3>1 DEF WithinBudget, LastTaken
  <2>3. QED
    BY <2>1, <2>2
<1>9. QED
  BY <1>5, <1>7, <1>8

\* The steps of the channel object and of the listener between two events.
LEMMA GatewayPlain ==
  ASSUME Discord!GatewayAssumption, GatewayInv,
         \/ Discord!Connect \/ Discord!Disconnect \/ Discord!Retry \/ Discord!Opens
         \/ Discord!BadHello \/ Discord!HeartbeatTick
  PROVE  GatewayInv'
<1> USE GatewayConstants DEF GatewayInv
<1>1. UNCHANGED <<dSession, dLastSeq, dAttempt, dBackoff, dHolding, dTaken, dLate,
                  dLive, dLog, dCursor, dPosted, dInbox>>
  BY Zenon DEF Discord!Connect, Discord!Disconnect, Discord!Retry, Discord!Opens,
       Discord!BadHello, Discord!HeartbeatTick, Discord!discord, Discord!client
<1>2. PostsInOrder' /\ SessionsAgree' /\ CursorDivides'
  BY <1>1, GatewayQuiet
<1>3. /\ dPhase' \in Discord!Phases /\ dRunning' \in BOOLEAN /\ dConnected' \in BOOLEAN
      /\ dPhase' \in {"off", "connect", "hello", "events"} => dAttempt < MaxAttempts
      /\ dHolding # 0 => dPhase' = "events"
      /\ dLate = 1 => ~dRunning' /\ (dPhase' = "stopped" \/ dHolding # 0)
  <2> USE DEF GatewayTyped, WithinBudget, LastTaken, Discord!flags, Discord!client
  <2>1. CASE Discord!Connect
    BY <2>1 DEF Discord!Connect
  <2>2. CASE Discord!Disconnect
    BY <2>2 DEF Discord!Disconnect
  <2>3. CASE Discord!Retry
    BY <2>3 DEF Discord!Retry
  <2>4. CASE Discord!Opens
    BY <2>4 DEF Discord!Opens
  <2>5. CASE Discord!BadHello
    BY <2>5 DEF Discord!BadHello
  <2>6. CASE Discord!HeartbeatTick
    BY <2>6 DEF Discord!HeartbeatTick, Discord!InLoop, Discord!Loop
  <2>7. QED
    BY ONLY <2>1, <2>2, <2>3, <2>4, <2>5, <2>6, Discord!Connect \/ Discord!Disconnect
          \/ Discord!Retry \/ Discord!Opens \/ Discord!BadHello \/ Discord!HeartbeatTick
<1>4. GatewayTyped' /\ WithinBudget' /\ LastTaken'
  BY <1>1, <1>3 DEF GatewayTyped, WithinBudget, LastTaken
<1>5. QED
  BY <1>2, <1>4

\* A message goes into the inbound channel and comes out of it; Discord may
\* forget a session nobody is connected to.
LEMMA GatewayHandsOn ==
  ASSUME Discord!GatewayAssumption, GatewayInv,
         Discord!DispatchMessage \/ Discord!ConsumeInbound \/ Discord!SessionForgotten
  PROVE  GatewayInv'
<1> USE GatewayConstants DEF GatewayInv
<1>1. CASE Discord!DispatchMessage
  <2>1. /\ UNCHANGED <<dSession, dLastSeq, dAttempt, dBackoff, dTaken, dLate, dRunning, dConnected,
                       dLive, dLog, dCursor, dPosted>>
        /\ dHolding # 0 /\ Len(dInbox) < InboxCap /\ dInbox' = Append(dInbox, dHolding)
        /\ dHolding' = 0 /\ dPhase' = IF dRunning THEN "events" ELSE "stopped"
    BY <1>1 DEF Discord!DispatchMessage, Discord!Loop, Discord!flags, Discord!discord
  <2>2. PostsInOrder' /\ SessionsAgree' /\ CursorDivides'
    BY <2>1, GatewayQuiet
  <2>3. dInbox' \in Seq(Discord!Posts) /\ Len(dInbox') <= InboxCap
    <3>1. dInbox \in Seq(Discord!Posts) /\ dHolding \in Discord!Posts
      BY <2>1 DEF GatewayTyped
    <3>2. QED
      BY <2>1, <3>1
  <2>4. GatewayTyped'
    BY <2>1, <2>3 DEF GatewayTyped
  <2>5. WithinBudget' /\ LastTaken'
    BY <2>1 DEF WithinBudget, LastTaken, GatewayTyped
  <2>6. QED
    BY <2>2, <2>4, <2>5
<1>2. CASE Discord!ConsumeInbound
  <2>1. /\ UNCHANGED <<dPhase, dSession, dLastSeq, dAttempt, dBackoff, dHolding, dTaken, dLate,
                       dRunning, dConnected, dLive, dLog, dCursor, dPosted>>
        /\ dInbox # <<>> /\ dInbox' = Tail(dInbox)
    BY <1>2 DEF Discord!ConsumeInbound, Discord!client, Discord!flags, Discord!discord
  <2>2. PostsInOrder' /\ SessionsAgree' /\ CursorDivides'
    BY <2>1, GatewayQuiet
  <2>3. dInbox' \in Seq(Discord!Posts) /\ Len(dInbox') <= InboxCap
    <3>1. dInbox \in Seq(Discord!Posts) /\ Len(dInbox) <= InboxCap
      BY DEF GatewayTyped
    <3>2. QED
      BY <2>1, <3>1
  <2>4. GatewayTyped' /\ WithinBudget' /\ LastTaken'
    BY <2>1, <2>3 DEF GatewayTyped, WithinBudget, LastTaken
  <2>5. QED
    BY <2>2, <2>4
<1>3. CASE Discord!SessionForgotten
  <2>1. /\ UNCHANGED <<dPhase, dSession, dLastSeq, dAttempt, dBackoff, dHolding, dTaken, dLate,
                       dRunning, dConnected, dCursor, dPosted, dInbox>>
        /\ dLive' = 0 /\ dLog' = <<>>
    BY <1>3 DEF Discord!SessionForgotten, Discord!client, Discord!flags
  <2>2. PostsInOrder' /\ SessionsAgree' /\ CursorDivides'
    BY <2>1, GatewayQuiet
  <2>3. dLog' \in Seq(GatewayEvent) /\ dLive' \in Nat
    BY <2>1
  <2>4. GatewayTyped' /\ WithinBudget' /\ LastTaken'
    BY <2>1, <2>3 DEF GatewayTyped, WithinBudget, LastTaken
  <2>5. QED
    BY <2>2, <2>4
<1>4. QED
  BY <1>1, <1>2, <1>3

\* A user posts: the youngest message, at the end of the log.
LEMMA GatewayPost ==
  ASSUME Discord!GatewayAssumption, GatewayInv, Discord!Post
  PROVE  GatewayInv'
<1> USE GatewayConstants DEF GatewayInv
<1>1. /\ UNCHANGED <<dPhase, dSession, dLastSeq, dAttempt, dBackoff, dHolding, dTaken, dLate,
                     dRunning, dConnected, dLive, dCursor, dInbox>>
      /\ dPosted < MaxPosts /\ dPosted' = dPosted + 1
      /\ dLog' = IF dLive = 0 THEN dLog ELSE Append(dLog, dPosted + 1)
  BY DEF Discord!Post, Discord!client, Discord!flags
<1>2. /\ dLog \in Seq(GatewayEvent) /\ dPosted \in 0 .. MaxPosts
      /\ dPosted + 1 \in Discord!Posts /\ dPosted + 1 \in GatewayEvent /\ dPosted + 1 # 0
  BY <1>1 DEF GatewayTyped, GatewayEvent
<1>3. /\ dLog' \in Seq(GatewayEvent)
      /\ \A i \in DOMAIN dLog' : \/ i \in DOMAIN dLog /\ dLog'[i] = dLog[i]
                                 \/ dLive # 0 /\ i = Len(dLog) + 1 /\ dLog'[i] = dPosted + 1
      /\ dLive # 0 => Len(dLog') = Len(dLog) + 1
  <2>1. CASE dLive = 0
    BY <1>1, <1>2, <2>1
  <2>2. CASE dLive # 0
    BY <1>1, <1>2, <2>2, AddingLast
  <2>3. QED
    BY <2>1, <2>2
<1>4. GatewayTyped' /\ WithinBudget' /\ LastTaken'
  BY <1>1, <1>2, <1>3 DEF GatewayTyped, WithinBudget, LastTaken
<1>5. PostsInOrder'
  <2>1. /\ \A i \in DOMAIN dTaken : dTaken[i] \in Discord!Posts /\ dTaken[i] <= dPosted
        /\ \A i \in DOMAIN dLog : dLog[i] \in GatewayEvent
        /\ DOMAIN dLog = 1 .. Len(dLog) /\ Len(dLog) \in Nat
    <3>1. dTaken \in Seq(Discord!Posts)
      BY DEF GatewayTyped
    <3>2. \A i \in DOMAIN dTaken : dTaken[i] \in Discord!Posts
      BY ONLY <3>1
    <3>3. \A i \in DOMAIN dTaken : dTaken[i] <= dPosted
      BY DEF PostsInOrder
    <3>4. QED
      BY <1>2, <3>2, <3>3
  <2>2. QED
    BY <1>1, <1>2, <1>3, <2>1 DEF PostsInOrder, GatewayEvent
<1>6. SessionsAgree'
  <2>1. dLive # 0 => dLog'[1] = dLog[1]
    <3>1. /\ DOMAIN dLog' = 1 .. Len(dLog') /\ Len(dLog) \in Nat
          /\ Len(dLog') \in Nat /\ DOMAIN dLog = 1 .. Len(dLog)
      BY <1>2, <1>3
    <3>2. QED
      BY <1>3, <3>1 DEF SessionsAgree
  <2>2. dCursor \in Nat /\ Len(dLog) \in Nat
    BY <1>2 DEF GatewayTyped
  <2>3. QED
    BY <1>1, <1>3, <2>1, <2>2 DEF SessionsAgree
<1>7. CursorDivides'
  <2>1. /\ \A j \in DOMAIN dTaken : dTaken[j] \in Int /\ dTaken[j] < dPosted + 1
        /\ dCursor \in Nat /\ Len(dLog) \in Nat
    <3>1. dTaken \in Seq(Discord!Posts) /\ dCursor \in Nat
      BY DEF GatewayTyped
    <3>2. \A j \in DOMAIN dTaken : dTaken[j] \in Discord!Posts
      BY ONLY <3>1
    <3>3. \A j \in DOMAIN dTaken : dTaken[j] <= dPosted
      BY DEF PostsInOrder
    <3>4. QED
      BY <1>2, <3>1, <3>2, <3>3
  <2>2. QED
    BY <1>1, <1>3, <2>1 DEF CursorDivides, SessionsAgree
<1>8. QED
  BY <1>4, <1>5, <1>6, <1>7

\* IDENTIFY: a new session, whose log begins with READY.
LEMMA GatewayIdentifies ==
  ASSUME Discord!GatewayAssumption, GatewayInv, Discord!Identify
  PROVE  GatewayInv'
<1> USE GatewayConstants DEF GatewayInv
<1>1. /\ UNCHANGED <<dSession, dLastSeq, dAttempt, dBackoff, dHolding, dTaken, dLate, dRunning,
                     dConnected, dPosted, dInbox>>
      /\ dPhase = "hello" /\ dSession = 0 /\ dPhase' = IF dRunning THEN "events" ELSE "stopped"
      /\ dLive' = dAttempt + 1 /\ dLog' = <<0>> /\ dCursor' = 1
  BY DEF Discord!Identify, Discord!flags
<1>2. dAttempt \in 0 .. MaxAttempts /\ dAttempt < MaxAttempts /\ dLastSeq = 0 /\ dHolding = 0
  BY <1>1 DEF GatewayTyped, WithinBudget, SessionsAgree, LastTaken
<1>3. /\ dLive' \in Nat /\ dLive' # 0 /\ Len(<<0>>) = 1 /\ DOMAIN <<0>> = {1} /\ <<0>>[1] = 0
      /\ <<0>> \in Seq(GatewayEvent)
  <2>1. 0 \in GatewayEvent
    BY DEF GatewayEvent
  <2>2. QED
    BY <1>1, <1>2, <2>1
<1>4. GatewayTyped'
  BY <1>1, <1>3 DEF GatewayTyped
<1>5. WithinBudget' /\ LastTaken'
  BY <1>1, <1>2 DEF WithinBudget, LastTaken, GatewayTyped
<1>6. PostsInOrder' /\ SessionsAgree' /\ CursorDivides'
  BY <1>1, <1>2, <1>3 DEF PostsInOrder, SessionsAgree, CursorDivides
<1>7. QED
  BY <1>4, <1>5, <1>6

\* RESUME: Discord goes on behind the last event that arrived, which is where
\* the cursor stood when the connection was lost.
LEMMA GatewayResumes ==
  ASSUME Discord!GatewayAssumption, GatewayInv, Discord!Resume
  PROVE  GatewayInv'
<1> USE GatewayConstants DEF GatewayInv
<1>1. /\ UNCHANGED <<dSession, dLastSeq, dAttempt, dBackoff, dHolding, dTaken, dLate, dRunning,
                     dConnected, dLive, dPosted, dInbox>>
      /\ dPhase = "hello" /\ dSession # 0 /\ dPhase' = IF dRunning THEN "events" ELSE "stopped"
      /\ IF dSession = dLive THEN dCursor' = dLastSeq + 1 /\ dLog' = Append(dLog, -1)
                             ELSE dCursor' = 0 /\ dLog' = dLog
  BY DEF Discord!Resume, Discord!ResumeSeq, Discord!flags
<1>2. /\ dLog \in Seq(GatewayEvent) /\ dLastSeq \in Nat /\ dCursor \in Nat /\ dSession \in Nat
      /\ -1 \in GatewayEvent /\ -1 \notin Discord!Posts /\ dHolding = 0
      /\ Len(dLog) \in Nat /\ DOMAIN dLog = 1 .. Len(dLog)
  BY <1>1 DEF GatewayTyped, GatewayEvent, LastTaken
<1>3. WithinBudget' /\ LastTaken'
  BY <1>1, <1>2 DEF WithinBudget, LastTaken
<1>4. CASE dSession = dLive
  <2>1. dLive # 0 /\ dCursor' = dCursor /\ dLog' = Append(dLog, -1)
    BY <1>1, <1>4 DEF SessionsAgree
  <2>2. /\ dLog' \in Seq(GatewayEvent) /\ Len(dLog') = Len(dLog) + 1
        /\ DOMAIN dLog' = 1 .. Len(dLog) + 1 /\ dLog'[Len(dLog) + 1] = -1
        /\ \A i \in DOMAIN dLog : dLog'[i] = dLog[i]
    BY <1>2, <2>1, AddingLast
  <2>3. \A i \in DOMAIN dLog' : dLog'[i] \in Discord!Posts =>
          i \in DOMAIN dLog /\ dLog'[i] = dLog[i]
    BY <1>2, <2>2
  <2>4. GatewayTyped'
    BY <1>1, <1>2, <2>1, <2>2 DEF GatewayTyped
  <2>5. PostsInOrder' /\ CursorDivides'
    BY <1>1, <2>1, <2>3 DEF PostsInOrder, CursorDivides
  <2>6. SessionsAgree'
    <3>1. /\ dLastSeq = 0 \/ dSession # 0
          /\ dSession \in {0, dLive} /\ dCursor = dLastSeq + 1
          /\ Len(dLog) > 0 /\ dLog[1] = 0 /\ dCursor <= Len(dLog) + 1
      BY <2>1 DEF SessionsAgree
    <3>2. dLog'[1] = 0 /\ Len(dLog') > 0 /\ dCursor' <= Len(dLog') + 1
      BY <1>2, <2>1, <2>2, <3>1
    <3>3. QED
      BY <1>1, <2>1, <3>1, <3>2 DEF SessionsAgree
  <2>7. QED
    BY <1>3, <2>4, <2>5, <2>6
<1>5. CASE dSession # dLive
  <2>1. dLive = 0 /\ dCursor' = 0 /\ dLog' = dLog /\ dLog = <<>> /\ DOMAIN dLog = {}
    BY <1>1, <1>5 DEF SessionsAgree
  <2>2. GatewayTyped'
    BY <1>1, <1>2, <2>1 DEF GatewayTyped
  <2>3. PostsInOrder' /\ SessionsAgree' /\ CursorDivides'
    BY <1>1, <2>1 DEF PostsInOrder, SessionsAgree, CursorDivides
  <2>4. QED
    BY <1>3, <2>2, <2>3
<1>6. QED
  BY <1>4, <1>5

\* What an event finds: an open session, and the cursor in its log.
LEMMA GatewayArrives ==
  ASSUME Discord!GatewayAssumption, GatewayInv, Discord!Arrives
  PROVE  /\ dPhase = "events" /\ dHolding = 0 /\ dLive # 0 /\ dCursor = dLastSeq + 1
         /\ dCursor \in Nat /\ dCursor \in DOMAIN dLog /\ dLog \in Seq(GatewayEvent)
         /\ dSession \in {0, dLive} /\ dAttempt < MaxAttempts
         /\ Len(dLog) \in Nat /\ dCursor <= Len(dLog)
         /\ dSession = 0 => dLog[dCursor] = 0
         /\ dLate = 1 => FALSE
<1> USE GatewayConstants DEF GatewayInv
<1>1. dPhase = "events" /\ dHolding = 0 /\ dCursor \in 1 .. Len(dLog)
  BY DEF Discord!Arrives, Discord!InLoop
<1>2. dLog \in Seq(GatewayEvent) /\ dLog # <<>> /\ dCursor \in DOMAIN dLog /\ Len(dLog) \in Nat
  BY <1>1 DEF GatewayTyped
<1>3. dLive # 0
  BY <1>2 DEF SessionsAgree
<1>4. QED
  BY <1>1, <1>2, <1>3 DEF GatewayTyped, WithinBudget, SessionsAgree, LastTaken

\* READY and RESUMED: the cursor moves on, and READY tells the session.
LEMMA GatewayGreeting ==
  ASSUME Discord!GatewayAssumption, GatewayInv, Discord!Greeting
  PROVE  GatewayInv'
<1> USE GatewayConstants DEF GatewayInv
<1>1. /\ UNCHANGED <<dAttempt, dBackoff, dHolding, dTaken, dLate, dRunning, dConnected, dLive, dLog,
                     dPosted, dInbox>>
      /\ Discord!Arrives /\ dLog[dCursor] \in {0, -1} /\ dLastSeq' = dCursor
      /\ dSession' = (IF dLog[dCursor] = 0 THEN dLive ELSE dSession) /\ dCursor' = dCursor + 1
      /\ dPhase' = IF dRunning THEN "events" ELSE "stopped"
  BY DEF Discord!Greeting, Discord!CountEvent, Discord!Loop, Discord!flags
<1>2. /\ dPhase = "events" /\ dHolding = 0 /\ dLive # 0 /\ dCursor = dLastSeq + 1
      /\ dCursor \in Nat /\ dCursor \in DOMAIN dLog /\ dLog \in Seq(GatewayEvent)
      /\ dSession \in {0, dLive} /\ dAttempt < MaxAttempts
      /\ Len(dLog) \in Nat /\ dCursor <= Len(dLog)
      /\ dSession = 0 => dLog[dCursor] = 0
      /\ dLate = 1 => FALSE
  BY <1>1, GatewayArrives
<1>3. GatewayTyped'
  BY <1>1, <1>2 DEF GatewayTyped
<1>4. WithinBudget' /\ LastTaken'
  BY <1>1, <1>2 DEF WithinBudget, LastTaken
<1>5. PostsInOrder'
  BY <1>1 DEF PostsInOrder
<1>6. dSession' = dLive
  BY <1>1, <1>2
<1>7. SessionsAgree'
  BY <1>1, <1>2, <1>6 DEF SessionsAgree
<1>8. CursorDivides'
  <2>1. dLog[dCursor] \notin Discord!Posts /\ \A i \in DOMAIN dLog : i \in Nat
    BY <1>1, <1>2
  <2>2. \A i \in DOMAIN dLog : dLog[i] \in Discord!Posts =>
          (i < dCursor + 1 <=> i < dCursor) /\ (i >= dCursor + 1 <=> i >= dCursor)
    BY <1>2, <2>1
  <2>3. QED
    BY <1>1, <1>2, <2>2 DEF CursorDivides
<1>9. QED
  BY <1>3, <1>4, <1>5, <1>7, <1>8

\* MESSAGE_CREATE: what the cursor points at is younger than all that was taken
\* and older than what follows it.
LEMMA GatewayMessage ==
  ASSUME Discord!GatewayAssumption, GatewayInv, Discord!MessageEvent
  PROVE  GatewayInv'
<1> USE GatewayConstants DEF GatewayInv
<1>1. /\ UNCHANGED <<dSession, dAttempt, dBackoff, dRunning, dConnected, dLive, dLog, dPosted,
           dInbox>>
      /\ Discord!Arrives /\ dLog[dCursor] \in Discord!Posts /\ dLastSeq' = dCursor
      /\ dTaken' = Append(dTaken, dLog[dCursor])
      /\ dLate' = dLate + (IF dRunning THEN 0 ELSE 1) /\ dCursor' = dCursor + 1
      /\ \/ dPhase' = (IF dRunning THEN "events" ELSE "stopped") /\ dHolding' = dHolding
         \/ dPhase' = dPhase /\ dHolding' = dLog[dCursor]
  BY DEF Discord!MessageEvent, Discord!CountEvent, Discord!Loop, Discord!flags
<1>2. /\ dPhase = "events" /\ dHolding = 0 /\ dLive # 0 /\ dCursor = dLastSeq + 1
      /\ dCursor \in Nat /\ dCursor \in DOMAIN dLog /\ dLog \in Seq(GatewayEvent)
      /\ dSession \in {0, dLive} /\ dAttempt < MaxAttempts
      /\ Len(dLog) \in Nat /\ dCursor <= Len(dLog)
      /\ dSession = 0 => dLog[dCursor] = 0
      /\ dLate = 1 => FALSE
  BY <1>1, GatewayArrives
<1>3. dLate = 0 /\ dSession = dLive
  BY <1>1, <1>2 DEF LastTaken
<1>4. /\ dTaken' \in Seq(Discord!Posts) /\ dTaken \in Seq(Discord!Posts)
      /\ Len(dTaken) \in Nat /\ DOMAIN dTaken' = 1 .. Len(dTaken) + 1
      /\ DOMAIN dTaken = 1 .. Len(dTaken) /\ dTaken'[Len(dTaken) + 1] = dLog[dCursor]
      /\ \A i \in DOMAIN dTaken : dTaken'[i] = dTaken[i]
  <2>1. dTaken \in Seq(Discord!Posts)
    BY DEF GatewayTyped
  <2>2. QED
    BY <1>1, <2>1, AddingLast
<1>5. GatewayTyped'
  <2>1. dHolding' \in Discord!Posts \union {0} /\ dPhase' \in Discord!Phases
    BY <1>1, <1>2
  <2>2. QED
    BY <1>1, <1>2, <1>4, <2>1 DEF GatewayTyped
<1>6. WithinBudget' /\ LastTaken'
  BY <1>1, <1>2, <1>3 DEF WithinBudget, LastTaken, GatewayTyped
<1>7. /\ \A j \in DOMAIN dTaken : dTaken[j] < dLog[dCursor]
      /\ \A i \in DOMAIN dLog : i \in Nat
      /\ dLog[dCursor] <= dPosted /\ dLog[dCursor] \in Nat
  <2>1. \A j \in DOMAIN dTaken : dTaken[j] < dLog[dCursor]
    <3>1. dCursor >= dCursor
      BY <1>2
    <3>2. QED
      BY <1>1, <1>2, <3>1 DEF CursorDivides
  <2>2. \A i \in DOMAIN dLog : i \in Nat
    BY <1>2
  <2>3. dLog[dCursor] <= dPosted /\ dLog[dCursor] \in Nat
    BY <1>1, <1>2 DEF PostsInOrder
  <2>4. QED
    BY <2>1, <2>2, <2>3
<1> DEFINE n == Len(dTaken)
           m == dLog[dCursor]
<1>8. /\ \A j \in 1 .. n : dTaken'[j] = dTaken[j] /\ dTaken[j] < m /\ dTaken[j] \in Int
      /\ n \in Nat /\ m \in Int /\ dTaken'[n + 1] = m /\ DOMAIN dTaken' = 1 .. n + 1
      /\ m <= dPosted
  <2>1. \A j \in 1 .. n : dTaken[j] \in Int
    BY <1>4
  <2>2. /\ \A j \in 1 .. n : dTaken'[j] = dTaken[j] /\ dTaken[j] < m
        /\ n \in Nat /\ dTaken'[n + 1] = m /\ DOMAIN dTaken' = 1 .. n + 1
    BY ONLY <1>4, <1>7
  <2>3. QED
    BY <1>7, <2>1, <2>2
<1> HIDE DEF n, m
<1>9. PostsInOrder'
  <2>1. \A i, j \in DOMAIN dTaken' : i < j => dTaken'[i] < dTaken'[j]
    <3>1. \A i, j \in 1 .. n : i < j => dTaken[i] < dTaken[j]
      BY <1>4 DEF PostsInOrder, n
    <3>2. QED
      BY ONLY <1>8, <3>1
  <2>2. \A i \in DOMAIN dTaken' : dTaken'[i] <= dPosted
    <3>1. \A i \in 1 .. n : dTaken[i] <= dPosted
      BY <1>4 DEF PostsInOrder, n
    <3>2. QED
      BY ONLY <1>8, <3>1
  <2>3. QED
    BY <1>1, <2>1, <2>2 DEF PostsInOrder
<1>10. SessionsAgree'
  BY <1>1, <1>2, <1>3 DEF SessionsAgree
<1>11. CursorDivides'
  <2> SUFFICES ASSUME NEW i \in DOMAIN dLog, dLog[i] \in Discord!Posts
               PROVE  /\ i < dCursor + 1 => \E j \in DOMAIN dTaken' : dTaken'[j] = dLog[i]
                      /\ i >= dCursor + 1 => \A j \in DOMAIN dTaken' : dTaken'[j] < dLog[i]
    BY <1>1 DEF CursorDivides
  <2>1. CASE i < dCursor
    <3>1. PICK j \in DOMAIN dTaken : dTaken[j] = dLog[i]
      BY <1>2, <2>1 DEF CursorDivides
    <3>2. j \in DOMAIN dTaken' /\ dTaken'[j] = dLog[i]
      BY ONLY <1>4, <3>1
    <3>3. ~(i >= dCursor + 1)
      BY <1>2, <1>7, <2>1
    <3>4. QED
      BY <3>2, <3>3
  <2>2. CASE i = dCursor
    <3>1. n + 1 \in DOMAIN dTaken' /\ dTaken'[n + 1] = dLog[i]
      BY <1>8, <2>2 DEF m
    <3>2. QED
      BY <1>2, <2>2, <3>1
  <2>3. CASE i > dCursor
    <3>1. i \in Nat /\ i >= dCursor /\ ~(i < dCursor + 1)
      BY <1>2, <1>7, <2>3
    <3>2. m < dLog[i]
      BY <1>1, <1>2, <2>3 DEF PostsInOrder, m
    <3>3. \A j \in 1 .. n : dTaken[j] < dLog[i]
      BY <1>2, <1>4, <3>1 DEF CursorDivides, n
    <3>4. QED
      BY ONLY <1>8, <3>1, <3>2, <3>3
  <2>4. QED
    BY <1>2, <1>7, <2>1, <2>2, <2>3
<1>12. QED
  BY <1>5, <1>6, <1>9, <1>10, <1>11

\* Every step keeps GatewayInv.
LEMMA GatewayInvStep ==
  ASSUME Discord!GatewayAssumption, GatewayInv, [Discord!Next]_(Discord!vars)
  PROVE  GatewayInv'
<1>1. CASE \/ Discord!Connect \/ Discord!Disconnect \/ Discord!Retry \/ Discord!Opens
           \/ Discord!BadHello \/ Discord!HeartbeatTick
  BY <1>1, GatewayPlain
<1>2. CASE Discord!DispatchMessage \/ Discord!ConsumeInbound \/ Discord!SessionForgotten
  BY <1>2, GatewayHandsOn
<1>3. CASE \/ Discord!ConnectFails \/ Discord!Rejected \/ Discord!Dropped
           \/ \E resumable \in BOOLEAN : Discord!InvalidSession(resumable)
  BY <1>3, GatewayEnds
<1>4. CASE Discord!Post
  BY <1>4, GatewayPost
<1>5. CASE Discord!Identify
  BY <1>5, GatewayIdentifies
<1>6. CASE Discord!Resume
  BY <1>6, GatewayResumes
<1>7. CASE Discord!Greeting
  BY <1>7, GatewayGreeting
<1>8. CASE Discord!MessageEvent
  BY <1>8, GatewayMessage
<1>9. CASE UNCHANGED Discord!vars
  BY <1>9 DEF Discord!vars, Discord!client, Discord!flags, Discord!discord, GatewayInv,
       GatewayTyped, WithinBudget, PostsInOrder, SessionsAgree, CursorDivides, LastTaken
<1>10. QED
  BY Zenon, <1>1, <1>2, <1>3, <1>4, <1>5, <1>6, <1>7, <1>8, <1>9
     DEF Discord!Next, Discord!Progress, Discord!Faults

\* GatewayInv is an invariant of the listener.
THEOREM GatewayInvariant == ASSUME Discord!GatewayAssumption PROVE Discord!Spec => []GatewayInv
BY GatewayInvInit, GatewayInvStep, PTL DEF Discord!Spec

\* GatewayInv implies what the next theorem states.
LEMMA GatewayStatesFollows ==
  ASSUME Discord!GatewayAssumption PROVE GatewayInv => Discord!TypeOK
BY DEF GatewayInv, GatewayTyped, Discord!TypeOK

\* The types of the model (TypeOK).
THEOREM GatewayStates ==
  ASSUME Discord!GatewayAssumption PROVE Discord!Spec => []Discord!TypeOK
BY GatewayStatesFollows, GatewayInvariant, PTL

\* GatewayInv implies what the next theorem states.
LEMMA GatewayOnceFollows ==
  ASSUME Discord!GatewayAssumption PROVE GatewayInv => Discord!EachEventOnce
BY DEF GatewayInv, PostsInOrder, CursorDivides, Discord!EachEventOnce

\* The agent is handed the events in Discord's order, none twice and none that
\* arrived or was replayed passed over, whatever connections drop: a RESUME
\* names the last event that arrived, and so moves the cursor nowhere.
THEOREM GatewayOnce ==
  ASSUME Discord!GatewayAssumption PROVE Discord!Spec => []Discord!EachEventOnce
BY GatewayOnceFollows, GatewayInvariant, PTL

\* GatewayInv implies what the next theorem states.
LEMMA GatewayStopsFollows ==
  ASSUME Discord!GatewayAssumption PROVE GatewayInv => Discord!StopsTaking
BY DEF GatewayInv, LastTaken, Discord!StopsTaking

\* After disconnect the listener takes one more event at most.
THEOREM GatewayStops ==
  ASSUME Discord!GatewayAssumption PROVE Discord!Spec => []Discord!StopsTaking
BY GatewayStopsFollows, GatewayInvariant, PTL

-----------------------------------------------------------------------------
(* WebSocketChannel: nothing for a client before its welcome                 *)

\* A client was welcomed, or its welcome is on its way, or nothing is on its way.
Greeted(c) == \E j \in DOMAIN wGot[c] : wGot[c][j] = "welcome"
Welcomed(c) == Greeted(c) \/ wWriter[c] = "over" \/
                 \E j \in DOMAIN wQueue[c] : wQueue[c][j] = "welcome"

\* The frame at place i needs no welcome, or has one before it.
Allowed(line, i) ==
  line[i] \in {"error", "welcome"} \/ \E j \in 1 .. i : line[j] = "welcome"

WebSocketTyped ==
  /\ wRunning \in BOOLEAN /\ wAccepting \in BOOLEAN /\ wStreaming \in BOOLEAN
  /\ wHand \in Clients \union {NoClient}
  /\ wClients \subseteq Clients /\ wUp \subseteq Clients /\ wInterrupts \subseteq Clients
  /\ wReader \in [Clients -> {"none", "pending", "open", "over"}]
  /\ wWriter \in [Clients -> {"none", "on", "over"}]
  /\ wQueue \in [Clients -> Seq(WebSocket!Frames)] /\ wGot \in [Clients -> Seq(WebSocket!Frames)]
  /\ wTurn \in Clients \union {NoClient} /\ wSaid \in 0 .. Chunks
  /\ wInbox \in Seq(Clients) /\ Len(wInbox) <= InboxCap
  /\ wStream \in Seq(Clients) /\ Len(wStream) <= StreamCap
  /\ wOutbound \in Seq(Clients)

\* What a client received, and what waits for it, begins with errors or with
\* its welcome.
HearsInOrder ==
  \A c \in Clients :
    /\ \A i \in DOMAIN wGot[c] : Allowed(wGot[c], i)
    /\ wWriter[c] = "on" => Greeted(c) \/ \A i \in DOMAIN wQueue[c] : Allowed(wQueue[c], i)

\* The two loops of a connection begin together, and as long as the channel
\* runs a pending client is in the map, unless nothing is written to it any more.
LoopsBegin ==
  /\ \A c \in Clients : wReader[c] = "none" <=> wWriter[c] = "none"
  /\ wHand \in Clients => wWriter[wHand] = "none"
  /\ \A c \in Clients : wReader[c] = "pending" /\ wRunning => c \in wClients \/ wWriter[c] = "over"

\* Who is open, or was spoken for, was welcomed.
Served(c) ==
  \/ wTurn = c
  \/ \E i \in DOMAIN wInbox : wInbox[i] = c
  \/ \E i \in DOMAIN wStream : wStream[i] = c
  \/ \E i \in DOMAIN wOutbound : wOutbound[i] = c

OpenAreWelcomed ==
  \A c \in Clients :
    /\ wReader[c] = "open" => Welcomed(c)
    /\ Served(c) => Welcomed(c) /\ wReader[c] \in {"open", "over"}

WebSocketInv == WebSocketTyped /\ HearsInOrder /\ LoopsBegin /\ OpenAreWelcomed

\* The constants, and the frames.
LEMMA WebSocketConstants ==
  ASSUME WebSocket!WebSocketAssumption
  PROVE  /\ AuthRequired \in BOOLEAN /\ NoClient \notin Clients
         /\ MaxFrames \in Nat \ {0} /\ InboxCap \in Nat \ {0} /\ StreamCap \in Nat \ {0}
         /\ Chunks \in Nat \ {0}
         /\ WebSocket!Frames = {"welcome", "error", "pong", "reply", "chunk", "message", "done"}
BY DEF WebSocket!WebSocketAssumption, WebSocket!Frames

\* Nothing is connected at the start.
LEMMA WebSocketInvInit ==
  ASSUME WebSocket!WebSocketAssumption, WebSocket!Init PROVE WebSocketInv
<1> USE WebSocketConstants
<1>1. /\ wHand = NoClient /\ wClients = {} /\ wUp = {} /\ wInterrupts = {} /\ wRunning = TRUE
      /\ wAccepting = TRUE /\ wStreaming = TRUE /\ wTurn = NoClient /\ wSaid = 0
      /\ wInbox = <<>> /\ wStream = <<>> /\ wOutbound = <<>>
      /\ wReader = [c \in Clients |-> "none"] /\ wWriter = [c \in Clients |-> "none"]
      /\ wQueue = [c \in Clients |-> <<>>] /\ wGot = [c \in Clients |-> <<>>]
  BY DEF WebSocket!Init
<1>2. /\ DOMAIN <<>> = {} /\ Len(<<>>) = 0
      /\ <<>> \in Seq(Clients) /\ <<>> \in Seq(WebSocket!Frames)
  OBVIOUS
<1>3. WebSocketTyped
  <2>1. /\ wQueue \in [Clients -> Seq(WebSocket!Frames)] /\
             wGot \in [Clients -> Seq(WebSocket!Frames)]
        /\ wReader \in [Clients -> {"none", "pending", "open", "over"}]
        /\ wWriter \in [Clients -> {"none", "on", "over"}]
    BY <1>1, <1>2
  <2>2. wSaid \in 0 .. Chunks /\ Len(wInbox) <= InboxCap /\ Len(wStream) <= StreamCap
    BY <1>1, <1>2
  <2>3. QED
    BY <1>1, <1>2, <2>1, <2>2 DEF WebSocketTyped
<1>4. HearsInOrder
  BY <1>1, <1>2 DEF HearsInOrder
<1>5. LoopsBegin
  BY <1>1 DEF LoopsBegin
<1>6. OpenAreWelcomed
  BY <1>1, <1>2 DEF OpenAreWelcomed, Served
<1>7. QED
  BY <1>3, <1>4, <1>5, <1>6 DEF WebSocketInv

\* Frames that need no welcome, or come behind it, may be queued.
LEMMA MoreFrames ==
  ASSUME WebSocketInv, UNCHANGED <<wGot, wWriter>>, NEW c \in Clients,
         wQueue' \in [Clients -> Seq(WebSocket!Frames)],
         \A d \in Clients : d # c => wQueue'[d] = wQueue[d],
         Len(wQueue[c]) <= Len(wQueue'[c]),
         \A i \in 1 .. Len(wQueue[c]) : wQueue'[c][i] = wQueue[c][i],
         \A i \in 1 .. Len(wQueue'[c]) :
           i > Len(wQueue[c]) => wQueue'[c][i] \in {"error", "welcome"} \/ Welcomed(c)
  PROVE  /\ HearsInOrder'
         /\ \A d \in Clients : Welcomed(d) => Welcomed(d)'
<1>1. /\ wQueue \in [Clients -> Seq(WebSocket!Frames)]
      /\ Len(wQueue[c]) \in Nat /\ Len(wQueue'[c]) \in Nat
      /\ DOMAIN wQueue[c] = 1 .. Len(wQueue[c]) /\ DOMAIN wQueue'[c] = 1 .. Len(wQueue'[c])
  BY DEF WebSocketInv, WebSocketTyped
<1>2. \A d \in Clients : Greeted(d)' <=> Greeted(d)
  BY DEF Greeted
<1>3. ASSUME NEW d \in Clients, Welcomed(d) PROVE Welcomed(d)'
  <2>1. CASE Greeted(d) \/ wWriter[d] = "over"
    BY <1>2, <2>1 DEF Welcomed
  <2>2. CASE \E j \in DOMAIN wQueue[d] : wQueue[d][j] = "welcome"
    <3>1. PICK j \in DOMAIN wQueue[d] : wQueue[d][j] = "welcome"
      BY <2>2
    <3>2. j \in DOMAIN wQueue'[d] /\ wQueue'[d][j] = "welcome"
      <4>1. CASE d = c
        BY <1>1, <3>1, <4>1
      <4>2. CASE d # c
        <5>1. wQueue'[d] = wQueue[d]
          BY <4>2
        <5>2. QED
          BY <3>1, <5>1
      <4>3. QED
        BY <4>1, <4>2
    <3>3. QED
      BY <3>2 DEF Welcomed
  <2>3. QED
    BY <1>3, <2>1, <2>2 DEF Welcomed
<1>4. ASSUME wWriter[c] = "on", ~Greeted(c), NEW i \in DOMAIN wQueue'[c]
      PROVE  Allowed(wQueue'[c], i)
  <2>1. CASE i <= Len(wQueue[c])
    <3>1. i \in DOMAIN wQueue[c] /\ Allowed(wQueue[c], i)
      BY <1>1, <1>4, <2>1 DEF WebSocketInv, HearsInOrder
    <3>2. \A j \in 1 .. i : wQueue'[c][j] = wQueue[c][j]
      BY <1>1, <3>1
    <3>3. QED
      BY <1>1, <3>1, <3>2 DEF Allowed
  <2>2. CASE i > Len(wQueue[c])
    <3>1. CASE wQueue'[c][i] \in {"error", "welcome"}
      BY <3>1 DEF Allowed
    <3>2. CASE Welcomed(c)
      <4>1. PICK j \in DOMAIN wQueue[c] : wQueue[c][j] = "welcome"
        BY <1>4, <3>2 DEF Welcomed
      <4>2. j \in 1 .. i /\ wQueue'[c][j] = "welcome"
        BY <1>1, <2>2, <4>1
      <4>3. QED
        BY <4>2 DEF Allowed
    <3>3. QED
      BY <1>1, <2>2, <3>1, <3>2
  <2>3. QED
    BY <1>1, <2>1, <2>2
<1>5. HearsInOrder'
  <2> SUFFICES ASSUME NEW d \in Clients
               PROVE  /\ \A i \in DOMAIN wGot'[d] : Allowed(wGot'[d], i)
                      /\ wWriter'[d] = "on" =>
                           Greeted(d)' \/ \A i \in DOMAIN wQueue'[d] : Allowed(wQueue'[d], i)
    BY DEF HearsInOrder, Allowed
  <2>1. CASE d # c
    BY <1>2, <2>1 DEF WebSocketInv, HearsInOrder
  <2>2. CASE d = c
    BY <1>2, <1>4, <2>2 DEF WebSocketInv, HearsInOrder
  <2>3. QED
    BY <2>1, <2>2
<1>6. QED
  BY <1>3, <1>5

\* Who was served stays welcomed.
LEMMA StillServed ==
  ASSUME WebSocketInv, \A d \in Clients : Welcomed(d) => Welcomed(d)',
         \A d \in Clients : wReader'[d] = "open" => wReader[d] = "open" \/ Welcomed(d)',
         \A d \in Clients : wReader[d] \in {"open", "over"} => wReader'[d] \in {"open", "over"},
         \A d \in Clients : Served(d)' => Served(d) \/ wReader[d] = "open"
  PROVE  OpenAreWelcomed'
BY DEF WebSocketInv, OpenAreWelcomed

\* One frame for a connection that is in the map.
LEMMA FrameQueued ==
  ASSUME WebSocketInv, UNCHANGED <<wGot, wWriter>>, NEW c \in Clients,
    NEW frame \in WebSocket!Frames,
    wQueue' = [wQueue EXCEPT ![c] = IF c \in wClients THEN Append(@, frame) ELSE @],
    frame \in {"error", "welcome"} \/ Welcomed(c)
  PROVE  /\ HearsInOrder' /\ wQueue' \in [Clients -> Seq(WebSocket!Frames)]
         /\ \A d \in Clients : Welcomed(d) => Welcomed(d)'
         /\ c \in wClients =>
              wQueue'[c][Len(wQueue[c]) + 1] = frame /\ Len(wQueue[c]) + 1 \in DOMAIN wQueue'[c]
<1> DEFINE old == wQueue[c]
           longer == IF c \in wClients THEN Append(old, frame) ELSE old
           n == Len(old)
           m == Len(longer)
<1>1. wQueue \in [Clients -> Seq(WebSocket!Frames)] /\ old \in Seq(WebSocket!Frames)
  BY DEF WebSocketInv, WebSocketTyped
<1>2. wQueue' = [wQueue EXCEPT ![c] = longer]
  OBVIOUS
<1> HIDE DEF old
<1>3. /\ longer \in Seq(WebSocket!Frames) /\ n \in Nat /\ m \in Nat
      /\ DOMAIN longer = 1 .. m
      /\ \A i \in 1 .. n : longer[i] = old[i]
      /\ \/ c \in wClients /\ m = n + 1 /\ longer[n + 1] = frame
         \/ c \notin wClients /\ m = n
  <2>1. CASE c \in wClients
    BY <1>1, <2>1, AddingLast
  <2>2. CASE c \notin wClients
    BY <1>1, <2>2
  <2>3. QED
    BY <2>1, <2>2
<1> HIDE DEF longer, n, m
<1>4. /\ wQueue' \in [Clients -> Seq(WebSocket!Frames)] /\ wQueue'[c] = longer
      /\ \A d \in Clients : d # c => wQueue'[d] = wQueue[d]
  BY <1>1, <1>2, <1>3
<1>5. n <= m /\ \A i \in 1 .. m : i > n => longer[i] = frame
  BY ONLY <1>3
<1>6. HearsInOrder' /\ \A d \in Clients : Welcomed(d) => Welcomed(d)'
  BY <1>3, <1>4, <1>5, MoreFrames DEF old, n, m
<1>7. c \in wClients => longer[n + 1] = frame /\ n + 1 \in DOMAIN longer
  BY ONLY <1>3
<1>8. QED
  BY <1>4, <1>6, <1>7 DEF old, n

\* The steps of the listener and of the peer: they queue, write and serve nothing.
LEMMA WebSocketQuiet ==
  ASSUME WebSocket!WebSocketAssumption, WebSocketInv,
         \/ \E c \in Clients : WebSocket!Accept(c) \/ WebSocket!PeerCloses(c)
         \/ WebSocket!HandshakeFails \/ WebSocket!AcceptLoopEnds \/ WebSocket!Disconnect
  PROVE  WebSocketInv'
<1> USE WebSocketConstants DEF WebSocketInv
<1>1. UNCHANGED <<wReader, wWriter, wQueue, wGot, wInbox, wInterrupts, wTurn, wSaid, wStream,
        wStreaming, wOutbound>>
  BY Zenon DEF WebSocket!Accept, WebSocket!PeerCloses, WebSocket!HandshakeFails,
       WebSocket!AcceptLoopEnds, WebSocket!Disconnect, WebSocket!server, WebSocket!loops,
       WebSocket!agent
<1>2. /\ wRunning' \in BOOLEAN /\ wAccepting' \in BOOLEAN
      /\ wHand' \in Clients \union {NoClient} /\ wClients' \subseteq Clients /\
           wUp' \subseteq Clients
      /\ wHand' \in Clients => wWriter[wHand'] = "none"
      /\ wRunning' => wRunning /\ wClients' = wClients
  <2> USE DEF WebSocketTyped, LoopsBegin, WebSocket!server, WebSocket!loops
  <2>1. CASE \E c \in Clients : WebSocket!Accept(c)
    BY <2>1 DEF WebSocket!Accept
  <2>2. CASE \E c \in Clients : WebSocket!PeerCloses(c)
    BY <2>2 DEF WebSocket!PeerCloses
  <2>3. CASE WebSocket!HandshakeFails
    BY <2>3 DEF WebSocket!HandshakeFails
  <2>4. CASE WebSocket!AcceptLoopEnds
    BY <2>4 DEF WebSocket!AcceptLoopEnds
  <2>5. CASE WebSocket!Disconnect
    BY <2>5 DEF WebSocket!Disconnect
  <2>6. QED
    BY <2>1, <2>2, <2>3, <2>4, <2>5
<1>3. WebSocketTyped'
  BY <1>1, <1>2 DEF WebSocketTyped
<1>4. HearsInOrder'
  BY <1>1 DEF HearsInOrder, Greeted
<1>5. LoopsBegin'
  BY <1>1, <1>2 DEF LoopsBegin
<1>6. OpenAreWelcomed'
  BY <1>1 DEF OpenAreWelcomed, Welcomed, Greeted, Served
<1>7. QED
  BY <1>3, <1>4, <1>5, <1>6

\* The read loop ends.
LEMMA WebSocketReadsNoMore ==
  ASSUME WebSocket!WebSocketAssumption, WebSocketInv, NEW c \in Clients,
         WebSocket!ReadEnd(c) \/ WebSocket!ReadStopped(c)
  PROVE  WebSocketInv'
<1> USE WebSocketConstants DEF WebSocketInv
<1>1. /\ UNCHANGED <<wRunning, wAccepting, wHand, wWriter, wUp, wQueue, wGot, wInbox, wTurn,
           wSaid, wStream, wStreaming, wOutbound>>
      /\ wReader[c] \in {"pending", "open"} /\ wReader' = [wReader EXCEPT ![c] = "over"]
      /\ wClients' = wClients \ {c} /\ wInterrupts' = wInterrupts \union {c}
  <2>1. CASE WebSocket!ReadEnd(c)
    BY <2>1 DEF WebSocket!ReadEnd, WebSocket!ReaderEnds, WebSocket!CancelRun, WebSocket!server,
         WebSocket!agent
  <2>2. CASE WebSocket!ReadStopped(c)
    BY <2>2 DEF WebSocket!ReadStopped, WebSocket!Reads, WebSocket!ReaderEnds,
         WebSocket!CancelRun, WebSocket!server, WebSocket!agent
  <2>3. QED
    BY <2>1, <2>2
<1>2. /\ wReader' \in [Clients -> {"none", "pending", "open", "over"}] /\ wReader'[c] = "over"
      /\ \A d \in Clients : d # c => wReader'[d] = wReader[d]
  BY <1>1 DEF WebSocketTyped
<1>3. WebSocketTyped'
  BY <1>1, <1>2 DEF WebSocketTyped
<1>4. HearsInOrder'
  BY <1>1 DEF HearsInOrder, Greeted
<1>5. LoopsBegin'
  BY <1>1, <1>2 DEF LoopsBegin
<1>6. \A d \in Clients : (Welcomed(d)' <=> Welcomed(d)) /\ (Served(d)' <=> Served(d))
  BY <1>1 DEF Welcomed, Greeted, Served
<1>7. OpenAreWelcomed'
  BY <1>2, <1>6, StillServed
<1>8. QED
  BY <1>3, <1>4, <1>5, <1>7

\* A frame is answered: an error, or what only an open client is told.
LEMMA WebSocketAnswers ==
  ASSUME WebSocket!WebSocketAssumption, WebSocketInv, NEW c \in Clients,
         NEW frame \in WebSocket!Frames, WebSocket!ReadAnswered(c, frame)
  PROVE  WebSocketInv'
<1> USE WebSocketConstants DEF WebSocketInv
<1>1. /\ UNCHANGED <<wRunning, wAccepting, wHand, wClients, wReader, wWriter, wUp, wGot, wInbox,
                     wInterrupts, wTurn, wSaid, wStream, wStreaming, wOutbound>>
      /\ wReader[c] = "open" \/ frame = "error"
      /\ wQueue' = [wQueue EXCEPT ![c] = IF c \in wClients THEN Append(@, frame) ELSE @]
  BY DEF WebSocket!ReadAnswered, WebSocket!Reads, WebSocket!Queued, WebSocket!server,
     WebSocket!agent
<1>2. frame \in {"error", "welcome"} \/ Welcomed(c)
  BY <1>1 DEF OpenAreWelcomed
<1>3. /\ HearsInOrder' /\ wQueue' \in [Clients -> Seq(WebSocket!Frames)]
      /\ \A d \in Clients : Welcomed(d) => Welcomed(d)'
  BY <1>1, <1>2, FrameQueued
<1>4. WebSocketTyped' /\ LoopsBegin'
  BY <1>1, <1>3 DEF WebSocketTyped, LoopsBegin
<1>5. OpenAreWelcomed'
  <2>1. \A d \in Clients : Served(d)' <=> Served(d)
    BY <1>1 DEF Served
  <2>2. QED
    BY <1>1, <1>3, <2>1, StillServed
<1>6. QED
  BY <1>3, <1>4, <1>5

\* The auth gate: the welcome is queued as the client is opened, and it is in
\* the map, or its write loop is over.
LEMMA WebSocketGate ==
  ASSUME WebSocket!WebSocketAssumption, WebSocketInv, NEW c \in Clients,
         NEW authorised \in BOOLEAN, WebSocket!ReadPending(c, authorised)
  PROVE  WebSocketInv'
<1> USE WebSocketConstants DEF WebSocketInv
<1> DEFINE frame == IF authorised THEN "welcome" ELSE "error"
<1>1. /\ UNCHANGED <<wRunning, wAccepting, wHand, wWriter, wUp, wGot, wInbox, wTurn, wSaid, wStream,
                     wStreaming, wOutbound>>
      /\ wReader[c] = "pending" /\ wRunning
      /\ wQueue' = [wQueue EXCEPT ![c] = IF c \in wClients THEN Append(@, frame) ELSE @]
      /\ \/ /\ authorised /\ wReader' = [wReader EXCEPT ![c] = "open"]
            /\ UNCHANGED <<wClients, wInterrupts>>
         \/ /\ ~authorised /\ wReader' = [wReader EXCEPT ![c] = "over"]
            /\ wClients' = wClients \ {c} /\ wInterrupts' = wInterrupts \union {c}
  BY DEF WebSocket!ReadPending, WebSocket!Reads, WebSocket!Queued, WebSocket!Admits,
     WebSocket!ReaderEnds, WebSocket!CancelRun, WebSocket!server, WebSocket!agent
<1>2. /\ HearsInOrder' /\ wQueue' \in [Clients -> Seq(WebSocket!Frames)]
      /\ \A d \in Clients : Welcomed(d) => Welcomed(d)'
      /\ c \in wClients => wQueue'[c][Len(wQueue[c]) + 1] = frame /\
           Len(wQueue[c]) + 1 \in DOMAIN wQueue'[c]
  <2>1. frame \in {"error", "welcome"} /\ frame \in WebSocket!Frames
    OBVIOUS
  <2>2. QED
    BY <1>1, <2>1, FrameQueued
<1>3. /\ wReader' \in [Clients -> {"none", "pending", "open", "over"}]
      /\ wReader'[c] \in {"open", "over"} /\ wReader'[c] = "open" => authorised
      /\ \A d \in Clients : d # c => wReader'[d] = wReader[d]
      /\ wClients' \subseteq wClients /\ wClients \ wClients' \subseteq {c}
  BY <1>1 DEF WebSocketTyped
<1>4. WebSocketTyped'
  BY <1>1, <1>2, <1>3 DEF WebSocketTyped
<1>5. LoopsBegin'
  BY <1>1, <1>3 DEF LoopsBegin
<1>6. wReader'[c] = "open" => Welcomed(c)'
  <2>1. c \in wClients \/ wWriter[c] = "over"
    BY <1>1 DEF LoopsBegin
  <2>2. CASE c \in wClients
    BY <1>2, <1>3, <2>2 DEF Welcomed
  <2>3. CASE wWriter[c] = "over"
    BY <1>1, <2>3 DEF Welcomed
  <2>4. QED
    BY <2>1, <2>2, <2>3
<1>7. OpenAreWelcomed'
  <2>1. \A d \in Clients : Served(d)' <=> Served(d)
    BY <1>1 DEF Served
  <2>2. QED
    BY <1>1, <1>2, <1>3, <1>6, <2>1, StillServed
<1>8. QED
  BY <1>2, <1>4, <1>5, <1>7

\* A queue that lost its first member serves no one new.
LEMMA FewerServed ==
  ASSUME NEW s \in Seq(Clients), s # <<>>, NEW c, \E i \in DOMAIN Tail(s) : Tail(s)[i] = c
  PROVE  \E i \in DOMAIN s : s[i] = c
<1>1. PICK i \in DOMAIN Tail(s) : Tail(s)[i] = c
  OBVIOUS
<1>2. i + 1 \in DOMAIN s /\ s[i + 1] = c
  BY <1>1, TakingFirst
<1>3. QED
  BY <1>2

\* A queue that gained a member serves one more.
LEMMA OneMoreServed ==
  ASSUME NEW s \in Seq(Clients), NEW d \in Clients, NEW c,
         \E i \in DOMAIN Append(s, d) : Append(s, d)[i] = c
  PROVE  c = d \/ \E i \in DOMAIN s : s[i] = c
<1>1. PICK i \in DOMAIN Append(s, d) : Append(s, d)[i] = c
  OBVIOUS
<1>2. i \in DOMAIN s \/ i = Len(s) + 1
  OBVIOUS
<1>3. CASE i \in DOMAIN s
  <2>1. s[i] = c
    BY <1>1, <1>3
  <2>2. QED
    BY <1>3, <2>1
<1>4. CASE i = Len(s) + 1
  BY <1>1, <1>4
<1>5. QED
  BY <1>2, <1>3, <1>4

\* A message to the bus, a turn of the agent, a chunk and an answer: all of an
\* open client, or of one that was served already.
LEMMA WebSocketServes ==
  ASSUME WebSocket!WebSocketAssumption, WebSocketInv,
         \/ \E c \in Clients : WebSocket!ReadMessage(c)
         \/ WebSocket!BeginTurn \/ WebSocket!SayChunk \/ WebSocket!EndTurn
  PROVE  WebSocketInv'
<1> USE WebSocketConstants DEF WebSocketInv
<1>1. UNCHANGED <<wRunning, wAccepting, wHand, wClients, wReader, wWriter, wUp, wQueue, wGot,
        wInterrupts>>
  BY Zenon DEF WebSocket!ReadMessage, WebSocket!BeginTurn, WebSocket!SayChunk, WebSocket!EndTurn,
       WebSocket!Publish, WebSocket!server, WebSocket!loops
<1>2. /\ wInbox \in Seq(Clients) /\ wStream \in Seq(Clients) /\ wOutbound \in Seq(Clients)
      /\ Len(wInbox) <= InboxCap /\ Len(wStream) <= StreamCap /\ wStreaming \in BOOLEAN
      /\ wTurn \in Clients \union {NoClient} /\ wSaid \in 0 .. Chunks
  BY DEF WebSocketTyped
<1> DEFINE typed == /\ wInbox' \in Seq(Clients) /\ wStream' \in Seq(Clients) /\
                         wOutbound' \in Seq(Clients)
                    /\ Len(wInbox') <= InboxCap /\ Len(wStream') <= StreamCap /\
                         wStreaming' \in BOOLEAN
                    /\ wTurn' \in Clients \union {NoClient} /\ wSaid' \in 0 .. Chunks
           served == \A d \in Clients : Served(d)' => Served(d) \/ wReader[d] = "open"
<1>3. typed /\ served
  <2>1. CASE \E c \in Clients : WebSocket!ReadMessage(c)
    <3>1. PICK c \in Clients : /\ wReader[c] = "open" /\ Len(wInbox) < InboxCap
                               /\ wInbox' = Append(wInbox, c)
                               /\ UNCHANGED <<wTurn, wSaid, wStream, wStreaming, wOutbound>>
      BY <2>1 DEF WebSocket!ReadMessage, WebSocket!Reads, WebSocket!agent
    <3>2. typed
      BY <1>2, <3>1
    <3>3. served
      BY <1>2, <3>1, OneMoreServed DEF Served
    <3>4. QED
      BY <3>2, <3>3
  <2>2. CASE WebSocket!BeginTurn
    <3>1. /\ wInbox # <<>> /\ wTurn' = Head(wInbox) /\ wSaid' = 0 /\ wInbox' = Tail(wInbox)
          /\ UNCHANGED <<wStream, wStreaming, wOutbound>>
      BY <2>2 DEF WebSocket!BeginTurn
    <3>2. Head(wInbox) \in Clients /\ Head(wInbox) = wInbox[1] /\ 1 \in DOMAIN wInbox
      BY <1>2, <3>1, TakingFirst
    <3>3. typed
      BY <1>2, <3>1, <3>2
    <3>4. served
      BY <1>2, <3>1, <3>2, FewerServed DEF Served
    <3>5. QED
      BY <3>3, <3>4
  <2>3. CASE WebSocket!SayChunk
    <3>1. /\ wTurn \in Clients /\ wSaid < Chunks /\ wSaid' = wSaid + 1
          /\ UNCHANGED <<wInbox, wTurn, wOutbound>>
          /\ \/ /\ Len(wStream) < StreamCap /\ wStream' = Append(wStream, wTurn)
                /\ UNCHANGED wStreaming
             \/ wStream' = <<>> /\ wStreaming' = FALSE
             \/ UNCHANGED <<wStream, wStreaming>>
      BY <1>2, <2>3 DEF WebSocket!SayChunk, WebSocket!Publish
    <3>2. wStream' \in Seq(Clients) /\ Len(wStream') <= StreamCap /\ wStreaming' \in BOOLEAN
      <4>1. CASE Len(wStream) < StreamCap /\ wStream' = Append(wStream, wTurn) /\
                   wStreaming' = wStreaming
        BY <1>2, <3>1, <4>1
      <4>2. CASE wStream' = <<>> /\ wStreaming' = FALSE
        <5>1. <<>> \in Seq(Clients) /\ Len(<<>>) = 0 /\ 0 <= StreamCap
          OBVIOUS
        <5>2. QED
          BY <4>2, <5>1
      <4>3. CASE UNCHANGED <<wStream, wStreaming>>
        BY <1>2, <4>3
      <4>4. QED
        BY <3>1, <4>1, <4>2, <4>3
    <3>3. typed
      BY <1>2, <3>1, <3>2
    <3>4. \A d \in Clients : (\E i \in DOMAIN wStream' : wStream'[i] = d) =>
            d = wTurn \/ \E i \in DOMAIN wStream : wStream[i] = d
      <4>1. CASE wStream' = Append(wStream, wTurn)
        BY <1>2, <3>1, <4>1, OneMoreServed
      <4>2. CASE wStream' = <<>>
        BY <4>2
      <4>3. CASE wStream' = wStream
        BY <4>3
      <4>4. QED
        BY <3>1, <4>1, <4>2, <4>3
    <3>5. served
      BY <3>1, <3>4 DEF Served
    <3>6. QED
      BY <3>5, <3>3
  <2>4. CASE WebSocket!EndTurn
    <3>1. /\ wTurn \in Clients /\ wTurn' = NoClient /\ wSaid' = 0
          /\ UNCHANGED <<wInbox, wStream, wStreaming>>
          /\ wOutbound' = wOutbound \/ wOutbound' = Append(wOutbound, wTurn)
      BY <1>2, <2>4 DEF WebSocket!EndTurn
    <3>2. wOutbound' \in Seq(Clients)
      <4>1. CASE wOutbound' = wOutbound
        BY <1>2, <4>1
      <4>2. CASE wOutbound' = Append(wOutbound, wTurn)
        BY <1>2, <3>1, <4>2
      <4>3. QED
        BY <3>1, <4>1, <4>2
    <3>3. typed
      BY <1>2, <3>1, <3>2
    <3>4. \A d \in Clients : (\E i \in DOMAIN wOutbound' : wOutbound'[i] = d) =>
            d = wTurn \/ \E i \in DOMAIN wOutbound : wOutbound[i] = d
      <4>1. CASE wOutbound' = Append(wOutbound, wTurn)
        BY <1>2, <3>1, <4>1, OneMoreServed
      <4>2. CASE wOutbound' = wOutbound
        BY <4>2
      <4>3. QED
        BY <3>1, <4>1, <4>2
    <3>5. served
      BY <3>1, <3>4 DEF Served
    <3>6. QED
      BY <3>5, <3>3
  <2>5. QED
    BY ONLY <2>1, <2>2, <2>3, <2>4,
      \/ \E c \in Clients : WebSocket!ReadMessage(c)
      \/ WebSocket!BeginTurn \/ WebSocket!SayChunk \/ WebSocket!EndTurn
<1>4. WebSocketTyped'
  BY <1>1, <1>3 DEF WebSocketTyped
<1> HIDE DEF typed
<1>5. HearsInOrder' /\ LoopsBegin'
  BY <1>1 DEF HearsInOrder, LoopsBegin, Greeted
<1>6. OpenAreWelcomed'
  <2>1. \A d \in Clients : Welcomed(d) => Welcomed(d)'
    BY <1>1 DEF Welcomed, Greeted
  <2>2. QED
    BY <1>1, <1>3, <2>1, StillServed
<1>7. QED
  BY <1>4, <1>5, <1>6

\* The write loop ends with an empty queue.
LEMMA WebSocketWritesNoMore ==
  ASSUME WebSocket!WebSocketAssumption, WebSocketInv, NEW c \in Clients, WebSocket!WriteEnd(c)
  PROVE  WebSocketInv'
<1> USE WebSocketConstants DEF WebSocketInv
<1>1. /\ UNCHANGED <<wRunning, wAccepting, wHand, wReader, wQueue, wGot, wInbox, wInterrupts,
           wTurn, wSaid, wStream, wStreaming, wOutbound>>
      /\ wWriter[c] = "on" /\ wWriter' = [wWriter EXCEPT ![c] = "over"]
      /\ wClients' = wClients \ {c} /\ wUp' = wUp \ {c}
  BY DEF WebSocket!WriteEnd, WebSocket!WriterEnds, WebSocket!CloseSink, WebSocket!server,
     WebSocket!agent
<1>2. /\ wWriter' \in [Clients -> {"none", "on", "over"}] /\ wWriter'[c] = "over"
      /\ \A d \in Clients : d # c => wWriter'[d] = wWriter[d]
  BY <1>1 DEF WebSocketTyped
<1>3. WebSocketTyped'
  BY <1>1, <1>2 DEF WebSocketTyped
<1>4. HearsInOrder'
  BY <1>1, <1>2 DEF HearsInOrder, Greeted
<1>5. LoopsBegin'
  BY <1>1, <1>2 DEF LoopsBegin
<1>6. OpenAreWelcomed'
  <2>1. \A d \in Clients : Welcomed(d) => Welcomed(d)'
    BY <1>1, <1>2 DEF Welcomed, Greeted
  <2>2. \A d \in Clients : Served(d)' <=> Served(d)
    BY <1>1 DEF Served
  <2>3. QED
    BY <1>1, <2>1, <2>2, StillServed
<1>7. QED
  BY <1>3, <1>4, <1>5, <1>6

\* A frame is written, or fails and ends the loop: what was queued first is
\* heard first.
LEMMA WebSocketWrites ==
  ASSUME WebSocket!WebSocketAssumption, WebSocketInv, NEW c \in Clients, WebSocket!Write(c)
  PROVE  WebSocketInv'
<1> USE WebSocketConstants DEF WebSocketInv
<1>1. /\ UNCHANGED <<wRunning, wAccepting, wHand, wReader, wInbox, wInterrupts, wTurn, wSaid,
           wStream, wStreaming, wOutbound>>
      /\ wWriter[c] = "on" /\ wQueue[c] # <<>> /\ wQueue' = [wQueue EXCEPT ![c] = Tail(@)]
      /\ wGot' = [wGot EXCEPT ![c] = IF c \in wUp THEN Append(@, Head(wQueue[c])) ELSE @]
      /\ \/ c \in wUp /\ UNCHANGED <<wWriter, wClients, wUp>>
         \/ wWriter' = [wWriter EXCEPT ![c] = "over"] /\ wClients' = wClients \ {c} /\
              wUp' = wUp \ {c}
  BY DEF WebSocket!Write, WebSocket!WriterEnds, WebSocket!CloseSink, WebSocket!server,
     WebSocket!agent
<1> DEFINE old == wQueue[c]
           heard == wGot[c]
           hears == IF c \in wUp THEN Append(heard, Head(old)) ELSE heard
           n == Len(old)
           m == Len(heard)
<1>2. /\ wQueue \in [Clients -> Seq(WebSocket!Frames)] /\ old \in Seq(WebSocket!Frames) /\
           old # <<>>
      /\ wGot \in [Clients -> Seq(WebSocket!Frames)] /\ heard \in Seq(WebSocket!Frames)
  BY <1>1 DEF WebSocketTyped
<1>3. wQueue' = [wQueue EXCEPT ![c] = Tail(old)] /\ wGot' = [wGot EXCEPT ![c] = hears]
  BY <1>1
<1>4. Greeted(c) <=> \E j \in DOMAIN heard : heard[j] = "welcome"
  BY DEF Greeted
<1>5. Greeted(c) \/ \A i \in DOMAIN old : Allowed(old, i)
  BY <1>1 DEF HearsInOrder
<1> HIDE DEF old, heard
<1>6. /\ Head(old) = old[1] /\ old[1] \in WebSocket!Frames /\ n \in Nat \ {0}
      /\ Tail(old) \in Seq(WebSocket!Frames)
      /\ DOMAIN old = 1 .. n /\ DOMAIN Tail(old) = 1 .. n - 1
      /\ \A i \in 1 .. n - 1 : Tail(old)[i] = old[i + 1]
  BY <1>2, TakingFirst
<1>7. /\ hears \in Seq(WebSocket!Frames) /\ m \in Nat /\ DOMAIN heard = 1 .. m
      /\ \A i \in 1 .. m : hears[i] = heard[i]
      /\ \/ c \in wUp /\ DOMAIN hears = 1 .. m + 1 /\ hears[m + 1] = old[1]
         \/ c \notin wUp /\ DOMAIN hears = 1 .. m
  <2>1. CASE c \in wUp
    BY <1>2, <1>6, <2>1, AddingLast
  <2>2. CASE c \notin wUp
    BY <1>2, <2>2
  <2>3. QED
    BY <2>1, <2>2
<1> HIDE DEF hears, n, m
<1>8. /\ wQueue' \in [Clients -> Seq(WebSocket!Frames)] /\ wQueue'[c] = Tail(old)
      /\ wGot' \in [Clients -> Seq(WebSocket!Frames)] /\ wGot'[c] = hears
      /\ wWriter' \in [Clients -> {"none", "on", "over"}]
      /\ wWriter'[c] = "over" \/ (c \in wUp /\ wWriter' = wWriter /\ wWriter'[c] = "on")
      /\ \A d \in Clients : d # c => UNCHANGED <<wQueue[d], wGot[d], wWriter[d]>>
  <2>1. /\ wQueue' \in [Clients -> Seq(WebSocket!Frames)] /\ wQueue'[c] = Tail(old)
        /\ wGot' \in [Clients -> Seq(WebSocket!Frames)] /\ wGot'[c] = hears
        /\ \A d \in Clients : d # c => wQueue'[d] = wQueue[d] /\ wGot'[d] = wGot[d]
    BY ONLY <1>2, <1>3, <1>6, <1>7
  <2>2. /\ wWriter' \in [Clients -> {"none", "on", "over"}]
        /\ wWriter'[c] = "over" \/ (c \in wUp /\ wWriter' = wWriter /\ wWriter'[c] = "on")
        /\ \A d \in Clients : d # c => wWriter'[d] = wWriter[d]
    BY <1>1 DEF WebSocketTyped
  <2>3. QED
    BY <2>1, <2>2
<1>9. /\ Greeted(c) => Greeted(c)'
      /\ c \in wUp /\ old[1] = "welcome" => Greeted(c)'
  <2>1. Greeted(c)' <=> \E j \in DOMAIN hears : hears[j] = "welcome"
    BY <1>8 DEF Greeted
  <2>2. CASE c \in wUp
    BY <1>4, <1>7, <2>1, <2>2
  <2>3. CASE c \notin wUp
    BY <1>4, <1>7, <2>1, <2>3
  <2>4. QED
    BY <2>2, <2>3
<1>10. \A d \in Clients : d # c => (Greeted(d)' <=> Greeted(d)) /\ (Welcomed(d)' <=> Welcomed(d))
  BY <1>8 DEF Greeted, Welcomed
<1>11. ASSUME NEW i \in DOMAIN hears
       PROVE  Allowed(hears, i)
  <2>1. CASE i \in 1 .. m
    <3>1. Allowed(heard, i)
      BY <1>7, <2>1 DEF HearsInOrder, heard
    <3>2. \A j \in 1 .. i : hears[j] = heard[j]
      BY ONLY <1>7, <2>1
    <3>3. QED
      BY <1>7, <2>1, <3>1, <3>2 DEF Allowed
  <2>2. CASE i = m + 1 /\ c \in wUp
    <3>1. CASE Greeted(c)
      <4>1. PICK j \in DOMAIN heard : heard[j] = "welcome"
        BY <1>4, <3>1
      <4>2. j \in 1 .. i /\ hears[j] = "welcome"
        BY <1>7, <2>2, <4>1
      <4>3. QED
        BY <4>2 DEF Allowed
    <3>2. CASE \A k \in DOMAIN old : Allowed(old, k)
      <4>1. 1 \in DOMAIN old /\ Allowed(old, 1) /\ hears[i] = old[1]
        BY <1>6, <1>7, <2>2, <3>2
      <4>2. old[1] \in {"error", "welcome"}
        BY <4>1 DEF Allowed
      <4>3. QED
        BY <4>1, <4>2 DEF Allowed
    <3>3. QED
      BY <1>5, <3>1, <3>2
  <2>3. QED
    BY <1>7, <1>11, <2>1, <2>2
<1>12. ASSUME wWriter'[c] = "on", ~Greeted(c)', NEW i \in DOMAIN Tail(old)
       PROVE  Allowed(Tail(old), i)
  <2>1. old[1] # "welcome" /\ \A k \in DOMAIN old : Allowed(old, k)
    BY <1>5, <1>8, <1>9, <1>12
  <2>2. i \in Nat /\ i + 1 \in DOMAIN old /\ Tail(old)[i] = old[i + 1]
    BY <1>6, <1>12
  <2>3. CASE old[i + 1] \in {"error", "welcome"}
    BY <2>2, <2>3 DEF Allowed
  <2>4. CASE \E j \in 1 .. i + 1 : old[j] = "welcome"
    <3>1. PICK j \in 1 .. i + 1 : old[j] = "welcome"
      BY <2>4
    <3>2. PICK k \in 1 .. i : k = j - 1
      BY <2>1, <2>2, <3>1
    <3>3. k \in 1 .. n - 1 /\ k + 1 = j
      BY <1>6, <1>12, <3>1, <3>2
    <3>4. Tail(old)[k] = "welcome"
      BY <1>6, <3>1, <3>3
    <3>5. QED
      BY <3>2, <3>4 DEF Allowed
  <2>5. QED
    BY <2>1, <2>2, <2>3, <2>4 DEF Allowed
<1>13. HearsInOrder'
  <2> SUFFICES ASSUME NEW d \in Clients
               PROVE  /\ \A i \in DOMAIN wGot'[d] : Allowed(wGot'[d], i)
                      /\ wWriter'[d] = "on" =>
                           Greeted(d)' \/ \A i \in DOMAIN wQueue'[d] : Allowed(wQueue'[d], i)
    BY DEF HearsInOrder, Allowed
  <2>1. CASE d # c
    BY <1>8, <1>10, <2>1 DEF HearsInOrder
  <2>2. CASE d = c
    BY <1>8, <1>11, <1>12, <2>2
  <2>3. QED
    BY <2>1, <2>2
<1>14. Welcomed(c) => Welcomed(c)'
  <2>1. CASE wWriter'[c] = "over"
    BY <2>1 DEF Welcomed
  <2>2. CASE c \in wUp /\ Greeted(c)
    BY <1>9, <2>2 DEF Welcomed
  <2>3. CASE c \in wUp /\ \E j \in DOMAIN old : old[j] = "welcome"
    <3>1. PICK j \in DOMAIN old : old[j] = "welcome"
      BY <2>3
    <3>2. CASE j = 1
      BY <1>9, <2>3, <3>1, <3>2 DEF Welcomed
    <3>3. CASE j # 1
      <4>1. PICK k \in 1 .. n - 1 : k + 1 = j
        BY <1>6, <3>1, <3>3
      <4>2. k \in DOMAIN wQueue'[c] /\ wQueue'[c][k] = "welcome"
        BY <1>6, <1>8, <3>1, <4>1
      <4>3. QED
        BY <4>2 DEF Welcomed
    <3>4. QED
      BY <3>2, <3>3
  <2>4. QED
    BY <1>1, <1>8, <2>1, <2>2, <2>3 DEF Welcomed, old
<1>15. WebSocketTyped'
  <2>1. wClients' \subseteq Clients /\ wUp' \subseteq Clients
    BY <1>1 DEF WebSocketTyped
  <2>2. QED
    BY <1>1, <1>8, <2>1 DEF WebSocketTyped
<1>16. LoopsBegin'
  <2>1. \A d \in Clients :
          /\ wWriter'[d] = "none" <=> wWriter[d] = "none"
          /\ wWriter[d] = "over" => wWriter'[d] = "over"
          /\ d \in wClients => d \in wClients' \/ wWriter'[d] = "over"
    <3>1. ASSUME NEW d \in Clients, d # c
          PROVE  wWriter'[d] = wWriter[d] /\ (d \in wClients => d \in wClients')
      BY <1>1, <1>8, <3>1
    <3>2. c \in wClients => c \in wClients' \/ wWriter'[c] = "over"
      BY <1>1, <1>8
    <3>3. QED
      BY <1>1, <1>8, <3>1, <3>2
  <2>2. \A d \in Clients : wReader'[d] = "none" <=> wWriter'[d] = "none"
    BY <1>1, <2>1 DEF LoopsBegin
  <2>3. wHand' \in Clients => wWriter'[wHand'] = "none"
    BY <1>1, <2>1 DEF LoopsBegin
  <2>4. \A d \in Clients : wReader'[d] = "pending" /\ wRunning' =>
          d \in wClients' \/ wWriter'[d] = "over"
    BY <1>1, <2>1 DEF LoopsBegin
  <2>5. QED
    BY <2>2, <2>3, <2>4 DEF LoopsBegin
<1>17. OpenAreWelcomed'
  <2>1. \A d \in Clients : Served(d)' <=> Served(d)
    BY <1>1 DEF Served
  <2>2. \A d \in Clients : Welcomed(d) => Welcomed(d)'
    BY <1>10, <1>14
  <2>3. QED
    BY <1>1, <2>1, <2>2, StillServed
<1>18. QED
  BY <1>13, <1>15, <1>16, <1>17

\* What the stream consumer forwards, and the answer, are for a client that was
\* served.
LEMMA WebSocketForwards ==
  ASSUME WebSocket!WebSocketAssumption, WebSocketInv,
         WebSocket!ForwardChunk \/ WebSocket!SendAnswer
  PROVE  WebSocketInv'
<1> USE WebSocketConstants DEF WebSocketInv
<1>1. CASE WebSocket!ForwardChunk
  <2> DEFINE c == Head(wStream)
  <2>1. /\ UNCHANGED <<wRunning, wAccepting, wHand, wClients, wReader, wWriter, wUp, wGot, wInbox,
                       wInterrupts, wTurn, wSaid, wStreaming, wOutbound>>
        /\ wStream # <<>> /\ wStream' = Tail(wStream)
        /\ wQueue' = [wQueue EXCEPT ![c] = IF c \in wClients THEN Append(@, "chunk") ELSE @]
    BY <1>1 DEF WebSocket!ForwardChunk, WebSocket!Queued, WebSocket!server, WebSocket!agent
  <2>2. wStream \in Seq(Clients) /\ Len(wStream) <= StreamCap
    BY DEF WebSocketTyped
  <2>3. c \in Clients /\ c = wStream[1] /\ 1 \in DOMAIN wStream
    BY <2>1, <2>2, TakingFirst
  <2> HIDE DEF c
  <2>4. Welcomed(c)
    BY <2>3 DEF OpenAreWelcomed, Served
  <2>5. /\ HearsInOrder' /\ wQueue' \in [Clients -> Seq(WebSocket!Frames)]
        /\ \A d \in Clients : Welcomed(d) => Welcomed(d)'
    <3>1. "chunk" \in WebSocket!Frames
      OBVIOUS
    <3>2. QED
      BY <2>1, <2>3, <2>4, <3>1, FrameQueued
  <2>6. wStream' \in Seq(Clients) /\ Len(wStream') <= StreamCap
    BY <2>1, <2>2
  <2>7. WebSocketTyped' /\ LoopsBegin'
    BY <2>1, <2>5, <2>6 DEF WebSocketTyped, LoopsBegin
  <2>8. \A d \in Clients : Served(d)' => Served(d)
    BY <2>1, <2>2, FewerServed DEF Served
  <2>9. OpenAreWelcomed'
    BY <2>1, <2>5, <2>8, StillServed
  <2>10. QED
    BY <2>5, <2>7, <2>9
<1>2. CASE WebSocket!SendAnswer
  <2> DEFINE c == Head(wOutbound)
             old == wQueue[c]
             longer == IF c \in wClients THEN old \o <<"message", "done">> ELSE old
             n == Len(old)
             m == Len(longer)
  <2>1. /\ UNCHANGED <<wRunning, wAccepting, wHand, wClients, wReader, wWriter, wUp, wGot, wInbox,
                       wInterrupts, wTurn, wSaid, wStream, wStreaming>>
        /\ wOutbound # <<>> /\ wOutbound' = Tail(wOutbound)
        /\ wQueue' = [wQueue EXCEPT ![c] = longer]
    BY <1>2 DEF WebSocket!SendAnswer, WebSocket!server, WebSocket!agent
  <2>2. wOutbound \in Seq(Clients) /\ wQueue \in [Clients -> Seq(WebSocket!Frames)]
    BY DEF WebSocketTyped
  <2>3. c \in Clients /\ c = wOutbound[1] /\ 1 \in DOMAIN wOutbound
    BY <2>1, <2>2, TakingFirst
  <2> HIDE DEF c
  <2>4. Welcomed(c)
    BY <2>3 DEF OpenAreWelcomed, Served
  <2>5. old \in Seq(WebSocket!Frames)
    BY <2>2, <2>3
  <2> HIDE DEF old
  <2>6. /\ longer \in Seq(WebSocket!Frames) /\ n \in Nat /\ m \in Nat /\ n <= m
        /\ DOMAIN longer = 1 .. m /\ \A i \in 1 .. n : longer[i] = old[i]
    <3>1. <<"message", "done">> \in Seq(WebSocket!Frames)
      OBVIOUS
    <3>2. CASE c \in wClients
      BY <2>5, <3>1, <3>2
    <3>3. CASE c \notin wClients
      BY <2>5, <3>3
    <3>4. QED
      BY <3>2, <3>3
  <2> HIDE DEF longer, n, m
  <2>7. /\ wQueue' \in [Clients -> Seq(WebSocket!Frames)] /\ wQueue'[c] = longer
        /\ \A d \in Clients : d # c => wQueue'[d] = wQueue[d]
    BY <2>1, <2>2, <2>3, <2>6
  <2>8. HearsInOrder' /\ \A d \in Clients : Welcomed(d) => Welcomed(d)'
    BY <2>1, <2>3, <2>4, <2>6, <2>7, MoreFrames DEF old, n, m
  <2>9. wOutbound' \in Seq(Clients)
    BY <2>1, <2>2
  <2>10. WebSocketTyped' /\ LoopsBegin'
    BY <2>1, <2>7, <2>9 DEF WebSocketTyped, LoopsBegin
  <2>11. \A d \in Clients : Served(d)' => Served(d)
    BY <2>1, <2>2, FewerServed DEF Served
  <2>12. OpenAreWelcomed'
    BY <2>1, <2>8, <2>11, StillServed
  <2>13. QED
    BY <2>8, <2>10, <2>12
<1>3. QED
  BY <1>1, <1>2

\* The handshake is done: nobody was served on this connection before, and the
\* queue begins with the welcome, or empty.
LEMMA WebSocketEnters ==
  ASSUME WebSocket!WebSocketAssumption, WebSocketInv, WebSocket!HandshakeDone
  PROVE  WebSocketInv'
<1> USE WebSocketConstants DEF WebSocketInv
<1>1. PICK first \in {<<>>, <<"welcome">>}, enters \in {"pending", "open"},
        begins \in {"on", "over"} :
        /\ UNCHANGED <<wRunning, wAccepting, wGot, wInbox, wInterrupts, wTurn, wSaid, wStream,
             wStreaming, wOutbound>>
        /\ wHand # NoClient /\ wHand' = NoClient /\ wClients' = wClients \union {wHand}
        /\ wReader' = [wReader EXCEPT ![wHand] = enters] /\
             wWriter' = [wWriter EXCEPT ![wHand] = begins]
        /\ wQueue' = [wQueue EXCEPT ![wHand] = first] /\ wUp' \subseteq wUp
        /\ enters = "open" => first = <<"welcome">>
  BY Zenon DEF WebSocket!HandshakeDone, WebSocket!agent
<1>2. /\ wHand \in Clients /\ wWriter[wHand] = "none" /\ wReader[wHand] = "none"
  BY <1>1 DEF WebSocketTyped, LoopsBegin
<1>3. /\ first \in Seq(WebSocket!Frames)
      /\ first = <<"welcome">> => DOMAIN first = {1} /\ first[1] = "welcome"
      /\ \A i \in DOMAIN first : Allowed(first, i)
  <2>1. CASE first = <<>>
    BY <2>1
  <2>2. CASE first = <<"welcome">>
    <3>1. DOMAIN first = {1} /\ first[1] = "welcome" /\ first \in Seq(WebSocket!Frames)
      BY <2>2
    <3>2. QED
      BY <3>1 DEF Allowed
  <2>3. QED
    BY <2>1, <2>2
<1>4. /\ wQueue' \in [Clients -> Seq(WebSocket!Frames)] /\ wQueue'[wHand] = first
      /\ \A d \in Clients : d # wHand => wQueue'[d] = wQueue[d]
  BY <1>1, <1>2, <1>3 DEF WebSocketTyped
<1>5. /\ wReader' \in [Clients -> {"none", "pending", "open", "over"}] /\ wReader'[wHand] = enters
      /\ \A d \in Clients : d # wHand => wReader'[d] = wReader[d]
  BY <1>1, <1>2 DEF WebSocketTyped
<1>6. /\ wWriter' \in [Clients -> {"none", "on", "over"}] /\ wWriter'[wHand] = begins
      /\ \A d \in Clients : d # wHand => wWriter'[d] = wWriter[d]
  BY <1>1, <1>2 DEF WebSocketTyped
<1>7. WebSocketTyped'
  BY <1>1, <1>2, <1>4, <1>5, <1>6 DEF WebSocketTyped
<1>8. HearsInOrder'
  <2> SUFFICES ASSUME NEW d \in Clients
               PROVE  /\ \A i \in DOMAIN wGot'[d] : Allowed(wGot'[d], i)
                      /\ wWriter'[d] = "on" =>
                           Greeted(d)' \/ \A i \in DOMAIN wQueue'[d] : Allowed(wQueue'[d], i)
    BY DEF HearsInOrder, Allowed
  <2>1. CASE d # wHand
    BY <1>1, <1>4, <1>6, <2>1 DEF HearsInOrder, Greeted
  <2>2. CASE d = wHand
    BY <1>1, <1>3, <1>4, <2>2 DEF HearsInOrder
  <2>3. QED
    BY <2>1, <2>2
<1>9. LoopsBegin'
  BY <1>1, <1>2, <1>5, <1>6 DEF LoopsBegin
<1>10. OpenAreWelcomed'
  <2> SUFFICES ASSUME NEW d \in Clients
               PROVE  /\ wReader'[d] = "open" => Welcomed(d)'
                      /\ Served(d)' => Welcomed(d)' /\ wReader'[d] \in {"open", "over"}
    BY DEF OpenAreWelcomed
  <2>1. Served(d)' <=> Served(d)
    BY <1>1 DEF Served
  <2>2. CASE d # wHand
    <3>1. Welcomed(d)' <=> Welcomed(d)
      BY <1>1, <1>4, <1>6, <2>2 DEF Welcomed, Greeted
    <3>2. QED
      BY <1>5, <2>1, <2>2, <3>1 DEF OpenAreWelcomed
  <2>3. CASE d = wHand
    <3>1. ~Served(d)
      BY <1>2, <2>3 DEF OpenAreWelcomed
    <3>2. wReader'[d] = "open" => Welcomed(d)'
      BY <1>1, <1>3, <1>4, <1>5, <2>3 DEF Welcomed
    <3>3. QED
      BY <2>1, <3>1, <3>2
  <2>4. QED
    BY <2>2, <2>3
<1>11. QED
  BY <1>7, <1>8, <1>9, <1>10

\* Every step keeps WebSocketInv.
LEMMA WebSocketInvStep ==
  ASSUME WebSocket!WebSocketAssumption, WebSocketInv, [WebSocket!Next]_(WebSocket!vars)
  PROVE  WebSocketInv'
<1>1. CASE \/ \E c \in Clients : WebSocket!Accept(c) \/ WebSocket!PeerCloses(c)
           \/ WebSocket!HandshakeFails \/ WebSocket!AcceptLoopEnds \/ WebSocket!Disconnect
  BY <1>1, WebSocketQuiet
<1>2. CASE \E c \in Clients : WebSocket!ReadEnd(c) \/ WebSocket!ReadStopped(c)
  BY <1>2, WebSocketReadsNoMore
<1>3. CASE \E c \in Clients : \E frame \in WebSocket!Frames : WebSocket!ReadAnswered(c, frame)
  BY <1>3, WebSocketAnswers
<1>4. CASE \E c \in Clients : \E authorised \in BOOLEAN : WebSocket!ReadPending(c, authorised)
  BY <1>4, WebSocketGate
<1>5. CASE \/ \E c \in Clients : WebSocket!ReadMessage(c)
           \/ WebSocket!BeginTurn \/ WebSocket!SayChunk \/ WebSocket!EndTurn
  BY <1>5, WebSocketServes
<1>6. CASE \E c \in Clients : WebSocket!WriteEnd(c)
  BY <1>6, WebSocketWritesNoMore
<1>7. CASE \E c \in Clients : WebSocket!Write(c)
  BY <1>7, WebSocketWrites
<1>8. CASE WebSocket!ForwardChunk \/ WebSocket!SendAnswer
  BY <1>8, WebSocketForwards
<1>9. CASE WebSocket!HandshakeDone
  BY <1>9, WebSocketEnters
<1>10. CASE UNCHANGED WebSocket!vars
  <2>1. UNCHANGED <<wRunning, wAccepting, wHand, wClients, wReader, wWriter, wUp, wQueue, wGot,
          wInbox, wInterrupts, wTurn, wSaid, wStream, wStreaming, wOutbound>>
    BY <1>10 DEF WebSocket!vars, WebSocket!server, WebSocket!loops, WebSocket!agent
  <2>2. WebSocketTyped' /\ LoopsBegin'
    BY <2>1 DEF WebSocketInv, WebSocketTyped, LoopsBegin
  <2>3. HearsInOrder' /\ OpenAreWelcomed'
    BY <2>1 DEF WebSocketInv, HearsInOrder, OpenAreWelcomed, Greeted, Welcomed, Served
  <2>4. QED
    BY <2>2, <2>3 DEF WebSocketInv
<1>11. QED
  BY Zenon, <1>1, <1>2, <1>3, <1>4, <1>5, <1>6, <1>7, <1>8, <1>9, <1>10
     DEF WebSocket!Next, WebSocket!Loops, WebSocket!Services

\* WebSocketInv is an invariant of the adapter.
THEOREM WebSocketInvariant ==
  ASSUME WebSocket!WebSocketAssumption PROVE WebSocket!Spec => []WebSocketInv
BY WebSocketInvInit, WebSocketInvStep, PTL DEF WebSocket!Spec

\* WebSocketInv implies what the next theorem states.
LEMMA WebSocketStatesFollows ==
  ASSUME WebSocket!WebSocketAssumption PROVE WebSocketInv => WebSocket!TypeOK
<1>1. WebSocketInv => \A c \in Clients : \A i \in DOMAIN wQueue[c] :
        wQueue[c][i] \in WebSocket!Frames
  BY DEF WebSocketInv, WebSocketTyped
<1>2. QED
  BY <1>1 DEF WebSocketInv, WebSocketTyped, WebSocket!TypeOK

\* The types of the model (TypeOK).
THEOREM WebSocketStates ==
  ASSUME WebSocket!WebSocketAssumption PROVE WebSocket!Spec => []WebSocket!TypeOK
BY WebSocketStatesFollows, WebSocketInvariant, PTL

\* WebSocketInv implies what the next theorem states.
LEMMA NothingBeforeWelcomeFollows ==
  ASSUME WebSocket!WebSocketAssumption PROVE WebSocketInv => WebSocket!WelcomeFirst
BY DEF WebSocketInv, HearsInOrder, OpenAreWelcomed, Allowed, Served, WebSocket!WelcomeFirst

\* With a token required, a connection hears nothing but errors, and nothing is
\* done for it, before its welcome (WelcomeFirst), whenever either of its loops
\* or the channel ends.
THEOREM NothingBeforeWelcome ==
  ASSUME WebSocket!WebSocketAssumption PROVE WebSocket!Spec => []WebSocket!WelcomeFirst
BY NothingBeforeWelcomeFollows, WebSocketInvariant, PTL

-----------------------------------------------------------------------------
(* Channels: what holds of each adapter holds of them side by side          *)

ChannelsInv ==
  /\ GatewayInv /\ PollInv /\ ManagerInv /\ WebSocketInv /\ WeixinInv /\ WeixinTyped
  /\ LongInv /\ WebhookInv /\ BusHolds

\* The variables of DiscordGateway in both orders.
LEMMA DiscordStandsStill == ASSUME UNCHANGED dVars PROVE UNCHANGED Discord!vars
BY DEF dVars, Discord!vars, Discord!client, Discord!flags, Discord!discord

\* The variables of TelegramChannel in both orders.
LEMMA TelegramStandsStill == ASSUME UNCHANGED tVars PROVE UNCHANGED Telegram!vars
BY DEF tVars, Telegram!vars, Telegram!poller, Telegram!telegram, Telegram!faulty

\* The variables of ChannelManager in both orders.
LEMMA ManagerStandsStill == ASSUME UNCHANGED cVars PROVE UNCHANGED Manager!vars
BY DEF cVars, Manager!vars, Manager!agent, Manager!consumer, Manager!shutdown

\* The variables of WebSocketChannel in both orders.
LEMMA WebSocketStandsStill == ASSUME UNCHANGED wVars PROVE UNCHANGED WebSocket!vars
BY DEF wVars, WebSocket!vars, WebSocket!server, WebSocket!loops, WebSocket!agent

\* The variables of WeixinChannel in both orders.
LEMMA WeixinStandsStill == ASSUME UNCHANGED xVars PROVE UNCHANGED Weixin!vars
BY DEF xVars, Weixin!vars, Weixin!poller, Weixin!store, Weixin!server

\* The variables of FeishuChannel in both orders.
LEMMA FeishuStandsStill == ASSUME UNCHANGED fVars PROVE UNCHANGED Feishu!vars
BY DEF fVars, Feishu!vars, Feishu!loop, Feishu!feishu, Feishu!history

\* The variables of FeishuWebhook in both orders.
LEMMA WebhookStandsStill == ASSUME UNCHANGED gVars PROVE UNCHANGED Webhook!vars
BY DEF gVars, Webhook!vars, Webhook!batcher, Webhook!history

\* A step of DiscordGateway leaves the others alone.
LEMMA DiscordMoves ==
  ASSUME DiscordStep
  PROVE  Discord!Next /\ UNCHANGED <<which, tVars, cVars, wVars, xVars, fVars, gVars>>
BY DEF DiscordStep, OnDiscord, Discord!Next, Discord!Progress, Discord!Faults

\* A step of TelegramChannel leaves the others alone.
LEMMA TelegramMoves ==
  ASSUME TelegramStep
  PROVE  Telegram!Next /\ UNCHANGED <<which, dVars, cVars, wVars, xVars, fVars, gVars>>
BY DEF TelegramStep, OnTelegram, Telegram!Next

\* A step of ChannelManager leaves the others alone.
LEMMA ManagerMoves ==
  ASSUME ManagerStep
  PROVE  Manager!Next /\ UNCHANGED <<which, dVars, tVars, wVars, xVars, fVars, gVars>>
BY DEF ManagerStep, OnManager, Manager!Next, Manager!Agent, Manager!Consumer

\* A step of WebSocketChannel leaves the others alone.
LEMMA WebSocketMoves ==
  ASSUME WebSocketStep
  PROVE  WebSocket!Next /\ UNCHANGED <<which, dVars, tVars, cVars, xVars, fVars, gVars>>
BY DEF WebSocketStep, OnWebSocket, WebSocket!Next, WebSocket!Loops, WebSocket!Services

\* A step of WeixinChannel leaves the others alone.
LEMMA WeixinMoves ==
  ASSUME WeixinStep
  PROVE  Weixin!Next /\ UNCHANGED <<which, dVars, tVars, cVars, wVars, fVars, gVars>>
BY DEF WeixinStep, OnWeixin, Weixin!Next, Weixin!Task

\* A step of FeishuChannel leaves the others alone.
LEMMA FeishuMoves ==
  ASSUME FeishuStep
  PROVE  Feishu!Next /\ UNCHANGED <<which, dVars, tVars, cVars, wVars, xVars, gVars>>
BY DEF FeishuStep, OnFeishu, Feishu!Next, Feishu!Loop

\* A step of FeishuWebhook leaves the others alone.
LEMMA WebhookMoves ==
  ASSUME WebhookStep
  PROVE  Webhook!Next /\ UNCHANGED <<which, dVars, tVars, cVars, wVars, xVars, fVars>>
BY DEF WebhookStep, OnWebhook, Webhook!Next, Webhook!Handler, Webhook!Flush

\* A step of the composition is a step of each adapter, or leaves it alone.
LEMMA EachMoves ==
  ASSUME [Next]_vars
  PROVE  /\ [Discord!Next]_(Discord!vars)
         /\ [Telegram!Next]_(Telegram!vars)
         /\ [Manager!Next]_(Manager!vars)
         /\ [WebSocket!Next]_(WebSocket!vars)
         /\ [Weixin!Next]_(Weixin!vars)
         /\ [Feishu!Next]_(Feishu!vars)
         /\ [Webhook!Next]_(Webhook!vars)
<1>1. CASE DiscordStep
  BY <1>1, DiscordMoves,
     TelegramStandsStill, ManagerStandsStill, WebSocketStandsStill, WeixinStandsStill,
     FeishuStandsStill, WebhookStandsStill
<1>2. CASE TelegramStep
  BY <1>2, TelegramMoves,
     DiscordStandsStill, ManagerStandsStill, WebSocketStandsStill, WeixinStandsStill,
     FeishuStandsStill, WebhookStandsStill
<1>3. CASE ManagerStep
  BY <1>3, ManagerMoves,
     DiscordStandsStill, TelegramStandsStill, WebSocketStandsStill, WeixinStandsStill,
     FeishuStandsStill, WebhookStandsStill
<1>4. CASE WebSocketStep
  BY <1>4, WebSocketMoves,
     DiscordStandsStill, TelegramStandsStill, ManagerStandsStill, WeixinStandsStill,
     FeishuStandsStill, WebhookStandsStill
<1>5. CASE WeixinStep
  BY <1>5, WeixinMoves,
     DiscordStandsStill, TelegramStandsStill, ManagerStandsStill, WebSocketStandsStill,
     FeishuStandsStill, WebhookStandsStill
<1>6. CASE FeishuStep
  BY <1>6, FeishuMoves,
     DiscordStandsStill, TelegramStandsStill, ManagerStandsStill, WebSocketStandsStill,
     WeixinStandsStill, WebhookStandsStill
<1>7. CASE WebhookStep
  BY <1>7, WebhookMoves,
     DiscordStandsStill, TelegramStandsStill, ManagerStandsStill, WebSocketStandsStill,
     WeixinStandsStill, FeishuStandsStill
<1>8. CASE UNCHANGED vars
  BY <1>8,
     DiscordStandsStill, TelegramStandsStill, ManagerStandsStill, WebSocketStandsStill,
     WeixinStandsStill, FeishuStandsStill, WebhookStandsStill
     DEF vars
<1>9. QED
  BY <1>1, <1>2, <1>3, <1>4, <1>5, <1>6, <1>7, <1>8 DEF Next

\* Whatever the invariants of the adapters say holds side by side too.
THEOREM ChannelsInvariant == Spec => []ChannelsInv
<1> USE ChannelsAssumption
<1>1. Init => ChannelsInv
  BY GatewayInvInit, PollInvInit, ManagerInvInit, WebSocketInvInit, WeixinInvInit,
     WeixinTypedInit, LongInvInit, WebhookInvInit, BusHoldsInit
     DEF Init, ChannelsInv
<1>2. ChannelsInv /\ [Next]_vars => ChannelsInv'
  <2> SUFFICES ASSUME ChannelsInv, [Next]_vars PROVE ChannelsInv'
    OBVIOUS
  <2>1. GatewayInv'
    BY EachMoves, GatewayInvStep DEF ChannelsInv
  <2>2. PollInv'
    BY EachMoves, PollInvStep DEF ChannelsInv
  <2>3. ManagerInv'
    BY EachMoves, ManagerInvStep DEF ChannelsInv
  <2>4. WebSocketInv'
    BY EachMoves, WebSocketInvStep DEF ChannelsInv
  <2>5. WeixinInv'
    BY EachMoves, WeixinInvStep DEF ChannelsInv
  <2>6. LongInv'
    BY EachMoves, LongInvStep DEF ChannelsInv
  <2>7. WebhookInv'
    BY EachMoves, WebhookInvStep DEF ChannelsInv
  <2>8. WeixinTyped'
    BY EachMoves, WeixinTypedStep DEF ChannelsInv
  <2>9. BusHolds'
    BY EachMoves, BusHoldsStep DEF ChannelsInv
  <2>10. QED
    BY <2>1, <2>2, <2>3, <2>4, <2>5, <2>6, <2>7, <2>8, <2>9 DEF ChannelsInv
<1>3. QED
  BY <1>1, <1>2, PTL DEF Spec

\* The types of the adapters: sessions, connections, files and batches, and each
\* queue within its capacity.
THEOREM ChannelsTyped == Spec => []TypeOK
<1>1. ChannelsInv => TypeOK
  BY ChannelsAssumption, GatewayStatesFollows, IntakeTypedFollows, ManagerStatesFollows,
     WebSocketStatesFollows, WeixinStatesFollow, LongStatesFollow, WebhookStatesFollow
     DEF ChannelsInv, TypeOK
<1>2. QED
  BY <1>1, ChannelsInvariant, PTL

\* However often the platforms hand an event out, and whatever connections, polls
\* and processes are lost, the agent gets it once, and in order where one loop reads.
THEOREM ChannelsOnceInOrder == Spec => []OnceInOrder
<1>1. ChannelsInv => OnceInOrder
  BY ChannelsAssumption, GatewayOnceFollows, UpdatesOnceInOrderFollows, WeixinOnceFollows,
    WebhookGivesOnceFollows
     DEF ChannelsInv, OnceInOrder
<1>2. QED
  BY <1>1, ChannelsInvariant, PTL

\* No platform takes an event for done that the agent was not given.
THEOREM ChannelsForgetHandled == Spec => []OnlyHandledIsForgotten
<1>1. ChannelsInv => OnlyHandledIsForgotten
  BY ChannelsAssumption, NoUpdateForgottenFollows, AckedIsHandledFollows, WebhookKeepsFollows
     DEF ChannelsInv, OnlyHandledIsForgotten
<1>2. QED
  BY <1>1, ChannelsInvariant, PTL

\* No adapter acts for a client before its welcome, nor after disconnect but for
\* the event it held.
THEOREM ChannelsActWhileUp == Spec => []ActsOnlyWhileUp
<1>1. ChannelsInv => ActsOnlyWhileUp
  BY ChannelsAssumption, NothingBeforeWelcomeFollows, GatewayStopsFollows, StopIsNoticedFollows
     DEF ChannelsInv, ActsOnlyWhileUp
<1>2. QED
  BY <1>1, ChannelsInvariant, PTL

\* Answers are shown in order and whole, though channels are stopped meanwhile.
THEOREM ChannelsAnswerWhole == Spec => []AnswersWhole
<1>1. ChannelsInv => AnswersWhole
  BY ChannelsAssumption, AnswersInOrderFollows, NoAnswerCutByStopFollows
     DEF ChannelsInv, AnswersWhole
<1>2. QED
  BY <1>1, ChannelsInvariant, PTL

\* A typing indicator has a reason.
THEOREM ChannelsTypeForReason == Spec => []TypingHasReason
<1>1. ChannelsInv => TypingHasReason
  BY ChannelsAssumption, IndicatorsHaveReasonFollows
     DEF ChannelsInv, TypingHasReason
<1>2. QED
  BY <1>1, ChannelsInvariant, PTL

=============================================================================
