---------------------- MODULE SessionPersistenceProofs ----------------------
(* Proofs about SessionPersistence for every set of sessions, every map of  *)
(* them to shards, every history, queue and number of faults.               *)
EXTENDS SessionPersistence, TLAPS

\* Messages in the order they were written, none twice.
Ordered(log) == \A i, j \in 1 .. Len(log) : i < j => log[i] < log[j]

\* The sessions that can be told of when n messages have been added ...
Told(n) ==
  {sess \in Session : /\ \A i \in 1 .. Len(sess.log) : sess.log[i] <= n
                      /\ Ordered(sess.log)
                      /\ sess.notes <= n}
\* ... and those that were truncated before they were kept anywhere.
Stored(n) == {sess \in Told(n) : Len(sess.log) <= MaxHistory}

MainPcs == {"idle", "miss", "insert", "create", "have", "run"}

\* What is kept, in memory and on disk, was told before it was kept.
KeptIsTold ==
  /\ written \in [Sessions -> 0 .. MaxMessages]
  /\ cache \in [Sessions -> Session \cup {Absent}]
  /\ file \in [Sessions -> Session \cup {Absent}]
  /\ notesFile \in [Sessions -> Nat]
  /\ \A s \in Sessions : /\ cache[s] \in Stored(written[s]) \cup {Absent}
                         /\ file[s] \in Stored(written[s]) \cup {Absent}
                         /\ notesFile[s] <= written[s]

\* What the agent loop holds, and the room it left for what it will add.
MainIsTold ==
  /\ main \in [pc : MainPcs, key : Sessions \cup {NoKey}, sess : Session]
  /\ main.pc # "idle" => main.key \in Sessions /\ main.sess \in Told(written[main.key])
  /\ main.pc \in {"miss", "insert", "create", "have"} => written[main.key] + 2 <= MaxMessages
  /\ main.pc = "run" =>
       /\ written[main.key] + 1 <= MaxMessages
       /\ main.sess.log # <<>> /\ main.sess.log[Len(main.sess.log)] = written[main.key]

\* A lookup that missed the cache has what the file holds, and nobody else can
\* have cached the session meanwhile.
MissIsAlone ==
  /\ main.pc \in {"miss", "insert", "create"} => main.key \notin Cached
  /\ main.pc = "insert" => main.sess.log = file[main.key].log /\ Len(main.sess.log) <= MaxHistory
  /\ main.pc \in {"miss", "create"} => main.sess = Empty
  /\ main.pc = "create" => file[main.key] \in {Absent, Empty}

\* Whoever writes, writes a snapshot of a session that is cached.
WritersAreTold ==
  /\ writer \in [Writers -> [pc : {"idle", "store", "notes"}, key : Sessions \cup {NoKey},
                             snap : Session]]
  /\ \A w \in Writers :
       /\ writer[w].pc = "idle" => writer[w].key = NoKey
       /\ writer[w].pc # "idle" => /\ writer[w].key \in Cached
                                   /\ writer[w].snap \in Stored(written[writer[w].key])

QueueTyped ==
  /\ queue \in Seq(Sessions) /\ Len(queue) <= QueueCap
  /\ todo \subseteq Cached

\* The inductive invariant.
PersistInv ==
  /\ KeptIsTold /\ MainIsTold /\ MissIsAlone /\ WritersAreTold /\ QueueTyped
  /\ CacheIsNewest /\ FlushIsFresh

-----------------------------------------------------------------------------
(* Sessions and their logs.                                                 *)

\* The constants as numbers.
LEMMA ConstantsTyped ==
  /\ MaxMessages \in Nat \ {0} /\ MaxHistory \in Nat \ {0} /\ QueueCap \in Nat \ {0}
  /\ NoKey \notin Sessions
  BY SessionAssumption

\* The elements of a sequence, and when there are none.
LEMMA ElementTyped ==
  ASSUME NEW S, NEW q \in Seq(S)
  PROVE  /\ Len(q) \in Nat /\ (q = <<>> <=> Len(q) = 0)
         /\ \A i \in 1 .. Len(q) : q[i] \in S
  OBVIOUS

\* The fields of a session.
LEMMA SessionTyped ==
  ASSUME NEW sess \in Session
  PROVE  /\ sess.log \in Seq(1 .. MaxMessages) /\ sess.notes \in 0 .. MaxMessages
         /\ Len(sess.log) \in Nat /\ sess.notes \in Nat
         /\ \A i \in 1 .. Len(sess.log) : sess.log[i] \in Nat
         /\ sess.log # <<>> <=> Len(sess.log) # 0
<1>1. sess.log \in Seq(1 .. MaxMessages) /\ sess.notes \in 0 .. MaxMessages
  BY DEF Session
<1>2. /\ Len(sess.log) \in Nat /\ (sess.log = <<>> <=> Len(sess.log) = 0)
      /\ \A i \in 1 .. Len(sess.log) : sess.log[i] \in 1 .. MaxMessages
  BY <1>1, ElementTyped
<1> QED
  BY <1>1, <1>2, ConstantsTyped

\* The part of a log from m to n.
LEMMA PartOfLog ==
  ASSUME NEW S, NEW log \in Seq(S), NEW m \in Nat, NEW n \in Nat,
         1 <= m, m <= n + 1, n <= Len(log)
  PROVE  /\ SubSeq(log, m, n) \in Seq(S)
         /\ Len(SubSeq(log, m, n)) = n - m + 1
         /\ \A i \in 1 .. (n - m + 1) : SubSeq(log, m, n)[i] = log[m + i - 1]
  OBVIOUS

\* A part of an ordered log is ordered and bounded by the same number.
LEMMA PartIsTold ==
  ASSUME NEW n \in Nat, NEW sess \in Told(n), NEW k \in Nat, NEW l \in Nat,
         1 <= k, k <= l + 1, l <= Len(sess.log)
  PROVE  /\ [sess EXCEPT !.log = SubSeq(@, k, l)] \in Told(n)
         /\ Len(SubSeq(sess.log, k, l)) = l - k + 1
         /\ \A i \in 1 .. (l - k + 1) : SubSeq(sess.log, k, l)[i] = sess.log[k + i - 1]
<1> DEFINE part == SubSeq(sess.log, k, l)
<1>1. sess \in Session /\ sess.log \in Seq(1 .. MaxMessages)
  BY DEF Told, Session
<1>2. /\ part \in Seq(1 .. MaxMessages) /\ Len(part) = l - k + 1
      /\ \A i \in 1 .. (l - k + 1) : part[i] = sess.log[k + i - 1]
  BY <1>1, PartOfLog, ZenonT(40)
<1>3. \A i \in 1 .. Len(part) : part[i] <= n
  BY <1>1, <1>2 DEF Told
<1>4. Ordered(part)
  BY <1>1, <1>2 DEF Told, Ordered
<1>5. [sess EXCEPT !.log = part] \in Session
  BY <1>1, <1>2 DEF Session
<1>6. [sess EXCEPT !.log = part].log = part /\ [sess EXCEPT !.log = part].notes = sess.notes
  BY <1>1 DEF Session
<1> QED
  BY <1>2, <1>3, <1>4, <1>5, <1>6 DEF Told

\* The newest message of a session is the last of its log.
LEMMA NewestIsLast ==
  ASSUME NEW sess
  PROVE  Newest(sess) = IF sess.log = <<>> THEN 0 ELSE sess.log[Len(sess.log)]
  BY DEF Newest, Last

\* The newest message of a log is a number, the newest of its parts none newer.
LEMMA NewestTyped ==
  ASSUME NEW n \in Nat, NEW sess \in Told(n)
  PROVE  Newest(sess) \in Nat /\ Newest(sess) <= n
<1>1. sess \in Session
  BY DEF Told
<1>2. CASE sess.log = <<>>
  BY <1>2, NewestIsLast
<1>3. CASE sess.log # <<>>
  <2>1. Len(sess.log) \in 1 .. Len(sess.log)
    BY <1>1, <1>3, SessionTyped
  <2> QED
    BY <1>1, <1>3, <2>1, NewestIsLast, SessionTyped DEF Told
<1> QED
  BY <1>2, <1>3

\* Truncation keeps the newest messages, as many as max_history says.
LEMMA TruncatedIsStored ==
  ASSUME NEW n \in Nat, NEW sess \in Told(n)
  PROVE  Truncated(sess) \in Stored(n) /\ Newest(Truncated(sess)) = Newest(sess)
<1> DEFINE log == sess.log
           first == IF Len(log) > MaxHistory THEN Len(log) - MaxHistory + 1 ELSE 1
<1>1. log \in Seq(1 .. MaxMessages) /\ Len(log) \in Nat /\ MaxHistory \in Nat \ {0} /\ sess \in Session
  BY SessionAssumption DEF Told, Session
<1>2. first \in Nat /\ 1 <= first /\ first <= Len(log) + 1 /\ Len(log) <= Len(log)
      /\ Len(log) - first + 1 <= MaxHistory /\ (Len(log) # 0 => first <= Len(log))
  BY <1>1
<1>x. Truncated(sess) = [sess EXCEPT !.log = SubSeq(@, first, Len(log))]
  BY DEF Truncated
<1> HIDE DEF first
<1>3. /\ [sess EXCEPT !.log = SubSeq(@, first, Len(log))] \in Told(n)
      /\ Len(SubSeq(log, first, Len(log))) = Len(log) - first + 1
      /\ \A i \in 1 .. (Len(log) - first + 1) : SubSeq(log, first, Len(log))[i] = log[first + i - 1]
  BY <1>1, <1>2, PartIsTold, ZenonT(40)
<1>4. Truncated(sess) \in Told(n) /\ Truncated(sess) \in Session
  BY <1>3, <1>x DEF Told
<1>5. Truncated(sess).log = SubSeq(log, first, Len(log))
  BY <1>1, <1>x DEF Session
<1>6. Len(Truncated(sess).log) <= MaxHistory
  BY <1>2, <1>3, <1>5
<1>7. Newest(Truncated(sess)) = Newest(sess)
  <2>1. CASE log = <<>>
    <3>1. Len(log) = 0 /\ first = 1
      BY <1>1, <1>2, <2>1
    <3>2. Len(Truncated(sess).log) = 0
      BY <1>3, <1>5, <3>1
    <3>3. Truncated(sess).log = <<>>
      BY <1>4, <3>2, SessionTyped
    <3> QED
      BY <2>1, <3>3, NewestIsLast
  <2>2. CASE log # <<>>
    <3>1. /\ Len(log) - first + 1 \in 1 .. (Len(log) - first + 1)
          /\ first + (Len(log) - first + 1) - 1 = Len(log)
      BY <1>1, <1>2, <2>2
    <3>2. Truncated(sess).log # <<>>
      <4>1. Len(Truncated(sess).log) # 0
        BY <1>1, <1>2, <1>3, <1>5, <3>1
      <4> QED
        BY <1>4, <4>1, SessionTyped
    <3>3. Truncated(sess).log[Len(log) - first + 1] = log[Len(log)]
      BY <1>3, <1>5, <3>1
    <3> QED
      BY <1>3, <1>5, <2>2, <3>2, <3>3, NewestIsLast
  <2> QED
    BY <2>1, <2>2
<1> QED
  BY <1>4, <1>6, <1>7 DEF Stored

\* What a torn write leaves is a session too, with nothing newer in it.
LEMMA TornIsStored ==
  ASSUME NEW n \in Nat, NEW sess \in Stored(n), NEW torn \in Torn(sess)
  PROVE  torn \in Stored(n) /\ Newest(torn) <= Newest(sess)
<1>1. sess \in Told(n) /\ sess.log \in Seq(1 .. MaxMessages) /\ Len(sess.log) \in Nat
  BY DEF Stored, Told, Session
<1>2. CASE torn = Empty
  <2>1. Empty \in Stored(n) /\ Newest(Empty) = 0
    BY <1>1, SessionAssumption, NewestIsLast DEF Empty, Stored, Told, Session, Ordered
  <2>2. Newest(sess) \in Nat
    BY <1>1, NewestTyped
  <2> QED
    BY <1>2, <2>1, <2>2
<1>3. ASSUME NEW k \in 0 .. Len(sess.log), torn = [sess EXCEPT !.log = SubSeq(@, 1, k)]
      PROVE  torn \in Stored(n) /\ Newest(torn) <= Newest(sess)
  <2>a. k \in Nat /\ 1 \in Nat /\ 1 <= 1 /\ 1 <= k + 1 /\ k <= Len(sess.log) /\ k - 1 + 1 = k
    BY <1>1, <1>3
  <2>b. /\ torn \in Told(n)
        /\ Len(SubSeq(sess.log, 1, k)) = k - 1 + 1
        /\ \A i \in 1 .. (k - 1 + 1) : SubSeq(sess.log, 1, k)[i] = sess.log[1 + i - 1]
    <3>1. [sess EXCEPT !.log = SubSeq(@, 1, k)] \in Told(n)
      BY <1>1, <2>a, PartIsTold
    <3>2. /\ Len(SubSeq(sess.log, 1, k)) = k - 1 + 1
          /\ \A i \in 1 .. (k - 1 + 1) : SubSeq(sess.log, 1, k)[i] = sess.log[1 + i - 1]
      BY <1>1, <2>a, PartIsTold
    <3> QED
      BY <1>3, <3>1, <3>2
  <2>1. /\ torn \in Told(n) /\ Len(SubSeq(sess.log, 1, k)) = k
        /\ \A i \in 1 .. k : SubSeq(sess.log, 1, k)[i] = sess.log[i]
    BY <2>a, <2>b
  <2>2. torn.log = SubSeq(sess.log, 1, k) /\ torn.log \in Seq(1 .. MaxMessages)
    BY <1>1, <1>3, <2>1 DEF Told, Session
  <2>3. torn \in Stored(n)
    BY <1>1, <2>1, <2>2, SessionAssumption DEF Stored
  <2>4. CASE k = 0
    <3>1. torn.log = <<>>
      BY <2>1, <2>2, <2>4
    <3>2. Newest(torn) = 0 /\ Newest(sess) \in Nat
      BY <1>1, <3>1, NewestIsLast, NewestTyped
    <3> QED
      BY <2>3, <3>2
  <2>5. CASE k # 0
    <3>0. k \in 1 .. k /\ k \in 1 .. Len(sess.log) /\ Len(sess.log) \in 1 .. Len(sess.log)
      BY <1>1, <2>a, <2>5
    <3>1. Newest(torn) = sess.log[k]
      <4>1. torn.log # <<>>
        BY <2>1, <2>2, <2>5
      <4> QED
        BY <2>1, <2>2, <3>0, <4>1, NewestIsLast
    <3>2. sess.log # <<>> /\ Newest(sess) = sess.log[Len(sess.log)]
      BY <1>1, <1>3, <2>5, NewestIsLast
    <3>3. sess.log[k] <= sess.log[Len(sess.log)]
      <4>1. sess.log[k] \in Nat
        BY <1>1, <3>0, SessionTyped DEF Told
      <4> QED
        <5>1. CASE k = Len(sess.log)
          BY <4>1, <5>1
        <5>2. CASE k < Len(sess.log)
          <6>1. sess.log[Len(sess.log)] \in Nat
            BY <1>1, <3>0, SessionTyped DEF Told
          <6>2. sess.log[k] < sess.log[Len(sess.log)]
            BY <1>1, <3>0, <5>2 DEF Told, Ordered
          <6> QED
            BY <4>1, <6>1, <6>2
        <5> QED
          BY <1>1, <2>a, <5>1, <5>2
    <3> QED
      BY <2>3, <3>1, <3>2, <3>3
  <2> QED
    BY <2>3, <2>4, <2>5
<1> QED
  BY <1>2, <1>3 DEF Torn

\* More can be told later than before.
LEMMA ToldGrows ==
  ASSUME NEW m \in Nat, NEW n \in Nat, m <= n
  PROVE  Told(m) \subseteq Told(n) /\ Stored(m) \subseteq Stored(n)
<1>1. ASSUME NEW sess \in Told(m)
      PROVE  sess \in Told(n)
  <2>1. sess \in Session /\ sess.notes \in Nat /\ \A i \in 1 .. Len(sess.log) : sess.log[i] \in Nat
    BY SessionTyped DEF Told
  <2>2. sess.notes <= n /\ \A i \in 1 .. Len(sess.log) : sess.log[i] <= n
    BY <2>1 DEF Told
  <2> QED
    BY <2>1, <2>2 DEF Told
<1> QED
  BY <1>1 DEF Stored

\* A message added to a session is its newest.
LEMMA MessageIsTold ==
  ASSUME NEW s \in Sessions, NEW sess \in Told(written[s]), written[s] \in Nat,
         written[s] + 1 <= MaxMessages
  PROVE  /\ WithMessage(sess, s) \in Told(written[s] + 1)
         /\ WithMessage(sess, s).notes = sess.notes
         /\ WithMessage(sess, s).log # <<>>
         /\ WithMessage(sess, s).log[Len(WithMessage(sess, s).log)] = written[s] + 1
<1> DEFINE new == WithMessage(sess, s)
<1>1. sess \in Session /\ sess.log \in Seq(1 .. MaxMessages) /\ Len(sess.log) \in Nat
      /\ sess.notes \in Int /\ MaxMessages \in Nat
  BY SessionTyped, ConstantsTyped DEF Told
<1>2. new.log = Append(sess.log, written[s] + 1) /\ new.notes = sess.notes /\ new \in Session
  <2>1. written[s] + 1 \in 1 .. MaxMessages
    BY <1>1
  <2>2. Append(sess.log, written[s] + 1) \in Seq(1 .. MaxMessages)
    BY <1>1, <2>1
  <2>3. sess.notes \in 0 .. MaxMessages
    BY <1>1, SessionTyped
  <2> QED
    BY <1>1, <2>2, <2>3 DEF WithMessage, Session
<1>3. /\ Len(new.log) = Len(sess.log) + 1
      /\ \A i \in 1 .. Len(sess.log) : new.log[i] = sess.log[i]
      /\ new.log[Len(sess.log) + 1] = written[s] + 1
  BY <1>1, <1>2
<1>4. \A i \in 1 .. Len(sess.log) : sess.log[i] <= written[s] /\ sess.log[i] \in Nat
  BY <1>1, SessionTyped DEF Told
<1>5. Ordered(new.log) /\ \A i \in 1 .. Len(new.log) : new.log[i] <= written[s] + 1
  <2>1. \A i \in 1 .. Len(new.log) : i \in 1 .. Len(sess.log) \/ i = Len(sess.log) + 1
    BY <1>1, <1>3, SMTT(30)
  <2>2. \A i \in 1 .. Len(new.log) : new.log[i] <= written[s] + 1
    <3> SUFFICES ASSUME NEW i \in 1 .. Len(new.log)
                 PROVE  new.log[i] <= written[s] + 1
      OBVIOUS
    <3>1. CASE i \in 1 .. Len(sess.log)
      <4>1. new.log[i] = sess.log[i] /\ sess.log[i] <= written[s] /\ sess.log[i] \in Nat
        BY <1>3, <1>4, <3>1
      <4> QED
        BY <4>1
    <3>2. CASE i = Len(sess.log) + 1
      BY <1>3, <3>2
    <3> QED
      BY <2>1, <3>1, <3>2
  <2>3. ASSUME NEW i \in 1 .. Len(new.log), NEW j \in 1 .. Len(new.log), i < j
        PROVE  new.log[i] < new.log[j]
    <3>1. i \in 1 .. Len(sess.log)
      BY <1>1, <1>3, <2>3
    <3>2. CASE j = Len(sess.log) + 1
      BY <1>3, <1>4, <3>1, <3>2
    <3>3. CASE j \in 1 .. Len(sess.log)
      BY <1>3, <2>3, <3>1, <3>3 DEF Told, Ordered
    <3> QED
      BY <2>1, <3>2, <3>3
  <2> QED
    BY <2>2, <2>3 DEF Ordered
<1>6. new \in Told(written[s] + 1)
  <2>1. new.notes <= written[s] + 1
    BY <1>1, <1>2 DEF Told
  <2> QED
    BY <1>2, <1>5, <2>1 DEF Told
<1>7. new.log # <<>>
  <2>1. Len(new.log) # 0
    BY <1>1, <1>3
  <2>2. new.log \in Seq(1 .. MaxMessages)
    BY <1>2, SessionTyped
  <2> QED
    BY <2>1, <2>2, ElementTyped
<1> QED
  BY <1>2, <1>3, <1>6, <1>7

\* What a file holds is what is loaded, with the notes of the notes file.
LEMMA LoadIsStored ==
  ASSUME KeptIsTold, NEW s \in Sessions, Load(s) # Absent
  PROVE  Load(s) \in Stored(written[s]) /\ Load(s).log = file[s].log
<1>1. file[s] \in Stored(written[s]) /\ file[s] \in Session
  BY DEF Load, KeptIsTold, Stored, Told
<1>2. notesFile[s] \in Nat /\ notesFile[s] <= written[s] /\ written[s] \in 0 .. MaxMessages
  BY DEF KeptIsTold
<1>3. Load(s) = [file[s] EXCEPT !.notes = IF notesFile[s] > 0 THEN notesFile[s] ELSE @]
  BY DEF Load
<1>4. /\ Load(s) \in Session /\ Load(s).log = file[s].log
      /\ Load(s).notes <= written[s]
  BY <1>1, <1>2, <1>3, SessionAssumption DEF Session, Stored, Told
<1> QED
  BY <1>1, <1>4 DEF Stored, Told

\* What can be told of is not Absent, and nothing kept is newer than written.
LEMMA KeptIsBounded ==
  ASSUME NEW n \in Nat, NEW sess \in Stored(n) \cup {Absent}
  PROVE  /\ Newest(sess) \in Nat /\ Newest(sess) <= n
         /\ sess # Absent => sess \in Stored(n) /\ sess \in Session
<1>1. CASE sess = Absent
  BY <1>1, NewestIsLast DEF Absent
<1>2. CASE sess \in Stored(n)
  BY <1>2, NewestTyped DEF Stored, Told
<1> QED
  BY <1>1, <1>2

\* A session is never mistaken for a missing file.
LEMMA SessionIsPresent ==
  ASSUME NEW sess \in Session
  PROVE  sess # Absent
<1>1. sess.notes \in Nat
  BY SessionTyped
<1>2. Absent.notes = -1
  BY DEF Absent
<1> QED
  BY <1>1, <1>2

\* An empty session fits wherever one is kept.
LEMMA EmptyIsStored ==
  ASSUME NEW n \in Nat
  PROVE  Empty \in Stored(n) /\ Empty \in Told(n) /\ Empty \in Session
         /\ Empty.log = <<>> /\ Newest(Empty) = 0
<1>1. Empty.log = <<>> /\ Empty.notes = 0 /\ Empty \in Session
  BY ConstantsTyped DEF Empty, Session
<1>2. Empty \in Told(n)
  BY <1>1 DEF Told, Ordered
<1> QED
  BY <1>1, <1>2, ConstantsTyped, NewestIsLast DEF Stored

\* The main task at rest holds no session.
LEMMA DoneIsTold ==
  ASSUME main' = Done
  PROVE  MainIsTold' /\ MissIsAlone'
<1>1. Empty \in Session
  BY EmptyIsStored
<1>2. Done \in [pc : MainPcs, key : Sessions \cup {NoKey}, sess : Session] /\ Done.pc = "idle"
  BY <1>1 DEF Done, MainPcs
<1> QED
  BY <1>2 DEF MainIsTold, MissIsAlone

-----------------------------------------------------------------------------
(* The steps.                                                               *)

\* What a step that caches session s does for the rest: the files and the
\* writers as they are still fit the cache.
RestFits(s) ==
  /\ KeptIsTold' /\ Cached' = Cached \cup {s}
  /\ \A t \in Cached' :
       /\ Newest(file[t]) <= Newest(cache'[t])
       /\ \A w \in Writers :
            writer[w].key = t => Newest(writer[w].snap) <= Newest(cache'[t])
  /\ \A w \in Writers : writer[w].pc # "idle" =>
       writer[w].key \in Cached' /\ writer[w].snap \in Stored(written'[writer[w].key])
  /\ writer["flush"].pc # "idle" =>
       writer["flush"].snap = cache'[writer["flush"].key]

\* What the cache is given must be no older than what is written of it.
LEMMA CachingKeeps ==
  ASSUME PersistInv, NEW s \in Sessions, NEW n \in written[s] .. MaxMessages,
         NEW sess \in Stored(n), Writable(s),
         Newest(file[s]) <= Newest(sess),
         \A w \in Writers : writer[w].key = s => Newest(writer[w].snap) <= Newest(sess),
         cache' = [cache EXCEPT ![s] = sess], written' = [written EXCEPT ![s] = n],
         UNCHANGED <<file, notesFile>>
  PROVE  RestFits(s)
<1> USE DEF PersistInv
<1>1. /\ written \in [Sessions -> 0 .. MaxMessages] /\ n \in Nat /\ written[s] \in Nat
      /\ written[s] <= n /\ n \in 0 .. MaxMessages
  BY ConstantsTyped DEF KeptIsTold
<1>2. /\ written' \in [Sessions -> 0 .. MaxMessages]
      /\ \A t \in Sessions :
           written'[t] \in Nat /\ written[t] \in Nat /\ written[t] <= written'[t]
  BY <1>1, ConstantsTyped
<1>3. \A t \in Sessions : Stored(written[t]) \subseteq Stored(written'[t])
  BY <1>2, ToldGrows
<1>4. sess \in Session /\ sess # Absent
  BY SessionIsPresent DEF Stored, Told
<1>5. /\ cache' \in [Sessions -> Session \cup {Absent}]
      /\ \A t \in Sessions : cache'[t] = IF t = s THEN sess ELSE cache[t]
  BY <1>4 DEF KeptIsTold
<1>6. KeptIsTold'
  <2>1. ASSUME NEW t \in Sessions
        PROVE  /\ cache'[t] \in Stored(written'[t]) \cup {Absent}
               /\ file[t] \in Stored(written'[t]) \cup {Absent}
               /\ notesFile[t] <= written'[t]
    <3>1. cache'[t] \in Stored(written'[t]) \cup {Absent}
      BY <1>1, <1>3, <1>5 DEF KeptIsTold
    <3>2. file[t] \in Stored(written'[t]) \cup {Absent}
      BY <1>3 DEF KeptIsTold
    <3>3. notesFile[t] <= written'[t]
      BY <1>2 DEF KeptIsTold
    <3> QED
      BY <3>1, <3>2, <3>3
  <2> QED
    BY <1>2, <1>5, <2>1 DEF KeptIsTold
<1>7. Cached' = Cached \cup {s}
  BY <1>4, <1>5 DEF Cached
<1>8. ASSUME NEW t \in Cached'
      PROVE  /\ Newest(file[t]) <= Newest(cache'[t])
             /\ \A w \in Writers :
                  writer[w].key = t => Newest(writer[w].snap) <= Newest(cache'[t])
  <2>1. CASE t = s
    BY <1>5, <2>1
  <2>2. CASE t # s
    <3>1. t \in Cached /\ t \in Sessions
      BY <1>7, <1>8, <2>2 DEF Cached
    <3> QED
      BY <1>5, <2>2, <3>1 DEF CacheIsNewest
  <2> QED
    BY <2>1, <2>2
<1>9. ASSUME NEW w \in Writers, writer[w].pc # "idle"
      PROVE  writer[w].key \in Cached' /\ writer[w].snap \in Stored(written'[writer[w].key])
  <2>1. writer[w].key \in Cached /\ writer[w].snap \in Stored(written[writer[w].key])
    BY <1>9 DEF WritersAreTold
  <2> QED
    BY <1>3, <1>7, <2>1 DEF Cached
<1>10. ASSUME writer["flush"].pc # "idle"
       PROVE  writer["flush"].snap = cache'[writer["flush"].key]
  <2>1. writer["flush"].key # s /\ writer["flush"].key \in Sessions
    BY <1>10 DEF Writable, WritersAreTold, Writers, Cached
  <2>2. writer["flush"].snap = cache[writer["flush"].key]
    BY <1>10 DEF FlushIsFresh
  <2> QED
    BY <1>5, <2>1, <2>2
<1> QED
  BY <1>6, <1>7, <1>8, <1>9, <1>10 DEF RestFits

\* Without files, sessions and writes there is nothing to lag behind.
LEMMA PersistInvInit == Init => PersistInv
<1> SUFFICES ASSUME Init
             PROVE  PersistInv
  OBVIOUS
<1> USE ConstantsTyped DEF Init
<1>1. KeptIsTold
  BY DEF KeptIsTold
<1>2. MainIsTold /\ MissIsAlone
  BY EmptyIsStored DEF MainIsTold, MissIsAlone, MainPcs, Done
<1>3. WritersAreTold /\ FlushIsFresh
  BY EmptyIsStored DEF WritersAreTold, FlushIsFresh, Idle, Writers
<1>4. QueueTyped /\ CacheIsNewest
  BY DEF QueueTyped, CacheIsNewest, Cached
<1> QED
  BY <1>1, <1>2, <1>3, <1>4 DEF PersistInv

\* Steps of the agent loop that change nothing but what it holds itself.
LEMMA LookUpKeeps ==
  ASSUME PersistInv,
         (\E s \in Sessions : LookUp(s)) \/ ReadFiles \/ Abandon
  PROVE  PersistInv'
<1> USE DEF PersistInv
<1>1. UNCHANGED <<cache, file, notesFile, queue, writer, todo, written>> /\ Cached' = Cached
  BY DEF LookUp, ReadFiles, Abandon, Cached
<1>2. KeptIsTold' /\ WritersAreTold' /\ QueueTyped' /\ CacheIsNewest' /\ FlushIsFresh'
  BY <1>1 DEF KeptIsTold, WritersAreTold, QueueTyped, CacheIsNewest, FlushIsFresh
<1>3. ASSUME NEW s \in Sessions, LookUp(s)
      PROVE  MainIsTold' /\ MissIsAlone'
  <2>1. written[s] \in Nat /\ written[s] + 2 <= MaxMessages
    BY <1>3, ConstantsTyped DEF LookUp, KeptIsTold
  <2>2. CASE s \in Cached
    <3>1. main' = [pc |-> "have", key |-> s, sess |-> cache[s]]
      BY <1>3, <2>2 DEF LookUp
    <3>2. cache[s] \in Session /\ cache[s] \in Told(written[s])
      BY <2>2 DEF KeptIsTold, Cached, Stored
    <3> QED
      BY <1>1, <2>1, <3>1, <3>2 DEF MainIsTold, MissIsAlone, MainPcs
  <2>3. CASE s \notin Cached
    <3>1. main' = [pc |-> "miss", key |-> s, sess |-> Empty]
      BY <1>3, <2>3 DEF LookUp
    <3> QED
      BY <1>1, <2>1, <2>3, <3>1, EmptyIsStored DEF MainIsTold, MissIsAlone, MainPcs
  <2> QED
    BY <2>2, <2>3
<1>4. CASE ReadFiles
  <2>1. main.pc = "miss" /\ main.key \in Sessions /\ main.key \notin Cached
        /\ written[main.key] + 2 <= MaxMessages
    BY <1>4 DEF ReadFiles, MainIsTold, MissIsAlone
  <2>2. CASE Load(main.key) = Absent
    <3>1. main' = [main EXCEPT !.pc = "create"]
      BY <1>4, <2>2 DEF ReadFiles
    <3>2. file[main.key] \in {Absent, Empty}
      <4>1. ASSUME file[main.key] \notin {Absent, Empty}
            PROVE  FALSE
        <5>1. /\ file[main.key] \in Session /\ notesFile[main.key] \in Nat
              /\ Load(main.key) = [file[main.key] EXCEPT !.notes =
                                     IF notesFile[main.key] > 0 THEN notesFile[main.key] ELSE @]
          BY <2>1, <4>1 DEF KeptIsTold, Load
        <5>2. Load(main.key).notes \in Nat
          BY <5>1, SessionTyped DEF Session
        <5> QED
          BY <2>2, <5>2 DEF Absent
      <4> QED
        BY <4>1
    <3>3. main.sess = Empty
      BY <2>1 DEF MissIsAlone
    <3>4. /\ main' \in [pc : MainPcs, key : Sessions \cup {NoKey}, sess : Session]
          /\ main'.pc = "create" /\ main'.key = main.key /\ main'.sess = main.sess
      BY <3>1 DEF MainIsTold, MainPcs
    <3> QED
      BY <1>1, <1>2, <2>1, <3>2, <3>3, <3>4 DEF MainIsTold, MissIsAlone
  <2>3. CASE Load(main.key) # Absent
    <3>1. main' = [main EXCEPT !.pc = "insert", !.sess = Load(main.key)]
      BY <1>4, <2>3 DEF ReadFiles
    <3>2. Load(main.key) \in Stored(written[main.key]) /\ Load(main.key).log = file[main.key].log
      BY <2>1, <2>3, LoadIsStored
    <3>3. /\ Load(main.key) \in Told(written[main.key]) /\ Load(main.key) \in Session
          /\ Len(Load(main.key).log) <= MaxHistory
      BY <3>2 DEF Stored, Told
    <3>4. /\ main' \in [pc : MainPcs, key : Sessions \cup {NoKey}, sess : Session]
          /\ main'.pc = "insert" /\ main'.key = main.key /\ main'.sess = Load(main.key)
      BY <3>1, <3>3 DEF MainIsTold, MainPcs
    <3> QED
      BY <1>1, <1>2, <2>1, <3>2, <3>3, <3>4 DEF MainIsTold, MissIsAlone
  <2> QED
    BY <2>2, <2>3
<1>5. CASE Abandon
  <2>1. main' = Done
    BY <1>5 DEF Abandon
  <2> QED
    BY <1>2, <2>1, DoneIsTold
<1> QED
  BY <1>2, <1>3, <1>4, <1>5

\* get_or_create caches what the files hold, or a new session.
LEMMA InsertKeeps ==
  ASSUME PersistInv, Insert
  PROVE  PersistInv'
<1> USE DEF PersistInv
<1> DEFINE s == main.key
<1>1. /\ s \in Sessions /\ s \notin Cached /\ main.sess \in Told(written[s])
      /\ written[s] + 2 <= MaxMessages
  BY DEF Insert, MainIsTold, MissIsAlone
<1>2. /\ written[s] \in Nat /\ written[s] \in written[s] .. MaxMessages
      /\ written = [written EXCEPT ![s] = written[s]]
  BY <1>1, ConstantsTyped DEF KeptIsTold
<1>3. main.sess \in Stored(written[s]) /\ Newest(file[s]) <= Newest(main.sess)
  <2>1. CASE main.pc = "insert"
    <3>1. main.sess.log = file[s].log /\ Len(main.sess.log) <= MaxHistory
      BY <2>1 DEF MissIsAlone
    <3>2. Newest(file[s]) = Newest(main.sess) /\ Newest(main.sess) \in Nat
      BY <1>1, <1>2, <3>1, NewestIsLast, NewestTyped
    <3> QED
      BY <1>1, <3>1, <3>2 DEF Stored
  <2>2. CASE main.pc = "create"
    <3>1. main.sess = Empty /\ file[s] \in {Absent, Empty}
      BY <2>2 DEF MissIsAlone
    <3>2. Newest(Absent) = 0
      BY NewestIsLast DEF Absent
    <3> QED
      BY <1>2, <3>1, <3>2, EmptyIsStored
  <2> QED
    BY <2>1, <2>2 DEF Insert
<1>4. \A w \in Writers : writer[w].key # s
  BY <1>1, ConstantsTyped DEF WritersAreTold
<1>5. /\ cache' = [cache EXCEPT ![s] = main.sess] /\ main' = [main EXCEPT !.pc = "have"]
      /\ written' = [written EXCEPT ![s] = written[s]]
      /\ UNCHANGED <<file, notesFile, queue, writer, todo, written>> /\ Writable(s)
  BY <1>2 DEF Insert
<1>6. RestFits(s)
  BY <1>1, <1>2, <1>3, <1>4, <1>5, CachingKeeps
<1>7. CacheIsNewest' /\ FlushIsFresh'
  BY <1>5, <1>6 DEF CacheIsNewest, FlushIsFresh, RestFits
<1>8. WritersAreTold' /\ QueueTyped'
  BY <1>5, <1>6 DEF WritersAreTold, QueueTyped, RestFits
<1>9. MainIsTold' /\ MissIsAlone'
  BY <1>1, <1>5 DEF MainIsTold, MissIsAlone, MainPcs
<1>10. KeptIsTold'
  BY <1>6 DEF RestFits
<1> QED
  BY <1>10, <1>7, <1>8, <1>9

\* A session with the newest message of all is cached: what the writers hold
\* and the file has can only be older.
LEMMA SavingKeeps ==
  ASSUME PersistInv, main.pc \in {"have", "run"}, Writable(main.key),
         NEW n \in written[main.key] .. MaxMessages, NEW sess \in Told(n), Newest(sess) = n,
         cache' = [cache EXCEPT ![main.key] = Truncated(sess)],
         written' = [written EXCEPT ![main.key] = n],
         UNCHANGED <<file, notesFile>>
  PROVE  /\ main.key \in Sessions /\ Truncated(sess) \in Stored(written'[main.key])
         /\ RestFits(main.key)
<1> USE DEF PersistInv
<1> DEFINE s == main.key
<1>1. s \in Sessions
  BY DEF MainIsTold
<1>2. /\ written[s] \in Nat /\ n \in Nat /\ n \in written[s] .. MaxMessages
      /\ written' = [written EXCEPT ![s] = n] /\ written'[s] = n
  BY <1>1, ConstantsTyped DEF KeptIsTold
<1>3. Truncated(sess) \in Stored(n) /\ Newest(Truncated(sess)) = n
  BY <1>2, TruncatedIsStored
<1>4. Newest(file[s]) <= n
  <2>1. Newest(file[s]) \in Nat /\ Newest(file[s]) <= written[s]
    BY <1>1, <1>2, KeptIsBounded DEF KeptIsTold
  <2> QED
    BY <1>2, <2>1
<1>5. ASSUME NEW w \in Writers, writer[w].key = s
      PROVE  Newest(writer[w].snap) <= n
  <2>1. writer[w].pc # "idle" /\ writer[w].snap \in Stored(written[s])
    BY <1>1, <1>5, ConstantsTyped DEF WritersAreTold
  <2>2. Newest(writer[w].snap) \in Nat /\ Newest(writer[w].snap) <= written[s]
    BY <1>2, <2>1, KeptIsBounded
  <2> QED
    BY <1>2, <2>2
<1>6. /\ cache' = [cache EXCEPT ![s] = Truncated(sess)]
      /\ UNCHANGED <<file, notesFile>> /\ Writable(s)
      /\ Newest(file[s]) <= Newest(Truncated(sess))
      /\ \A w \in Writers :
           writer[w].key = s => Newest(writer[w].snap) <= Newest(Truncated(sess))
  BY <1>3, <1>4, <1>5
<1> HIDE DEF s, PersistInv
<1>7. RestFits(s)
  <2>1. PICK new : new = Truncated(sess)
    OBVIOUS
  <2> QED
    BY <1>1, <1>2, <1>3, <1>6, <2>1, CachingKeeps
<1> QED
  BY <1>1, <1>2, <1>3, <1>7 DEF s

\* save_async puts the newest session into the cache, and its key into a queue with room.
LEMMA SaveAsyncKeeps ==
  ASSUME PersistInv, SaveAsync
  PROVE  PersistInv'
<1> USE DEF PersistInv
<1> DEFINE s == main.key
           sess == WithMessage(main.sess, s)
<1>1. /\ main.pc = "have" /\ s \in Sessions /\ main.sess \in Told(written[s])
      /\ written[s] \in Nat /\ written[s] + 2 <= MaxMessages
  BY DEF SaveAsync, MainIsTold, KeptIsTold
<1>2. /\ sess \in Told(written[s] + 1) /\ sess.log # <<>>
      /\ sess.log[Len(sess.log)] = written[s] + 1
  <2>1. written[s] + 1 <= MaxMessages
    BY <1>1, ConstantsTyped
  <2> QED
    BY <1>1, <2>1, MessageIsTold
<1>3. sess \in Session /\ Newest(sess) = written[s] + 1
  BY <1>2, NewestIsLast DEF Told
<1>4. /\ cache' = [cache EXCEPT ![s] = Truncated(sess)]
      /\ written' = [written EXCEPT ![s] = @ + 1]
      /\ main' = [main EXCEPT !.pc = "run", !.sess = sess]
      /\ queue' = IF Len(queue) < QueueCap THEN Append(queue, s) ELSE queue
      /\ UNCHANGED <<file, notesFile, writer, todo>> /\ Writable(s)
  BY DEF SaveAsync
<1>5. /\ Truncated(sess) \in Stored(written'[s])
      /\ RestFits(s)
  <2> DEFINE n == written[s] + 1
  <2>1. /\ n \in written[s] .. MaxMessages /\ sess \in Told(n) /\ Newest(sess) = n
        /\ written' = [written EXCEPT ![s] = n] /\ main.pc \in {"have", "run"}
    BY <1>1, <1>2, <1>3, <1>4, ConstantsTyped
  <2> HIDE DEF sess, n, PersistInv
  <2> QED
    BY <1>4, <2>1, SavingKeeps
<1>6. CacheIsNewest' /\ FlushIsFresh' /\ WritersAreTold' /\ KeptIsTold'
  BY <1>4, <1>5 DEF CacheIsNewest, FlushIsFresh, WritersAreTold, RestFits
<1>7. QueueTyped'
  <2>1. queue' \in Seq(Sessions) /\ Len(queue') <= QueueCap
    BY <1>1, <1>4, ConstantsTyped DEF QueueTyped
  <2> QED
    BY <1>4, <1>5, <2>1 DEF QueueTyped, RestFits
<1>8. MainIsTold' /\ MissIsAlone'
  <2>1. /\ main' \in [pc : MainPcs, key : Sessions \cup {NoKey}, sess : Session]
        /\ main'.pc = "run" /\ main'.key = s /\ main'.sess = sess
    BY <1>3, <1>4 DEF MainIsTold, MainPcs
  <2>2. written'[s] = written[s] + 1 /\ written'[s] + 1 <= MaxMessages
    BY <1>1, <1>4, ConstantsTyped DEF KeptIsTold
  <2> HIDE DEF sess
  <2> QED
    BY <1>1, <1>2, <2>1, <2>2 DEF MainIsTold, MissIsAlone
<1> QED
  BY <1>6, <1>7, <1>8

\* save_session, of a session whose newest message is the newest of all.
LEMMA SaveKeeps ==
  ASSUME PersistInv, NEW added \in {0, 1}, NEW sess, Save(sess, added),
         written[main.key] + added <= MaxMessages,
         sess \in Told(written[main.key] + added),
         Newest(sess) = written[main.key] + added
  PROVE  PersistInv'
<1> USE DEF PersistInv
<1> DEFINE s == main.key
<1>1. /\ cache' = [cache EXCEPT ![s] = Truncated(sess)]
      /\ written' = [written EXCEPT ![s] = @ + added]
      /\ main.pc = "run" /\ main' = Done
      /\ writer' = [writer EXCEPT !["main"] =
                      [pc |-> "store", key |-> s, snap |-> Truncated(sess)]]
      /\ UNCHANGED <<file, notesFile, queue, todo>> /\ Writable(s)
  BY DEF Save
<1>2. /\ s \in Sessions /\ Truncated(sess) \in Stored(written'[s])
      /\ RestFits(s)
  <2> DEFINE n == written[s] + added
  <2>1. /\ n \in written[s] .. MaxMessages /\ sess \in Told(n) /\ Newest(sess) = n
        /\ written' = [written EXCEPT ![s] = n] /\ main.pc \in {"have", "run"}
    BY <1>1, ConstantsTyped DEF MainIsTold, KeptIsTold
  <2>2. s \in Sessions
    BY <1>1 DEF MainIsTold
  <2> HIDE DEF n, PersistInv
  <2> QED
    BY <1>1, <2>1, <2>2, SavingKeeps
<1>3. /\ Truncated(sess) \in Session /\ cache'[s] = Truncated(sess)
      /\ Newest(Truncated(sess)) \in Nat
  <2>1. written'[s] \in Nat
    BY <1>2, ConstantsTyped DEF RestFits, KeptIsTold
  <2>2. cache'[s] = Truncated(sess)
    BY <1>1, <1>2 DEF KeptIsTold
  <2> QED
    BY <1>2, <2>1, <2>2, KeptIsBounded DEF Stored, Told
<1>4. /\ writer' \in [Writers -> [pc : {"idle", "store", "notes"}, key : Sessions \cup {NoKey},
                                  snap : Session]]
      /\ \A w \in Writers \ {"main"} : writer'[w] = writer[w]
      /\ writer'["main"].pc = "store" /\ writer'["main"].key = s
      /\ writer'["main"].snap = Truncated(sess)
  BY <1>1, <1>2, <1>3 DEF WritersAreTold, Writers
<1>5. ASSUME NEW w \in Writers
      PROVE  /\ writer'[w].pc = "idle" => writer'[w].key = NoKey
             /\ writer'[w].pc # "idle" => /\ writer'[w].key \in Cached'
                                          /\ writer'[w].snap \in Stored(written'[writer'[w].key])
             /\ \A t \in Cached' :
                  writer'[w].key = t => Newest(writer'[w].snap) <= Newest(cache'[t])
  <2>1. CASE w = "main"
    BY <1>2, <1>3, <1>4, <2>1 DEF RestFits
  <2>2. CASE w # "main"
    BY <1>2, <1>4, <2>2 DEF WritersAreTold, RestFits
  <2> QED
    BY <2>1, <2>2
<1>6. CacheIsNewest' /\ WritersAreTold'
  <2>1. \A t \in Cached' : Newest(file'[t]) <= Newest(cache'[t])
    BY <1>1, <1>2 DEF RestFits
  <2>2. Cached' = {t \in Sessions : cache'[t] # Absent}
    BY DEF Cached
  <2> QED
    BY <1>4, <1>5, <2>1 DEF CacheIsNewest, WritersAreTold
<1>7. FlushIsFresh'
  BY <1>2, <1>4 DEF FlushIsFresh, Writers, RestFits
<1>8. QueueTyped' /\ MainIsTold' /\ MissIsAlone' /\ KeptIsTold'
  BY <1>1, <1>2, DoneIsTold DEF QueueTyped, RestFits
<1> QED
  BY <1>6, <1>7, <1>8

\* The end of a run saves the answer, or the note of its interruption, to cache and file.
LEMMA RunEndsKeeps ==
  ASSUME PersistInv, Answered \/ Interrupted
  PROVE  PersistInv'
<1> DEFINE s == main.key
<1>1. /\ main.pc = "run" /\ s \in Sessions /\ main.sess \in Told(written[s])
      /\ written[s] \in Nat /\ written[s] + 1 <= MaxMessages
      /\ Newest(main.sess) = written[s]
  BY NewestIsLast DEF Answered, Interrupted, Save, PersistInv, MainIsTold, KeptIsTold
<1>2. CASE Interrupted
  <2>1. Save(main.sess, 0) /\ written[s] + 0 = written[s] /\ written[s] <= MaxMessages
    BY <1>1, <1>2, ConstantsTyped DEF Interrupted
  <2> QED
    BY <1>1, <2>1, SaveKeeps
<1>3. ASSUME NEW n \in 0 .. 1, Save([WithMessage(main.sess, s) EXCEPT !.notes = @ + n], 1)
      PROVE  PersistInv'
  <2> DEFINE new == WithMessage(main.sess, s)
             sess == [new EXCEPT !.notes = @ + n]
  <2>0. Save(sess, 1)
    BY <1>3
  <2>1. /\ new \in Told(written[s] + 1) /\ new.notes = main.sess.notes
        /\ new.log # <<>> /\ new.log[Len(new.log)] = written[s] + 1
    BY <1>1, MessageIsTold
  <2> HIDE DEF new
  <2>2. new \in Session /\ main.sess.notes \in Nat /\ main.sess.notes <= written[s]
    BY <1>1, <2>1, SessionTyped DEF Told
  <2>3. /\ sess.log = new.log /\ sess.notes = new.notes + n /\ sess.notes <= written[s] + 1
        /\ sess \in Session
    <3>1. new.notes + n \in 0 .. MaxMessages /\ new.notes + n <= written[s] + 1
      BY <1>1, <2>1, <2>2, ConstantsTyped
    <3>2. sess = [new EXCEPT !.notes = new.notes + n]
      OBVIOUS
    <3> HIDE DEF sess
    <3> QED
      BY <2>2, <3>1, <3>2 DEF Session
  <2> HIDE DEF sess
  <2>4. sess \in Told(written[s] + 1)
    BY <2>1, <2>3 DEF Told
  <2>5. Newest(sess) = written[s] + 1
    BY <2>1, <2>3, NewestIsLast
  <2> QED
    BY <1>1, <2>0, <2>4, <2>5, SaveKeeps
<1> QED
  BY <1>2, <1>3 DEF Answered

\* A writer takes what the cache holds of a session for its snapshot.
LEMMA SnapshotKeeps ==
  ASSUME PersistInv, NEW v \in {"worker", "flush"}, NEW s \in Cached,
         writer' = [writer EXCEPT ![v] = [pc |-> "store", key |-> s, snap |-> cache[s]]],
         UNCHANGED <<cache, file, notesFile, main, written>>
  PROVE  /\ Cached' = Cached /\ KeptIsTold' /\ MainIsTold' /\ MissIsAlone'
         /\ WritersAreTold' /\ CacheIsNewest' /\ FlushIsFresh'
<1> USE DEF PersistInv
<1>1. Cached' = Cached /\ KeptIsTold' /\ MainIsTold' /\ MissIsAlone'
  BY DEF Cached, KeptIsTold, MainIsTold, MissIsAlone
<1>2. /\ s \in Sessions /\ cache[s] \in Session /\ cache[s] \in Stored(written[s])
      /\ written[s] \in Nat
  BY ConstantsTyped DEF Cached, KeptIsTold
<1>3. /\ writer' \in [Writers -> [pc : {"idle", "store", "notes"}, key : Sessions \cup {NoKey},
                                  snap : Session]]
      /\ \A w \in Writers \ {v} : writer'[w] = writer[w]
      /\ writer'[v].pc = "store" /\ writer'[v].key = s /\ writer'[v].snap = cache[s]
  BY <1>2 DEF WritersAreTold, Writers
<1>4. Newest(cache[s]) \in Nat
  BY <1>2, KeptIsBounded
<1>5. ASSUME NEW w \in Writers
      PROVE  /\ writer'[w].pc = "idle" => writer'[w].key = NoKey
             /\ writer'[w].pc # "idle" => /\ writer'[w].key \in Cached
                                          /\ writer'[w].snap \in Stored(written[writer'[w].key])
             /\ \A t \in Cached :
                  writer'[w].key = t => Newest(writer'[w].snap) <= Newest(cache[t])
  <2>1. CASE w = v
    BY <1>2, <1>3, <1>4, <2>1
  <2>2. CASE w # v
    BY <1>3, <2>2 DEF WritersAreTold, CacheIsNewest
  <2> QED
    BY <2>1, <2>2
<1>6. WritersAreTold' /\ CacheIsNewest'
  BY <1>1, <1>3, <1>5 DEF WritersAreTold, CacheIsNewest
<1>7. FlushIsFresh'
  BY <1>3 DEF FlushIsFresh, Writers
<1> QED
  BY <1>1, <1>6, <1>7

\* A writer that takes a key takes the cached session with it.
LEMMA TakingKeeps ==
  ASSUME PersistInv, TakeKey \/ StartFlush \/ \E s \in Sessions : FlushNext(s)
  PROVE  PersistInv'
<1>1. CASE TakeKey
  <2>1. queue' \in Seq(Sessions) /\ Len(queue') <= QueueCap
        /\ queue \in Seq(Sessions) /\ queue # <<>>
    BY <1>1, ConstantsTyped DEF TakeKey, PersistInv, QueueTyped
  <2>2. UNCHANGED <<cache, file, notesFile, main, todo, written>>
    BY <1>1 DEF TakeKey
  <2>3. CASE Head(queue) \in Cached
    <3>1. writer' = [writer EXCEPT !["worker"] =
                       [pc |-> "store", key |-> Head(queue), snap |-> cache[Head(queue)]]]
      BY <1>1, <2>3 DEF TakeKey
    <3>2. Cached' = Cached /\ KeptIsTold' /\ MainIsTold' /\ MissIsAlone'
          /\ WritersAreTold' /\ CacheIsNewest' /\ FlushIsFresh'
      BY <2>2, <2>3, <3>1, SnapshotKeeps
    <3> QED
      BY <2>1, <2>2, <3>2 DEF PersistInv, QueueTyped
  <2>4. CASE Head(queue) \notin Cached
    <3>1. writer' = writer /\ Cached' = Cached
      BY <1>1, <2>2, <2>4 DEF TakeKey, Cached
    <3>2. KeptIsTold' /\ MainIsTold' /\ MissIsAlone'
      BY <2>2, <3>1 DEF PersistInv, KeptIsTold, MainIsTold, MissIsAlone
    <3>3. WritersAreTold' /\ CacheIsNewest' /\ FlushIsFresh'
      BY <2>2, <3>1 DEF PersistInv, WritersAreTold, CacheIsNewest, FlushIsFresh
    <3> QED
      BY <2>1, <2>2, <3>1, <3>2, <3>3 DEF PersistInv, QueueTyped
  <2> QED
    BY <2>3, <2>4
<1>2. CASE StartFlush
  <2>1. UNCHANGED <<cache, file, notesFile, queue, main, writer, written>>
        /\ todo' = Cached /\ Cached' = Cached
    BY <1>2 DEF StartFlush, Cached
  <2>2. KeptIsTold' /\ MainIsTold' /\ MissIsAlone' /\ QueueTyped'
    BY <2>1 DEF PersistInv, KeptIsTold, MainIsTold, MissIsAlone, QueueTyped
  <2>3. WritersAreTold' /\ CacheIsNewest' /\ FlushIsFresh'
    BY <2>1 DEF PersistInv, WritersAreTold, CacheIsNewest, FlushIsFresh
  <2> QED
    BY <2>2, <2>3 DEF PersistInv
<1>3. ASSUME NEW s \in Sessions, FlushNext(s)
      PROVE  PersistInv'
  <2>1. /\ writer' = [writer EXCEPT !["flush"] =
                        [pc |-> "store", key |-> s, snap |-> cache[s]]]
        /\ UNCHANGED <<cache, file, notesFile, queue, main, written>>
        /\ todo' = todo \ {s} /\ s \in Cached
    BY <1>3 DEF FlushNext, PersistInv, QueueTyped
  <2>2. Cached' = Cached /\ KeptIsTold' /\ MainIsTold' /\ MissIsAlone'
        /\ WritersAreTold' /\ CacheIsNewest' /\ FlushIsFresh'
    BY <2>1, SnapshotKeeps
  <2> QED
    BY <2>1, <2>2 DEF PersistInv, QueueTyped
<1> QED
  BY <1>1, <1>2, <1>3

\* A writer leaves in the file what it may store of its snapshot, whole or torn.
LEMMA FileIsStored ==
  ASSUME PersistInv, NEW w \in Writers, writer[w].pc = "store", NEW sess,
         sess = writer[w].snap \/ sess \in Torn(writer[w].snap),
         file' = [file EXCEPT ![writer[w].key] = sess]
  PROVE  /\ file' \in [Sessions -> Session \cup {Absent}]
         /\ writer[w].key \in Cached
         /\ \A s \in Sessions : /\ file'[s] \in Stored(written[s]) \cup {Absent}
                                /\ s # writer[w].key => file'[s] = file[s]
         /\ \A s \in Cached : Newest(file'[s]) <= Newest(cache[s])
<1> USE DEF PersistInv
<1> DEFINE k == writer[w].key
           snap == writer[w].snap
<1>1. /\ k \in Cached /\ k \in Sessions /\ snap \in Stored(written[k])
      /\ written[k] \in Nat /\ Newest(snap) <= Newest(cache[k])
      /\ cache[k] \in Stored(written[k]) \cup {Absent}
  BY ConstantsTyped DEF WritersAreTold, Cached, KeptIsTold, CacheIsNewest
<1>2. sess \in Stored(written[k]) /\ Newest(sess) <= Newest(snap) /\ Newest(sess) \in Nat
  <2>1. Newest(snap) \in Nat
    BY <1>1, KeptIsBounded
  <2>2. sess \in Stored(written[k]) /\ Newest(sess) <= Newest(snap)
    BY <1>1, <2>1, TornIsStored
  <2> QED
    BY <1>1, <2>2, KeptIsBounded
<1>3. Newest(snap) \in Nat /\ Newest(cache[k]) \in Nat /\ sess \in Session
  BY <1>1, <1>2, KeptIsBounded DEF Stored, Told
<1>4. /\ file' \in [Sessions -> Session \cup {Absent}]
      /\ file'[k] = sess /\ \A s \in Sessions : s # k => file'[s] = file[s]
  BY <1>1, <1>3 DEF KeptIsTold
<1>5. Newest(file'[k]) <= Newest(cache[k])
  BY <1>1, <1>2, <1>3, <1>4
<1>6. ASSUME NEW s \in Cached
      PROVE  Newest(file'[s]) <= Newest(cache[s])
  <2>1. CASE s = k
    BY <1>5, <2>1
  <2>2. CASE s # k
    BY <1>4, <2>2 DEF Cached, CacheIsNewest
  <2> QED
    BY <2>1, <2>2
<1>7. \A s \in Sessions : file'[s] \in Stored(written[s]) \cup {Absent}
  BY <1>2, <1>4 DEF KeptIsTold
<1> QED
  BY <1>1, <1>4, <1>6, <1>7

\* What a write of the file of a cached session leaves of the agent loop's own.
LEMMA LoopUnmoved ==
  ASSUME PersistInv, NEW k \in Cached,
         \A s \in Sessions : s # k => file'[s] = file[s],
         UNCHANGED <<cache, main, written>>
  PROVE  Cached' = Cached /\ MainIsTold' /\ MissIsAlone'
<1> USE DEF PersistInv
<1>1. Cached' = Cached /\ MainIsTold'
  BY DEF Cached, MainIsTold
<1>2. main.pc \in {"miss", "insert", "create"} => file'[main.key] = file[main.key]
  BY DEF MissIsAlone, MainIsTold
<1> QED
  BY <1>1, <1>2 DEF MissIsAlone

\* A writer is where it was, one step further, or idle.
LEMMA WriterMoves ==
  ASSUME PersistInv, NEW w \in Writers, Cached' = Cached, written' = written, cache' = cache,
         \/ writer' = [writer EXCEPT ![w].pc = "notes"] /\ writer[w].pc = "store"
         \/ writer' = [writer EXCEPT ![w] = Idle],
         \A s \in Cached : Newest(file'[s]) <= Newest(cache[s])
  PROVE  WritersAreTold' /\ CacheIsNewest' /\ FlushIsFresh'
<1> USE DEF PersistInv
<1>1. Empty \in Session /\ NoKey \notin Cached
  BY EmptyIsStored, ConstantsTyped DEF Cached
<1>2. /\ writer' \in [Writers -> [pc : {"idle", "store", "notes"}, key : Sessions \cup {NoKey},
                                  snap : Session]]
      /\ \A v \in Writers \ {w} : writer'[v] = writer[v]
      /\ \/ /\ writer'[w].pc # "idle" /\ writer[w].pc # "idle"
            /\ writer'[w].key = writer[w].key /\ writer'[w].snap = writer[w].snap
         \/ writer'[w].pc = "idle" /\ writer'[w].key = NoKey
  <2>1. CASE writer' = [writer EXCEPT ![w].pc = "notes"] /\ writer[w].pc = "store"
    BY <2>1 DEF WritersAreTold
  <2>2. CASE writer' = [writer EXCEPT ![w] = Idle]
    BY <1>1, <2>2 DEF WritersAreTold, Idle
  <2> QED
    BY <2>1, <2>2
<1>3. ASSUME NEW v \in Writers
      PROVE  /\ writer'[v].pc = "idle" => writer'[v].key = NoKey
             /\ writer'[v].pc # "idle" => /\ writer'[v].key \in Cached
                                          /\ writer'[v].snap \in Stored(written[writer'[v].key])
             /\ \A t \in Cached :
                  writer'[v].key = t => Newest(writer'[v].snap) <= Newest(cache[t])
             /\ writer'[v].pc # "idle" => /\ writer[v].pc # "idle"
                                          /\ writer'[v].key = writer[v].key
                                          /\ writer'[v].snap = writer[v].snap
  <2>1. CASE v # w
    BY <1>2, <2>1 DEF WritersAreTold, CacheIsNewest
  <2>2. CASE v = w
    BY <1>1, <1>2, <2>2 DEF WritersAreTold, CacheIsNewest
  <2> QED
    BY <2>1, <2>2
<1>4. WritersAreTold' /\ CacheIsNewest'
  BY <1>2, <1>3 DEF WritersAreTold, CacheIsNewest
<1>5. FlushIsFresh'
  BY <1>3 DEF FlushIsFresh, Writers
<1> QED
  BY <1>4, <1>5

\* A write puts the snapshot into the file, whole or torn, and so do the notes.
LEMMA PersistKeeps ==
  ASSUME PersistInv, NEW w \in Writers, Persist(w)
  PROVE  PersistInv'
<1> DEFINE k == writer[w].key
<1>1. ASSUME WriteSession(w) \/ WriteFails(w)
      PROVE  PersistInv'
  <2>1. PICK sess : /\ sess = writer[w].snap \/ sess \in Torn(writer[w].snap)
                    /\ file' = [file EXCEPT ![k] = sess]
    BY <1>1 DEF WriteSession, WriteFails
  <2>2. /\ writer[w].pc = "store" /\ UNCHANGED <<cache, notesFile, queue, main, written>>
        /\ todo' \subseteq todo
        /\ \/ writer' = [writer EXCEPT ![w].pc = "notes"]
           \/ writer' = [writer EXCEPT ![w] = Idle]
    BY <1>1 DEF WriteSession, WriteFails
  <2>3. /\ file' \in [Sessions -> Session \cup {Absent}] /\ k \in Cached
        /\ \A s \in Sessions : /\ file'[s] \in Stored(written[s]) \cup {Absent}
                               /\ s # k => file'[s] = file[s]
        /\ \A s \in Cached : Newest(file'[s]) <= Newest(cache[s])
    BY <2>1, <2>2, FileIsStored
  <2>4. Cached' = Cached /\ MainIsTold' /\ MissIsAlone'
    BY <2>2, <2>3, LoopUnmoved
  <2>5. WritersAreTold' /\ CacheIsNewest' /\ FlushIsFresh'
    BY <2>2, <2>3, <2>4, WriterMoves
  <2>6. KeptIsTold' /\ QueueTyped'
    BY <2>2, <2>3, <2>4 DEF PersistInv, KeptIsTold, QueueTyped
  <2> QED
    BY <2>4, <2>5, <2>6 DEF PersistInv
<1>2. CASE WriteNotes(w)
  <2>1. /\ notesFile' = [notesFile EXCEPT ![k] = writer[w].snap.notes]
        /\ writer' = [writer EXCEPT ![w] = Idle] /\ writer[w].pc = "notes"
        /\ UNCHANGED <<cache, file, queue, main, todo, written>>
    BY <1>2 DEF WriteNotes
  <2>2. /\ k \in Cached /\ k \in Sessions /\ writer[w].snap \in Session
        /\ writer[w].snap.notes <= written[k]
    BY <2>1 DEF PersistInv, WritersAreTold, Cached, Stored, Told
  <2>3. writer[w].snap.notes \in Nat
    BY <2>2, SessionTyped
  <2>4. Cached' = Cached /\ MainIsTold' /\ MissIsAlone'
    BY <2>1, <2>2, LoopUnmoved
  <2>5. \A s \in Cached : Newest(file'[s]) <= Newest(cache[s])
    BY <2>1 DEF PersistInv, CacheIsNewest
  <2>6. WritersAreTold' /\ CacheIsNewest' /\ FlushIsFresh'
    BY <2>1, <2>4, <2>5, WriterMoves
  <2>7. KeptIsTold' /\ QueueTyped'
    BY <2>1, <2>2, <2>3, <2>4 DEF PersistInv, KeptIsTold, QueueTyped
  <2> QED
    BY <2>4, <2>6, <2>7 DEF PersistInv
<1> QED
  BY <1>1, <1>2 DEF Persist

\* After a crash only the files are left, one of them perhaps torn.
LEMMA CrashKeeps ==
  ASSUME PersistInv, Crash
  PROVE  PersistInv'
<1>1. /\ cache' = [s \in Sessions |-> Absent] /\ queue' = <<>> /\ main' = Done
      /\ writer' = [w \in Writers |-> Idle] /\ todo' = {}
      /\ UNCHANGED <<notesFile, written>>
  BY DEF Crash
<1>2. /\ file' \in [Sessions -> Session \cup {Absent}]
      /\ \A s \in Sessions : file'[s] \in Stored(written[s]) \cup {Absent}
  <2>1. CASE UNCHANGED file
    BY <2>1 DEF PersistInv, KeptIsTold
  <2>2. ASSUME NEW w \in Writers, writer[w].pc = "store", NEW sess \in Torn(writer[w].snap),
               file' = [file EXCEPT ![writer[w].key] = sess]
        PROVE  /\ file' \in [Sessions -> Session \cup {Absent}]
               /\ \A s \in Sessions : file'[s] \in Stored(written[s]) \cup {Absent}
    BY <2>2, FileIsStored
  <2> QED
    BY <2>1, <2>2 DEF Crash
<1>3. KeptIsTold'
  BY <1>1, <1>2 DEF PersistInv, KeptIsTold
<1>4. MainIsTold' /\ MissIsAlone'
  BY <1>1, DoneIsTold
<1>5. Cached' = {}
  BY <1>1 DEF Cached
<1>6. Empty \in Session
  BY EmptyIsStored
<1>7. WritersAreTold' /\ FlushIsFresh'
  BY <1>1, <1>6 DEF WritersAreTold, FlushIsFresh, Idle, Writers
<1>8. QueueTyped' /\ CacheIsNewest'
  BY <1>1, <1>5, ConstantsTyped DEF QueueTyped, CacheIsNewest
<1> QED
  BY <1>3, <1>4, <1>7, <1>8 DEF PersistInv

\* Every step keeps the invariant.
LEMMA PersistInvStep == PersistInv /\ [Next]_vars => PersistInv'
<1> SUFFICES ASSUME PersistInv, [Next]_vars
             PROVE  PersistInv'
  OBVIOUS
<1>1. CASE (\E s \in Sessions : LookUp(s)) \/ ReadFiles \/ Abandon
  BY <1>1, LookUpKeeps
<1>2. CASE Insert
  BY <1>2, InsertKeeps
<1>3. CASE SaveAsync
  BY <1>3, SaveAsyncKeeps
<1>4. CASE Answered \/ Interrupted
  BY <1>4, RunEndsKeeps
<1>5. CASE TakeKey \/ StartFlush \/ \E s \in Sessions : FlushNext(s)
  BY <1>5, TakingKeeps
<1>6. ASSUME NEW w \in Writers, Persist(w)
      PROVE  PersistInv'
  BY <1>6, PersistKeeps
<1>7. CASE Crash
  BY <1>7, CrashKeeps
<1>8. CASE UNCHANGED vars
  <2>1. /\ UNCHANGED <<cache, file, notesFile, queue, main, writer, todo, written>>
        /\ Cached' = Cached
    BY <1>8 DEF vars, Cached
  <2>2. KeptIsTold' /\ MainIsTold' /\ MissIsAlone' /\ QueueTyped'
    BY <2>1 DEF PersistInv, KeptIsTold, MainIsTold, MissIsAlone, QueueTyped
  <2>3. WritersAreTold' /\ CacheIsNewest' /\ FlushIsFresh'
    BY <2>1 DEF PersistInv, WritersAreTold, CacheIsNewest, FlushIsFresh
  <2> QED
    BY <2>2, <2>3 DEF PersistInv
<1> QED
  BY <1>1, <1>2, <1>3, <1>4, <1>5, <1>6, <1>7, <1>8 DEF Next, Agent, Flush

-----------------------------------------------------------------------------
(* What follows for every behaviour.                                        *)

\* The inductive invariant of the cache, the files and the writers, for any number
\* of sessions and messages, any capacity of the queue, any max_history.
THEOREM PersistInvariant == Spec => []PersistInv
  BY PersistInvInit, PersistInvStep, PTL DEF Spec

\* The variables have their types: the queue stays within its capacity and no
\* session in memory outgrows max_history, for every number of sessions.
THEOREM SessionsTyped == Spec => []TypeOK
<1>1. PersistInv => TypeOK
  <2> SUFFICES ASSUME PersistInv
               PROVE  TypeOK
    OBVIOUS
  <2> USE DEF PersistInv
  <2>1. notesFile \in [Sessions -> 0 .. MaxMessages]
    <3>1. \A s \in Sessions : notesFile[s] \in 0 .. MaxMessages
      BY ConstantsTyped DEF KeptIsTold
    <3> QED
      BY <3>1 DEF KeptIsTold
  <2>2. \A s \in Cached : Len(cache[s].log) <= MaxHistory
    BY DEF KeptIsTold, Cached, Stored
  <2>3. \A w \in Writers : /\ writer[w].pc \in {"idle", "store", "notes"}
                           /\ writer[w].key \in Sessions \cup {NoKey}
                           /\ writer[w].snap \in Session
    BY DEF WritersAreTold
  <2> QED
    BY <2>1, <2>2, <2>3 DEF TypeOK, KeptIsTold, MainIsTold, QueueTyped, MainPcs
<1> QED
  BY <1>1, PersistInvariant, PTL

\* Neither a file nor a write under way ever has a message that the cached
\* session has not, whatever the three writers do and wherever a crash falls.
THEOREM CacheLeads == Spec => []CacheIsNewest
<1>1. PersistInv => CacheIsNewest
  BY DEF PersistInv
<1> QED
  BY <1>1, PersistInvariant, PTL

\* What flush_all is persisting nobody changes in memory meanwhile.
THEOREM FlushesAreFresh == Spec => []FlushIsFresh
<1>1. PersistInv => FlushIsFresh
  BY DEF PersistInv
<1> QED
  BY <1>1, PersistInvariant, PTL

\* Messages stay in the order they were written, none twice, over truncation,
\* torn files, crashes and reloads.
THEOREM LogsStayInOrder == Spec => []LogsInOrder
<1>1. PersistInv => LogsInOrder
  <2> SUFFICES ASSUME PersistInv, NEW s \in Sessions, NEW log \in {file[s].log, cache[s].log},
                      NEW i \in DOMAIN log, NEW j \in DOMAIN log, i < j
               PROVE  log[i] < log[j]
    BY DEF LogsInOrder
  <2>1. ASSUME NEW sess \in Stored(written[s]) \cup {Absent}, log = sess.log
        PROVE  log[i] < log[j]
    <3>1. CASE sess = Absent
      BY <2>1, <3>1 DEF Absent
    <3>2. CASE sess \in Stored(written[s])
      <4>1. log \in Seq(1 .. MaxMessages) /\ Ordered(log)
        BY <2>1, <3>2 DEF Stored, Told, Session
      <4>2. DOMAIN log = 1 .. Len(log)
        BY <4>1
      <4> QED
        BY <4>1, <4>2 DEF Ordered
    <3> QED
      BY <2>1, <3>1, <3>2
  <2> QED
    BY <2>1 DEF PersistInv, KeptIsTold
<1> QED
  BY <1>1, PersistInvariant, PTL
=============================================================================
