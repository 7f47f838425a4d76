-------------------------- MODULE Protection_proofs --------------------------
(***************************************************************************)
(* Proofs about Protection for every policy, every converter constant,     *)
(* every schedule of disturbances and every number of samples; and, in the *)
(* second half, about WatchedRun for every declaration, every applicability*)
(* policy and every load.                                                  *)
(*                                                                         *)
(* The argument: what a sample does is a function (Answer) of the state    *)
(* before it, every state is the one the log gives for its sample, and so  *)
(* a resumed run repeats the log.  The other properties speak of the log   *)
(* alone and are proved as it grows.  Of the envelope: the plugin gives an *)
(* account (Account) of the samples it has seen, and a phase that finds    *)
(* something to stop for is one that leaves a blocking finding behind.     *)
(***************************************************************************)
EXTENDS WatchedRun, TLAPS, SequenceTheorems, FiniteSetTheorems, WellFoundedInduction

(***************************************************************************)
(* One sample as a function of the state before it.                        *)
(***************************************************************************)
ReadV(w, s) == IF w.meets[s.n + 1] = "dump" THEN Nominal + 2 ELSE s.vout
ReadI(w, s) == IF w.meets[s.n + 1] = "short" THEN 2 ELSE 1
Over(w, s) == \/ OVP(w) > 0 /\ ReadV(w, s) >= OVP(w)
              \/ OCP(w) > 0 /\ ReadI(w, s) >= OCP(w)
Arms(w, s) == s.started \/ (UVLO(w) > 0 /\ ReadV(w, s) >= UVLO(w))
Faulty(w, s) ==
  \/ Over(w, s)
  \/ UVLO(w) > 0 /\ (Arms(w, s) \/ ~Masked(w)) /\ ReadV(w, s) <= UVLO(w)

Kind(w, s) ==
  IF s.state = "latched" THEN "hold"
  ELSE IF s.state = "tripped"
       THEN IF s.elapsed + Period < Hiccup(w) THEN "hold" ELSE "retry"
       ELSE IF Faulty(w, s) THEN "trip" ELSE "run"

StateAfter(w, s) ==
  IF Kind(w, s) = "hold" THEN s.state
  ELSE IF Kind(w, s) = "trip"
       THEN IF Hiccup(w) = 0 THEN "latched" ELSE "tripped"
       ELSE "normal"

ElapsedAfter(w, s) ==
  IF Kind(w, s) \in {"trip", "retry"} THEN 0
  ELSE IF s.state = "tripped" THEN s.elapsed + Period ELSE s.elapsed

VoutAfter(w, s) ==
  IF w.meets[s.n + 1] = "short" THEN 0
  ELSE IF Kind(w, s) \in {"run", "retry"}
       THEN IF s.vout + Rise > Nominal THEN Nominal ELSE s.vout + Rise
       ELSE IF s.vout > Fall THEN s.vout - Fall ELSE 0

Answer(w, s) ==
  [kind |-> Kind(w, s), over |-> Over(w, s),
   after |-> [state |-> StateAfter(w, s), elapsed |-> ElapsedAfter(w, s),
              trips |-> IF Kind(w, s) = "trip" THEN s.trips + 1 ELSE s.trips,
              started |-> IF s.state = "normal" THEN Arms(w, s) ELSE s.started,
              inner |-> IF Kind(w, s) \in {"run", "retry"} THEN s.inner + 1
                        ELSE s.inner,
              vout |-> VoutAfter(w, s), n |-> s.n + 1]]

(***************************************************************************)
(* The invariant.                                                          *)
(***************************************************************************)
\* the state after sample k
After(l, k) == IF k = 0 THEN NewWrapper ELSE l[k].after

Timed(w, s) == s.elapsed # 0 => s.state = "tripped" /\ s.elapsed < Hiccup(w)

Traced ==
  /\ Len(log) <= Samples /\ n <= Len(log) /\ saved.n <= n
  /\ Snapshot = After(log, n) /\ saved = After(log, saved.n)
  /\ \A k \in 1..Len(log) : /\ log[k] = Answer(world, After(log, k - 1))
                            /\ log[k].after.n = k
  /\ \A k \in 0..Len(log) : Timed(world, After(log, k))

\* where the log stands in a hold that began with the trip at j
Held ==
  \A j, k \in 1..Len(log) :
    j <= k /\ log[j].kind = "trip" /\ (\A i \in j + 1..k : log[i].kind = "hold")
    => IF Hiccup(world) = 0 THEN log[k].after.state = "latched"
       ELSE log[k].after.state = "tripped"
            /\ log[k].after.elapsed = (k - j) * Period

Latching ==
  Hiccup(world) = 0 => \A j, k \in 1..Len(log) :
                  j <= k /\ log[j].kind = "trip" => log[k].after.state = "latched"

ProtectionInv ==
  TypeOK /\ Traced /\ Held /\ Latching /\ FaultIsDrivenForOneWindowAtMost
  /\ HoldIsNeverCut /\ LatchIsForever
-----------------------------------------------------------------------------
(***************************************************************************)
(* A sample is its answer.                                                 *)
(***************************************************************************)
Observes == Latched \/ Hold \/ Retry \/ Trip \/ Delegate

\* What a sample does to everything it touches, in terms of the answer.
Answers(e) ==
  /\ n < Samples
  /\ Snapshot' = e.after
  /\ \/ n + 1 > Len(log) /\ log' = Append(log, e) /\ replayed' = replayed
     \/ n + 1 <= Len(log) /\ log' = log /\ replayed' = e
  /\ world' = world /\ saved' = saved

\* The policy of a world is one the constructor accepts.
LEMMA PolicyType ==
  ASSUME NEW w \in World
  PROVE  /\ Hiccup(w) \in Nat /\ OVP(w) \in Nat /\ OCP(w) \in Nat
         /\ UVLO(w) \in Nat /\ Masked(w) \in BOOLEAN
<1>1. w.policy \in Policy
  BY PolicyAssumption DEF World
<1> QED
  BY <1>1 DEF Policy, Hiccup, OVP, OCP, UVLO, Masked

\* The state a sample starts from is well formed.
LEMMA SnapshotType ==
  ASSUME TypeOK
  PROVE  /\ Snapshot \in Snapshots
         /\ Snapshot.state = state /\ Snapshot.elapsed = elapsed
         /\ Snapshot.trips = trips /\ Snapshot.started = started
         /\ Snapshot.inner = inner /\ Snapshot.vout = vout /\ Snapshot.n = n
BY DEF TypeOK, Snapshot, Snapshots

\* The limits the code looks at are those of the function.
LEMMA SameLimits ==
  ASSUME TypeOK
  PROVE  /\ Over(world, Snapshot) = OverLimit
         /\ Arms(world, Snapshot) = Armed
         /\ Faulty(world, Snapshot) = Fault(Armed)
<1>1. ReadV(world, Snapshot) = Voltage /\ ReadI(world, Snapshot) = Current
  BY SnapshotType DEF ReadV, ReadI, Voltage, Current, Sample
<1>2. Over(world, Snapshot) = OverLimit
  BY <1>1 DEF Over, OverLimit
<1>3. Arms(world, Snapshot) = Armed
  BY <1>1, SnapshotType DEF Arms, Armed
<1> QED
  BY <1>1, <1>2, <1>3 DEF Faulty, Fault

\* Every branch of observe is the answer of the function.
LEMMA SampleIsAnswer ==
  ASSUME TypeOK, Observes
  PROVE  Answers(Answer(world, Snapshot))
<1> USE PolicyAssumption, ConverterAssumption
<1>1. PICK kind \in Kinds :
        /\ kind = Kind(world, Snapshot)
        /\ Done(kind)
        /\ state' = StateAfter(world, Snapshot) /\ elapsed' = ElapsedAfter(world, Snapshot)
        /\ trips' = (IF Kind(world, Snapshot) = "trip" THEN trips + 1 ELSE trips)
        /\ started' = (IF state = "normal" THEN Arms(world, Snapshot) ELSE started)
        /\ inner' = (IF Kind(world, Snapshot) \in {"run", "retry"} THEN inner + 1
                     ELSE inner)
        /\ n < Samples
  <2>1. CASE Latched
    BY <2>1, SnapshotType DEF Latched, Kinds, Kind, StateAfter, ElapsedAfter
  <2>2. CASE Hold
    BY <2>2, SnapshotType DEF Hold, Kinds, Kind, StateAfter, ElapsedAfter
  <2>3. CASE Retry
    <3>1. Hiccup(world) \in Nat /\ elapsed \in Nat
      BY PolicyType DEF TypeOK
    <3> QED
      BY <2>3, <3>1, SnapshotType, SMT
         DEF Retry, Kinds, Kind, StateAfter, ElapsedAfter
  <2>4. CASE Trip
    BY <2>4, SnapshotType, SameLimits
       DEF Trip, Kinds, Kind, StateAfter, ElapsedAfter
  <2>5. CASE Delegate
    BY <2>5, SnapshotType, SameLimits
       DEF Delegate, Kinds, Kind, StateAfter, ElapsedAfter
  <2> QED
    BY <2>1, <2>2, <2>3, <2>4, <2>5, Observes DEF Observes
<1>2. vout' = VoutAfter(world, Snapshot)
  BY <1>1, SnapshotType DEF Done, Converter, VoutAfter, Sample, Kinds
<1>3. n' = n + 1 /\ world' = world /\ saved' = saved
  BY <1>1 DEF Done, Sample
<1>4. Snapshot' = Answer(world, Snapshot).after
  BY <1>1, <1>2, <1>3, SnapshotType DEF Snapshot, Answer
<1>5. [kind |-> kind, over |-> OverLimit, after |-> Snapshot'] = Answer(world, Snapshot)
  BY <1>1, <1>4, SameLimits DEF Answer
<1>6. \/ n + 1 > Len(log) /\ log' = Append(log, Answer(world, Snapshot))
         /\ replayed' = replayed
      \/ n + 1 <= Len(log) /\ log' = log /\ replayed' = Answer(world, Snapshot)
  <2> log \in Seq(Entry) /\ n \in Int
    BY DEF TypeOK
  <2>1. Len(log) \in Nat
    BY LenProperties
  <2>2. CASE n + 1 > Len(log)
    BY <1>1, <1>5, <2>2 DEF Done, Sample
  <2>3. CASE ~(n + 1 > Len(log))
    BY <1>1, <1>5, <2>1, <2>3 DEF Done, Sample
  <2> QED
    BY <2>2, <2>3
<1> QED
  BY <1>1, <1>3, <1>4, <1>6 DEF Answers
-----------------------------------------------------------------------------
(***************************************************************************)
(* What an answer is.                                                      *)
(***************************************************************************)
\* An answer is a log entry, and its timer runs only in a hold.
LEMMA AnswerType ==
  ASSUME NEW w \in World, NEW s \in Snapshots, s.n < Samples, Timed(w, s)
  PROVE  /\ Answer(w, s) \in Entry
         /\ Timed(w, Answer(w, s).after)
         /\ Answer(w, s).after.n = s.n + 1
<1> USE PolicyAssumption, ConverterAssumption
<1>0. /\ s.state \in States /\ s.elapsed \in Nat /\ s.trips \in Nat
      /\ s.started \in BOOLEAN /\ s.inner \in Nat /\ s.vout \in Nat
      /\ s.n \in 0..Samples
  BY DEF Snapshots
<1>1. Kind(w, s) \in Kinds
  BY DEF Kind, Kinds
<1>2. StateAfter(w, s) \in States
  BY <1>0 DEF StateAfter, States
<1>3. ElapsedAfter(w, s) \in Nat
  BY <1>0 DEF ElapsedAfter
<1>4. VoutAfter(w, s) \in Nat
  BY <1>0 DEF VoutAfter
<1>5. Over(w, s) \in BOOLEAN /\ Arms(w, s) \in BOOLEAN
  BY <1>0 DEF Over, Arms
<1>6. s.n + 1 \in 0..Samples
  BY <1>0
<1>7. (IF Kind(w, s) = "trip" THEN s.trips + 1 ELSE s.trips) \in Nat
  BY <1>0
<1>8. (IF Kind(w, s) \in {"run", "retry"} THEN s.inner + 1 ELSE s.inner) \in Nat
  BY <1>0
<1>9. (IF s.state = "normal" THEN Arms(w, s) ELSE s.started) \in BOOLEAN
  BY <1>0, <1>5
<1>10. Answer(w, s).after \in Snapshots
  BY <1>2, <1>3, <1>4, <1>6, <1>7, <1>8, <1>9 DEF Answer, Snapshots
<1>11. Answer(w, s) \in Entry
  BY <1>1, <1>5, <1>10 DEF Answer, Entry
<1>12. Timed(w, Answer(w, s).after)
  BY <1>0, SMT DEF Timed, Answer, ElapsedAfter, StateAfter, Kind, States
<1> QED
  BY <1>11, <1>12 DEF Answer

\* The kinds of answer: what the state must have been, and what it is then.
LEMMA AnswerKinds ==
  ASSUME NEW w \in World, NEW s \in Snapshots, s.n < Samples, Timed(w, s),
         NEW a, a = Answer(w, s)
  PROVE  /\ a.kind = "run" => s.state = "normal" /\ ~a.over
         /\ a.kind = "trip" => /\ s.state = "normal"
                               /\ a.after.state = (IF Hiccup(w) = 0 THEN "latched"
                                                   ELSE "tripped")
                               /\ a.after.elapsed = 0
         /\ a.kind = "hold" =>
              /\ s.state # "normal" /\ a.after.state = s.state
              /\ s.state = "tripped" => /\ s.elapsed + Period < Hiccup(w)
                                        /\ a.after.elapsed = s.elapsed + Period
         /\ a.kind = "retry" => /\ s.state = "tripped"
                                /\ s.elapsed + Period >= Hiccup(w)
                                /\ a.after.state = "normal"
         /\ a.over /\ s.state = "normal" => a.kind = "trip"
         /\ s.state = "latched" => a.kind = "hold"
         /\ s.state = "tripped" => a.kind \in {"hold", "retry"}
<1>0. s.state \in States /\ s.elapsed \in Nat
  BY DEF Snapshots
<1>1. /\ a.kind = Kind(w, s) /\ a.over = Over(w, s)
      /\ a.after.state = StateAfter(w, s) /\ a.after.elapsed = ElapsedAfter(w, s)
  BY DEF Answer
<1>2. Over(w, s) => Faulty(w, s)
  BY DEF Faulty
<1>3. Hiccup(w) \in Nat
  BY PolicyType
<1> QED
  BY <1>0, <1>1, <1>2, <1>3, PolicyAssumption
     DEF Kind, StateAfter, ElapsedAfter, States

-----------------------------------------------------------------------------
(***************************************************************************)
(* The invariant is inductive.                                             *)
(***************************************************************************)
LEMMA InitInv == Init => ProtectionInv
<1> SUFFICES ASSUME Init PROVE ProtectionInv
  OBVIOUS
<1> USE PolicyAssumption, ConverterAssumption
<1>1. NewWrapper \in Snapshots
  BY DEF NewWrapper, Snapshots, States
<1>2. NoEntry \in Entry
  BY <1>1 DEF NoEntry, Entry, Kinds
<1>3. log = <<>> /\ Len(log) = 0 /\ log \in Seq(Entry)
  BY DEF Init
<1>4. world \in World
  <2>1. PICK policy \in Policies, some \in [Disturbed -> Disturbances] :
          world = [policy |-> policy,
                   meets |-> [k \in 1..Samples |->
                                IF k \in Disturbed THEN some[k] ELSE "none"]]
    BY DEF Init
  <2>2. [k \in 1..Samples |-> IF k \in Disturbed THEN some[k] ELSE "none"]
          \in [1..Samples -> Disturbances]
    <3>1. "none" \in Disturbances
      BY DEF Disturbances
    <3> QED
      BY <3>1
  <2> QED
    BY <2>1, <2>2 DEF World
<1>5. TypeOK
  <2>1. /\ state \in States /\ elapsed \in Nat /\ trips \in Nat
        /\ started \in BOOLEAN /\ inner \in Nat /\ vout \in Nat
        /\ n \in 0..Samples /\ elapsed = 0
    <3>1. /\ state = "normal" /\ elapsed = 0 /\ trips = 0 /\ started = FALSE
          /\ inner = 0 /\ vout = 0 /\ n = 0
      BY DEF Init
    <3>2. started \in BOOLEAN
      BY <3>1
    <3> QED
      BY <3>1, <3>2, SMT DEF States
  <2>2. replayed \in Entry /\ saved \in Snapshots
    BY <1>1, <1>2 DEF Init
  <2> QED
    BY <1>3, <1>4, <2>1, <2>2 DEF TypeOK
<1>6. Traced
  <2>1. Snapshot = NewWrapper /\ saved = NewWrapper
    BY DEF Init, Snapshot, NewWrapper
  <2>2. n = 0 /\ NewWrapper.n = 0 /\ After(log, 0) = NewWrapper
    BY DEF Init, NewWrapper, After
  <2>3. Timed(world, After(log, 0))
    BY <2>2 DEF NewWrapper, Timed
  <2>4. saved = After(log, saved.n) /\ Snapshot = After(log, n) /\ saved.n = 0
    BY <2>1, <2>2
  <2> QED
    BY <1>3, <2>2, <2>3, <2>4 DEF Traced
<1> QED
  BY <1>3, <1>5, <1>6
     DEF ProtectionInv, Held, Latching, FaultIsDrivenForOneWindowAtMost,
         HoldIsNeverCut, LatchIsForever

\* The state after every sample of the log is well formed.
LEMMA AfterType ==
  ASSUME ProtectionInv, NEW k \in 0..Len(log)
  PROVE  /\ After(log, k) \in Snapshots /\ After(log, k).n = k
         /\ Timed(world, After(log, k))
         /\ k > 0 => After(log, k) = log[k].after
<1> USE PolicyAssumption, ConverterAssumption
<1>1. NewWrapper \in Snapshots
  BY DEF NewWrapper, Snapshots, States
<1>2. CASE k = 0
  BY <1>1, <1>2 DEF After, NewWrapper, ProtectionInv, Traced
<1>3. CASE k > 0
  <2>0. log \in Seq(Entry) /\ k \in 1..Len(log)
    BY <1>3 DEF ProtectionInv, TypeOK
  <2>1. log[k] \in Entry
    BY <2>0, ElementOfSeq
  <2> QED
    BY <1>3, <2>0, <2>1 DEF After, Entry, ProtectionInv, Traced
<1> QED
  BY <1>2, <1>3

\* The log grows by an answer: every property of it is preserved.
LEMMA NewSample ==
  ASSUME ProtectionInv, Answers(Answer(world, Snapshot)), n = Len(log)
  PROVE  ProtectionInv'
<1> DEFINE a == Answer(world, Snapshot)
           m == Len(log)
<1> USE PolicyAssumption, ConverterAssumption
<1>0. /\ TypeOK /\ Traced /\ log \in Seq(Entry) /\ m \in Nat /\ m < Samples
      /\ saved.n \in Nat /\ saved.n <= m
  BY LenProperties DEF ProtectionInv, Traced, TypeOK, Answers, Snapshots
<1> world \in World /\ Hiccup(world) \in Nat
  BY PolicyType DEF ProtectionInv, TypeOK
<1>1. Snapshot \in Snapshots /\ Snapshot.n = m /\ Timed(world, Snapshot)
      /\ Snapshot = After(log, m)
  BY <1>0, SnapshotType DEF Traced
<1>2. a \in Entry /\ Timed(world, a.after) /\ a.after.n = m + 1
  BY <1>0, <1>1, AnswerType
<1> HIDE DEF a
<1>3. /\ log' = Append(log, a) /\ replayed' = replayed /\ Snapshot' = a.after
      /\ world' = world /\ saved' = saved
  BY <1>0 DEF Answers, a
<1> Hiccup(world)' = Hiccup(world) /\ Hiccup(world') = Hiccup(world)
  BY <1>3
<1>4. /\ log' \in Seq(Entry) /\ Len(log') = m + 1 /\ log'[m + 1] = a
      /\ \A k \in 1..m : log'[k] = log[k]
  BY <1>0, <1>2, <1>3, AppendProperties
<1>5. /\ After(log', m + 1) = a.after
      /\ \A k \in 0..m : After(log', k) = After(log, k)
  BY <1>0, <1>4 DEF After
<1>6. /\ state' = a.after.state /\ elapsed' = a.after.elapsed
      /\ trips' = a.after.trips /\ started' = a.after.started
      /\ inner' = a.after.inner /\ vout' = a.after.vout /\ n' = a.after.n
  BY <1>3 DEF Snapshot
<1>7. TypeOK'
  <2>1. /\ a.after \in Snapshots /\ a.after.state \in States
        /\ a.after.elapsed \in Nat /\ a.after.trips \in Nat
        /\ a.after.started \in BOOLEAN /\ a.after.inner \in Nat
        /\ a.after.vout \in Nat /\ a.after.n \in 0..Samples
    BY <1>2 DEF Entry, Snapshots
  <2>2. a.after.elapsed # 0 => a.after.state = "tripped" /\ a.after.elapsed < Hiccup(world)
    BY <1>2 DEF Timed
  <2>3. /\ world \in World /\ replayed \in Entry
        /\ saved \in Snapshots
    BY <1>0 DEF TypeOK
  <2> QED
    BY <1>3, <1>4, <1>6, <2>1, <2>2, <2>3 DEF TypeOK
<1>8. Traced'
  <2>1. Len(log') <= Samples /\ n' = m + 1
    BY <1>0, <1>2, <1>4, <1>6
  <2>2. Snapshot' = After(log', n') /\ saved' = After(log', saved'.n)
    BY <1>0, <1>3, <1>5, <2>1 DEF Traced
  <2>3. \A k \in 1..m + 1 : /\ log'[k] = Answer(world, After(log', k - 1))
                            /\ log'[k].after.n = k
    <3> TAKE k \in 1..m + 1
    <3>1. CASE k \in 1..m
      BY <1>0, <1>3, <1>4, <1>5, <3>1 DEF Traced
    <3>2. CASE k = m + 1
      BY <1>0, <1>1, <1>2, <1>3, <1>4, <1>5, <3>2 DEF a
    <3> QED
      BY <1>0, <3>1, <3>2
  <2>4. \A k \in 0..m + 1 : Timed(world, After(log', k))
    BY <1>0, <1>2, <1>5 DEF Traced, Timed
  <2> QED
    BY <1>0, <1>3, <1>4, <2>1, <2>2, <2>3, <2>4 DEF Traced
<1>9. /\ a.kind = "run" => Snapshot.state = "normal" /\ ~a.over
      /\ a.kind = "trip" => /\ a.after.state = (IF Hiccup(world) = 0 THEN "latched"
                                               ELSE "tripped")
                            /\ a.after.elapsed = 0
      /\ a.kind = "hold" =>
           /\ a.after.state = Snapshot.state
           /\ Snapshot.state = "tripped" =>
                a.after.elapsed = Snapshot.elapsed + Period
      /\ a.kind = "retry" => Snapshot.elapsed + Period >= Hiccup(world)
      /\ a.over /\ Snapshot.state = "normal" => a.kind = "trip"
      /\ Snapshot.state = "latched" => a.kind = "hold"
      /\ Snapshot.state = "tripped" => a.kind \in {"hold", "retry"}
  BY <1>0, <1>1, AnswerKinds DEF a
<1>10. m > 0 => Snapshot = log[m].after
  BY <1>0, <1>1 DEF After
<1>11. ASSUME NEW j \in 1..m, log[j].kind = "trip",
              \A i \in j + 1..m : log[i].kind = "hold"
       PROVE  IF Hiccup(world) = 0 THEN Snapshot.state = "latched"
              ELSE Snapshot.state = "tripped" /\ Snapshot.elapsed = (m - j) * Period
  BY <1>0, <1>10, <1>11 DEF ProtectionInv, Held
<1>12. Held'
  <2> SUFFICES ASSUME NEW j \in 1..m + 1, NEW k \in 1..m + 1, j <= k,
                      log'[j].kind = "trip",
                      \A i \in j + 1..k : log'[i].kind = "hold"
               PROVE  IF Hiccup(world) = 0 THEN log'[k].after.state = "latched"
                      ELSE log'[k].after.state = "tripped"
                           /\ log'[k].after.elapsed = (k - j) * Period
    BY <1>4 DEF Held
  <2>1. CASE k <= m
    <3>1. j \in 1..m /\ k \in 1..m /\ \A i \in j + 1..k : i \in 1..m
      BY <1>0, <2>1
    <3> QED
      BY <1>4, <3>1 DEF ProtectionInv, Held
  <2>2. CASE k = m + 1 /\ j = m + 1
    BY <1>0, <1>4, <1>9, <2>2
  <2>3. CASE k = m + 1 /\ j <= m
    <3>1. /\ j \in 1..m /\ k \in j + 1..k /\ log[j].kind = "trip"
          /\ \A i \in j + 1..m : i \in j + 1..k /\ log'[i] = log[i]
      BY <1>0, <1>4, <2>3
    <3>2. a.kind = "hold" /\ \A i \in j + 1..m : log[i].kind = "hold"
      BY <1>4, <2>3, <3>1
    <3>3. (m + 1 - j) * Period = (m - j) * Period + Period
      BY <1>0
    <3> QED
      BY <1>4, <1>9, <1>11, <2>3, <3>1, <3>2, <3>3
  <2> QED
    BY <1>0, <2>1, <2>2, <2>3
<1>13. Latching'
  <2> SUFFICES ASSUME Hiccup(world) = 0, NEW j \in 1..m + 1, NEW k \in 1..m + 1,
                      j <= k, log'[j].kind = "trip"
               PROVE  log'[k].after.state = "latched"
    BY <1>4 DEF Latching
  <2>1. CASE k <= m
    <3>1. j \in 1..m /\ k \in 1..m
      BY <1>0, <2>1
    <3> QED
      BY <1>4, <3>1 DEF ProtectionInv, Latching
  <2>2. CASE k = m + 1 /\ j = m + 1
    BY <1>4, <1>9, <2>2
  <2>3. CASE k = m + 1 /\ j <= m
    <3>1. j \in 1..m /\ m \in 1..m /\ log[j].kind = "trip"
      BY <1>0, <1>4, <2>3
    <3>2. Snapshot.state = "latched"
      BY <1>10, <3>1 DEF ProtectionInv, Latching
    <3> QED
      BY <1>4, <1>9, <2>3, <3>2
  <2> QED
    BY <1>0, <2>1, <2>2, <2>3
<1>14. LatchIsForever'
  <2> SUFFICES ASSUME Hiccup(world) = 0, NEW j \in 1..m + 1, NEW k \in 1..m + 1,
                      j < k, log'[j].kind = "trip"
               PROVE  log'[k].kind = "hold"
    BY <1>4 DEF LatchIsForever
  <2>1. j \in 1..m /\ m \in 1..m /\ log[j].kind = "trip"
    BY <1>0, <1>4
  <2>2. CASE k <= m
    <3>1. k \in 1..m
      BY <1>0, <2>2
    <3> QED
      BY <1>4, <2>1, <3>1 DEF ProtectionInv, LatchIsForever
  <2>3. CASE k = m + 1
    <3>1. Snapshot.state = "latched"
      BY <1>10, <2>1 DEF ProtectionInv, Latching
    <3> QED
      BY <1>4, <1>9, <2>3, <3>1
  <2> QED
    BY <1>0, <2>2, <2>3
<1>15. HoldIsNeverCut'
  <2> SUFFICES ASSUME NEW j \in 1..m + 1, NEW k \in 1..m + 1, j < k,
                      log'[j].kind = "trip",
                      \A i \in j + 1..k - 1 : log'[i].kind = "hold"
               PROVE  /\ log'[k].kind = "retry" =>
                           /\ (k - j) * Period >= Hiccup(world)
                           /\ (k - j - 1) * Period < Hiccup(world)
                      /\ log'[k].kind # "run"
    BY <1>4 DEF HoldIsNeverCut
  <2>1. /\ j \in 1..m /\ m \in 1..m /\ log[j].kind = "trip"
        /\ \A i \in j + 1..k - 1 : i \in 1..m /\ log'[i] = log[i]
    BY <1>0, <1>4
  <2>2. \A i \in j + 1..k - 1 : log[i].kind = "hold"
    BY <2>1
  <2>3. CASE k <= m
    <3>1. k \in 1..m
      BY <1>0, <2>3
    <3> QED
      BY <1>4, <2>1, <2>2, <3>1 DEF ProtectionInv, HoldIsNeverCut
  <2>4. CASE k = m + 1
    <3>1. \A i \in j + 1..m : log[i].kind = "hold"
      BY <1>0, <2>2, <2>4
    <3>2. CASE Hiccup(world) = 0
      BY <1>4, <1>9, <1>11, <2>1, <2>4, <3>1, <3>2
    <3>3. CASE Hiccup(world) # 0
      <4>1. Snapshot.state = "tripped" /\ Snapshot.elapsed = (m - j) * Period
        BY <1>11, <2>1, <3>1, <3>3
      <4>2. (m - j) * Period < Hiccup(world)
        BY <1>1, <3>3, <4>1 DEF Timed
      <4>3. (m + 1 - j) * Period = (m - j) * Period + Period
        BY <1>0
      <4>4. k - j = m + 1 - j /\ k - j - 1 = m - j
        BY <1>0, <2>4
      <4> QED
        BY <1>4, <1>9, <2>4, <4>1, <4>2, <4>3, <4>4
    <3> QED
      BY <3>2, <3>3
  <2> QED
    BY <1>0, <2>3, <2>4
<1>16. FaultIsDrivenForOneWindowAtMost'
  <2> SUFFICES ASSUME NEW k \in 1..m + 1, log'[k].over,
                      log'[k].kind \in {"run", "retry"}
               PROVE  /\ log'[k].kind = "retry"
                      /\ k < m + 1 /\ log'[k + 1].over => log'[k + 1].kind = "trip"
    BY <1>4 DEF FaultIsDrivenForOneWindowAtMost, Driven
  <2>1. CASE k < m
    <3>1. k \in 1..m /\ k + 1 \in 1..m
      BY <1>0, <2>1
    <3> QED
      BY <1>4, <2>1, <3>1
         DEF ProtectionInv, FaultIsDrivenForOneWindowAtMost, Driven
  <2>2. CASE k = m
    <3>1. m \in 1..m /\ log[m].kind = "retry"
      BY <1>0, <1>4, <2>2 DEF ProtectionInv, FaultIsDrivenForOneWindowAtMost, Driven
    <3>2. m - 1 \in 0..m /\ log[m] = Answer(world, After(log, m - 1))
      BY <1>0, <3>1 DEF Traced
    <3>3. log[m].after.state = "normal"
      BY <1>0, <3>1, <3>2, AfterType, AnswerKinds
    <3> QED
      BY <1>4, <1>9, <1>10, <2>2, <3>1, <3>3
  <2>3. CASE k = m + 1
    BY <1>4, <1>9, <2>3
  <2> QED
    BY <1>0, <2>1, <2>2, <2>3
<1> QED
  BY <1>7, <1>8, <1>12, <1>13, <1>14, <1>15, <1>16 DEF ProtectionInv

\* As long as the log and the world stay, so does what is said of them.
LEMMA LogStays ==
  ASSUME ProtectionInv, log' = log, world' = world,
         n' <= Len(log), saved'.n <= n',
         Snapshot' = After(log, n'), saved' = After(log, saved'.n), TypeOK'
  PROVE  ProtectionInv'
<1>1. Traced'
  BY DEF ProtectionInv, Traced
<1>2. Held' /\ Latching' /\ LatchIsForever' /\ HoldIsNeverCut'
  BY DEF ProtectionInv, Held, Latching, LatchIsForever, HoldIsNeverCut
<1>3. FaultIsDrivenForOneWindowAtMost'
  BY DEF ProtectionInv, FaultIsDrivenForOneWindowAtMost, Driven
<1> QED
  BY <1>1, <1>2, <1>3 DEF ProtectionInv

\* A well-formed state makes the variables well typed.
LEMMA StateType ==
  ASSUME TypeOK, NEW s \in Snapshots, Timed(world, s), Snapshot' = s,
         world' = world, log' = log, replayed' \in Entry, saved' \in Snapshots
  PROVE  TypeOK'
<1>1. /\ s.state \in States /\ s.elapsed \in Nat /\ s.trips \in Nat
      /\ s.started \in BOOLEAN /\ s.inner \in Nat /\ s.vout \in Nat
      /\ s.n \in 0..Samples
  BY DEF Snapshots
<1>2. /\ state' = s.state /\ elapsed' = s.elapsed /\ trips' = s.trips
      /\ started' = s.started /\ inner' = s.inner /\ vout' = s.vout /\ n' = s.n
  BY DEF Snapshot
<1>3. s.elapsed # 0 => s.state = "tripped" /\ s.elapsed < Hiccup(world)
  BY DEF Timed
<1>4. world \in World /\ log \in Seq(Entry)
  BY DEF TypeOK
<1> QED
  BY <1>1, <1>2, <1>3, <1>4 DEF TypeOK

\* A resumed run repeats the log.
LEMMA OldSample ==
  ASSUME ProtectionInv, Answers(Answer(world, Snapshot)), n < Len(log)
  PROVE  /\ ProtectionInv'
         /\ n' = n + 1 /\ replayed' = log[n'] /\ log' = log
<1>0. /\ TypeOK /\ Traced /\ log \in Seq(Entry) /\ Len(log) \in Nat
      /\ n \in Nat /\ Snapshot.n = n /\ saved \in Snapshots
  <2>1. TypeOK /\ Traced
    BY DEF ProtectionInv
  <2>2. log \in Seq(Entry) /\ n \in Nat /\ saved \in Snapshots
    BY <2>1 DEF TypeOK
  <2> QED
    BY <2>1, <2>2, LenProperties, SnapshotType
<1>1. n + 1 \in 1..Len(log) /\ n + 1 \in 0..Len(log) /\ n + 1 - 1 = n
  BY <1>0
<1>2. log[n + 1] = Answer(world, Snapshot) /\ log[n + 1].after.n = n + 1
  <2>1. log[n + 1] = Answer(world, After(log, n))
    BY <1>0, <1>1 DEF Traced
  <2>2. Snapshot = After(log, n)
    BY <1>0 DEF Traced
  <2> QED
    BY <1>0, <1>1, <2>1, <2>2 DEF Traced
<1>3. /\ log' = log /\ replayed' = log[n + 1] /\ Snapshot' = log[n + 1].after
      /\ world' = world /\ saved' = saved
  BY <1>0, <1>1, <1>2 DEF Answers
<1>4. Snapshot' = After(log, n + 1) /\ n' = n + 1
  <2>1. Snapshot'.n = n'
    BY DEF Snapshot
  <2> QED
    BY <1>0, <1>1, <1>2, <1>3, <2>1 DEF After
<1>5. log[n + 1] \in Entry
  BY <1>0, <1>1, ElementOfSeq
<1>6. TypeOK'
  BY <1>0, <1>1, <1>3, <1>4, <1>5, AfterType, StateType
<1>7. saved'.n <= n' /\ saved' = After(log, saved'.n)
  BY <1>0, <1>3, <1>4 DEF Traced, Snapshots
<1>8. ProtectionInv'
  BY <1>1, <1>3, <1>4, <1>6, <1>7, LogStays
<1> QED
  BY <1>3, <1>4, <1>8

LEMMA StepInv == ProtectionInv /\ [Next]_vars => ProtectionInv'
<1> SUFFICES ASSUME ProtectionInv, [Next]_vars PROVE ProtectionInv'
  OBVIOUS
<1>0. /\ TypeOK /\ Traced /\ Len(log) \in Nat /\ n \in Nat /\ n <= Len(log)
      /\ Snapshot \in Snapshots /\ Snapshot.n = n /\ replayed \in Entry
      /\ saved \in Snapshots /\ saved.n \in Nat /\ saved.n <= n
  <2>1. TypeOK /\ Traced
    BY DEF ProtectionInv
  <2>2. Snapshot \in Snapshots /\ Snapshot.n = n
    BY <2>1, SnapshotType
  <2>3. log \in Seq(Entry) /\ n \in Nat /\ replayed \in Entry /\ saved \in Snapshots
    BY <2>1 DEF TypeOK
  <2>4. Len(log) \in Nat /\ saved.n \in Nat
    BY <2>3, LenProperties DEF Snapshots
  <2>5. n <= Len(log) /\ saved.n <= n
    BY <2>1 DEF Traced
  <2> QED
    BY <2>1, <2>2, <2>3, <2>4, <2>5
<1>1. CASE Observes
  <2>1. Answers(Answer(world, Snapshot))
    BY <1>0, <1>1, SampleIsAnswer
  <2> QED
    BY <1>0, <2>1, NewSample, OldSample
<1>2. CASE TakeSnapshot
  <2>1. /\ log' = log /\ world' = world /\ replayed' = replayed
        /\ Snapshot' = Snapshot /\ saved' = Snapshot /\ n' = n
    BY <1>2 DEF TakeSnapshot, Snapshot
  <2>2. Snapshot = After(log, n) /\ Timed(world, Snapshot)
    BY <1>0 DEF Traced
  <2>3. TypeOK'
    BY <1>0, <2>1, <2>2, StateType
  <2> QED
    BY <1>0, <2>1, <2>2, <2>3, LogStays
<1>3. CASE Restore
  <2>1. /\ log' = log /\ world' = world /\ replayed' = replayed /\ saved' = saved
        /\ n' = saved.n
    BY <1>3 DEF Restore
  <2>2. Snapshot' = saved
    BY <1>0, <1>3 DEF Restore, Snapshot, Snapshots
  <2>3. saved = After(log, saved.n) /\ Timed(world, saved)
    BY <1>0 DEF Traced
  <2>4. TypeOK'
    BY <1>0, <2>1, <2>2, <2>3, StateType
  <2> QED
    BY <1>0, <2>1, <2>2, <2>3, <2>4, LogStays
<1>4. CASE UNCHANGED vars
  <2>1. /\ log' = log /\ world' = world /\ saved' = saved /\ n' = n
        /\ replayed' = replayed /\ Snapshot' = Snapshot
    BY <1>4 DEF vars, Snapshot
  <2>2. Snapshot = After(log, n) /\ Timed(world, Snapshot) /\ saved = After(log, saved.n)
    BY <1>0 DEF Traced
  <2>3. TypeOK'
    BY <1>0, <2>1, <2>2, StateType
  <2> QED
    BY <1>0, <2>1, <2>2, <2>3, LogStays
<1> QED
  BY <1>1, <1>2, <1>3, <1>4 DEF Next, Observes

LEMMA Invariance == Spec => []ProtectionInv
  BY InitInv, StepInv, PTL DEF Spec

-----------------------------------------------------------------------------
(***************************************************************************)
(* The results.                                                            *)
(***************************************************************************)
\* The fields of ProtectedController hold what the code gives them, and its
\* hold timer runs only in a hold, never up to the end of it.
THEOREM TypeCorrect == Spec => []TypeOK
  BY Invariance, PTL DEF ProtectionInv

\* A hold that began with a trip lasts at least hiccup_s, is ended by a retry
\* of the inner controller and is not a whole period longer, also when the
\* run was checkpointed and resumed in the middle of it.
THEOREM HoldsAreKept == Spec => []HoldIsNeverCut
  BY Invariance, PTL DEF ProtectionInv

\* With hiccup_s None the controller never recovers, resumed runs included.
THEOREM LatchesAreKept == Spec => []LatchIsForever
  BY Invariance, PTL DEF ProtectionInv

\* The latency ceiling: the inner controller drives a sample that exceeds a
\* limit only as a retry, and not the sample after that.
THEOREM LatencyIsOneWindow == Spec => []FaultIsDrivenForOneWindowAtMost
  BY Invariance, PTL DEF ProtectionInv

\* A run resumed from any snapshot does at every sample what the first run
\* did: restore leaves out nothing that observe depends on.
THEOREM SnapshotsAreComplete == Spec => ReplayAgrees
<1>1. ProtectionInv /\ [Next]_vars =>
        [n' = n + 1 /\ n' <= Len(log) => replayed' = log[n']]_vars
  <2> SUFFICES ASSUME ProtectionInv, Next, n' = n + 1, n' <= Len(log)
               PROVE  replayed' = log[n']
    OBVIOUS
  <2>0. /\ TypeOK /\ Traced /\ n \in Nat /\ Len(log) \in Nat /\ saved.n \in Nat
    BY LenProperties DEF ProtectionInv, TypeOK, Snapshots
  <2>1. CASE Observes
    BY <2>0, <2>1, SampleIsAnswer, OldSample
  <2>2. ~TakeSnapshot
    BY <2>0 DEF TakeSnapshot
  <2>3. ~Restore
    BY <2>0 DEF Restore, ProtectionInv, Traced
  <2> QED
    BY <2>1, <2>2, <2>3 DEF Next, Observes
<1> QED
  BY <1>1, Invariance, PTL DEF Spec, ReplayAgrees
-----------------------------------------------------------------------------
(***************************************************************************)
(* Recovery.  When the disturbances are over at sample d, a hold lasts at  *)
(* most `wait` samples, and `climb` driven windows lead from zero to the   *)
(* nominal level, every run is back at that level d + wait + climb samples *)
(* after its start.  The trip that a discharged output may still cause is  *)
(* the one of sample d + 1: the controller trips there or never again.     *)
(***************************************************************************)
\* A schedule, a policy and a number of samples for which this can be said.
Recoverable(d, wait, climb) ==
  /\ Disturbed \subseteq 1..d /\ Nominal <= climb * Rise
  /\ d + wait + climb <= Samples
  /\ \A p \in Policies : /\ p.hiccup_s <= wait * Period
                         /\ p.ovp_v = 0 \/ p.ovp_v > Nominal
                         /\ p.ocp_a = 0 \/ p.ocp_a > 1
                         /\ p.uvlo_v < Nominal

Quiet(w) == \A k \in 1..Samples : k \notin Disturbed => w.meets[k] = "none"

\* How far a state has come since the disturbances ended.
Recovering(w, s, d, wait) ==
  /\ s.vout <= Nominal /\ s.state # "latched"
  /\ s.n >= d =>
       /\ s.state = "tripped" => s.elapsed >= (s.n - d - 1) * Period
       /\ s.state = "normal" =>
            /\ s.vout = Nominal \/ s.vout >= (s.n - d - wait) * Rise
            /\ s.n > d => s.vout > UVLO(w)

Recovery(d, wait) ==
  /\ Quiet(world)
  /\ Hiccup(world) > 0 /\ UVLO(world) < Rise =>
       \A k \in 0..Len(log) : Recovering(world, After(log, k), d, wait)

\* After the last disturbance a wrapper trips only for a discharged output.
LEMMA CalmAnswer ==
  ASSUME NEW w \in World, NEW s \in Snapshots, s.n < Samples, Quiet(w),
         NEW d \in Nat, NEW wait \in Nat, NEW climb \in Nat,
         Recoverable(d, wait, climb), s.n >= d, s.vout <= Nominal
  PROVE  /\ ReadV(w, s) = s.vout /\ ~Over(w, s)
         /\ s.vout > UVLO(w) => ~Faulty(w, s)
         /\ VoutAfter(w, s) = IF Kind(w, s) \in {"run", "retry"}
                              THEN IF s.vout + Rise > Nominal THEN Nominal
                                   ELSE s.vout + Rise
                              ELSE IF s.vout > Fall THEN s.vout - Fall ELSE 0
<1>1. /\ s.n \in 0..Samples /\ s.vout \in Nat /\ Samples \in Nat /\ Nominal \in Nat
      /\ UVLO(w) \in Nat /\ OVP(w) \in Nat /\ OCP(w) \in Nat
  BY ConverterAssumption, PolicyType DEF Snapshots
<1>2. w.meets[s.n + 1] = "none"
  <2>1. s.n + 1 \in 1..Samples /\ s.n + 1 \notin 1..d
    BY <1>1
  <2> QED
    BY <2>1 DEF Quiet, Recoverable
<1>3. ReadV(w, s) = s.vout /\ ReadI(w, s) = 1
  BY <1>2 DEF ReadV, ReadI
<1>4. (OVP(w) = 0 \/ OVP(w) > Nominal) /\ (OCP(w) = 0 \/ OCP(w) > 1)
  BY DEF Recoverable, World, OVP, OCP
<1>5. ~Over(w, s)
  BY <1>1, <1>3, <1>4 DEF Over
<1>6. s.vout > UVLO(w) => ~Faulty(w, s)
  BY <1>1, <1>3, <1>5 DEF Faulty
<1>7. w.meets[s.n + 1] # "short"
  BY <1>2
<1> QED
  BY <1>3, <1>5, <1>6, <1>7 DEF VoutAfter

\* A sample brings the output nearer to its level.
LEMMA AnswerRecovers ==
  ASSUME NEW w \in World, NEW s \in Snapshots, s.n < Samples, Timed(w, s), Quiet(w),
         NEW d \in Nat, NEW wait \in Nat, NEW climb \in Nat,
         Recoverable(d, wait, climb), Hiccup(w) > 0, UVLO(w) < Rise,
         Recovering(w, s, d, wait)
  PROVE  Recovering(w, Answer(w, s).after, d, wait)
<1> DEFINE a == Answer(w, s).after
<1> SUFFICES Recovering(w, a, d, wait)
  OBVIOUS
<1>1. /\ s.state \in States /\ s.elapsed \in Nat /\ s.n \in Nat /\ s.vout \in Nat
      /\ Nominal \in Nat /\ Rise \in Nat /\ Fall \in Nat /\ Period \in Nat \ {0}
      /\ UVLO(w) \in Nat /\ Hiccup(w) \in Nat
  BY ConverterAssumption, PolicyAssumption, PolicyType DEF Snapshots
<1>2. /\ a.state = StateAfter(w, s) /\ a.elapsed = ElapsedAfter(w, s)
      /\ a.vout = VoutAfter(w, s) /\ a.n = s.n + 1
  BY DEF Answer
<1>3. UVLO(w) < Nominal /\ Hiccup(w) <= wait * Period
  BY DEF Recoverable, World, UVLO, Hiccup
<1>4. s.vout <= Nominal /\ s.state # "latched"
  BY DEF Recovering
<1> HIDE DEF a
<1>5. a.vout <= Nominal /\ a.vout \in Nat
  BY <1>1, <1>2, <1>4 DEF VoutAfter
<1>6. a.state # "latched"
  BY <1>1, <1>2, <1>3, <1>4 DEF StateAfter, Kind
<1>7. CASE s.n < d
  <2>1. a.n >= d => a.n = d
    BY <1>1, <1>2, <1>7
  <2>2. a.elapsed \in Nat
    BY <1>1, <1>2 DEF ElapsedAfter
  <2>3. (d - d - 1) * Period <= 0 /\ (d - d - wait) * Rise <= 0
    BY <1>1
  <2> DEFINE hold == (d - d - 1) * Period  level == (d - d - wait) * Rise
  <2>4. hold \in Int /\ level \in Int
    BY <1>1
  <2> HIDE DEF hold, level
  <2>5. a.elapsed >= hold /\ a.vout >= level
    BY <1>5, <2>2, <2>3, <2>4 DEF hold, level
  <2>6. a.n >= d => a.n = d /\ ~(a.n > d)
    BY <1>1, <2>1
  <2> QED
    BY <1>5, <1>6, <2>5, <2>6 DEF Recovering, hold, level
<1>8. CASE s.n >= d
  <2> DEFINE n1 == s.n + 1 - d - 1   n0 == s.n - d - 1
             m1 == s.n + 1 - d - wait  m0 == s.n - d - wait
  <2>1. /\ n1 * Period = n0 * Period + Period
        /\ m1 * Rise = m0 * Rise + Rise
    BY <1>1
  <2>2. CASE Kind(w, s) = "trip"
    <3>1. s.state = "normal" /\ Faulty(w, s)
      BY <1>1, <1>4, <2>2 DEF Kind, States
    <3>2. s.n = d
      BY <1>1, <1>4, <1>8, <3>1, CalmAnswer DEF Recovering
    <3>3. a.state = "tripped" /\ a.elapsed = 0
      BY <1>1, <1>2, <2>2 DEF StateAfter, ElapsedAfter
    <3>4. (a.n - d - 1) * Period = 0
      BY <1>1, <1>2, <3>2
    <3> QED
      BY <1>5, <1>6, <3>3, <3>4 DEF Recovering
  <2>3. CASE Kind(w, s) = "hold"
    <3>1. s.state = "tripped"
      BY <1>1, <1>4, <2>3 DEF Kind, States
    <3>2. a.state = "tripped" /\ a.elapsed = s.elapsed + Period
      BY <1>2, <2>3, <3>1 DEF StateAfter, ElapsedAfter
    <3>3. s.elapsed >= n0 * Period
      BY <1>8, <3>1 DEF Recovering
    <3>4. a.elapsed >= (a.n - d - 1) * Period
      BY <1>1, <1>2, <2>1, <3>2, <3>3
    <3> QED
      BY <1>5, <1>6, <3>2, <3>4 DEF Recovering
  <2>4. CASE Kind(w, s) \in {"run", "retry"}
    <3>1. /\ a.vout = (IF s.vout + Rise > Nominal THEN Nominal ELSE s.vout + Rise)
          /\ a.state = "normal"
      BY <1>2, <1>4, <1>8, <2>4, CalmAnswer DEF StateAfter
    <3>2. a.vout > UVLO(w)
      BY <1>1, <1>3, <3>1
    <3>3. s.vout = Nominal \/ s.vout >= m0 * Rise
      <4>1. CASE s.state = "normal"
        BY <1>8, <4>1 DEF Recovering
      <4>2. CASE s.state = "tripped"
        <5>1. n0 * Period < wait * Period
          <6>1. s.elapsed >= n0 * Period
            BY <1>8, <4>2 DEF Recovering
          <6>2. s.elapsed < wait * Period
            BY <1>1, <1>3, <4>2 DEF Timed
          <6> QED
            BY <1>1, <6>1, <6>2
        <5>2. n0 < wait
          BY <1>1, <5>1
        <5>3. m0 <= 0
          BY <1>1, <5>2
        <5>4. m0 * Rise <= 0
          BY <1>1, <5>3
        <5> QED
          BY <1>1, <5>4
      <4> QED
        BY <1>1, <1>4, <4>1, <4>2 DEF States
    <3>4. a.vout = Nominal \/ a.vout >= (a.n - d - wait) * Rise
      BY <1>1, <1>2, <2>1, <3>1, <3>3
    <3> QED
      BY <1>5, <1>6, <3>1, <3>2, <3>4 DEF Recovering
  <2>5. Kind(w, s) \in {"trip", "hold", "run", "retry"}
    BY DEF Kind
  <2> QED
    BY <2>2, <2>3, <2>4, <2>5
<1> QED
  BY <1>1, <1>7, <1>8
LEMMA RecoveryInit ==
  ASSUME NEW d \in Nat, NEW wait \in Nat, Init PROVE Recovery(d, wait)
<1>1. Quiet(world)
  <2>1. PICK policy \in Policies, some \in [Disturbed -> Disturbances] :
          world = [policy |-> policy,
                   meets |-> [k \in 1..Samples |->
                                IF k \in Disturbed THEN some[k] ELSE "none"]]
    BY DEF Init
  <2> QED
    BY <2>1 DEF Quiet
<1>2. Len(log) = 0
  BY DEF Init
<1>3. Recovering(world, NewWrapper, d, wait)
  <2>1. (0 - d - wait) * Rise <= 0 /\ Nominal \in Nat
    BY ConverterAssumption
  <2> DEFINE level == (0 - d - wait) * Rise
  <2>2. level \in Int
    BY ConverterAssumption
  <2> HIDE DEF level
  <2>3. 0 <= Nominal /\ 0 >= level /\ ~(0 > d)
    BY <2>1, <2>2 DEF level
  <2> QED
    BY <2>3 DEF Recovering, NewWrapper, level
<1> QED
  BY <1>1, <1>2, <1>3 DEF Recovery, After

LEMMA RecoveryStep ==
  ASSUME ProtectionInv, [Next]_vars,
         NEW d \in Nat, NEW wait \in Nat, NEW climb \in Nat,
         Recoverable(d, wait, climb), Recovery(d, wait)
  PROVE  Recovery(d, wait)'
<1>1. world' = world
  BY DEF Next, Latched, Hold, Retry, Trip, Delegate, Done, TakeSnapshot, Restore,
         vars
<1>2. CASE log' = log
  BY <1>1, <1>2 DEF Recovery
<1>3. CASE log' # log
  <2> DEFINE a == Answer(world, Snapshot)
  <2>1. Observes
    BY <1>3 DEF Next, Observes, TakeSnapshot, Restore, vars
  <2>2. /\ TypeOK /\ log \in Seq(Entry) /\ Len(log) \in Nat /\ n \in Nat
        /\ n <= Len(log) /\ world \in World /\ Snapshot = After(log, n)
    BY LenProperties DEF ProtectionInv, TypeOK, Traced
  <2>3. Answers(a)
    BY <2>1, <2>2, SampleIsAnswer
  <2>4. n = Len(log) /\ log' = Append(log, a) /\ n < Samples
    BY <1>3, <2>2, <2>3 DEF Answers
  <2>5. /\ Snapshot \in Snapshots /\ Snapshot.n = n /\ Timed(world, Snapshot)
    BY <2>2, SnapshotType DEF ProtectionInv, Traced
  <2>6. a \in Entry
    BY <2>2, <2>4, <2>5, AnswerType
  <2>7. ASSUME Hiccup(world) > 0, UVLO(world) < Rise
        PROVE  /\ \A k \in 0..n : Recovering(world, After(log, k), d, wait)
               /\ Recovering(world, a.after, d, wait)
    <3>1. \A k \in 0..n : Recovering(world, After(log, k), d, wait)
      BY <2>4, <2>7 DEF Recovery
    <3>2. n \in 0..n
      BY <2>2
    <3>3. Recovering(world, Snapshot, d, wait) /\ Quiet(world)
      BY <2>2, <3>1, <3>2 DEF Recovery
    <3> QED
      BY <2>2, <2>4, <2>5, <2>7, <3>1, <3>3, AnswerRecovers
  <2> HIDE DEF a
  <2>8. /\ Len(log') = n + 1 /\ log'[n + 1] = a
        /\ \A k \in 1..n : log'[k] = log[k]
    BY <2>2, <2>4, <2>6, AppendProperties
  <2>9. /\ After(log', n + 1) = a.after
        /\ \A k \in 0..n : After(log', k) = After(log, k)
    BY <2>2, <2>8 DEF After
  <2>10. \A k \in 0..n + 1 : k \in 0..n \/ k = n + 1
    BY <2>2
  <2> QED
    BY <1>1, <2>7, <2>8, <2>9, <2>10 DEF Recovery
<1> QED
  BY <1>2, <1>3

\* A tripped wrapper is in the hold that a disturbance or the discharged output
\* after it has begun, and all of those are over at the end of the run.
LEMMA RecoveredAtTheEnd ==
  ASSUME ProtectionInv,
         NEW d \in Nat, NEW wait \in Nat, NEW climb \in Nat,
         Recoverable(d, wait, climb), Recovery(d, wait)
  PROVE  RecoversInTime
<1> SUFFICES ASSUME n = Samples, Hiccup(world) > 0, UVLO(world) < Rise
             PROVE  state = "normal" /\ vout = Nominal
  BY DEF RecoversInTime
<1>1. /\ TypeOK /\ n \in Nat /\ n <= Len(log) /\ Len(log) \in Nat
      /\ world \in World /\ Snapshot = After(log, n) /\ n \in 0..Len(log)
  BY LenProperties DEF ProtectionInv, TypeOK, Traced
<1>2. Recovering(world, Snapshot, d, wait)
  BY <1>1 DEF Recovery
<1>3. /\ Snapshot.state = state /\ Snapshot.elapsed = elapsed
      /\ Snapshot.vout = vout /\ Snapshot.n = n
  BY <1>1, SnapshotType
<1>4. /\ state \in States /\ elapsed \in Nat /\ vout \in Nat
      /\ elapsed # 0 => elapsed < Hiccup(world)
      /\ Nominal \in Nat /\ Rise \in Nat /\ Period \in Nat \ {0}
      /\ UVLO(world) \in Nat /\ Hiccup(world) \in Nat
  BY <1>1, ConverterAssumption, PolicyAssumption, PolicyType DEF TypeOK
<1>5. /\ UVLO(world) < Nominal /\ Hiccup(world) <= wait * Period
      /\ Nominal <= climb * Rise /\ d + wait + climb <= n
  BY <1>1 DEF Recoverable, World, UVLO, Hiccup
<1>6. climb > 0
  <2>1. climb = 0 => climb * Rise = 0
    BY <1>4
  <2> QED
    BY <1>4, <1>5, <2>1
<1>7. n >= d /\ n - d - 1 >= wait /\ n - d - wait >= climb
  BY <1>1, <1>5, <1>6
<1>8. state = "normal"
  <2> SUFFICES ASSUME state = "tripped" PROVE FALSE
    BY <1>2, <1>3, <1>4 DEF Recovering, States
  <2>1. elapsed >= (n - d - 1) * Period
    BY <1>2, <1>3, <1>7 DEF Recovering
  <2>2. (n - d - 1) * Period >= wait * Period
    BY <1>1, <1>4, <1>7
  <2>3. elapsed >= wait * Period
    BY <1>1, <1>4, <2>1, <2>2
  <2>4. wait * Period \in Nat
    BY <1>4
  <2> QED
    BY <1>4, <1>5, <2>3, <2>4
<1>9. vout = Nominal
  <2>1. vout <= Nominal /\ (vout = Nominal \/ vout >= (n - d - wait) * Rise)
    BY <1>2, <1>3, <1>7, <1>8 DEF Recovering
  <2>2. (n - d - wait) * Rise >= climb * Rise
    BY <1>1, <1>4, <1>7
  <2>3. (n - d - wait) * Rise \in Int /\ climb * Rise \in Int
    BY <1>1, <1>4
  <2> QED
    BY <1>4, <1>5, <2>1, <2>2, <2>3
<1> QED
  BY <1>8, <1>9

\* Once the disturbances are over the output is back at its nominal level
\* within the longest hold and the climb from zero, whatever the disturbances
\* were and wherever the run was resumed.
THEOREM RecoveryIsInTime ==
  ASSUME NEW d \in Nat, NEW wait \in Nat, NEW climb \in Nat,
         Recoverable(d, wait, climb)
  PROVE  Spec => []RecoversInTime
<1>1. Init => Recovery(d, wait)
  BY RecoveryInit
<1>2. ProtectionInv /\ Recovery(d, wait) /\ [Next]_vars => Recovery(d, wait)'
  BY RecoveryStep
<1>3. ProtectionInv /\ Recovery(d, wait) => RecoversInTime
  BY RecoveredAtTheEnd
<1> QED
  BY <1>1, <1>2, <1>3, Invariance, PTL DEF Spec

-----------------------------------------------------------------------------
(***************************************************************************)
(* The operators of the envelope.                                          *)
(***************************************************************************)
\* The least element of a set of numbers.
LEMMA LeastOf ==
  ASSUME NEW S \in SUBSET Nat, S # {}
  PROVE  \E k \in S : \A l \in S : ~(l < k)
<1>1. IsWellFoundedOn(OpToRel(<, Nat), Nat)
  BY NatLessThanWellFounded
<1>2. PICK k \in S : \A l \in S : <<l, k>> \notin OpToRel(<, Nat)
  BY <1>1, WFMin
<1> QED
  BY <1>2 DEF OpToRel

\* RecordAll records one offence after the other.
LEMMA RecordedInTurn ==
  ASSUME NEW p, NEW policy, NEW list, NEW at, Len(list) \in Nat
  PROVE  \E f : /\ f[0] = p
                /\ \A k \in 1 .. Len(list) : f[k] = Record(f[k - 1], policy, list[k], at)
                /\ RecordAll(p, policy, list, at) = f[Len(list)]
<1> DEFINE m == Len(list)
           Solves(f, l) == f = [k \in 0 .. l |-> IF k = 0 THEN p
                                                ELSE Record(f[k - 1], policy, list[k], at)]
           Unsolved == {l \in 0 .. m : ~\E f : Solves(f, l)}
<1>1. Unsolved = {}
  <2> SUFFICES ASSUME Unsolved # {} PROVE FALSE
    OBVIOUS
  <2>1. PICK l \in Unsolved : \A j \in Unsolved : ~(j < l)
    <3>1. Unsolved \in SUBSET Nat
      OBVIOUS
    <3> HIDE DEF Unsolved
    <3> QED
      BY <3>1, LeastOf
  <2>2. l \in 0 .. m /\ l \in Nat
    OBVIOUS
  <2>3. CASE l = 0
    <3>1. Solves([k \in 0 .. 0 |-> p], 0)
      OBVIOUS
    <3> QED
      BY <2>3, <3>1
  <2>4. CASE l > 0
    <3>1. l - 1 \in 0 .. m /\ l - 1 < l
      BY <2>2, <2>4
    <3>2. PICK f : Solves(f, l - 1)
      BY <2>1, <3>1
    <3> DEFINE g == [k \in 0 .. l |-> IF k = l THEN Record(f[l - 1], policy, list[l], at)
                                      ELSE f[k]]
    <3>3. \A k \in 0 .. l : g[k] = IF k = 0 THEN p ELSE Record(g[k - 1], policy, list[k], at)
      <4> TAKE k \in 0 .. l
      <4>1. CASE k = l
        BY <2>2, <2>4, <4>1
      <4>2. CASE k # l
        <5>1. k \in 0 .. l - 1 /\ (k # 0 => k - 1 \in 0 .. l - 1 /\ k - 1 # l)
          BY <2>2, <4>2
        <5> QED
          BY <3>2, <4>2, <5>1
      <4> QED
        BY <4>1, <4>2
    <3>4. Solves(g, l)
      BY <3>3
    <3> QED
      BY <3>4
  <2> QED
    BY <2>2, <2>3, <2>4
<1>2. \E f : Solves(f, m)
  BY <1>1
<1> DEFINE after == CHOOSE f : Solves(f, m)
<1>3. Solves(after, m)
  BY <1>2
<1>4. RecordAll(p, policy, list, at) = after[m]
  BY DEF RecordAll
<1> HIDE DEF after
<1>5. \A k \in 0 .. m : after[k] = IF k = 0 THEN p ELSE Record(after[k - 1], policy, list[k], at)
  BY <1>3
<1>6. /\ after[0] = p
      /\ \A k \in 1 .. m : after[k] = Record(after[k - 1], policy, list[k], at)
  BY <1>5
<1> QED
  BY <1>4, <1>6

\* So does FlattenSeq join one sequence after the other.
LEMMA JoinedInTurn ==
  ASSUME NEW S, NEW parts \in Seq(Seq(S))
  PROVE  \E f : /\ f[0] = << >>
                /\ \A k \in 0 .. Len(parts) : f[k] \in Seq(S)
                /\ \A k \in 1 .. Len(parts) : f[k] = f[k - 1] \o parts[k]
                /\ Seqs!FlattenSeq(parts) = f[Len(parts)]
<1> DEFINE m == Len(parts)
           Join(a, k) == a \o parts[k]
           Solves(f, l) == f = [k \in 1 .. l |-> IF k = 1 THEN parts[k] ELSE Join(f[k - 1], k)]
           Unsolved == {l \in 0 .. m : ~\E f : Solves(f, l)}
<1>0. m \in Nat /\ \A k \in 1 .. m : parts[k] \in Seq(S)
  BY LenProperties
<1> HIDE DEF Join
<1>1. Unsolved = {}
  <2> SUFFICES ASSUME Unsolved # {} PROVE FALSE
    OBVIOUS
  <2>1. PICK l \in Unsolved : \A j \in Unsolved : ~(j < l)
    <3>1. Unsolved \in SUBSET Nat
      BY <1>0
    <3> HIDE DEF Unsolved
    <3> QED
      BY <3>1, LeastOf
  <2>2. l \in 0 .. m /\ l \in Nat
    BY <1>0
  <2>3. CASE l = 0
    <3>1. Solves([k \in 1 .. 0 |-> << >>], 0)
      OBVIOUS
    <3> QED
      BY <2>3, <3>1
  <2>4. CASE l > 0
    <3>1. l - 1 \in 0 .. m /\ l - 1 < l
      BY <1>0, <2>2, <2>4
    <3>2. PICK f : Solves(f, l - 1)
      BY <2>1, <3>1
    <3> DEFINE g == [k \in 1 .. l |-> IF k = l THEN IF l = 1 THEN parts[1] ELSE Join(f[l - 1], l)
                                      ELSE f[k]]
    <3>3. \A k \in 1 .. l : g[k] = IF k = 1 THEN parts[k] ELSE Join(g[k - 1], k)
      <4> TAKE k \in 1 .. l
      <4>1. CASE k = l
        BY <2>2, <2>4, <4>1
      <4>2. CASE k # l
        <5>1. k \in 1 .. l - 1 /\ (k # 1 => k - 1 \in 1 .. l - 1 /\ k - 1 # l)
          BY <2>2, <4>2
        <5> QED
          BY <3>2, <4>2, <5>1
      <4> QED
        BY <4>1, <4>2
    <3>4. Solves(g, l)
      BY <3>3
    <3> QED
      BY <3>4
  <2> QED
    BY <2>2, <2>3, <2>4
<1>2. \E f : Solves(f, m)
  <2>1. m \in 0 .. m /\ m \notin Unsolved
    <3> HIDE DEF Unsolved
    <3> QED
      BY <1>0, <1>1
  <2> HIDE DEF Solves, m
  <2> QED
    BY <2>1
<1> DEFINE flatten == CHOOSE f : Solves(f, m)
           joined == [k \in 0 .. m |-> IF k = 0 THEN << >> ELSE flatten[k]]
<1>3. Solves(flatten, m)
  BY <1>2
<1>4. Seqs!FlattenSeq(parts) = joined[m]
  <2>1. CASE m = 0
    BY <2>1, EmptySeq DEF Seqs!FlattenSeq, Join
  <2>2. CASE m # 0
    BY <1>0, <2>2 DEF Seqs!FlattenSeq, Join
  <2> QED
    BY <2>1, <2>2
<1> HIDE DEF flatten
<1>5. \A k \in 1 .. m : flatten[k] = IF k = 1 THEN parts[k] ELSE Join(flatten[k - 1], k)
  BY <1>3
<1>6. \A k \in 1 .. m : joined[k] = joined[k - 1] \o parts[k]
  <2> TAKE k \in 1 .. m
  <2>1. CASE k = 1
    BY <1>0, <1>5, <2>1, ConcatEmptySeq
  <2>2. CASE k # 1
    <3>1. joined[k] = flatten[k] /\ joined[k - 1] = flatten[k - 1]
      BY <1>0, <2>2
    <3>2. flatten[k] = Join(flatten[k - 1], k)
      BY <1>5, <2>2
    <3> HIDE DEF joined
    <3> QED
      BY <3>1, <3>2 DEF Join
  <2> QED
    BY <2>1, <2>2
<1>7. joined[0] = << >>
  BY <1>0
<1> HIDE DEF joined
<1>8. \A k \in 0 .. m : joined[k] \in Seq(S)
  <2> DEFINE Odd == {k \in 0 .. m : joined[k] \notin Seq(S)}
  <2> SUFFICES ASSUME Odd # {} PROVE FALSE
    OBVIOUS
  <2>1. PICK k \in Odd : \A j \in Odd : ~(j < k)
    <3>1. Odd \in SUBSET Nat
      BY <1>0
    <3> HIDE DEF Odd
    <3> QED
      BY <3>1, LeastOf
  <2>2. k # 0
    BY <1>7, EmptySeq
  <2>3. k - 1 \in 0 .. m /\ k - 1 < k /\ k \in 1 .. m
    BY <1>0, <2>2
  <2>4. joined[k - 1] \in Seq(S)
    BY <2>1, <2>3
  <2> QED
    BY <1>0, <1>6, <2>3, <2>4, ConcatProperties
<1> QED
  BY <1>4, <1>6, <1>7, <1>8
-----------------------------------------------------------------------------
(***************************************************************************)
(* What a list of offences does to the plugin.                             *)
(***************************************************************************)
LoadRule == "load.domain"
LoadKey == <<LoadRule, "load_resistance_ohm">>
DutyKey == <<"duty.domain", "duty">>
Strengths == {"hard", "advisory"}
Rules == {"vin.domain", LoadRule, "duty.domain", "ccm.boundary", "duty.resolution",
          "external_input.changed", "actuator.undeclared", "actuator.subset",
          "control_period.switching_periods", "samples_per_switching_period",
          "timestep.dynamics", "control_period.substeps", "load.off_resistance_ratio",
          "provenance.invalid", "provenance.unknown", "provenance.unreviewed",
          "unknown", "declaration_invalid"}
Variables == {"input_voltage_v", "load_resistance_ohm", "duty", "duty_resolution", "external",
              "control_period", "sample_resolution", "integration_step", "load_ratio",
              "provenance", "claim"} \cup STRING
HardRules == {LoadRule, "duty.domain"}
KeyOf(offence) == <<offence.rule, offence.variable>>
Offences ==
  {o \in [rule : Rules, variable : Variables, strength : Strengths] :
     o.rule \in HardRules => o.strength = "hard" /\ KeyOf(o) \in {LoadKey, DutyKey}}
Severities == {"error", "warning", "info"}
Findings == [rule : Rules, variable : Variables, blocking : BOOLEAN, severity : Severities,
             at : Nat]
PluginFields == {"all", "pending", "seen", "counts", "last"}
PluginOK(p) ==
  /\ p = [f \in PluginFields |-> p[f]]
  /\ p.all \in Seq(Findings) /\ p.pending \in Seq(Findings)
  /\ \A r \in DOMAIN p.counts : p.counts[r] \in Nat

LoadOffencesTo(list, k) == {i \in 1 .. k : list[i].rule = LoadRule}
Added(p, q, new) ==
  /\ Seqs!ToSet(q.all) = Seqs!ToSet(p.all) \cup new
  /\ Seqs!ToSet(q.pending) = Seqs!ToSet(p.pending) \cup new

\* The plugin q has recorded the first k offences of a list since p.
RecordedTo(p, q, policy, list, k, at) ==
  /\ PluginOK(q) /\ q.last = p.last
  /\ q.seen = p.seen \cup {KeyOf(list[i]) : i \in 1 .. k}
  /\ Times(q, LoadRule) = Times(p, LoadRule) + Cardinality(LoadOffencesTo(list, k))
  /\ \E new :
       /\ Added(p, q, new)
       /\ \A f \in new : \E i \in 1 .. k : f = FindingOf(policy, list[i], at)
       /\ \A i \in 1 .. k : KeyOf(list[i]) \in p.seen \/ \E f \in new : f.rule = list[i].rule

\* The members of S from low to k: one more, or not, when k grows.
Between_(S, low, k) == S \cap (low .. k)
LEMMA OneMore ==
  ASSUME NEW S, NEW low \in Int, NEW k \in Int, low <= k + 1
  PROVE  /\ Cardinality(Between_(S, low, k)) \in Nat
         /\ Cardinality(Between_(S, low, k + 1)) =
              Cardinality(Between_(S, low, k)) + (IF k + 1 \in S THEN 1 ELSE 0)
<1>1. IsFiniteSet(Between_(S, low, k)) /\ Cardinality(Between_(S, low, k)) \in Nat
  BY FS_Interval, FS_Subset, FS_CardinalityType DEF Between_
<1>2. CASE k + 1 \in S
  <2>1. Between_(S, low, k + 1) = Between_(S, low, k) \cup {k + 1}
    BY <1>2 DEF Between_
  <2>2. k + 1 \notin Between_(S, low, k)
    BY DEF Between_
  <2> QED
    BY <1>1, <1>2, <2>1, <2>2, FS_AddElement
<1>3. CASE k + 1 \notin S
  <2>1. Between_(S, low, k + 1) = Between_(S, low, k)
    BY <1>3 DEF Between_
  <2> QED
    BY <1>1, <1>3, <2>1
<1> QED
  BY <1>1, <1>2, <1>3

LEMMA LoadsOneMore ==
  ASSUME NEW list, NEW k \in Nat \ {0}
  PROVE  /\ Cardinality(LoadOffencesTo(list, k - 1)) \in Nat
         /\ Cardinality(LoadOffencesTo(list, k)) \in Nat
         /\ Cardinality(LoadOffencesTo(list, k)) =
              Cardinality(LoadOffencesTo(list, k - 1))
              + (IF list[k].rule = LoadRule THEN 1 ELSE 0)
<1> DEFINE S == {i \in Int : list[i].rule = LoadRule}
<1>1. /\ LoadOffencesTo(list, k) = Between_(S, 1, (k - 1) + 1)
      /\ LoadOffencesTo(list, k - 1) = Between_(S, 1, k - 1)
  BY DEF LoadOffencesTo, Between_
<1>2. k \in S <=> list[k].rule = LoadRule
  OBVIOUS
<1>3. k - 1 \in Nat /\ (k - 1) + 1 = k
  OBVIOUS
<1> HIDE DEF S
<1>4. \A j \in Nat : /\ Cardinality(Between_(S, 1, j)) \in Nat
                     /\ Cardinality(Between_(S, 1, j + 1)) =
                          Cardinality(Between_(S, 1, j)) + (IF j + 1 \in S THEN 1 ELSE 0)
  BY OneMore
<1> QED
  BY <1>1, <1>2, <1>3, <1>4

LEMMA TimesType ==
  ASSUME NEW p, PluginOK(p), NEW rule
  PROVE  Times(p, rule) \in Nat
BY DEF PluginOK, Times

LEMMA AppendedSet ==
  ASSUME NEW S, NEW s \in Seq(S), NEW x \in S
  PROVE  Append(s, x) \in Seq(S) /\ Seqs!ToSet(Append(s, x)) = Seqs!ToSet(s) \cup {x}
<1>1. /\ Append(s, x) \in Seq(S) /\ Len(Append(s, x)) = Len(s) + 1
      /\ \A i \in 1 .. Len(s) : Append(s, x)[i] = s[i]
      /\ Append(s, x)[Len(s) + 1] = x /\ Len(s) \in Nat
  BY AppendProperties, LenProperties
<1>2. DOMAIN s = 1 .. Len(s) /\ DOMAIN Append(s, x) = 1 .. Len(s) + 1
  BY <1>1, LenProperties
<1> DEFINE t == Append(s, x)
<1> HIDE DEF t
<1> QED
  BY <1>1, <1>2 DEF Seqs!ToSet, t

LEMMA FindingType ==
  ASSUME NEW policy \in EnvelopePolicies, NEW o \in Offences, NEW at \in Nat
  PROVE  /\ FindingOf(policy, o, at) \in Findings
         /\ FindingOf(policy, o, at).rule = o.rule
         /\ FindingOf(policy, o, at).at = at
         /\ FindingOf(policy, o, at).blocking
              = (policy.mode = "enforce" /\ o.strength \in policy.blocking)
<1> DEFINE b == policy.mode = "enforce" /\ o.strength \in policy.blocking
           F == FindingOf(policy, o, at)
<1>1. b \in BOOLEAN
  OBVIOUS
<1>2. Severity(policy, b) \in Severities
  <2> HIDE DEF b
  <2> QED
    BY DEF Severity, Severities
<1>3. F = [rule |-> o.rule, variable |-> o.variable, blocking |-> b,
           severity |-> Severity(policy, b), at |-> at]
  BY DEF FindingOf
<1>4. o.rule \in Rules /\ o.variable \in Variables
  BY DEF Offences
<1>5. F \in Findings /\ F.rule = o.rule /\ F.at = at /\ F.blocking = b
  <2> HIDE DEF b, F
  <2> QED
    BY <1>1, <1>2, <1>3, <1>4 DEF Findings
<1> QED
  BY <1>5

\* One offence.
LEMMA RecordOne ==
  ASSUME NEW p, PluginOK(p), NEW policy \in EnvelopePolicies, policy.mode # "off",
         NEW o \in Offences, NEW at \in Nat, NEW q, q = Record(p, policy, o, at)
  PROVE  /\ PluginOK(q) /\ q.last = p.last /\ q.seen = p.seen \cup {KeyOf(o)}
         /\ Times(q, LoadRule) = Times(p, LoadRule) + (IF o.rule = LoadRule THEN 1 ELSE 0)
         /\ \/ KeyOf(o) \in p.seen /\ Added(p, q, {})
            \/ Added(p, q, {FindingOf(policy, o, at)})
<1> DEFINE c == Counted(p, o.rule)
           F == FindingOf(policy, o, at)
<1>1. F \in Findings
  BY FindingType
<1>2. /\ \A r \in DOMAIN c : c[r] \in Nat
      /\ (IF LoadRule \in DOMAIN c THEN c[LoadRule] ELSE 0)
           = Times(p, LoadRule) + (IF o.rule = LoadRule THEN 1 ELSE 0)
  <2>1. \A r : Times(p, r) \in Nat
    BY TimesType
  <2>2. c = [r \in DOMAIN p.counts \cup {o.rule} |-> Times(p, r) + (IF r = o.rule THEN 1 ELSE 0)]
    BY DEF Counted
  <2>3. LoadRule \notin DOMAIN p.counts => Times(p, LoadRule) = 0
    BY DEF Times
  <2> HIDE DEF c
  <2> QED
    BY <2>1, <2>2, <2>3
<1>3. CASE q = [p EXCEPT !.counts = c] /\ KeyOf(o) \in p.seen
  <2>1. /\ q = [f \in PluginFields |-> q[f]] /\ q.counts = c
        /\ q.all = p.all /\ q.pending = p.pending /\ q.seen = p.seen /\ q.last = p.last
    BY <1>3 DEF PluginOK, PluginFields
  <2> HIDE DEF c
  <2> QED
    BY <1>2, <1>3, <2>1 DEF PluginOK, Times, Added
<1>4. CASE q = [p EXCEPT !.counts = c, !.seen = @ \cup {KeyOf(o)}, !.all = Append(@, F),
                         !.pending = Append(@, F)]
  <2>1. /\ q = [f \in PluginFields |-> q[f]] /\ q.counts = c
        /\ q.all = Append(p.all, F) /\ q.pending = Append(p.pending, F)
        /\ q.seen = p.seen \cup {KeyOf(o)} /\ q.last = p.last
    BY <1>4 DEF PluginOK, PluginFields
  <2> HIDE DEF c, F
  <2>2. Added(p, q, {F}) /\ q.all \in Seq(Findings) /\ q.pending \in Seq(Findings)
    <3>1. p.all \in Seq(Findings) /\ p.pending \in Seq(Findings)
      BY DEF PluginOK
    <3>2. Append(p.all, F) \in Seq(Findings) /\ Append(p.pending, F) \in Seq(Findings)
      BY <1>1, <3>1, AppendedSet
    <3>3. /\ Seqs!ToSet(Append(p.all, F)) = Seqs!ToSet(p.all) \cup {F}
          /\ Seqs!ToSet(Append(p.pending, F)) = Seqs!ToSet(p.pending) \cup {F}
      BY <1>1, <3>1, AppendedSet
    <3> QED
      BY <2>1, <3>2, <3>3 DEF Added
  <2>3. PluginOK(q) /\ q.last = p.last /\ q.seen = p.seen \cup {KeyOf(o)}
    BY <1>2, <2>1, <2>2 DEF PluginOK
  <2>4. Times(q, LoadRule) = Times(p, LoadRule) + (IF o.rule = LoadRule THEN 1 ELSE 0)
    BY <1>2, <2>1 DEF Times
  <2> QED
    BY <2>2, <2>3, <2>4 DEF F
<1>5. \/ q = [p EXCEPT !.counts = c] /\ KeyOf(o) \in p.seen
      \/ q = [p EXCEPT !.counts = c, !.seen = @ \cup {KeyOf(o)}, !.all = Append(@, F),
                       !.pending = Append(@, F)]
  <2> HIDE DEF c, F
  <2> QED
    BY DEF Record, KeyOf, c, F, PluginOK, PluginFields
<1> QED
  BY <1>3, <1>4, <1>5

\* The offences of a list, one after the other.
LEMMA RecordedOneMore ==
  ASSUME NEW p, PluginOK(p), NEW policy \in EnvelopePolicies, policy.mode # "off",
         NEW list \in Seq(Offences), NEW at \in Nat, NEW k \in 1 .. Len(list),
         NEW a, RecordedTo(p, a, policy, list, k - 1, at),
         NEW b, b = Record(a, policy, list[k], at)
  PROVE  RecordedTo(p, b, policy, list, k, at)
<1> DEFINE o == list[k]
           F == FindingOf(policy, o, at)
<1>0. /\ o \in Offences /\ k \in Nat /\ k - 1 \in Nat /\ PluginOK(a) /\ F.rule = o.rule
      /\ \A i \in 1 .. k : i \in 1 .. k - 1 \/ i = k
  BY ElementOfSeq, LenProperties, FindingType DEF RecordedTo
<1>1. /\ PluginOK(b) /\ b.last = a.last /\ b.seen = a.seen \cup {KeyOf(o)}
      /\ Times(b, LoadRule) = Times(a, LoadRule) + (IF o.rule = LoadRule THEN 1 ELSE 0)
      /\ \/ KeyOf(o) \in a.seen /\ Added(a, b, {})
         \/ Added(a, b, {F})
  BY <1>0, RecordOne
<1>2. b.last = p.last /\ b.seen = p.seen \cup {KeyOf(list[i]) : i \in 1 .. k}
  <2>1. a.last = p.last /\ a.seen = p.seen \cup {KeyOf(list[i]) : i \in 1 .. k - 1}
    BY DEF RecordedTo
  <2>2. {KeyOf(list[i]) : i \in 1 .. k} = {KeyOf(list[i]) : i \in 1 .. k - 1} \cup {KeyOf(o)}
    BY <1>0
  <2> QED
    BY <1>1, <2>1, <2>2
<1>3. Times(b, LoadRule) = Times(p, LoadRule) + Cardinality(LoadOffencesTo(list, k))
  <2>4. /\ Cardinality(LoadOffencesTo(list, k - 1)) \in Nat
        /\ Cardinality(LoadOffencesTo(list, k)) =
             Cardinality(LoadOffencesTo(list, k - 1)) + (IF o.rule = LoadRule THEN 1 ELSE 0)
    BY <1>0, LoadsOneMore
  <2>5. /\ Times(a, LoadRule) = Times(p, LoadRule) + Cardinality(LoadOffencesTo(list, k - 1))
        /\ Times(p, LoadRule) \in Nat
    BY TimesType DEF RecordedTo
  <2> QED
    BY <1>1, <2>4, <2>5
<1>4. PICK new :
        /\ Added(p, a, new)
        /\ \A f \in new : \E i \in 1 .. k - 1 : f = FindingOf(policy, list[i], at)
        /\ \A i \in 1 .. k - 1 : KeyOf(list[i]) \in p.seen \/ \E f \in new : f.rule = list[i].rule
  BY DEF RecordedTo
<1> DEFINE more == IF Added(a, b, {F}) THEN new \cup {F} ELSE new
<1>5. Added(p, b, more)
  BY <1>1, <1>4 DEF Added
<1>6. \A f \in more : \E i \in 1 .. k : f = FindingOf(policy, list[i], at)
  BY <1>0, <1>4
<1>7. \A i \in 1 .. k : KeyOf(list[i]) \in p.seen \/ \E f \in more : f.rule = list[i].rule
  <2> TAKE i \in 1 .. k
  <2>1. CASE i \in 1 .. k - 1
    BY <1>4, <2>1
  <2>2. CASE i = k /\ Added(a, b, {F})
    BY <1>0, <2>2
  <2>3. CASE i = k /\ KeyOf(o) \in a.seen
    <3>1. KeyOf(o) \in p.seen \/ \E j \in 1 .. k - 1 : KeyOf(list[j]) = KeyOf(o)
      BY <2>3 DEF RecordedTo
    <3>2. \A j \in 1 .. k - 1 : KeyOf(list[j]) = KeyOf(o) => list[j].rule = o.rule
      BY DEF KeyOf
    <3> QED
      BY <1>4, <2>3, <3>1, <3>2
  <2> QED
    BY <1>0, <1>1, <2>1, <2>2, <2>3
<1> HIDE DEF more
<1> QED
  BY <1>1, <1>2, <1>3, <1>5, <1>6, <1>7 DEF RecordedTo

LEMMA RecordedList ==
  ASSUME NEW p, PluginOK(p), NEW policy \in EnvelopePolicies, policy.mode # "off",
         NEW list \in Seq(Offences), NEW at \in Nat
  PROVE  RecordedTo(p, RecordAll(p, policy, list, at), policy, list, Len(list), at)
<1>0. Len(list) \in Nat
  BY LenProperties
<1>1. PICK f : /\ f[0] = p
               /\ \A k \in 1 .. Len(list) : f[k] = Record(f[k - 1], policy, list[k], at)
               /\ RecordAll(p, policy, list, at) = f[Len(list)]
  BY <1>0, RecordedInTurn
<1>2. RecordedTo(p, f[0], policy, list, 0, at)
  <2>1. Times(p, LoadRule) + Cardinality(LoadOffencesTo(list, 0)) = Times(p, LoadRule)
    <3>1. LoadOffencesTo(list, 0) = {}
      BY DEF LoadOffencesTo
    <3>2. Cardinality(LoadOffencesTo(list, 0)) = 0
      BY <3>1, FS_EmptySet
    <3> QED
      BY <3>2, TimesType
  <2>2. Added(p, p, {})
    BY DEF Added
  <2>3. p.seen = p.seen \cup {KeyOf(list[i]) : i \in 1 .. 0}
    OBVIOUS
  <2>4. \E new : /\ Added(p, p, new)
                 /\ \A g \in new : \E i \in 1 .. 0 : g = FindingOf(policy, list[i], at)
                 /\ \A i \in 1 .. 0 : KeyOf(list[i]) \in p.seen \/ \E g \in new : g.rule = list[i].rule
    <3> WITNESS {}
    <3> QED
      BY <2>2
  <2> QED
    BY <1>1, <2>1, <2>3, <2>4 DEF RecordedTo
<1> DEFINE Wrong == {k \in 0 .. Len(list) : ~RecordedTo(p, f[k], policy, list, k, at)}
<1>3. Wrong = {}
  <2> SUFFICES ASSUME Wrong # {} PROVE FALSE
    OBVIOUS
  <2>1. PICK k \in Wrong : \A j \in Wrong : ~(j < k)
    <3>1. Wrong \in SUBSET Nat
      BY <1>0
    <3> HIDE DEF Wrong
    <3> QED
      BY <3>1, LeastOf
  <2>2. k # 0
    BY <1>2
  <2>3. k - 1 \in 0 .. Len(list) /\ k - 1 < k /\ k \in 1 .. Len(list)
    BY <1>0, <2>2
  <2>4. RecordedTo(p, f[k - 1], policy, list, k - 1, at)
    BY <2>1, <2>3
  <2>5. RecordedTo(p, f[k], policy, list, k, at)
    BY <1>1, <2>3, <2>4, RecordedOneMore
  <2> QED
    BY <2>5
<1>4. RecordedTo(p, f[Len(list)], policy, list, Len(list), at)
  <2>1. Len(list) \in 0 .. Len(list)
    BY <1>0
  <2> QED
    BY <1>3, <2>1
<1> QED
  BY <1>1, <1>4

\* A policy that is off records nothing.
LEMMA NothingRecorded ==
  ASSUME NEW p, NEW policy, policy.mode = "off", NEW list \in Seq(Offences), NEW at
  PROVE  RecordAll(p, policy, list, at) = p
<1>0. Len(list) \in Nat
  BY LenProperties
<1>1. PICK f : /\ f[0] = p
               /\ \A k \in 1 .. Len(list) : f[k] = Record(f[k - 1], policy, list[k], at)
               /\ RecordAll(p, policy, list, at) = f[Len(list)]
  BY <1>0, RecordedInTurn
<1> DEFINE Wrong == {k \in 0 .. Len(list) : f[k] # p}
<1>2. Wrong = {}
  <2> SUFFICES ASSUME Wrong # {} PROVE FALSE
    OBVIOUS
  <2>1. PICK k \in Wrong : \A j \in Wrong : ~(j < k)
    <3>1. Wrong \in SUBSET Nat
      BY <1>0
    <3> HIDE DEF Wrong
    <3> QED
      BY <3>1, LeastOf
  <2>2. k - 1 \in 0 .. Len(list) /\ k - 1 < k /\ k \in 1 .. Len(list)
    BY <1>0, <1>1
  <2>3. f[k] = f[k - 1] /\ f[k - 1] = p
    BY <1>1, <2>1, <2>2 DEF Record
  <2> QED
    BY <2>3
<1>3. Len(list) \in 0 .. Len(list)
  BY <1>0
<1> QED
  BY <1>1, <1>2, <1>3

-----------------------------------------------------------------------------
(***************************************************************************)
(* The same, by what the list says of the load and of the duty.            *)
(***************************************************************************)
LoadsIn(list) == Cardinality(LoadOffencesTo(list, Len(list)))
TellsDuty(list) == \E i \in 1 .. Len(list) : list[i].rule = "duty.domain"
IsHard(policy) == policy.mode = "enforce" /\ "hard" \in policy.blocking

Grew(p, q, policy, loads, duty, at) ==
  /\ PluginOK(q) /\ q.last = p.last
  /\ LoadKey \in q.seen <=> LoadKey \in p.seen \/ loads # 0
  /\ DutyKey \in q.seen <=> DutyKey \in p.seen \/ duty
  /\ Times(q, LoadRule) = Times(p, LoadRule) + loads
  /\ \E new \in SUBSET Findings :
       /\ Added(p, q, new)
       /\ \A f \in new : /\ f.at = at
                         /\ f.rule \in HardRules => f.blocking = IsHard(policy)
       /\ loads # 0 /\ LoadKey \notin p.seen => \E f \in new : f.rule = LoadRule
       /\ duty /\ DutyKey \notin p.seen => \E f \in new : f.rule = "duty.domain"

LEMMA KeysOfRules ==
  ASSUME NEW o \in Offences
  PROVE  /\ KeyOf(o) = LoadKey <=> o.rule = LoadRule
         /\ KeyOf(o) = DutyKey <=> o.rule = "duty.domain"
         /\ o.rule \in HardRules => o.strength = "hard"
BY DEF Offences, KeyOf, LoadKey, DutyKey, HardRules, LoadRule

LEMMA LoadsAreThere ==
  ASSUME NEW list, Len(list) \in Nat
  PROVE  /\ LoadsIn(list) \in Nat
         /\ LoadsIn(list) # 0 <=> \E i \in 1 .. Len(list) : list[i].rule = LoadRule
<1> DEFINE S == LoadOffencesTo(list, Len(list))
<1>1. IsFiniteSet(S)
  <2>1. S \in SUBSET (1 .. Len(list)) /\ IsFiniteSet(1 .. Len(list))
    BY FS_Interval DEF LoadOffencesTo
  <2> QED
    BY <2>1, FS_Subset
<1>2. Cardinality(S) \in Nat /\ (Cardinality(S) = 0 <=> S = {})
  BY <1>1, FS_CardinalityType, FS_EmptySet
<1> QED
  BY <1>2 DEF LoadsIn, LoadOffencesTo

LEMMA ListGrows ==
  ASSUME NEW p, PluginOK(p), NEW policy \in EnvelopePolicies, policy.mode # "off",
         NEW list \in Seq(Offences), NEW at \in Nat
  PROVE  Grew(p, RecordAll(p, policy, list, at), policy, LoadsIn(list), TellsDuty(list), at)
<1> DEFINE q == RecordAll(p, policy, list, at)
           m == Len(list)
<1>0. /\ m \in Nat
      /\ \A i \in 1 .. m : list[i] \in Offences
      /\ LoadsIn(list) # 0 <=> \E i \in 1 .. m : list[i].rule = LoadRule
  BY LenProperties, ElementOfSeq, LoadsAreThere
<1>1. RecordedTo(p, q, policy, list, m, at)
  BY RecordedList
<1> HIDE DEF q
<1>2. /\ PluginOK(q) /\ q.last = p.last
      /\ q.seen = p.seen \cup {KeyOf(list[i]) : i \in 1 .. m}
      /\ Times(q, LoadRule) = Times(p, LoadRule) + LoadsIn(list)
  BY <1>1 DEF RecordedTo, LoadsIn
<1>3. /\ LoadKey \in q.seen <=> LoadKey \in p.seen \/ LoadsIn(list) # 0
      /\ DutyKey \in q.seen <=> DutyKey \in p.seen \/ TellsDuty(list)
  BY <1>0, <1>2, KeysOfRules DEF TellsDuty
<1>4. PICK new :
        /\ Added(p, q, new)
        /\ \A f \in new : \E i \in 1 .. m : f = FindingOf(policy, list[i], at)
        /\ \A i \in 1 .. m : KeyOf(list[i]) \in p.seen \/ \E f \in new : f.rule = list[i].rule
  BY <1>1 DEF RecordedTo
<1>5. \A f \in new : /\ f \in Findings /\ f.at = at
                     /\ f.rule \in HardRules => f.blocking = IsHard(policy)
  <2> TAKE f \in new
  <2>1. PICK i \in 1 .. m : f = FindingOf(policy, list[i], at)
    BY <1>4
  <2>2. list[i] \in Offences
    BY <1>0
  <2>3. /\ f \in Findings /\ f.at = at /\ f.rule = list[i].rule
        /\ f.blocking = (policy.mode = "enforce" /\ list[i].strength \in policy.blocking)
    BY <2>1, <2>2, FindingType
  <2>4. list[i].rule \in HardRules => list[i].strength = "hard"
    BY <2>2, KeysOfRules
  <2> QED
    BY <2>3, <2>4 DEF IsHard
<1>6. /\ LoadsIn(list) # 0 /\ LoadKey \notin p.seen => \E f \in new : f.rule = LoadRule
      /\ TellsDuty(list) /\ DutyKey \notin p.seen => \E f \in new : f.rule = "duty.domain"
  BY <1>0, <1>4, KeysOfRules DEF TellsDuty
<1>7. new \in SUBSET Findings
  BY <1>5
<1>8. Grew(p, q, policy, LoadsIn(list), TellsDuty(list), at)
  BY <1>2, <1>3, <1>4, <1>5, <1>6, <1>7 DEF Grew
<1> QED
  BY <1>8 DEF q

\* What a list of lists says.
LEMMA JoinedLists ==
  ASSUME NEW a \in Seq(Offences), NEW b \in Seq(Offences)
  PROVE  /\ a \o b \in Seq(Offences)
         /\ LoadsIn(a \o b) = LoadsIn(a) + LoadsIn(b)
         /\ TellsDuty(a \o b) <=> TellsDuty(a) \/ TellsDuty(b)
<1> DEFINE c == a \o b
           m == Len(a)
           C(list, k) == Cardinality(LoadOffencesTo(list, k))
           Wrong == {k \in 0 .. Len(b) : C(c, m + k) # C(a, m) + C(b, k)}
<1>1. /\ c \in Seq(Offences) /\ m \in Nat /\ Len(b) \in Nat /\ Len(c) = m + Len(b)
      /\ \A i \in 1 .. m + Len(b) : c[i] = IF i <= m THEN a[i] ELSE b[i - m]
  BY ConcatProperties, LenProperties
<1> HIDE DEF c
<1>2. \A i \in 1 .. m : c[i] = a[i]
  BY <1>1
<1>3. \A i \in 1 .. Len(b) : c[m + i] = b[i]
  <2> TAKE i \in 1 .. Len(b)
  <2>1. m + i \in 1 .. m + Len(b) /\ ~(m + i <= m) /\ (m + i) - m = i
    BY <1>1
  <2> QED
    BY <1>1, <2>1
<1>4. C(b, 0) = 0 /\ C(a, m) \in Nat /\ C(c, m) = C(a, m)
  <2>1. LoadOffencesTo(b, 0) = {} /\ LoadOffencesTo(c, m) = LoadOffencesTo(a, m)
    BY <1>2 DEF LoadOffencesTo
  <2> QED
    BY <1>1, <2>1, FS_EmptySet, LoadsAreThere DEF LoadsIn
<1>5. Wrong = {}
  <2> SUFFICES ASSUME Wrong # {} PROVE FALSE
    OBVIOUS
  <2>1. PICK k \in Wrong : \A j \in Wrong : ~(j < k)
    <3>1. Wrong \in SUBSET Nat
      BY <1>1
    <3> HIDE DEF Wrong
    <3> QED
      BY <3>1, LeastOf
  <2>2. k # 0
    BY <1>1, <1>4
  <2>3. /\ k - 1 \in 0 .. Len(b) /\ k - 1 < k /\ k \in 1 .. Len(b) /\ k \in Nat \ {0}
        /\ m + k \in Nat \ {0} /\ (m + k) - 1 = m + (k - 1)
    BY <1>1, <2>2
  <2>4. C(c, m + (k - 1)) = C(a, m) + C(b, k - 1)
    BY <2>1, <2>3
  <2>5. /\ C(b, k - 1) \in Nat
        /\ C(b, k) = C(b, k - 1) + (IF b[k].rule = LoadRule THEN 1 ELSE 0)
    BY <2>3, LoadsOneMore
  <2>6. C(c, m + k) = C(c, (m + k) - 1) + (IF c[m + k].rule = LoadRule THEN 1 ELSE 0)
    BY <2>3, LoadsOneMore
  <2>7. C(c, m + k) # C(a, m) + C(b, k) /\ c[m + k] = b[k]
    BY <1>3, <2>1, <2>3
  <2> HIDE DEF C
  <2> QED
    BY <1>4, <2>3, <2>4, <2>5, <2>6, <2>7
<1>6. C(c, m + Len(b)) = C(a, m) + C(b, Len(b))
  <2>1. Len(b) \in 0 .. Len(b)
    BY <1>1
  <2> QED
    BY <1>5, <2>1
<1>7. LoadsIn(c) = LoadsIn(a) + LoadsIn(b)
  BY <1>1, <1>6 DEF LoadsIn
<1>8. TellsDuty(c) <=> TellsDuty(a) \/ TellsDuty(b)
  <2>1. ASSUME TellsDuty(c) PROVE TellsDuty(a) \/ TellsDuty(b)
    <3>1. PICK i \in 1 .. m + Len(b) : c[i].rule = "duty.domain"
      BY <1>1, <2>1 DEF TellsDuty
    <3>2. CASE i <= m
      BY <1>1, <3>1, <3>2 DEF TellsDuty
    <3>3. CASE ~(i <= m)
      <4>1. i - m \in 1 .. Len(b)
        BY <1>1, <3>3
      <4> QED
        BY <1>1, <3>1, <3>3, <4>1 DEF TellsDuty
    <3> QED
      BY <3>2, <3>3
  <2>2. ASSUME TellsDuty(a) PROVE TellsDuty(c)
    <3>1. \A i \in 1 .. m : i \in 1 .. m + Len(b)
      BY <1>1
    <3> QED
      BY <1>1, <1>2, <2>2, <3>1 DEF TellsDuty
  <2>3. ASSUME TellsDuty(b) PROVE TellsDuty(c)
    <3>1. PICK i \in 1 .. Len(b) : b[i].rule = "duty.domain"
      BY <2>3 DEF TellsDuty
    <3>2. m + i \in 1 .. m + Len(b)
      BY <1>1
    <3> QED
      BY <1>1, <1>3, <3>1, <3>2 DEF TellsDuty
  <2> QED
    BY <2>1, <2>2, <2>3
<1> QED
  BY <1>1, <1>7, <1>8 DEF c

LEMMA ListOfOne ==
  ASSUME NEW o \in Offences, NEW condition \in BOOLEAN
  PROVE  /\ When(condition, o) \in Seq(Offences)
         /\ LoadsIn(When(condition, o)) = IF condition /\ o.rule = LoadRule THEN 1 ELSE 0
         /\ TellsDuty(When(condition, o)) <=> condition /\ o.rule = "duty.domain"
<1>1. CASE condition
  <2> DEFINE t == <<o>>
  <2>1. When(condition, o) = t
    BY <1>1 DEF When
  <2>2. t \in Seq(Offences) /\ Len(t) = 1 /\ t[1] = o
    OBVIOUS
  <2> HIDE DEF t
  <2>3. LoadsIn(t) = IF o.rule = LoadRule THEN 1 ELSE 0
    <3>1. LoadOffencesTo(t, 1) = IF o.rule = LoadRule THEN {1} ELSE {}
      BY <2>2 DEF LoadOffencesTo
    <3> QED
      BY <2>2, <3>1, FS_EmptySet, FS_Singleton DEF LoadsIn
  <2>4. TellsDuty(t) <=> o.rule = "duty.domain"
    BY <2>2 DEF TellsDuty
  <2> QED
    BY <1>1, <2>1, <2>2, <2>3, <2>4
<1>2. CASE ~condition
  <2> DEFINE t == << >>
  <2>1. When(condition, o) = t
    BY <1>2 DEF When
  <2>2. t \in Seq(Offences) /\ Len(t) = 0
    OBVIOUS
  <2> HIDE DEF t
  <2>3. LoadsIn(t) = 0
    <3>1. LoadOffencesTo(t, 0) = {}
      BY DEF LoadOffencesTo
    <3> QED
      BY <2>2, <3>1, FS_EmptySet DEF LoadsIn
  <2>4. ~TellsDuty(t)
    BY <2>2 DEF TellsDuty
  <2> QED
    BY <1>2, <2>1, <2>2, <2>3, <2>4
<1> QED
  BY <1>1, <1>2

-----------------------------------------------------------------------------
(***************************************************************************)
(* The lists of the four phases.                                           *)
(***************************************************************************)
Leaves(claim, policy, name, v) ==
  name \in DOMAIN claim.ranges /\ ~Contains_(claim.ranges[name], v, policy.tolerance)
LoadLeaves(w, v) == Leaves(w.claim, w.policy, "load_resistance_ohm", v)
DutyLeaves(w, v) == Leaves(w.claim, w.policy, "duty", v)

WatchOK(w) ==
  /\ w.policy \in EnvelopePolicies /\ w.policy.mode # "default"
  /\ w.status = ClaimStatus(w.claim)
  /\ w.provenance.records \in Seq(ParameterRecords)

\* Offences that are of neither the load nor the duty.
Others == {o \in Offences : o.rule \notin HardRules}

LEMMA OtherLists ==
  ASSUME NEW list \in Seq(Others)
  PROVE  list \in Seq(Offences) /\ LoadsIn(list) = 0 /\ ~TellsDuty(list)
<1>1. list \in Seq(Offences) /\ Len(list) \in Nat
  <2>1. Others \subseteq Offences
    BY DEF Others
  <2> QED
    BY <2>1, SeqMonotonic, LenProperties
<1>2. \A i \in 1 .. Len(list) : list[i].rule \notin HardRules
  BY ElementOfSeq DEF Others
<1>3. LoadsIn(list) = 0
  BY <1>1, <1>2, LoadsAreThere DEF HardRules
<1>4. ~TellsDuty(list)
  BY <1>2 DEF TellsDuty, HardRules
<1> QED
  BY <1>1, <1>3, <1>4

LEMMA OtherOffences ==
  /\ \A strength \in Strengths :
       /\ Offence("provenance.invalid", "provenance", strength) \in Others
       /\ Offence("provenance.unknown", "provenance", strength) \in Others
       /\ Offence("unknown", "claim", strength) \in Others
       /\ Offence("declaration_invalid", "claim", strength) \in Others
       /\ \A k \in DOMAIN LimitRules :
            Offence(LimitRules[k].rule, LimitRules[k].variable, strength) \in Others
  /\ Offence("actuator.undeclared", "duty", "advisory") \in Others
  /\ Offence("actuator.subset", "duty", "hard") \in Others
  /\ Offence("external_input.changed", "external", "advisory") \in Others
  /\ Offence("ccm.boundary", "duty", "advisory") \in Others
  /\ Offence("duty.resolution", "duty_resolution", "advisory") \in Others
  /\ Offence("vin.domain", "input_voltage_v", "hard") \in Others
  /\ \A name \in STRING : Offence("provenance.unreviewed", name, "advisory") \in Others
<1>1. \A rule \in Rules \ HardRules, variable \in Variables, strength \in Strengths :
         Offence(rule, variable, strength) \in Others
  BY DEF Offence, Others, Offences
<1>2. /\ {"provenance.invalid", "provenance.unknown", "unknown", "declaration_invalid",
          "actuator.undeclared", "actuator.subset", "external_input.changed", "ccm.boundary",
          "duty.resolution", "vin.domain", "provenance.unreviewed"} \subseteq Rules \ HardRules
      /\ {"provenance", "claim", "duty", "external", "duty_resolution", "input_voltage_v"}
           \subseteq Variables
      /\ STRING \subseteq Variables /\ {"hard", "advisory"} \subseteq Strengths
  BY DEF Rules, HardRules, LoadRule, Variables, Strengths
<1>3. \A k \in DOMAIN LimitRules :
         LimitRules[k].rule \in Rules \ HardRules /\ LimitRules[k].variable \in Variables
  <2>1. DOMAIN LimitRules = 1 .. 5
    BY DEF LimitRules
  <2>2. /\ LimitRules[1].rule = "control_period.switching_periods"
        /\ LimitRules[2].rule = "samples_per_switching_period"
        /\ LimitRules[3].rule = "timestep.dynamics"
        /\ LimitRules[4].rule = "control_period.substeps"
        /\ LimitRules[5].rule = "load.off_resistance_ratio"
        /\ LimitRules[1].variable = "control_period"
        /\ LimitRules[2].variable = "sample_resolution"
        /\ LimitRules[3].variable = "integration_step"
        /\ LimitRules[4].variable = "control_period"
        /\ LimitRules[5].variable = "load_ratio"
    BY DEF LimitRules
  <2>3. \A k \in 1 .. 5 : k = 1 \/ k = 2 \/ k = 3 \/ k = 4 \/ k = 5
    OBVIOUS
  <2> QED
    BY <2>1, <2>2, <2>3 DEF Rules, HardRules, LoadRule, Variables
<1> HIDE DEF LimitRules
<1> QED
  BY <1>1, <1>2, <1>3

LEMMA WhenIs ==
  ASSUME NEW S, NEW o \in S, NEW condition
  PROVE  When(condition, o) \in Seq(S)
<1>1. << >> \in Seq(S) /\ <<o>> \in Seq(S)
  OBVIOUS
<1> QED
  BY <1>1 DEF When

\* A range is left, or not.
LEMMA RangeLists ==
  ASSUME NEW claim, NEW policy, NEW v
  PROVE  /\ VinOffence(claim, policy, v) \in Seq(Others)
         /\ LoadOffence(claim, policy, v) \in Seq(Offences)
         /\ LoadsIn(LoadOffence(claim, policy, v))
              = IF Leaves(claim, policy, "load_resistance_ohm", v) THEN 1 ELSE 0
         /\ ~TellsDuty(LoadOffence(claim, policy, v))
         /\ DutyOffence(claim, policy, v) \in Seq(Offences)
         /\ LoadsIn(DutyOffence(claim, policy, v)) = 0
         /\ TellsDuty(DutyOffence(claim, policy, v)) <=> Leaves(claim, policy, "duty", v)
<1> DEFINE L == Offence(LoadRule, "load_resistance_ohm", "hard")
           D == Offence("duty.domain", "duty", "hard")
<1>1. /\ L \in Offences /\ D \in Offences /\ L.rule = LoadRule /\ D.rule = "duty.domain"
      /\ LoadRule # "duty.domain"
  BY DEF Offence, Offences, Rules, Variables, Strengths, HardRules, LoadRule, KeyOf, LoadKey,
         DutyKey
<1>2. \A name : Leaves(claim, policy, name, v) \in BOOLEAN
  BY DEF Leaves
<1>3. /\ VinOffence(claim, policy, v) = When(Leaves(claim, policy, "input_voltage_v", v),
                                            Offence("vin.domain", "input_voltage_v", "hard"))
      /\ LoadOffence(claim, policy, v) = When(Leaves(claim, policy, "load_resistance_ohm", v), L)
      /\ DutyOffence(claim, policy, v) = When(Leaves(claim, policy, "duty", v), D)
  BY DEF VinOffence, LoadOffence, DutyOffence, RangeOffence, Leaves, LoadRule
<1>4. VinOffence(claim, policy, v) \in Seq(Others)
  BY <1>3, OtherOffences, WhenIs
<1> HIDE DEF L, D
<1> QED
  BY <1>1, <1>2, <1>3, <1>4, ListOfOne

LEMMA ObservationList ==
  ASSUME NEW claim, NEW policy, NEW vin, NEW load, NEW lost
  PROVE  LET list == VinOffence(claim, policy, vin) \o LoadOffence(claim, policy, load)
                     \o When(lost, Offence("ccm.boundary", "duty", "advisory"))
         IN  /\ list \in Seq(Offences) /\ ~TellsDuty(list)
             /\ LoadsIn(list) = IF Leaves(claim, policy, "load_resistance_ohm", load) THEN 1 ELSE 0
<1> DEFINE a == VinOffence(claim, policy, vin)
           b == LoadOffence(claim, policy, load)
           c == When(lost, Offence("ccm.boundary", "duty", "advisory"))
<1>1. /\ a \in Seq(Offences) /\ LoadsIn(a) = 0 /\ ~TellsDuty(a)
      /\ c \in Seq(Offences) /\ LoadsIn(c) = 0 /\ ~TellsDuty(c)
  BY RangeLists, OtherOffences, WhenIs, OtherLists
<1>2. /\ b \in Seq(Offences) /\ ~TellsDuty(b)
      /\ LoadsIn(b) = IF Leaves(claim, policy, "load_resistance_ohm", load) THEN 1 ELSE 0
  BY RangeLists
<1> HIDE DEF a, b, c
<1>3. /\ a \o b \in Seq(Offences) /\ ~TellsDuty(a \o b) /\ LoadsIn(a \o b) = LoadsIn(b)
      /\ (a \o b) \o c \in Seq(Offences) /\ ~TellsDuty((a \o b) \o c)
      /\ LoadsIn((a \o b) \o c) = LoadsIn(b)
  <2>1. /\ a \o b \in Seq(Offences) /\ LoadsIn(a \o b) = LoadsIn(a) + LoadsIn(b)
        /\ ~TellsDuty(a \o b)
    BY <1>1, <1>2, JoinedLists
  <2> DEFINE d == a \o b
  <2> HIDE DEF d
  <2>2. d \o c \in Seq(Offences) /\ LoadsIn(d \o c) = LoadsIn(d) + LoadsIn(c) /\ ~TellsDuty(d \o c)
    BY <1>1, <2>1, JoinedLists DEF d
  <2> QED
    BY <1>1, <1>2, <2>1, <2>2 DEF d
<1> QED
  BY <1>2, <1>3 DEF a, b, c

LEMMA ActionList ==
  ASSUME NEW claim, NEW policy, NEW duty, NEW lost
  PROVE  LET list == DutyOffence(claim, policy, duty)
                     \o When(lost, Offence("duty.resolution", "duty_resolution", "advisory"))
         IN  /\ list \in Seq(Offences) /\ LoadsIn(list) = 0
             /\ TellsDuty(list) <=> Leaves(claim, policy, "duty", duty)
<1> DEFINE a == DutyOffence(claim, policy, duty)
           c == When(lost, Offence("duty.resolution", "duty_resolution", "advisory"))
<1>1. c \in Seq(Offences) /\ LoadsIn(c) = 0 /\ ~TellsDuty(c)
  BY OtherOffences, WhenIs, OtherLists
<1>2. a \in Seq(Offences) /\ LoadsIn(a) = 0 /\ (TellsDuty(a) <=> Leaves(claim, policy, "duty", duty))
  BY RangeLists
<1> HIDE DEF a, c
<1>3. a \o c \in Seq(Offences) /\ LoadsIn(a \o c) = 0 /\ (TellsDuty(a \o c) <=> TellsDuty(a))
  BY <1>1, <1>2, JoinedLists
<1> QED
  BY <1>2, <1>3 DEF a, c

\* A list per item of the schedule, and one offence of the load for each that
\* leaves the range.
LEMMA ScheduleList ==
  ASSUME NEW claim, NEW policy, NEW m \in Nat, NEW schedule, DOMAIN schedule = 1 .. m
  PROVE  LET list == ScheduleOffences(claim, policy, schedule)
         IN  /\ list \in Seq(Offences) /\ ~TellsDuty(list)
             /\ LoadsIn(list) = Cardinality({i \in 1 .. m :
                  Leaves(claim, policy, "load_resistance_ohm", schedule[i].load)})
<1> DEFINE part(k) == VinOffence(claim, policy, schedule[k].vin)
                      \o LoadOffence(claim, policy, schedule[k].load)
           parts == [k \in 1 .. m |-> part(k)]
           S == {i \in Int : Leaves(claim, policy, "load_resistance_ohm", schedule[i].load)}
<1>1. ASSUME NEW k \in 1 .. m
      PROVE  /\ part(k) \in Seq(Offences) /\ ~TellsDuty(part(k))
             /\ LoadsIn(part(k)) = IF k \in S THEN 1 ELSE 0
  <2> DEFINE a == VinOffence(claim, policy, schedule[k].vin)
             b == LoadOffence(claim, policy, schedule[k].load)
  <2>1. a \in Seq(Offences) /\ LoadsIn(a) = 0 /\ ~TellsDuty(a)
    BY RangeLists, OtherLists
  <2>2. /\ b \in Seq(Offences) /\ ~TellsDuty(b)
        /\ LoadsIn(b) = IF k \in S THEN 1 ELSE 0
    BY RangeLists
  <2> HIDE DEF a, b, S
  <2>3. a \o b \in Seq(Offences) /\ ~TellsDuty(a \o b) /\ LoadsIn(a \o b) = LoadsIn(b)
    BY <2>1, <2>2, JoinedLists
  <2> QED
    BY <2>2, <2>3 DEF a, b
<1>2. ScheduleOffences(claim, policy, schedule) = Seqs!FlattenSeq(parts)
  BY DEF ScheduleOffences
<1> HIDE DEF part
<1>3. parts \in Seq(Seq(Offences)) /\ Len(parts) = m /\ \A k \in 1 .. m : parts[k] = part(k)
  BY <1>1
<1> HIDE DEF parts, S
<1>4. PICK f : /\ f[0] = << >>
               /\ \A k \in 0 .. m : f[k] \in Seq(Offences)
               /\ \A k \in 1 .. m : f[k] = f[k - 1] \o parts[k]
               /\ Seqs!FlattenSeq(parts) = f[m]
  BY <1>3, JoinedInTurn
<1> DEFINE Right(k) == ~TellsDuty(f[k]) /\ LoadsIn(f[k]) = Cardinality(Between_(S, 1, k))
           Wrong == {k \in 0 .. m : ~Right(k)}
<1>5. Right(0)
  <2>1. << >> \in Seq(Others)
    OBVIOUS
  <2>2. LoadsIn(<< >>) = 0 /\ ~TellsDuty(<< >>)
    BY <2>1, OtherLists
  <2>3. Between_(S, 1, 0) = {}
    BY DEF Between_
  <2> QED
    BY <1>4, <2>2, <2>3, FS_EmptySet
<1>6. Wrong = {}
  <2> SUFFICES ASSUME Wrong # {} PROVE FALSE
    OBVIOUS
  <2>1. PICK k \in Wrong : \A j \in Wrong : ~(j < k)
    <3>1. Wrong \in SUBSET Nat
      OBVIOUS
    <3> HIDE DEF Wrong
    <3> QED
      BY <3>1, LeastOf
  <2>2. k # 0
    BY <1>5
  <2>3. k - 1 \in 0 .. m /\ k - 1 < k /\ k \in 1 .. m /\ (k - 1) + 1 = k /\ k - 1 \in Nat
    BY <2>2
  <2>4. Right(k - 1) /\ ~Right(k)
    BY <2>1, <2>3
  <2>5. /\ f[k - 1] \in Seq(Offences) /\ part(k) \in Seq(Offences) /\ ~TellsDuty(part(k))
        /\ LoadsIn(part(k)) = IF k \in S THEN 1 ELSE 0
    BY <1>1, <1>4, <2>3
  <2>6. /\ LoadsIn(f[k]) = LoadsIn(f[k - 1]) + LoadsIn(part(k))
        /\ TellsDuty(f[k]) <=> TellsDuty(f[k - 1]) \/ TellsDuty(part(k))
    <3> DEFINE x == f[k - 1]  y == part(k)
    <3>1. f[k] = x \o y
      BY <1>3, <1>4, <2>3
    <3>2. x \in Seq(Offences) /\ y \in Seq(Offences)
      BY <2>5
    <3> HIDE DEF x, y
    <3>3. /\ LoadsIn(f[k]) = LoadsIn(x) + LoadsIn(y)
          /\ TellsDuty(f[k]) <=> TellsDuty(x) \/ TellsDuty(y)
      BY <3>1, <3>2, JoinedLists
    <3> QED
      BY <3>3 DEF x, y
  <2>7. \A j \in Nat : Cardinality(Between_(S, 1, j + 1)) =
                          Cardinality(Between_(S, 1, j)) + (IF j + 1 \in S THEN 1 ELSE 0)
    <3> HIDE DEF Wrong, Right
    <3> QED
      BY OneMore
  <2>8. Cardinality(Between_(S, 1, k)) =
          Cardinality(Between_(S, 1, k - 1)) + (IF k \in S THEN 1 ELSE 0)
    BY <2>3, <2>7
  <2> QED
    BY <2>4, <2>5, <2>6, <2>8
<1>7. Right(m)
  <2>1. m \in 0 .. m
    OBVIOUS
  <2> QED
    BY <1>6, <2>1
<1>8. Between_(S, 1, m) = {i \in 1 .. m :
         Leaves(claim, policy, "load_resistance_ohm", schedule[i].load)}
  BY DEF Between_, S
<1>9. m \in 0 .. m
  OBVIOUS
<1> QED
  BY <1>2, <1>4, <1>7, <1>8, <1>9

\* Lists that are joined from lists of other offences are such lists.
LEMMA OthersJoined ==
  ASSUME NEW m \in Nat, NEW parts \in [1 .. m -> Seq(Others)]
  PROVE  Seqs!FlattenSeq(parts) \in Seq(Others)
<1>1. parts \in Seq(Seq(Others)) /\ Len(parts) = m
  OBVIOUS
<1>2. PICK f : /\ \A k \in 0 .. m : f[k] \in Seq(Others)
               /\ Seqs!FlattenSeq(parts) = f[m]
  BY <1>1, JoinedInTurn
<1>3. m \in 0 .. m
  OBVIOUS
<1> QED
  BY <1>2, <1>3

LEMMA LimitList ==
  ASSUME NEW claim, NEW period, ClaimIsReadable(claim)
  PROVE  LimitOffences(claim, period) \in Seq(Others)
<1>1. DOMAIN LimitRules = 1 .. 5
  BY DEF LimitRules
<1>2. ASSUME NEW k \in 1 .. 5
      PROVE  LimitOffence(claim, period, LimitRules[k]) \in Seq(Others)
  <2> DEFINE r == LimitRules[k]
             o == Offence(r.rule, r.variable, claim.limits[r.limit].strength)
  <2>1. CASE r.of \in DOMAIN claim.static /\ r.limit \in DOMAIN claim.limits
    <3>1. claim.limits[r.limit].strength \in Strengths
      BY <2>1 DEF ClaimIsReadable, LimitIsSound, Strengths
    <3>2. o \in Others
      BY <1>1, <3>1, OtherOffences
    <3>3. LimitOffence(claim, period, r) = When(LimitIsBroken(claim, r, period), o)
      BY <2>1 DEF LimitOffence
    <3> HIDE DEF r, o
    <3> QED
      BY <3>2, <3>3, WhenIs DEF r
  <2>2. CASE ~(r.of \in DOMAIN claim.static /\ r.limit \in DOMAIN claim.limits)
    <3>1. LimitOffence(claim, period, r) = << >>
      BY <2>2 DEF LimitOffence
    <3> QED
      BY <3>1
  <2> QED
    BY <2>1, <2>2
<1> DEFINE parts == [k \in DOMAIN LimitRules |-> LimitOffence(claim, period, LimitRules[k])]
<1>3. parts \in [1 .. 5 -> Seq(Others)]
  BY <1>1, <1>2
<1>4. LimitOffences(claim, period) = Seqs!FlattenSeq(parts)
  BY DEF LimitOffences
<1> HIDE DEF parts
<1>5. 5 \in Nat
  OBVIOUS
<1>6. Seqs!FlattenSeq(parts) \in Seq(Others)
  BY <1>3, <1>5, OthersJoined
<1> QED
  BY <1>4, <1>6

LEMMA ProvenanceList ==
  ASSUME NEW provenance, NEW policy, provenance.records \in Seq(ParameterRecords)
  PROVE  ProvenanceOffences(provenance, policy) \in Seq(Others)
<1> DEFINE records == provenance.records
           line(k) == When(IsUnreviewed(records[k]),
                           Offence("provenance.unreviewed", records[k].name, "advisory"))
           parts == [k \in DOMAIN records |-> line(k)]
<1>1. Len(records) \in Nat /\ DOMAIN records = 1 .. Len(records)
  BY LenProperties
<1>2. ASSUME NEW k \in 1 .. Len(records) PROVE line(k) \in Seq(Others)
  <2>1. records[k].name \in STRING
    <3>1. records[k] \in ParameterRecords
      BY ElementOfSeq
    <3> QED
      BY <3>1 DEF ParameterRecords
  <2> QED
    BY <2>1, OtherOffences, WhenIs
<1> HIDE DEF line
<1>3. parts \in [1 .. Len(records) -> Seq(Others)]
  BY <1>1, <1>2
<1> HIDE DEF parts
<1>4. Seqs!FlattenSeq(parts) \in Seq(Others)
  BY <1>1, <1>3, OthersJoined
<1>5. Required(policy.requireProvenance) \in Strengths
  BY DEF Required, Strengths
<1>6. /\ <<Offence("provenance.invalid", "provenance", Required(policy.requireProvenance))>>
           \in Seq(Others)
      /\ <<Offence("provenance.unknown", "provenance", Required(policy.requireProvenance))>>
           \in Seq(Others)
  BY <1>5, OtherOffences
<1>7. \/ ProvenanceOffences(provenance, policy) =
           <<Offence("provenance.invalid", "provenance", Required(policy.requireProvenance))>>
      \/ ProvenanceOffences(provenance, policy) =
           <<Offence("provenance.unknown", "provenance", Required(policy.requireProvenance))>>
      \/ ProvenanceOffences(provenance, policy) = Seqs!FlattenSeq(parts)
  BY DEF ProvenanceOffences, parts, line
<1> QED
  BY <1>4, <1>6, <1>7

LEMMA ActuatorList ==
  ASSUME NEW claim, NEW policy, NEW bounds
  PROVE  ActuatorOffence(claim, policy, bounds) \in Seq(Others)
<1> DEFINE undeclared == Offence("actuator.undeclared", "duty", "advisory")
           subset == Offence("actuator.subset", "duty", "hard")
           Broken == \E v \in bounds : ~Contains_(claim.ranges["duty"], v, policy.tolerance)
<1>1. undeclared \in Others /\ subset \in Others
  BY OtherOffences
<1>2. \/ ActuatorOffence(claim, policy, bounds) = << >>
      \/ ActuatorOffence(claim, policy, bounds) = <<undeclared>>
      \/ ActuatorOffence(claim, policy, bounds) = When(Broken, subset)
  BY DEF ActuatorOffence
<1>3. When(Broken, subset) \in Seq(Others)
  <2> HIDE DEF subset, Broken
  <2> QED
    BY <1>1, WhenIs
<1>4. << >> \in Seq(Others) /\ <<undeclared>> \in Seq(Others)
  BY <1>1
<1> HIDE DEF undeclared, subset, Broken
<1> QED
  BY <1>2, <1>3, <1>4

LEMMA StatusIs ==
  ASSUME NEW w, WatchOK(w)
  PROVE  /\ w.status \in {"unknown", "declared", "declaration_invalid"}
         /\ w.status = "declared" => ClaimIsReadable(w.claim)
BY DEF WatchOK, ClaimStatus

LEMMA PreflightList ==
  ASSUME NEW w, WatchOK(w), NEW m \in Nat, NEW schedule, DOMAIN schedule = 1 .. m, NEW period
  PROVE  LET list == PreflightOffences(w, schedule, period)
         IN  /\ list \in Seq(Offences) /\ ~TellsDuty(list)
             /\ w.status = "declared" =>
                  LoadsIn(list) = Cardinality({i \in 1 .. m : LoadLeaves(w, schedule[i].load)})
<1> DEFINE list == PreflightOffences(w, schedule, period)
<1>1. CASE w.status # "declared"
  <2> DEFINE o == Offence(w.status, "claim", Required(w.policy.requireEnvelope))
  <2>1. o \in Others
    <3>1. Required(w.policy.requireEnvelope) \in Strengths
      BY DEF Required, Strengths
    <3> QED
      BY <1>1, <3>1, StatusIs, OtherOffences
  <2>2. list = <<o>>
    BY <1>1 DEF PreflightOffences
  <2> HIDE DEF o, list
  <2>3. list \in Seq(Others)
    BY <2>1, <2>2
  <2>4. list \in Seq(Offences) /\ ~TellsDuty(list)
    BY <2>3, OtherLists
  <2> QED
    BY <1>1, <2>4 DEF list
<1>2. CASE w.status = "declared"
  <2> DEFINE a == ActuatorOffence(w.claim, w.policy, w.bounds)
             b == ScheduleOffences(w.claim, w.policy, schedule)
             c == LimitOffences(w.claim, period)
             d == ProvenanceOffences(w.provenance, w.policy)
             N == Cardinality({i \in 1 .. m : LoadLeaves(w, schedule[i].load)})
  <2>1. list = ((a \o b) \o c) \o d
    BY <1>2 DEF PreflightOffences
  <2>2. b \in Seq(Offences) /\ ~TellsDuty(b) /\ LoadsIn(b) = N
    BY ScheduleList DEF LoadLeaves
  <2>3. a \in Seq(Others)
    BY ActuatorList
  <2>4. c \in Seq(Others)
    BY <1>2, StatusIs, LimitList
  <2>5. d \in Seq(Others)
    BY ProvenanceList DEF WatchOK
  <2> HIDE DEF a, b, c, d, list, N
  <2>6. /\ a \in Seq(Offences) /\ LoadsIn(a) = 0 /\ ~TellsDuty(a)
        /\ c \in Seq(Offences) /\ LoadsIn(c) = 0 /\ ~TellsDuty(c)
        /\ d \in Seq(Offences) /\ LoadsIn(d) = 0 /\ ~TellsDuty(d)
    BY <2>3, <2>4, <2>5, OtherLists
  <2>7. N \in Nat
    <3>1. Len(b) \in Nat
      BY <2>2, LenProperties
    <3> QED
      BY <2>2, <3>1, LoadsAreThere
  <2> DEFINE x == a \o b  y == x \o c
  <2>8. x \in Seq(Offences) /\ LoadsIn(x) = N /\ ~TellsDuty(x)
    BY <2>2, <2>6, <2>7, JoinedLists
  <2> HIDE DEF x
  <2>9. y \in Seq(Offences) /\ LoadsIn(y) = N /\ ~TellsDuty(y)
    BY <2>6, <2>7, <2>8, JoinedLists
  <2> HIDE DEF y
  <2>10. y \o d \in Seq(Offences) /\ LoadsIn(y \o d) = N /\ ~TellsDuty(y \o d)
    BY <2>6, <2>7, <2>9, JoinedLists
  <2> QED
    BY <2>1, <2>10 DEF x, y, N, list
<1> QED
  BY <1>1, <1>2

-----------------------------------------------------------------------------
(***************************************************************************)
(* What a phase does to the plugin.                                        *)
(***************************************************************************)
\* A plugin is well formed, a policy that is off has found nothing, and what was
\* found of the load and the duty is blocking exactly when the policy blocks it.
PluginIsSound(p, w) ==
  /\ PluginOK(p)
  /\ w.policy.mode = "off" => p.all = << >> /\ p.pending = << >>
  /\ \A f \in Seqs!ToSet(p.all) : f.rule \in HardRules => f.blocking = IsHard(w.policy)

Gained(p, q, w) ==
  /\ PluginOK(q)
  /\ \E new : /\ Added(p, q, new)
              /\ \A f \in new : f.rule \in HardRules => f.blocking = IsHard(w.policy)

\* A phase that began with nothing pending: what blocks is what was pending at its
\* end, or did already.
Passed(p, q, w) ==
  /\ PluginIsSound(q, w)
  /\ Seqs!ToSet(p.all) \subseteq Seqs!ToSet(q.all)
  /\ Blocks(q.all) <=> Blocks(p.all) \/ Rejects_(q)

LEMMA GainedAgain ==
  ASSUME NEW w, NEW p, NEW q, NEW r, Gained(p, q, w), Gained(q, r, w)
  PROVE  Gained(p, r, w)
<1>1. PICK a : Added(p, q, a) /\ \A f \in a : f.rule \in HardRules => f.blocking = IsHard(w.policy)
  BY DEF Gained
<1>2. PICK b : Added(q, r, b) /\ \A f \in b : f.rule \in HardRules => f.blocking = IsHard(w.policy)
  BY DEF Gained
<1>3. Added(p, r, a \cup b)
  BY <1>1, <1>2 DEF Added
<1> QED
  BY <1>1, <1>2, <1>3 DEF Gained

LEMMA GrewIsGained ==
  ASSUME NEW w, NEW p, NEW q, NEW loads, NEW duty, NEW at,
         Grew(p, q, w.policy, loads, duty, at)
  PROVE  Gained(p, q, w)
<1>1. PICK new \in SUBSET Findings :
        /\ Added(p, q, new)
        /\ \A f \in new : f.rule \in HardRules => f.blocking = IsHard(w.policy)
  BY DEF Grew
<1>2. PluginOK(q)
  BY DEF Grew
<1> QED
  BY <1>1, <1>2 DEF Gained

LEMMA NoneInEmpty == Seqs!ToSet(<< >>) = {}
BY DEF Seqs!ToSet

LEMMA GainedIsPassed ==
  ASSUME NEW w, NEW p, NEW q, w.policy.mode # "off", PluginIsSound(p, w), p.pending = << >>,
         Gained(p, q, w)
  PROVE  Passed(p, q, w)
<1>1. PICK new : Added(p, q, new) /\ \A f \in new : f.rule \in HardRules => f.blocking = IsHard(w.policy)
  BY DEF Gained
<1>2. Seqs!ToSet(q.all) = Seqs!ToSet(p.all) \cup new /\ Seqs!ToSet(q.pending) = new
  BY <1>1, NoneInEmpty DEF Added
<1>3. PluginIsSound(q, w)
  BY <1>1, <1>2 DEF PluginIsSound, Gained
<1> QED
  BY <1>2, <1>3 DEF Passed, Blocks, Rejects_

\* A report takes what is pending and leaves the rest.
LEMMA ReportKeeps ==
  ASSUME NEW p, PluginOK(p), NEW q, q = Reported(p)
  PROVE  /\ PluginOK(q) /\ q.pending = << >> /\ q.all = p.all /\ q.seen = p.seen
         /\ q.last = p.last /\ Times(q, LoadRule) = Times(p, LoadRule)
<1>1. p = [f \in PluginFields |-> p[f]]
  BY DEF PluginOK
<1>2. /\ q.pending = << >> /\ q.all = p.all /\ q.seen = p.seen /\ q.last = p.last
      /\ q.counts = p.counts /\ q = [f \in PluginFields |-> q[f]]
  BY <1>1 DEF Reported, PluginFields
<1>3. << >> \in Seq(Findings)
  OBVIOUS
<1> QED
  BY <1>2, <1>3 DEF PluginOK, Times

\* The plugin starts with nothing.
LEMMA NewIsSound ==
  ASSUME NEW w
  PROVE  /\ PluginIsSound(NewPlugin, w) /\ NewPlugin.pending = << >> /\ NewPlugin.all = << >>
         /\ NewPlugin.seen = {} /\ NewPlugin.last = << >> /\ Times(NewPlugin, LoadRule) = 0
<1> DEFINE p == NewPlugin
<1>1. /\ p.pending = << >> /\ p.all = << >> /\ p.seen = {} /\ p.last = << >> /\ p.counts = << >>
      /\ p = [f \in PluginFields |-> p[f]]
  BY DEF NewPlugin, PluginFields
<1>2. << >> \in Seq(Findings) /\ DOMAIN << >> = {}
  OBVIOUS
<1> HIDE DEF p
<1>3. PluginOK(p)
  BY <1>1, <1>2 DEF PluginOK
<1>4. Times(p, LoadRule) = 0
  BY <1>1, <1>2 DEF Times
<1>5. PluginIsSound(p, w)
  BY <1>1, <1>3, NoneInEmpty DEF PluginIsSound
<1> QED
  BY <1>1, <1>4, <1>5 DEF p

-----------------------------------------------------------------------------
\* The preflight.
LoadsOut(w, schedule, m) == {i \in 1 .. m : LoadLeaves(w, schedule[i].load)}

LEMMA PreflightPasses ==
  ASSUME NEW w, WatchOK(w), NEW schedule, NEW m \in Nat, DOMAIN schedule = 1 .. m, NEW period,
         NEW q, q = CheckPreflight(w, schedule, period)
  PROVE  /\ PluginIsSound(q, w) /\ q.last = << >> /\ DutyKey \notin q.seen
         /\ Blocks(q.all) <=> Rejects_(q)
         /\ w.status = "declared" /\ w.policy.mode # "off" =>
              /\ Times(q, LoadRule) =
                   IF w.policy.preflight THEN Cardinality(LoadsOut(w, schedule, m)) ELSE 0
              /\ LoadKey \in q.seen =>
                   \E f \in Seqs!ToSet(q.all) : f.rule = LoadRule /\ f.at = 0
<1> DEFINE p == NewPlugin
<1>1. /\ PluginIsSound(p, w) /\ p.pending = << >> /\ p.all = << >> /\ p.seen = {}
      /\ p.last = << >> /\ Times(p, LoadRule) = 0 /\ PluginOK(p)
  BY NewIsSound DEF PluginIsSound
<1>2. ~Blocks(p.all) /\ ~Rejects_(p)
  BY <1>1, NoneInEmpty DEF Blocks, Rejects_
<1> HIDE DEF p
<1>3. CASE ~w.policy.preflight
  <2>1. q = p
    BY <1>3 DEF CheckPreflight, p
  <2> QED
    BY <1>1, <1>2, <1>3, <2>1
<1> DEFINE list == PreflightOffences(w, schedule, period)
           N == Cardinality(LoadsOut(w, schedule, m))
<1>4. list \in Seq(Offences) /\ ~TellsDuty(list) /\ (w.status = "declared" => LoadsIn(list) = N)
  BY PreflightList DEF LoadsOut
<1> HIDE DEF list, N
<1>5. CASE w.policy.preflight /\ w.policy.mode = "off"
  <2>1. q = p
    BY <1>4, <1>5, NothingRecorded DEF CheckPreflight, p, list
  <2> QED
    BY <1>1, <1>2, <1>5, <2>1
<1>6. CASE w.policy.preflight /\ w.policy.mode # "off"
  <2>1. q = RecordAll(p, w.policy, list, 0)
    BY <1>6 DEF CheckPreflight, p, list
  <2>2. Grew(p, q, w.policy, LoadsIn(list), TellsDuty(list), 0)
    BY <1>1, <1>4, <1>6, <2>1, ListGrows DEF WatchOK
  <2>3. Passed(p, q, w)
    BY <1>1, <1>6, <2>2, GrewIsGained, GainedIsPassed
  <2>4. /\ q.last = << >> /\ DutyKey \notin q.seen /\ (LoadKey \in q.seen <=> LoadsIn(list) # 0)
        /\ Times(q, LoadRule) = 0 + LoadsIn(list)
    BY <1>1, <1>4, <2>2 DEF Grew
  <2>5. LoadsIn(list) \in Nat
    BY <1>4, LoadsAreThere, LenProperties
  <2>6. LoadKey \in q.seen => \E f \in Seqs!ToSet(q.all) : f.rule = LoadRule /\ f.at = 0
    <3> SUFFICES ASSUME LoadKey \in q.seen
                 PROVE  \E f \in Seqs!ToSet(q.all) : f.rule = LoadRule /\ f.at = 0
      OBVIOUS
    <3>1. LoadsIn(list) # 0 /\ LoadKey \notin p.seen
      BY <1>1, <2>4
    <3>2. PICK new \in SUBSET Findings :
            /\ Added(p, q, new) /\ \A f \in new : f.at = 0
            /\ LoadsIn(list) # 0 /\ LoadKey \notin p.seen => \E f \in new : f.rule = LoadRule
      BY <2>2 DEF Grew
    <3>3. \E f \in new : f.rule = LoadRule
      BY <3>1, <3>2
    <3> QED
      BY <3>2, <3>3 DEF Added
  <2> QED
    BY <1>2, <1>4, <1>6, <2>3, <2>4, <2>5, <2>6 DEF Passed, N
<1> QED
  BY <1>3, <1>5, <1>6

\* The point has moved.
MovesAway(p, w, point) ==
  w.policy.external /\ p.last # << >> /\ p.last # <<point>>

LEMMA MovedPlugin ==
  ASSUME NEW p, PluginOK(p), NEW policy \in EnvelopePolicies, NEW at \in Nat,
         NEW w, w.policy = policy, NEW q, q = Moved(p, policy, at)
  PROVE  /\ policy.mode # "off" => Gained(p, q, w)
         /\ policy.mode = "off" => PluginOK(q) /\ q.all = p.all /\ q.pending = p.pending
         /\ Times(q, LoadRule) = Times(p, LoadRule)
         /\ LoadKey \notin q.seen /\ (DutyKey \in q.seen <=> DutyKey \in p.seen)
<1> DEFINE o == Offence("external_input.changed", "external", "advisory")
           list == <<o>>
           told == RecordAll(p, policy, list, at)
<1>1. list \in Seq(Others)
  <2>1. o \in Others
    BY OtherOffences
  <2> HIDE DEF o
  <2> QED
    BY <2>1
<1>2. q = [told EXCEPT !.seen = @ \ PointKeys]
  BY DEF Moved
<1> HIDE DEF list
<1>3. list \in Seq(Offences) /\ LoadsIn(list) = 0 /\ ~TellsDuty(list)
  BY <1>1, OtherLists
<1>4. /\ PluginOK(told) /\ Times(told, LoadRule) = Times(p, LoadRule)
      /\ DutyKey \in told.seen <=> DutyKey \in p.seen
      /\ policy.mode # "off" => Gained(p, told, w)
      /\ policy.mode = "off" => told = p
  <2>1. CASE policy.mode = "off"
    BY <1>3, <2>1, NothingRecorded
  <2>2. CASE policy.mode # "off"
    <3>1. Grew(p, told, policy, 0, FALSE, at)
      <4>1. Grew(p, told, policy, LoadsIn(list), TellsDuty(list), at)
        BY <1>3, <2>2, ListGrows
      <4>2. TellsDuty(list) = FALSE
        BY <1>3 DEF TellsDuty
      <4> QED
        BY <1>3, <4>1, <4>2
    <3>2. Times(p, LoadRule) \in Nat
      BY TimesType
    <3> HIDE DEF told
    <3>3. Gained(p, told, w)
      BY <3>1, GrewIsGained
    <3> QED
      BY <2>2, <3>1, <3>2, <3>3 DEF Grew
  <2> QED
    BY <2>1, <2>2
<1> HIDE DEF told
<1>5. told = [f \in PluginFields |-> told[f]]
  BY <1>4 DEF PluginOK
<1>6. /\ q.all = told.all /\ q.pending = told.pending /\ q.counts = told.counts
      /\ q.seen = told.seen \ PointKeys /\ q = [f \in PluginFields |-> q[f]]
  BY <1>2, <1>5 DEF PluginFields
<1>7. PluginOK(q) /\ Times(q, LoadRule) = Times(told, LoadRule)
  BY <1>4, <1>6 DEF PluginOK, Times
<1>8. LoadKey \in PointKeys /\ DutyKey \notin PointKeys
  BY DEF LoadKey, DutyKey, PointKeys, LoadRule
<1>9. policy.mode # "off" => Gained(p, q, w)
  BY <1>4, <1>6, <1>7 DEF Gained, Added
<1> QED
  BY <1>4, <1>6, <1>7, <1>8, <1>9

\* An observation: a plugin that is told where the load is.
LEMMA ObservationPasses ==
  ASSUME NEW w, WatchOK(w), NEW p, PluginIsSound(p, w), p.pending = << >>,
         NEW point, NEW duty, NEW at \in Nat, NEW q, q = CheckObservation(p, w, point, duty, at)
  PROVE  /\ Passed(p, q, w)
         /\ DutyKey \in q.seen <=> DutyKey \in p.seen
         /\ Stepped(w) /\ w.policy.mode # "off" =>
              /\ w.policy.external => q.last = <<point>>
              /\ Times(q, LoadRule) = Times(p, LoadRule) + IF LoadLeaves(w, point.load) THEN 1 ELSE 0
              /\ LoadKey \in q.seen <=> \/ LoadKey \in p.seen /\ ~MovesAway(p, w, point)
                                        \/ LoadLeaves(w, point.load)
              /\ LoadLeaves(w, point.load) /\ (LoadKey \notin p.seen \/ MovesAway(p, w, point)) =>
                   \E f \in Seqs!ToSet(q.all) : f.rule = LoadRule /\ f.at = at
<1> DEFINE policy == w.policy
           lost == ConductionIsLost(w.claim, point.vin, point.load, duty)
           list == VinOffence(w.claim, policy, point.vin) \o LoadOffence(w.claim, policy, point.load)
                   \o When(lost, Offence("ccm.boundary", "duty", "advisory"))
           moved == MovesAway(p, w, point)
           before == IF moved THEN Moved(p, policy, at) ELSE p
           placed == [before EXCEPT !.last = IF policy.external THEN <<point>> ELSE @]
           out == LoadLeaves(w, point.load)
<1>1. CASE ~Stepped(w)
  <2>1. q = p
    BY <1>1 DEF CheckObservation
  <2>2. ~Rejects_(p)
    BY NoneInEmpty DEF Rejects_, Blocks
  <2> QED
    BY <1>1, <2>1, <2>2 DEF Passed
<1>2. ASSUME Stepped(w)
      PROVE  q = RecordAll(placed, policy, list, at)
  BY <1>2 DEF CheckObservation, MovesAway
<1>3. policy \in EnvelopePolicies
  BY DEF WatchOK
<1>4. /\ list \in Seq(Offences) /\ ~TellsDuty(list) /\ LoadsIn(list) = IF out THEN 1 ELSE 0
  BY ObservationList DEF LoadLeaves
<1>5. PluginOK(p)
  BY DEF PluginIsSound
<1>6. /\ PluginOK(before) /\ Times(before, LoadRule) = Times(p, LoadRule)
      /\ LoadKey \in before.seen <=> LoadKey \in p.seen /\ ~moved
      /\ DutyKey \in before.seen <=> DutyKey \in p.seen
      /\ policy.mode = "off" => before.all = p.all /\ before.pending = p.pending
      /\ policy.mode # "off" => Gained(p, before, w)
  <2>1. CASE moved
    <3>1. before = Moved(p, policy, at)
      BY <2>1
    <3> HIDE DEF before, moved
    <3>2. policy.mode # "off" => PluginOK(before)
      BY <1>3, <1>5, <3>1, MovedPlugin DEF Gained
    <3> QED
      BY <1>3, <1>5, <2>1, <3>1, <3>2, MovedPlugin
  <2>2. CASE ~moved
    <3>1. before = p
      BY <2>2
    <3> HIDE DEF before, moved
    <3>2. Added(p, p, {})
      BY DEF Added
    <3>3. Gained(p, p, w)
      BY <1>5, <3>2 DEF Gained
    <3> QED
      BY <1>5, <2>2, <3>1, <3>3
  <2> QED
    BY <2>1, <2>2
<1> HIDE DEF before, moved, list, out
<1>7. /\ placed.all = before.all /\ placed.pending = before.pending /\ placed.seen = before.seen
      /\ placed.counts = before.counts /\ (policy.external => placed.last = <<point>>)
      /\ placed = [f \in PluginFields |-> placed[f]]
  <2>1. before = [f \in PluginFields |-> before[f]]
    BY <1>6 DEF PluginOK
  <2> QED
    BY <2>1 DEF PluginFields
<1> HIDE DEF placed
<1>8. /\ PluginOK(placed) /\ Times(placed, LoadRule) = Times(p, LoadRule)
      /\ policy.mode # "off" => Gained(p, placed, w)
  BY <1>6, <1>7 DEF PluginOK, Times, Gained, Added
<1>9. CASE Stepped(w) /\ policy.mode = "off"
  <2>1. q = placed
    BY <1>2, <1>4, <1>9, NothingRecorded
  <2>2. q.all = << >> /\ q.pending = << >> /\ p.all = << >> /\ PluginOK(q)
    BY <1>6, <1>7, <1>8, <1>9, <2>1 DEF PluginIsSound
  <2>3. PluginIsSound(q, w)
    BY <2>2, NoneInEmpty DEF PluginIsSound
  <2>4. Passed(p, q, w)
    BY <2>2, <2>3, NoneInEmpty DEF Passed, Blocks, Rejects_
  <2> QED
    BY <1>6, <1>7, <1>9, <2>1, <2>4
<1>10. CASE Stepped(w) /\ policy.mode # "off"
  <2>1. Grew(placed, q, policy, LoadsIn(list), TellsDuty(list), at)
    BY <1>2, <1>3, <1>4, <1>8, <1>10, ListGrows
  <2>2. Passed(p, q, w)
    <3>1. Gained(placed, q, w)
      BY <2>1, GrewIsGained
    <3>2. Gained(p, q, w)
      BY <1>8, <1>10, <3>1, GainedAgain
    <3> QED
      BY <1>10, <3>2, GainedIsPassed
  <2>3. /\ q.last = placed.last
        /\ LoadKey \in q.seen <=> LoadKey \in placed.seen \/ LoadsIn(list) # 0
        /\ DutyKey \in q.seen <=> DutyKey \in placed.seen
        /\ Times(q, LoadRule) = Times(placed, LoadRule) + LoadsIn(list)
    BY <1>4, <2>1 DEF Grew
  <2>4. ASSUME out, LoadKey \notin p.seen \/ moved
        PROVE  \E f \in Seqs!ToSet(q.all) : f.rule = LoadRule /\ f.at = at
    <3>1. LoadsIn(list) # 0 /\ LoadKey \notin placed.seen
      BY <1>4, <1>6, <1>7, <2>4
    <3>2. PICK new \in SUBSET Findings :
            /\ Added(placed, q, new) /\ \A f \in new : f.at = at
            /\ LoadsIn(list) # 0 /\ LoadKey \notin placed.seen => \E f \in new : f.rule = LoadRule
      BY <2>1 DEF Grew
    <3>3. \E f \in new : f.rule = LoadRule
      BY <3>1, <3>2
    <3> QED
      BY <3>2, <3>3 DEF Added
  <2>5. out \in BOOLEAN
    BY DEF out, LoadLeaves, Leaves
  <2>6. /\ policy.external => q.last = <<point>>
        /\ Times(q, LoadRule) = Times(p, LoadRule) + IF out THEN 1 ELSE 0
        /\ DutyKey \in q.seen <=> DutyKey \in p.seen
    BY <1>4, <1>6, <1>7, <1>8, <2>3
  <2>7. LoadKey \in q.seen <=> (LoadKey \in p.seen /\ ~moved) \/ out
    BY <1>4, <1>6, <1>7, <2>3, <2>5
  <2> QED
    BY <2>2, <2>4, <2>6, <2>7 DEF out, moved
<1> QED
  BY <1>1, <1>9, <1>10

\* An action: the duty that is about to be driven.
LEMMA ActionPasses ==
  ASSUME NEW w, WatchOK(w), NEW p, PluginIsSound(p, w), p.pending = << >>,
         NEW duty, NEW at \in Nat, NEW q, q = CheckAction(p, w, duty, at)
  PROVE  /\ Passed(p, q, w) /\ q.last = p.last
         /\ Stepped(w) /\ w.policy.mode # "off" =>
              /\ Times(q, LoadRule) = Times(p, LoadRule)
              /\ LoadKey \in q.seen <=> LoadKey \in p.seen
              /\ DutyKey \in q.seen <=> DutyKey \in p.seen \/ DutyLeaves(w, duty)
              /\ DutyLeaves(w, duty) /\ DutyKey \notin p.seen =>
                   \E f \in Seqs!ToSet(q.all) : f.rule = "duty.domain"
<1> DEFINE policy == w.policy
           lost == PulseIsLost(w.claim, duty)
           list == DutyOffence(w.claim, policy, duty)
                   \o When(lost, Offence("duty.resolution", "duty_resolution", "advisory"))
<1>1. CASE ~Stepped(w) \/ policy.mode = "off"
  <2>1. list \in Seq(Offences)
    BY ActionList
  <2>2. Stepped(w) => q = RecordAll(p, policy, list, at)
    BY DEF CheckAction
  <2> HIDE DEF list
  <2>3. q = p
    <3>1. CASE ~Stepped(w)
      BY <3>1 DEF CheckAction
    <3>2. CASE Stepped(w)
      BY <1>1, <2>1, <2>2, <3>2, NothingRecorded
    <3> QED
      BY <3>1, <3>2
  <2>4. ~Rejects_(p)
    BY NoneInEmpty DEF Rejects_, Blocks
  <2> QED
    BY <1>1, <2>3, <2>4 DEF Passed
<1>2. CASE Stepped(w) /\ policy.mode # "off"
  <2>1. q = RecordAll(p, policy, list, at)
    BY <1>2 DEF CheckAction
  <2>2. list \in Seq(Offences) /\ LoadsIn(list) = 0 /\ (TellsDuty(list) <=> DutyLeaves(w, duty))
    BY ActionList DEF DutyLeaves
  <2>3. PluginOK(p) /\ policy \in EnvelopePolicies
    BY DEF PluginIsSound, WatchOK
  <2> HIDE DEF list
  <2>4. Grew(p, q, policy, 0, TellsDuty(list), at)
    <3>1. Grew(p, q, policy, LoadsIn(list), TellsDuty(list), at)
      BY <1>2, <2>1, <2>2, <2>3, ListGrows
    <3> QED
      BY <2>2, <3>1
  <2>5. Passed(p, q, w)
    BY <1>2, <2>4, GrewIsGained, GainedIsPassed
  <2>6. Times(p, LoadRule) \in Nat
    BY <2>3, TimesType
  <2>7. /\ q.last = p.last /\ Times(q, LoadRule) = Times(p, LoadRule)
        /\ LoadKey \in q.seen <=> LoadKey \in p.seen
        /\ DutyKey \in q.seen <=> DutyKey \in p.seen \/ DutyLeaves(w, duty)
    BY <2>2, <2>4, <2>6 DEF Grew
  <2>8. ASSUME DutyLeaves(w, duty), DutyKey \notin p.seen
        PROVE  \E f \in Seqs!ToSet(q.all) : f.rule = "duty.domain"
    <3>1. PICK new \in SUBSET Findings :
            /\ Added(p, q, new)
            /\ TellsDuty(list) /\ DutyKey \notin p.seen => \E f \in new : f.rule = "duty.domain"
      BY <2>4 DEF Grew
    <3>2. \E f \in new : f.rule = "duty.domain"
      BY <2>2, <2>8, <3>1
    <3> QED
      BY <3>1, <3>2 DEF Added
  <2> QED
    BY <2>5, <2>7, <2>8
<1> QED
  BY <1>1, <1>2

-----------------------------------------------------------------------------
(***************************************************************************)
(* The account a plugin gives of the samples it has seen.                  *)
(***************************************************************************)
PointAt(wd, k) == [vin |-> Vin, load |-> Loads[wd.meets[k]]]
OutAt(w, wd) == {k \in Int : LoadLeaves(w, Loads[wd.meets[k]])}
Judges(w) == w.status = "declared" /\ w.policy.mode # "off" /\ w.policy.steps

\* How often the schedule that was looked at leaves the range, and the first
\* observation of a run that starts afresh.
Planned(w, wd) ==
  IF w.policy.preflight
  THEN Cardinality({i \in 1 .. Samples : LoadLeaves(w, Loads[wd.meets[i]])}) ELSE 0
AtStart(w, wd, from) == IF from = 0 /\ 1 \in OutAt(w, wd) THEN 1 ELSE 0

\* A finding of the load that was made since the point became what it is at k.
Stands(f, w, wd, from, k) ==
  /\ f.rule = LoadRule /\ f.at <= k
  /\ w.policy.external =>
       \A j \in from + 2 .. k : f.at < j => PointAt(wd, j) = PointAt(wd, j - 1)

LastPoint(wd, from, m) ==
  IF from < m THEN <<PointAt(wd, m)>> ELSE IF from = 0 THEN <<PointAt(wd, 1)>> ELSE << >>

\* A plugin p of a process that started after sample `from` and has seen all up to m.
Account(p, w, wd, from, m) ==
  /\ Times(p, LoadRule) =
       Planned(w, wd) + Cardinality(Between_(OutAt(w, wd), from + 1, m)) + AtStart(w, wd, from)
  /\ w.policy.external => p.last = LastPoint(wd, from, m)
  /\ LoadKey \in p.seen => \E f \in Seqs!ToSet(p.all) : Stands(f, w, wd, from, m)
  /\ \A k \in from + 1 .. m :
       k \in OutAt(w, wd) => \E f \in Seqs!ToSet(p.all) : Stands(f, w, wd, from, k)
  /\ DutyKey \in p.seen => \E f \in Seqs!ToSet(p.all) : f.rule = "duty.domain"

LEMMA AccountStays ==
  ASSUME NEW w, NEW wd, NEW from, NEW m, NEW p, Account(p, w, wd, from, m), NEW q,
         q.all = p.all, q.seen = p.seen, q.last = p.last, Times(q, LoadRule) = Times(p, LoadRule)
  PROVE  Account(q, w, wd, from, m)
BY DEF Account

LEMMA PlannedType ==
  ASSUME NEW w, NEW wd
  PROVE  Planned(w, wd) \in Nat /\ \A from : AtStart(w, wd, from) \in Nat
<1> DEFINE S == {i \in 1 .. Samples : LoadLeaves(w, Loads[wd.meets[i]])}
<1>1. IsFiniteSet(S)
  <2>1. S \in SUBSET (1 .. Samples) /\ IsFiniteSet(1 .. Samples)
    BY FS_Interval, ConverterAssumption
  <2> QED
    BY <2>1, FS_Subset
<1>2. Cardinality(S) \in Nat
  BY <1>1, FS_CardinalityType
<1> QED
  BY <1>2 DEF Planned, AtStart

\* One more sample is looked at.
LEMMA AccountGrows ==
  ASSUME NEW w, WatchOK(w), Judges(w), NEW wd, NEW from \in Nat, NEW m \in Nat, from <= m,
         NEW p, PluginIsSound(p, w), p.pending = << >>, Account(p, w, wd, from, m),
         NEW duty, NEW q, q = CheckObservation(p, w, PointAt(wd, m + 1), duty, m + 1)
  PROVE  Account(q, w, wd, from, m + 1)
<1> DEFINE point == PointAt(wd, m + 1)
           Out == OutAt(w, wd)
           moved == MovesAway(p, w, point)
<1>1. LoadLeaves(w, point.load) <=> m + 1 \in Out
  BY DEF PointAt, OutAt
<1>2. /\ Seqs!ToSet(p.all) \subseteq Seqs!ToSet(q.all)
      /\ DutyKey \in q.seen <=> DutyKey \in p.seen
      /\ w.policy.external => q.last = <<point>>
      /\ Times(q, LoadRule) = Times(p, LoadRule) + IF m + 1 \in Out THEN 1 ELSE 0
      /\ LoadKey \in q.seen <=> (LoadKey \in p.seen /\ ~moved) \/ m + 1 \in Out
      /\ m + 1 \in Out /\ (LoadKey \notin p.seen \/ moved) =>
           \E f \in Seqs!ToSet(q.all) : f.rule = LoadRule /\ f.at = m + 1
  <2>1. Stepped(w) /\ w.policy.mode # "off" /\ m + 1 \in Nat
    BY DEF Judges, Stepped
  <2>2. LoadLeaves(w, point.load) = (m + 1 \in Out)
    BY <1>1 DEF LoadLeaves, Leaves
  <2> HIDE DEF point, Out
  <2>3. Passed(p, q, w)
    BY <2>1, ObservationPasses DEF point
  <2>4. DutyKey \in q.seen <=> DutyKey \in p.seen
    BY <2>1, ObservationPasses DEF point
  <2>5. w.policy.external => q.last = <<point>>
    BY <2>1, ObservationPasses DEF point
  <2>6. Times(q, LoadRule) = Times(p, LoadRule) + IF LoadLeaves(w, point.load) THEN 1 ELSE 0
    BY <2>1, ObservationPasses DEF point
  <2>7. LoadKey \in q.seen <=> (LoadKey \in p.seen /\ ~moved) \/ LoadLeaves(w, point.load)
    BY <2>1, ObservationPasses DEF point
  <2>8. LoadLeaves(w, point.load) /\ (LoadKey \notin p.seen \/ moved) =>
           \E f \in Seqs!ToSet(q.all) : f.rule = LoadRule /\ f.at = m + 1
    BY <2>1, ObservationPasses DEF point
  <2> QED
    BY <2>2, <2>3, <2>4, <2>5, <2>6, <2>7, <2>8 DEF Passed
<1> HIDE DEF Out
<1>3. Times(q, LoadRule) =
        Planned(w, wd) + Cardinality(Between_(Out, from + 1, m + 1)) + AtStart(w, wd, from)
  <2>1. /\ Cardinality(Between_(Out, from + 1, m)) \in Nat
        /\ Cardinality(Between_(Out, from + 1, m + 1)) =
             Cardinality(Between_(Out, from + 1, m)) + (IF m + 1 \in Out THEN 1 ELSE 0)
    BY OneMore
  <2>2. Times(p, LoadRule) =
          Planned(w, wd) + Cardinality(Between_(Out, from + 1, m)) + AtStart(w, wd, from)
    BY DEF Account, Out
  <2> QED
    BY <1>2, <2>1, <2>2, PlannedType
<1>4. LastPoint(wd, from, m + 1) = <<point>>
  BY DEF LastPoint
<1>5. ASSUME LoadKey \in q.seen
      PROVE  \E f \in Seqs!ToSet(q.all) : Stands(f, w, wd, from, m + 1)
  <2>1. CASE LoadKey \in p.seen /\ ~moved
    <3>1. PICK f \in Seqs!ToSet(p.all) : Stands(f, w, wd, from, m)
      BY <2>1 DEF Account
    <3>2. ASSUME w.policy.external, NEW j \in from + 2 .. m + 1, f.at < j
          PROVE  PointAt(wd, j) = PointAt(wd, j - 1)
      <4>1. CASE j \in from + 2 .. m
        BY <3>1, <3>2, <4>1 DEF Stands
      <4>2. CASE j = m + 1
        <5>1. from < m
          BY <4>2
        <5>2. p.last = <<PointAt(wd, m)>>
          BY <3>2, <5>1 DEF Account, LastPoint
        <5>3. <<PointAt(wd, m)>> # << >>
          OBVIOUS
        <5>4. <<PointAt(wd, m)>> = <<PointAt(wd, m + 1)>>
          BY <2>1, <3>2, <5>2, <5>3 DEF MovesAway
        <5>5. j - 1 = m
          BY <4>2
        <5> QED
          BY <4>2, <5>4, <5>5
      <4> QED
        BY <4>1, <4>2
    <3>3. f.at <= m + 1 /\ f.rule = LoadRule
      <4>1. f.at \in Nat
        <5>1. p.all \in Seq(Findings)
          BY DEF PluginIsSound, PluginOK
        <5>2. PICK i \in DOMAIN p.all : f = p.all[i]
          BY <3>1 DEF Seqs!ToSet
        <5>3. f \in Findings
          BY <5>1, <5>2, ElementOfSeq, LenProperties
        <5> QED
          BY <5>3 DEF Findings
      <4> QED
        BY <3>1, <4>1 DEF Stands
    <3> HIDE DEF moved
    <3>4. Stands(f, w, wd, from, m + 1)
      BY <3>2, <3>3 DEF Stands
    <3> QED
      BY <1>2, <3>1, <3>4
  <2>2. CASE m + 1 \in Out /\ (LoadKey \notin p.seen \/ moved)
    <3>1. PICK f \in Seqs!ToSet(q.all) : f.rule = LoadRule /\ f.at = m + 1
      BY <1>2, <2>2
    <3>2. \A j \in from + 2 .. m + 1 : ~(m + 1 < j)
      OBVIOUS
    <3>3. Stands(f, w, wd, from, m + 1)
      BY <3>1, <3>2 DEF Stands
    <3> QED
      BY <3>3
  <2>3. moved \in BOOLEAN
    BY DEF MovesAway, WatchOK, EnvelopePolicies
  <2> HIDE DEF moved
  <2> QED
    BY <1>2, <1>5, <2>1, <2>2, <2>3
<1>6. ASSUME NEW k \in from + 1 .. m + 1, k \in Out
      PROVE  \E f \in Seqs!ToSet(q.all) : Stands(f, w, wd, from, k)
  <2>1. CASE k \in from + 1 .. m
    <3>1. \E f \in Seqs!ToSet(p.all) : Stands(f, w, wd, from, k)
      BY <1>6, <2>1 DEF Account, Out
    <3> QED
      BY <1>2, <3>1
  <2>2. CASE k = m + 1
    BY <1>2, <1>5, <1>6, <2>2
  <2> QED
    BY <2>1, <2>2
<1>7. DutyKey \in q.seen => \E f \in Seqs!ToSet(q.all) : f.rule = "duty.domain"
  BY <1>2 DEF Account
<1> QED
  BY <1>2, <1>3, <1>4, <1>5, <1>6, <1>7 DEF Account, Out

\* The action of the sample is looked at.
LEMMA AccountActs ==
  ASSUME NEW w, WatchOK(w), Judges(w), NEW wd, NEW from \in Nat, NEW m \in Nat,
         NEW p, PluginIsSound(p, w), p.pending = << >>, Account(p, w, wd, from, m),
         NEW duty, NEW at \in Nat, NEW q, q = CheckAction(p, w, duty, at)
  PROVE  /\ Account(q, w, wd, from, m)
         /\ DutyLeaves(w, duty) => \E f \in Seqs!ToSet(q.all) : f.rule = "duty.domain"
<1>1. Stepped(w) /\ w.policy.mode # "off"
  BY DEF Judges, Stepped
<1>2. /\ Passed(p, q, w) /\ q.last = p.last
      /\ Times(q, LoadRule) = Times(p, LoadRule)
      /\ LoadKey \in q.seen <=> LoadKey \in p.seen
      /\ DutyKey \in q.seen <=> DutyKey \in p.seen \/ DutyLeaves(w, duty)
      /\ DutyLeaves(w, duty) /\ DutyKey \notin p.seen =>
           \E f \in Seqs!ToSet(q.all) : f.rule = "duty.domain"
  BY <1>1, ActionPasses
<1>3. Seqs!ToSet(p.all) \subseteq Seqs!ToSet(q.all)
  BY <1>2 DEF Passed
<1>4. DutyKey \in q.seen => \E f \in Seqs!ToSet(q.all) : f.rule = "duty.domain"
  BY <1>2, <1>3 DEF Account
<1> QED
  BY <1>2, <1>3, <1>4 DEF Account

\* A process starts: its plugin gives an account of what it has seen, unless it
\* was refused before it saw anything.
LEMMA StartAccounts ==
  ASSUME NEW w, WatchOK(w), NEW from \in Nat, NEW start, start = Start(w, from),
         NEW p, p = Reported(start[1])
  PROVE  /\ PluginIsSound(p, w) /\ p.pending = << >>
         /\ start[2] \in {"no", "preflight", "start"}
         /\ start[2] # "no" <=> Blocks(p.all)
         /\ Judges(w) /\ start[2] # "preflight" => Account(p, w, world, from, from)
<1> DEFINE a == Preflight(w)
           ra == Reported(a)
           point == Point(1)
           b == CheckObservation(ra, w, point, 0, 0)
           schedule == Schedule(world)
           Out == OutAt(w, world)
<1>1. Samples \in Nat /\ DOMAIN schedule = 1 .. Samples
  BY ConverterAssumption DEF Schedule
<1>2. \A i \in 1 .. Samples : schedule[i].load = Loads[world.meets[i]]
  BY DEF Schedule
<1>3. point = PointAt(world, 1) /\ point.load = Loads[world.meets[1]]
  BY DEF Point, PointAt
<1>4. a = CheckPreflight(w, schedule, Period)
  BY DEF Preflight
<1> HIDE DEF schedule, a, point
<1>5. /\ PluginIsSound(a, w) /\ a.last = << >> /\ DutyKey \notin a.seen
      /\ Blocks(a.all) <=> Rejects_(a)
      /\ Judges(w) =>
           /\ Times(a, LoadRule) = Planned(w, world)
           /\ LoadKey \in a.seen => \E f \in Seqs!ToSet(a.all) : f.rule = LoadRule /\ f.at = 0
  <2> DEFINE S == LoadsOut(w, schedule, Samples)
             T == {i \in 1 .. Samples : LoadLeaves(w, Loads[world.meets[i]])}
  <2>1. S = T
    BY <1>2 DEF LoadsOut
  <2>2. /\ PluginIsSound(a, w) /\ a.last = << >> /\ DutyKey \notin a.seen
        /\ Blocks(a.all) <=> Rejects_(a)
        /\ w.status = "declared" /\ w.policy.mode # "off" =>
             /\ Times(a, LoadRule) = IF w.policy.preflight THEN Cardinality(S) ELSE 0
             /\ LoadKey \in a.seen => \E f \in Seqs!ToSet(a.all) : f.rule = LoadRule /\ f.at = 0
    BY <1>1, <1>4, PreflightPasses
  <2>3. Planned(w, world) = IF w.policy.preflight THEN Cardinality(T) ELSE 0
    BY DEF Planned
  <2> HIDE DEF S, T
  <2> QED
    BY <2>1, <2>2, <2>3 DEF Judges
<1>6. /\ PluginIsSound(ra, w) /\ ra.pending = << >> /\ ra.all = a.all /\ ra.seen = a.seen
      /\ ra.last = << >> /\ Times(ra, LoadRule) = Times(a, LoadRule)
  <2>1. PluginOK(a)
    BY <1>5 DEF PluginIsSound
  <2> HIDE DEF ra
  <2>2. /\ PluginOK(ra) /\ ra.pending = << >> /\ ra.all = a.all /\ ra.seen = a.seen
        /\ ra.last = a.last /\ Times(ra, LoadRule) = Times(a, LoadRule)
    BY <2>1, ReportKeeps DEF ra
  <2> QED
    BY <1>5, <2>2 DEF PluginIsSound
<1>7. CASE Rejects_(a)
  <2>1. start = <<a, "preflight">>
    BY <1>7 DEF Start, a
  <2>2. p = ra /\ start[2] = "preflight"
    BY <2>1
  <2> QED
    BY <1>5, <1>6, <1>7, <2>2
<1>8. CASE ~Rejects_(a) /\ from > 0
  <2>1. start = <<a, "no">>
    BY <1>8 DEF Start, a
  <2>2. p = ra /\ start[2] = "no"
    BY <2>1
  <2>3. ASSUME Judges(w) PROVE Account(ra, w, world, from, from)
    <3>1. Between_(Out, from + 1, from) = {}
      BY DEF Between_
    <3>2. Cardinality(Between_(Out, from + 1, from)) = 0 /\ AtStart(w, world, from) = 0
      BY <1>8, <3>1, FS_EmptySet DEF AtStart
    <3>3. Times(ra, LoadRule) = Planned(w, world)
            + Cardinality(Between_(Out, from + 1, from)) + AtStart(w, world, from)
      BY <1>5, <1>6, <2>3, <3>2, PlannedType
    <3>4. LastPoint(world, from, from) = << >>
      BY <1>8 DEF LastPoint
    <3>5. \A k \in from + 1 .. from : FALSE
      OBVIOUS
    <3>6. \A f : f.rule = LoadRule /\ f.at = 0 => Stands(f, w, world, from, from)
      BY DEF Stands
    <3> HIDE DEF ra, Out
    <3>7. LoadKey \in ra.seen => \E f \in Seqs!ToSet(ra.all) : Stands(f, w, world, from, from)
      BY <1>5, <1>6, <2>3, <3>6
    <3> QED
      BY <1>5, <1>6, <3>3, <3>4, <3>5, <3>7 DEF Account, Out
  <2> QED
    BY <1>5, <1>6, <1>8, <2>2, <2>3
<1>9. CASE ~Rejects_(a) /\ ~(from > 0)
  <2>0. from = 0
    BY <1>9
  <2>1. start = <<b, IF Rejects_(b) THEN "start" ELSE "no">>
    BY <1>9, <2>0 DEF Start, a, point
  <2>2. p = Reported(b) /\ start[2] = (IF Rejects_(b) THEN "start" ELSE "no")
    BY <2>1
  <2>3. /\ Passed(ra, b, w)
        /\ DutyKey \in b.seen <=> DutyKey \in ra.seen
    BY <1>6, ObservationPasses
  <2>4. ASSUME Judges(w)
        PROVE  /\ w.policy.external => b.last = <<point>>
               /\ Times(b, LoadRule) = Times(ra, LoadRule) + IF LoadLeaves(w, point.load) THEN 1 ELSE 0
               /\ LoadKey \in b.seen <=> (LoadKey \in ra.seen /\ ~MovesAway(ra, w, point))
                                         \/ LoadLeaves(w, point.load)
               /\ LoadLeaves(w, point.load) /\ (LoadKey \notin ra.seen \/ MovesAway(ra, w, point)) =>
                    \E f \in Seqs!ToSet(b.all) : f.rule = LoadRule /\ f.at = 0
    <3>1. Stepped(w) /\ w.policy.mode # "off" /\ 0 \in Nat
      BY <2>4 DEF Judges, Stepped
    <3> HIDE DEF ra
    <3>2. w.policy.external => b.last = <<point>>
      BY <1>6, <3>1, ObservationPasses
    <3>3. Times(b, LoadRule) = Times(ra, LoadRule) + IF LoadLeaves(w, point.load) THEN 1 ELSE 0
      BY <1>6, <3>1, ObservationPasses
    <3>4. LoadKey \in b.seen <=> (LoadKey \in ra.seen /\ ~MovesAway(ra, w, point))
                                  \/ LoadLeaves(w, point.load)
      BY <1>6, <3>1, ObservationPasses
    <3>5. LoadLeaves(w, point.load) /\ (LoadKey \notin ra.seen \/ MovesAway(ra, w, point)) =>
                    \E f \in Seqs!ToSet(b.all) : f.rule = LoadRule /\ f.at = 0
      BY <1>6, <3>1, ObservationPasses
    <3> QED
      BY <3>2, <3>3, <3>4, <3>5
  <2> HIDE DEF b, ra
  <2>5. /\ PluginOK(b) /\ PluginIsSound(b, w)
    BY <2>3 DEF Passed, PluginIsSound
  <2>6. /\ PluginOK(p) /\ p.pending = << >> /\ p.all = b.all /\ p.seen = b.seen
        /\ p.last = b.last /\ Times(p, LoadRule) = Times(b, LoadRule)
    BY <2>2, <2>5, ReportKeeps
  <2>7. PluginIsSound(p, w)
    BY <2>5, <2>6 DEF PluginIsSound
  <2>8. ~Blocks(ra.all)
    BY <1>5, <1>6, <1>9
  <2>9. Blocks(b.all) <=> Rejects_(b)
    BY <2>3, <2>8 DEF Passed
  <2>10. ASSUME Judges(w) PROVE Account(b, w, world, from, from)
    <3>1. Between_(Out, from + 1, from) = {}
      BY DEF Between_
    <3>2. Cardinality(Between_(Out, from + 1, from)) = 0
      BY <3>1, FS_EmptySet
    <3>3. LoadLeaves(w, point.load) = (1 \in Out)
      BY <1>3 DEF OutAt, LoadLeaves, Leaves
    <3>4. AtStart(w, world, from) = IF LoadLeaves(w, point.load) THEN 1 ELSE 0
      BY <2>0, <3>3 DEF AtStart
    <3>5. Times(b, LoadRule) = Planned(w, world)
            + Cardinality(Between_(Out, from + 1, from)) + AtStart(w, world, from)
      BY <1>5, <1>6, <2>4, <2>10, <3>2, <3>4, PlannedType
    <3>6. LastPoint(world, from, from) = <<point>>
      BY <1>3, <2>0 DEF LastPoint
    <3>7. \A k \in from + 1 .. from : FALSE
      OBVIOUS
    <3>8. \A f : f.rule = LoadRule /\ f.at = 0 => Stands(f, w, world, from, from)
      BY <2>0 DEF Stands
    <3>9. Seqs!ToSet(ra.all) \subseteq Seqs!ToSet(b.all)
      BY <2>3 DEF Passed
    <3> HIDE DEF Out
    <3>10. LoadKey \in b.seen => \E f \in Seqs!ToSet(b.all) : f.rule = LoadRule /\ f.at = 0
      <4>1. CASE LoadKey \in ra.seen
        BY <1>5, <1>6, <2>10, <3>9, <4>1
      <4>2. CASE LoadKey \notin ra.seen
        BY <2>4, <2>10, <4>2
      <4> QED
        BY <4>1, <4>2
    <3>11. DutyKey \notin b.seen
      BY <1>5, <1>6, <2>3
    <3> QED
      BY <2>4, <2>10, <3>5, <3>6, <3>7, <3>8, <3>10, <3>11 DEF Account, Out
  <2>11. ASSUME Judges(w) PROVE Account(p, w, world, from, from)
    BY <2>6, <2>10, <2>11, AccountStays
  <2> QED
    BY <2>2, <2>6, <2>7, <2>9, <2>11
<1> QED
  BY <1>7, <1>8, <1>9

-----------------------------------------------------------------------------
(***************************************************************************)
(* The invariant of a watched run.                                         *)
(***************************************************************************)
Told(p, w, l, from, m) ==
  \A k \in from + 1 .. m : DutyLeaves(w, DutyOf(l[k].kind)) =>
    \E f \in Seqs!ToSet(p.all) : f.rule = "duty.domain"

Inside(w, wd, l, from, m) ==
  \A k \in from + 1 .. m : k \notin OutAt(w, wd) /\ ~DutyLeaves(w, DutyOf(l[k].kind))

LastWatched == IF stopped \in {"observation", "action"} THEN n + 1 ELSE n

WatchedInv ==
  /\ ProtectionInv /\ WatchOK(watch) /\ WatchTypeOK
  /\ PluginIsSound(plugin, watch)
  /\ stopped # "no" <=> Blocks(plugin.all)
  /\ Judges(watch) =>
       /\ stopped # "preflight" => Account(plugin, watch, world, first, LastWatched)
       /\ Told(plugin, watch, log, first, n)
       /\ IsHard(watch.policy) => Inside(watch, world, log, first, n)

\* What was found of the load or the duty blocks, when the policy blocks it.
LEMMA FoundBlocks ==
  ASSUME NEW w, NEW p, PluginIsSound(p, w), IsHard(w.policy),
         NEW f \in Seqs!ToSet(p.all), f.rule \in HardRules
  PROVE  Blocks(p.all)
BY DEF PluginIsSound, IsHard, Blocks

\* The log of a run that was resumed is the one of the run before.
LEMMA WindowIsLogged ==
  ASSUME ProtectionInv, Observes
  PROVE  /\ n' = n + 1 /\ world' = world /\ saved' = saved
         /\ \A k \in 1 .. n : log'[k] = log[k]
         /\ log'[n + 1].kind = NextKind
<1> DEFINE a == Answer(world, Snapshot)
<1>0. /\ TypeOK /\ log \in Seq(Entry) /\ Len(log) \in Nat /\ n \in Nat /\ n <= Len(log)
      /\ world \in World
  BY LenProperties DEF ProtectionInv, Traced, TypeOK
<1>1. Answers(a)
  BY <1>0, SampleIsAnswer
<1>2. a.kind = NextKind
  <2>1. a.kind = Kind(world, Snapshot)
    BY DEF Answer
  <2>2. Snapshot.state = state /\ Snapshot.elapsed = elapsed /\ state \in States
    BY <1>0, SnapshotType DEF TypeOK
  <2>3. Faulty(world, Snapshot) = Fault(Armed)
    BY <1>0, SameLimits
  <2> QED
    BY <2>1, <2>2, <2>3 DEF Kind, NextKind, States
<1>3. /\ Snapshot \in Snapshots /\ Snapshot.n = n /\ Timed(world, Snapshot) /\ n < Samples
  BY <1>0, <1>1, SnapshotType DEF ProtectionInv, Traced, Answers
<1>4. a \in Entry /\ a.after.n = n + 1
  BY <1>0, <1>3, AnswerType
<1> HIDE DEF a
<1>5. n' = n + 1
  BY <1>1, <1>4 DEF Answers, Snapshot
<1>6. CASE n = Len(log)
  <2>1. log' = Append(log, a)
    BY <1>0, <1>1, <1>6 DEF Answers
  <2>2. log'[n + 1] = a /\ \A k \in 1 .. n : log'[k] = log[k]
    BY <1>0, <1>4, <1>6, <2>1, AppendProperties
  <2> QED
    BY <1>1, <1>2, <1>5, <2>2 DEF Answers
<1>7. CASE n < Len(log)
  <2>1. log' = log
    BY <1>0, <1>1, <1>7 DEF Answers
  <2>2. log[n + 1] = Answer(world, After(log, n + 1 - 1))
    BY <1>0, <1>7 DEF ProtectionInv, Traced
  <2>3. Snapshot = After(log, n) /\ n + 1 - 1 = n
    BY <1>0 DEF ProtectionInv, Traced
  <2>4. log[n + 1] = a
    BY <2>2, <2>3 DEF a
  <2> QED
    BY <1>1, <1>2, <1>5, <2>1, <2>4 DEF Answers
<1> QED
  BY <1>0, <1>6, <1>7

\* The plugin of a sample: what it says after the observation, and after the action.
LEMMA SampleAccounts ==
  ASSUME WatchedInv, stopped = "no", n < Samples,
         NEW o, o = Observed, NEW a, a = Acted(o)
  PROVE  /\ PluginIsSound(Reported(o), watch) /\ Reported(o).pending = << >>
         /\ Blocks(Reported(o).all) <=> Rejects_(o)
         /\ Seqs!ToSet(plugin.all) \subseteq Seqs!ToSet(Reported(o).all)
         /\ Judges(watch) => Account(Reported(o), watch, world, first, n + 1)
         /\ ~Rejects_(o) =>
              /\ PluginIsSound(Reported(a), watch) /\ Reported(a).pending = << >>
              /\ Blocks(Reported(a).all) <=> Rejects_(a)
              /\ Seqs!ToSet(plugin.all) \subseteq Seqs!ToSet(Reported(a).all)
              /\ Judges(watch) =>
                   /\ Account(Reported(a), watch, world, first, n + 1)
                   /\ DutyLeaves(watch, DutyOf(NextKind)) =>
                        \E f \in Seqs!ToSet(Reported(a).all) : f.rule = "duty.domain"
<1> DEFINE w == watch
           p == plugin
           ro == Reported(o)
           ra == Reported(a)
           kept == Seqs!ToSet(p.all)
<1>0. /\ WatchOK(w) /\ PluginIsSound(p, w) /\ p.pending = << >> /\ n \in Nat /\ first \in Nat
      /\ first <= n /\ ~Blocks(p.all) /\ n + 1 \in Nat
      /\ Judges(w) => Account(p, w, world, first, n)
  BY DEF WatchedInv, WatchTypeOK, ProtectionInv, TypeOK, LastWatched
<1>1. o = CheckObservation(p, w, PointAt(world, n + 1), DutyBefore(n + 1), n + 1)
  BY DEF Observed, Sample, Point, PointAt
<1>2. a = CheckAction(ro, w, DutyOf(NextKind), n + 1)
  BY DEF Acted, Sample
<1>3. Passed(p, o, w)
  BY <1>0, <1>1, ObservationPasses
<1>4. PluginOK(o)
  BY <1>3 DEF Passed, PluginIsSound
<1> HIDE DEF w, p, ro, ra
<1>5. /\ PluginOK(ro) /\ ro.pending = << >> /\ ro.all = o.all /\ ro.seen = o.seen
      /\ ro.last = o.last /\ Times(ro, LoadRule) = Times(o, LoadRule)
  BY <1>4, ReportKeeps DEF ro
<1>6. PluginIsSound(ro, w) /\ (Blocks(ro.all) <=> Rejects_(o)) /\ kept \subseteq Seqs!ToSet(ro.all)
  BY <1>0, <1>3, <1>5 DEF Passed, PluginIsSound
<1>7. ASSUME Judges(w) PROVE Account(ro, w, world, first, n + 1)
  <2>1. Account(o, w, world, first, n + 1)
    BY <1>0, <1>1, <1>7, AccountGrows
  <2> QED
    BY <1>5, <2>1, AccountStays
<1>8. ASSUME ~Rejects_(o)
      PROVE  /\ PluginIsSound(ra, w) /\ ra.pending = << >>
             /\ Blocks(ra.all) <=> Rejects_(a)
             /\ kept \subseteq Seqs!ToSet(ra.all)
             /\ Judges(w) => /\ Account(ra, w, world, first, n + 1)
                             /\ DutyLeaves(w, DutyOf(NextKind)) =>
                                  \E f \in Seqs!ToSet(ra.all) : f.rule = "duty.domain"
  <2>1. Passed(ro, a, w)
    BY <1>0, <1>2, <1>5, <1>6, ActionPasses
  <2>2. PluginOK(a)
    BY <2>1 DEF Passed, PluginIsSound
  <2>3. /\ PluginOK(ra) /\ ra.pending = << >> /\ ra.all = a.all /\ ra.seen = a.seen
        /\ ra.last = a.last /\ Times(ra, LoadRule) = Times(a, LoadRule)
    BY <2>2, ReportKeeps DEF ra
  <2>4. PluginIsSound(ra, w) /\ (Blocks(ra.all) <=> Rejects_(a)) /\ kept \subseteq Seqs!ToSet(ra.all)
    BY <1>6, <1>8, <2>1, <2>3 DEF Passed, PluginIsSound
  <2>5. ASSUME Judges(w)
        PROVE  /\ Account(ra, w, world, first, n + 1)
               /\ DutyLeaves(w, DutyOf(NextKind)) =>
                    \E f \in Seqs!ToSet(ra.all) : f.rule = "duty.domain"
    <3>1. /\ Account(a, w, world, first, n + 1)
          /\ DutyLeaves(w, DutyOf(NextKind)) =>
               \E f \in Seqs!ToSet(a.all) : f.rule = "duty.domain"
      BY <1>0, <1>2, <1>5, <1>6, <1>7, <2>5, AccountActs
    <3> QED
      BY <2>3, <3>1, AccountStays
  <2> QED
    BY <2>3, <2>4, <2>5
<1> QED
  BY <1>5, <1>6, <1>7, <1>8 DEF w, p, ro, ra

LEMMA WatchedInitInv == WatchedInit => WatchedInv
<1> SUFFICES ASSUME WatchedInit PROVE WatchedInv
  OBVIOUS
<1>1. ProtectionInv
  BY InitInv DEF WatchedInit
<1>2. n = 0 /\ first = 0
  BY DEF WatchedInit, Init
<1>3. WatchOK(watch)
  <2>1. PICK v \in Watches :
          watch = [policy |-> Resolve(v.policy, v.mode), claim |-> v.claim,
                   status |-> ClaimStatus(v.claim), provenance |-> v.provenance,
                   bounds |-> v.bounds]
    BY DEF WatchedInit
  <2>2. v.policy \in EnvelopePolicies /\ v.provenance.records \in Seq(ParameterRecords)
    BY WatchAssumption
  <2>3. /\ Resolve(v.policy, v.mode) \in EnvelopePolicies
        /\ Resolve(v.policy, v.mode).mode # "default"
    BY <2>2 DEF Resolve, EnvelopePolicies
  <2> QED
    BY <2>1, <2>2, <2>3 DEF WatchOK
<1>4. PICK start \in {Start(watch, 0)} : plugin = Reported(start[1]) /\ stopped = start[2]
  BY DEF WatchedInit
<1>5. /\ PluginIsSound(plugin, watch) /\ plugin.pending = << >>
      /\ stopped \in {"no", "preflight", "start"}
      /\ stopped # "no" <=> Blocks(plugin.all)
      /\ Judges(watch) /\ stopped # "preflight" => Account(plugin, watch, world, 0, 0)
  <2>1. start = Start(watch, 0) /\ 0 \in Nat
    BY <1>4
  <2> QED
    BY <1>3, <1>4, <2>1, StartAccounts
<1>6. WatchTypeOK
  BY <1>2, <1>3, <1>5 DEF WatchTypeOK, WatchOK, EnvelopePolicies
<1>7. /\ Told(plugin, watch, log, first, n) /\ Inside(watch, world, log, first, n)
  BY <1>2 DEF Told, Inside
<1> QED
  BY <1>1, <1>2, <1>3, <1>5, <1>6, <1>7 DEF WatchedInv, LastWatched

\* The run is refused, and the plant is not driven.
LEMMA RefusedInv ==
  ASSUME WatchedInv, NEW p, NEW phase \in {"observation", "action"}, Refuse(p, phase),
         PluginIsSound(Reported(p), watch), Reported(p).pending = << >>, Blocks(Reported(p).all),
         Seqs!ToSet(plugin.all) \subseteq Seqs!ToSet(Reported(p).all),
         Judges(watch) => Account(Reported(p), watch, world, first, n + 1)
  PROVE  WatchedInv'
<1>1. /\ stopped' = phase /\ plugin' = Reported(p) /\ UNCHANGED vars
      /\ watch' = watch /\ first' = first
  BY DEF Refuse
<1>2. n' = n /\ log' = log /\ world' = world
  BY <1>1 DEF vars
<1>3. ProtectionInv'
  BY <1>1, StepInv DEF WatchedInv
<1>4. WatchTypeOK'
  BY <1>1, <1>2 DEF WatchedInv, WatchTypeOK
<1>5. ASSUME Judges(watch)
      PROVE  /\ Account(plugin', watch, world, first, LastWatched')
             /\ Told(plugin', watch, log, first, n)
             /\ IsHard(watch.policy) => Inside(watch, world, log, first, n)
  <2>1. LastWatched' = n + 1
    BY <1>1, <1>2 DEF LastWatched
  <2>2. Told(plugin, watch, log, first, n)
    BY <1>5 DEF WatchedInv
  <2>3. Told(plugin', watch, log, first, n)
    BY <1>1, <2>2 DEF Told
  <2> QED
    BY <1>1, <1>5, <2>1, <2>3 DEF WatchedInv
<1>6. stopped' # "no" /\ WatchOK(watch)
  BY <1>1 DEF WatchedInv
<1> QED
  BY <1>1, <1>2, <1>3, <1>4, <1>5, <1>6 DEF WatchedInv

\* The plant is driven.
LEMMA DrivenInv ==
  ASSUME WatchedInv, stopped = "no", NEW p, Drive(p),
         PluginIsSound(Reported(p), watch), Reported(p).pending = << >>, ~Blocks(Reported(p).all),
         Seqs!ToSet(plugin.all) \subseteq Seqs!ToSet(Reported(p).all),
         Judges(watch) =>
           /\ Account(Reported(p), watch, world, first, n + 1)
           /\ DutyLeaves(watch, DutyOf(NextKind)) =>
                \E f \in Seqs!ToSet(Reported(p).all) : f.rule = "duty.domain"
  PROVE  WatchedInv'
<1>1. /\ Observes /\ plugin' = Reported(p) /\ watch' = watch /\ first' = first
      /\ stopped' = stopped
  BY DEF Drive, Observes
<1>2. ProtectionInv /\ TypeOK /\ n \in Nat /\ first \in Nat /\ first <= n
  BY DEF WatchedInv, WatchTypeOK, ProtectionInv, TypeOK
<1>3. /\ n' = n + 1 /\ world' = world /\ \A k \in 1 .. n : log'[k] = log[k]
      /\ log'[n + 1].kind = NextKind
  BY <1>1, <1>2, WindowIsLogged
<1>4. ProtectionInv'
  BY <1>1, <1>2, StepInv DEF Next, Observes
<1>5. WatchTypeOK'
  BY <1>1, <1>2, <1>3 DEF WatchedInv, WatchTypeOK
<1>6. ASSUME Judges(watch)
      PROVE  /\ Account(plugin', watch, world, first, LastWatched')
             /\ Told(plugin', watch, log', first, n + 1)
             /\ IsHard(watch.policy) => Inside(watch, world, log', first, n + 1)
  <2>1. LastWatched' = n + 1
    BY <1>1, <1>3 DEF LastWatched
  <2>2. Account(plugin', watch, world, first, n + 1)
    BY <1>1, <1>6
  <2>3. \A k \in first + 1 .. n + 1 : k = n + 1 \/ (k \in first + 1 .. n /\ k \in 1 .. n)
    BY <1>2
  <2>4. Told(plugin', watch, log', first, n + 1)
    <3>1. Told(plugin, watch, log, first, n)
      BY <1>6 DEF WatchedInv
    <3>2. SUFFICES ASSUME NEW k \in first + 1 .. n + 1, DutyLeaves(watch, DutyOf(log'[k].kind))
                   PROVE  \E f \in Seqs!ToSet(plugin'.all) : f.rule = "duty.domain"
      BY DEF Told
    <3>3. CASE k = n + 1
      BY <1>1, <1>3, <1>6, <3>2, <3>3
    <3>4. CASE k \in first + 1 .. n /\ k \in 1 .. n
      <4>1. DutyLeaves(watch, DutyOf(log[k].kind))
        BY <1>3, <3>2, <3>4
      <4> QED
        BY <1>1, <3>1, <3>4, <4>1 DEF Told
    <3> QED
      BY <2>3, <3>3, <3>4
  <2>5. ASSUME IsHard(watch.policy)
        PROVE  Inside(watch, world, log', first, n + 1)
    <3>1. Inside(watch, world, log, first, n)
      BY <1>6, <2>5 DEF WatchedInv
    <3>2. ~\E f \in Seqs!ToSet(plugin'.all) : f.rule \in HardRules
      BY <1>1, <2>5, FoundBlocks
    <3>3. n + 1 \notin OutAt(watch, world)
      <4> SUFFICES ASSUME n + 1 \in OutAt(watch, world) PROVE FALSE
        OBVIOUS
      <4>1. n + 1 \in first + 1 .. n + 1
        BY <1>2
      <4>2. \E f \in Seqs!ToSet(plugin'.all) : Stands(f, watch, world, first, n + 1)
        BY <2>2, <4>1 DEF Account
      <4> QED
        BY <3>2, <4>2 DEF Stands, HardRules
    <3>4. ~DutyLeaves(watch, DutyOf(log'[n + 1].kind))
      BY <1>1, <1>3, <1>6, <3>2 DEF HardRules
    <3>5. ASSUME NEW k \in first + 1 .. n + 1
          PROVE  k \notin OutAt(watch, world) /\ ~DutyLeaves(watch, DutyOf(log'[k].kind))
      <4>1. CASE k = n + 1
        BY <3>3, <3>4, <4>1
      <4>2. CASE k \in first + 1 .. n /\ k \in 1 .. n
        BY <1>3, <3>1, <4>2 DEF Inside
      <4> QED
        BY <2>3, <4>1, <4>2
    <3> QED
      BY <3>5 DEF Inside
  <2> QED
    BY <2>1, <2>2, <2>4, <2>5
<1>7. stopped' = "no" /\ WatchOK(watch)
  BY <1>1 DEF WatchedInv
<1> QED
  BY <1>1, <1>3, <1>4, <1>5, <1>6, <1>7 DEF WatchedInv

LEMMA WindowInv ==
  ASSUME WatchedInv, Window PROVE WatchedInv'
<1>1. stopped = "no" /\ n < Samples
  BY DEF Window
<1>2. PICK o \in {Observed} :
        \/ Rejects_(o) /\ Refuse(o, "observation")
        \/ /\ ~Rejects_(o)
           /\ \E acted \in {Acted(o)} : \/ Rejects_(acted) /\ Refuse(acted, "action")
                                        \/ ~Rejects_(acted) /\ Drive(acted)
  BY DEF Window
<1>3. o = Observed
  OBVIOUS
<1>4. CASE Rejects_(o) /\ Refuse(o, "observation")
  BY <1>1, <1>3, <1>4, SampleAccounts, RefusedInv
<1>5. CASE ~Rejects_(o)
  <2>1. PICK a \in {Acted(o)} : \/ Rejects_(a) /\ Refuse(a, "action")
                                \/ ~Rejects_(a) /\ Drive(a)
    BY <1>2, <1>5
  <2>2. a = Acted(o)
    OBVIOUS
  <2>3. CASE Rejects_(a) /\ Refuse(a, "action")
    BY <1>1, <1>3, <1>5, <2>2, <2>3, SampleAccounts, RefusedInv
  <2>4. CASE ~Rejects_(a) /\ Drive(a)
    BY <1>1, <1>3, <1>5, <2>2, <2>4, SampleAccounts, DrivenInv
  <2> QED
    BY <2>1, <2>3, <2>4
<1> QED
  BY <1>2, <1>4, <1>5

LEMMA ResumedInv ==
  ASSUME WatchedInv, Resume PROVE WatchedInv'
<1>1. Restore /\ watch' = watch /\ first' = saved.n
  BY DEF Resume
<1>2. n' = saved.n /\ world' = world /\ log' = log
  BY <1>1 DEF Restore
<1>3. PICK start \in {Start(watch, saved.n)} : plugin' = Reported(start[1]) /\ stopped' = start[2]
  BY DEF Resume
<1>4. saved.n \in Nat /\ WatchOK(watch)
  BY DEF WatchedInv, ProtectionInv, TypeOK, Snapshots
<1>5. /\ PluginIsSound(plugin', watch) /\ plugin'.pending = << >>
      /\ stopped' \in {"no", "preflight", "start"}
      /\ stopped' # "no" <=> Blocks(plugin'.all)
      /\ Judges(watch) /\ stopped' # "preflight" =>
           Account(plugin', watch, world, saved.n, saved.n)
  <2>1. start = Start(watch, saved.n)
    BY <1>3
  <2> QED
    BY <1>3, <1>4, <2>1, StartAccounts
<1>6. ProtectionInv'
  BY <1>1, StepInv DEF WatchedInv, Next
<1>7. WatchTypeOK'
  BY <1>1, <1>2, <1>4, <1>5 DEF WatchedInv, WatchTypeOK
<1>8. /\ Told(plugin', watch, log, saved.n, saved.n)
      /\ Inside(watch, world, log, saved.n, saved.n)
  BY <1>4 DEF Told, Inside
<1>9. LastWatched' = saved.n
  BY <1>2, <1>5 DEF LastWatched
<1> QED
  BY <1>1, <1>2, <1>4, <1>5, <1>6, <1>7, <1>8, <1>9 DEF WatchedInv

LEMMA WatchedStep == WatchedInv /\ [WatchedNext]_allVars => WatchedInv'
<1> SUFFICES ASSUME WatchedInv, [WatchedNext]_allVars PROVE WatchedInv'
  OBVIOUS
<1>1. CASE Window
  BY <1>1, WindowInv
<1>2. CASE Resume
  BY <1>2, ResumedInv
<1>3. CASE Checkpoint \/ UNCHANGED allVars
  <2>1. /\ watch' = watch /\ plugin' = plugin /\ first' = first /\ stopped' = stopped
        /\ n' = n /\ log' = log /\ world' = world /\ [Next]_vars
    BY <1>3 DEF Checkpoint, TakeSnapshot, watchVars, allVars, vars, Next
  <2>2. ProtectionInv'
    BY <2>1, StepInv DEF WatchedInv
  <2>3. WatchTypeOK' /\ LastWatched' = LastWatched
    BY <2>1 DEF WatchedInv, WatchTypeOK, LastWatched
  <2> QED
    BY <2>1, <2>2, <2>3 DEF WatchedInv
<1> QED
  BY <1>1, <1>2, <1>3 DEF WatchedNext

-----------------------------------------------------------------------------
LEMMA LeavesIsOutside ==
  /\ \A k : LoadOutside(k) <=> LoadLeaves(watch, Loads[world.meets[k]])
  /\ \A k \in Int : LoadOutside(k) <=> k \in OutAt(watch, world)
  /\ \A v : Outside("duty", v) <=> DutyLeaves(watch, v)
BY DEF LoadOutside, Outside, LoadLeaves, DutyLeaves, Leaves, OutAt

LEMMA InvIsHonest == WatchedInv => EnvelopeIsHonest
<1> SUFFICES ASSUME WatchedInv PROVE EnvelopeIsHonest
  OBVIOUS
<1>0. /\ n \in Nat /\ first \in Nat /\ first <= n /\ WatchOK(watch)
      /\ PluginIsSound(plugin, watch)
      /\ stopped # "no" <=> Blocks(plugin.all)
      /\ Judging <=> Judges(watch)
  BY DEF WatchedInv, WatchTypeOK, ProtectionInv, TypeOK, Judging, Declared, Judges
<1>1. Watched = first + 1 .. LastWatched /\ LastWatched \in Int /\ first <= LastWatched
  BY <1>0 DEF Watched, LastWatched, Sample
<1> HIDE DEF WatchedInv
<1>2. EveryPointIsJudged
  <2> SUFFICES ASSUME Judges(watch), watch.policy.external, stopped # "preflight",
                      NEW k \in Watched, LoadOutside(k)
               PROVE  \E f \in {plugin.all[i] : i \in DOMAIN plugin.all} :
                        /\ f.rule = "load.domain" /\ f.at <= k
                        /\ \A j \in first + 2 .. k : f.at < j => Point(j) = Point(j - 1)
    BY <1>0 DEF EveryPointIsJudged
  <2>1. k \in first + 1 .. LastWatched /\ k \in OutAt(watch, world)
    BY <1>0, <1>1, LeavesIsOutside
  <2>2. Account(plugin, watch, world, first, LastWatched)
    BY DEF WatchedInv
  <2>3. PICK f \in Seqs!ToSet(plugin.all) : Stands(f, watch, world, first, k)
    BY <2>1, <2>2 DEF Account
  <2>4. f \in {plugin.all[i] : i \in DOMAIN plugin.all}
    BY <2>3 DEF Seqs!ToSet
  <2>5. \A j : Point(j) = PointAt(world, j)
    BY DEF Point, PointAt
  <2> QED
    BY <2>3, <2>4, <2>5 DEF Stands, LoadRule
<1>3. CountsAreComplete
  <2> DEFINE items == IF watch.policy.preflight THEN Schedule(world) ELSE << >>
             planned == {i \in DOMAIN items : Outside("load_resistance_ohm", items[i].load)}
             seen == {k \in Watched : LoadOutside(k)}
  <2> SUFFICES ASSUME Judges(watch), stopped # "preflight"
               PROVE  Times(plugin, "load.domain") = Cardinality(planned) + Cardinality(seen)
                        + (IF first = 0 /\ LoadOutside(1) THEN 1 ELSE 0)
    BY <1>0 DEF CountsAreComplete
  <2>1. Account(plugin, watch, world, first, LastWatched)
    BY DEF WatchedInv
  <2>2. Cardinality(planned) = Planned(watch, world)
    <3>1. CASE watch.policy.preflight
      <4> DEFINE S == {i \in 1 .. Samples : LoadLeaves(watch, Loads[world.meets[i]])}
      <4>1. /\ DOMAIN items = 1 .. Samples
            /\ \A i \in 1 .. Samples : items[i].load = Loads[world.meets[i]]
        BY <3>1 DEF Schedule
      <4> HIDE DEF items
      <4>2. planned = S
        BY <4>1 DEF Outside, LoadLeaves, Leaves
      <4> QED
        BY <3>1, <4>2 DEF Planned
    <3>2. CASE ~watch.policy.preflight
      <4>1. planned = {}
        BY <3>2
      <4> HIDE DEF planned
      <4> QED
        BY <3>2, <4>1, FS_EmptySet DEF Planned
    <3> QED
      BY <3>1, <3>2
  <2>3. seen = Between_(OutAt(watch, world), first + 1, LastWatched)
    BY <1>0, <1>1, LeavesIsOutside DEF Between_
  <2>4. (IF first = 0 /\ LoadOutside(1) THEN 1 ELSE 0) = AtStart(watch, world, first)
    BY LeavesIsOutside DEF AtStart
  <2> HIDE DEF items, planned, seen
  <2> QED
    BY <2>1, <2>2, <2>3, <2>4 DEF Account, LoadRule
<1>4. EnforcedRunsStayInside
  <2>1. ASSUME Judging, watch.policy.mode = "enforce", "hard" \in watch.policy.blocking,
               NEW k \in first + 1 .. n
        PROVE  ~LoadOutside(k) /\ ~Outside("duty", DutyOf(log[k].kind))
    <3>1. Inside(watch, world, log, first, n)
      BY <1>0, <2>1 DEF WatchedInv, IsHard
    <3> QED
      BY <3>1, LeavesIsOutside DEF Inside
  <2>2. ASSUME SummaryStatus(plugin, watch) = "within", watch.policy.steps,
               NEW k \in first + 1 .. n
        PROVE  ~LoadOutside(k) /\ ~Outside("duty", DutyOf(log[k].kind))
    <3>1. /\ watch.status = "declared" /\ watch.policy.mode # "off"
          /\ ~Blocks(plugin.all) /\ plugin.all = << >>
      BY <1>0, <2>2, StatusIs DEF SummaryStatus
    <3>2. Judges(watch) /\ stopped = "no"
      BY <1>0, <2>2, <3>1 DEF Judges
    <3>3. ~\E f : f \in Seqs!ToSet(plugin.all)
      BY <3>1, NoneInEmpty
    <3>4. Account(plugin, watch, world, first, n) /\ Told(plugin, watch, log, first, n)
      BY <3>2 DEF WatchedInv, LastWatched
    <3>5. k \notin OutAt(watch, world)
      BY <3>3, <3>4 DEF Account
    <3>6. ~DutyLeaves(watch, DutyOf(log[k].kind))
      BY <3>3, <3>4 DEF Told
    <3> QED
      BY <3>5, <3>6, LeavesIsOutside
  <2>3. SummaryStatus(plugin, watch) = "violated" <=> stopped # "no" /\ Declared
    <3>1. CASE watch.policy.mode = "off"
      <4>1. ~Blocks(plugin.all)
        BY <1>0, <3>1, NoneInEmpty DEF PluginIsSound, Blocks
      <4>2. SummaryStatus(plugin, watch) = "disabled"
        BY <3>1 DEF SummaryStatus
      <4> QED
        BY <1>0, <4>1, <4>2
    <3>2. CASE watch.policy.mode # "off" /\ watch.status # "declared"
      BY <1>0, <3>2, StatusIs DEF SummaryStatus, Declared
    <3>3. CASE watch.policy.mode # "off" /\ watch.status = "declared"
      <4>1. Blocks(plugin.all) => SummaryStatus(plugin, watch) = "violated"
        BY <3>3 DEF SummaryStatus
      <4>2. ~Blocks(plugin.all) => SummaryStatus(plugin, watch) \in {"limited", "within"}
        BY <3>3 DEF SummaryStatus
      <4> QED
        BY <1>0, <3>3, <4>1, <4>2 DEF Declared
    <3> QED
      BY <3>1, <3>2, <3>3
  <2> QED
    BY <2>1, <2>2, <2>3 DEF EnforcedRunsStayInside
<1> QED
  BY <1>2, <1>3, <1>4 DEF EnvelopeIsHonest

LEMMA WatchedInvariance == WatchedSpec => []WatchedInv
  BY WatchedInitInv, WatchedStep, PTL DEF WatchedSpec

\* A watched run keeps to what it says of its envelope: whatever the disturbances,
\* the declarations, the policy and the resumptions, a load that the model does not
\* cover is found anew whenever the run comes there, it is counted each time, and a
\* policy that blocks such a finding lets no sample be driven with that load or with
\* a duty that is excluded; a run reported as within its envelope was.
THEOREM EnvelopeKept == WatchedSpec => []EnvelopeIsHonest
  BY WatchedInvariance, InvIsHonest, PTL

\* Type correctness of the watch and of its plugin, which has reported everything
\* it found at the end of every phase.
THEOREM WatchTypeCorrect == WatchedSpec => []WatchTypeOK
  BY WatchedInvariance, PTL DEF WatchedInv

\* A watched run is a protected run that may end sooner: every step of it is a step
\* of Protection, or leaves the wrapper and the converter as they are.
THEOREM WatchedIsProtected == WatchedSpec => Spec
<1>1. WatchedInit => Init
  BY DEF WatchedInit
<1>2. [WatchedNext]_allVars => [Next]_vars
  <2> SUFFICES ASSUME [WatchedNext]_allVars PROVE [Next]_vars
    OBVIOUS
  <2>1. CASE Window
    BY <2>1 DEF Window, Refuse, Drive, Next
  <2>2. CASE Checkpoint \/ Resume
    BY <2>2 DEF Checkpoint, Resume, Next
  <2>3. CASE UNCHANGED allVars
    BY <2>3 DEF allVars
  <2> QED
    BY <2>1, <2>2, <2>3 DEF WatchedNext
<1> QED
  BY <1>1, <1>2, PTL DEF WatchedSpec, Spec

\* So the wrapper keeps under the envelope what it keeps alone: its holds and
\* latches, its latency ceiling, and the log that every resumed run repeats.
THEOREM WatchedGuarantees ==
  WatchedSpec => /\ [](HoldIsNeverCut /\ LatchIsForever /\ FaultIsDrivenForOneWindowAtMost)
                 /\ ReplayAgrees
  BY WatchedIsProtected, HoldsAreKept, LatchesAreKept, LatencyIsOneWindow,
     SnapshotsAreComplete, PTL

\* And it recovers in the same time, as long as it is not ended.
THEOREM WatchedRecovery ==
  ASSUME NEW d \in Nat, NEW wait \in Nat, NEW climb \in Nat,
         Recoverable(d, wait, climb)
  PROVE  WatchedSpec => []RecoversInTime
<1>1. Spec => []RecoversInTime
  BY RecoveryIsInTime
<1> QED
  BY <1>1, WatchedIsProtected, PTL
=============================================================================
