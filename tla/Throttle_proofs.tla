---------------------------- MODULE Throttle_proofs ----------------------------
(* The rate and the window of the throttle node for every period, window,    *)
(* clock and bound.                                                          *)
EXTENDS Throttle, SequenceTheorems, Sums_proofs

\* The last message let through is at least as old as the clock says.  For the
\* clock may be set back, but never makes a message look older than it is.
Aged ==
    passed # <<>> => passed[Len(passed)].age >= now - LastTime
Entry == [age : Nat, size : Sizes]
RateInv ==
    /\ now \in Nat /\ last_time_ \in Nat
    /\ passed \in Seq(Entry)
    /\ throttle_type_ = "messages" => Spaced /\ Aged

-----------------------------------------------------------------------------
(* Sequences popped from the front.                                         *)

\* A set of places in a sequence has a first one.
LEMMA FirstPlace == ASSUME NEW n \in Nat, NEW I \in SUBSET (1 .. n), I # {}
                    PROVE  Min(I) \in I /\ \A k \in I : Min(I) <= k
<1> DEFINE R == {ss \in Nat \X Nat : ss[1] < ss[2]}
<1>1. IsWellFoundedOn(R, Nat)
  BY NatLessThanWellFounded DEF OpToRel
<1>2. I \subseteq Nat
  OBVIOUS
<1>3. PICK m \in I : \A k \in I : ~ <<k, m>> \in R
  <2> HIDE DEF R
  <2> QED
    BY <1>1, <1>2, WFMin
<1>4. ASSUME NEW k \in I PROVE m <= k
  <2>1. k \in Nat /\ m \in Nat
    BY <1>2, <1>3
  <2>2. ~(k < m)
    BY <1>3, <2>1
  <2> QED
    BY <2>1, <2>2
<1> QED
  BY <1>4 DEF Min

\* What is left of a sequence from place k on.
LEMMA Suffix ==
  ASSUME NEW R, NEW s \in Seq(R), NEW k \in 1 .. Len(s)
  PROVE  LET t == SubSeq(s, k, Len(s))
         IN  /\ t \in Seq(R) /\ Len(t) = Len(s) - (k - 1)
             /\ \A i \in 1 .. Len(t) : t[i] = s[i + (k - 1)]
<1> DEFINE t == SubSeq(s, k, Len(s))
<1>1. \A i \in k .. Len(s) : s[i] \in R
  BY ElementOfSeq
<1>2. /\ t \in Seq(R)
      /\ Len(t) = Len(s) - k + 1
      /\ \A i \in 1 .. Len(s) - k + 1 : t[i] = s[k + i - 1]
  <2>1. k \in Int /\ Len(s) \in Int /\ k <= Len(s)
    BY LenProperties
  <2> QED
    BY <1>1, <2>1, SubSeqProperties
<1> HIDE DEF t
<1>3. Len(s) \in Nat
  BY LenProperties
<1>4. Len(t) = Len(s) - (k - 1) /\ \A i \in 1 .. Len(t) : t[i] = s[i + (k - 1)]
  BY <1>2, <1>3
<1> QED
  BY <1>2, <1>4 DEF t

\* Popped from the front: d entries are gone and none of the others changes.
Popped(t, s, d) ==
    /\ d \in 0 .. Len(s) /\ Len(t) = Len(s) - d
    /\ \A i \in 1 .. Len(t) : t[i] = s[i + d]

\* popping until a place of I, the first one or none, leaves all places of I.
LEMMA PoppedUntil ==
  ASSUME NEW R, NEW s \in Seq(R), NEW I \in SUBSET (1 .. Len(s)), NEW t,
         LET first == IF I # {} THEN Min(I) ELSE 0
         IN  t = IF first = 0 THEN <<>> ELSE SubSeq(s, first, Len(s))
  PROVE  t \in Seq(R) /\ \E d \in Nat : Popped(t, s, d) /\ \A k \in I : k > d
<1>1. Len(s) \in Nat
  BY LenProperties
<1>2. CASE I = {}
  <2>1. t = <<>> /\ t \in Seq(R) /\ Len(t) = 0
    BY <1>2, EmptySeq
  <2>2. Popped(t, s, Len(s))
    BY <1>1, <2>1 DEF Popped
  <2> QED
    BY <1>1, <1>2, <2>1, <2>2
<1>3. CASE I # {}
  <2> DEFINE first == Min(I)
  <2>1. first \in I /\ \A k \in I : first <= k
    BY <1>1, <1>3, FirstPlace
  <2> HIDE DEF first
  <2>2. first \in 1 .. Len(s)
    BY <2>1
  <2>3. t = SubSeq(s, first, Len(s))
    BY <1>3, <2>2 DEF first
  <2> DEFINE u == SubSeq(s, first, Len(s))
  <2>4. /\ u \in Seq(R) /\ Len(u) = Len(s) - (first - 1)
        /\ \A i \in 1 .. Len(u) : u[i] = s[i + (first - 1)]
    BY <2>2, Suffix
  <2> HIDE DEF u
  <2>5. t \in Seq(R) /\ Len(t) = Len(s) - (first - 1)
        /\ \A i \in 1 .. Len(t) : t[i] = s[i + (first - 1)]
    BY <2>3, <2>4 DEF u
  <2>6. Popped(t, s, first - 1)
    BY <1>1, <2>2, <2>5 DEF Popped
  <2>7. first - 1 \in Nat /\ \A k \in I : k > first - 1
    BY <2>1, <2>2, <1>1
  <2> QED
    BY <2>5, <2>6, <2>7
<1> QED
  BY <1>2, <1>3

\* The last message let through has an age.
LEMMA LastAge ==
  ASSUME passed \in Seq(Entry), passed # <<>>
  PROVE  Len(passed) \in 1 .. Len(passed) /\ passed[Len(passed)].age \in Nat
<1>1. Len(passed) \in Nat /\ Len(passed) # 0
  BY LenProperties, EmptySeq
<1>2. passed[Len(passed)] \in Entry
  BY <1>1, ElementOfSeq
<1> QED
  BY <1>1, <1>2 DEF Entry

\* When the clock advances the messages that are not forgotten age by a tick.
LEMMA AdvanceAges ==
  ASSUME passed \in Seq(Entry), Advance
  PROVE  /\ passed' \in Seq(Entry)
         /\ \E d \in 0 .. Len(passed) :
              /\ Len(passed') = Len(passed) - d
              /\ \A i \in 1 .. Len(passed') : /\ passed'[i].age = passed[i + d].age + 1
                                              /\ passed'[i].size = passed[i + d].size
<1> DEFINE aged == [i \in DOMAIN passed |-> [passed[i] EXCEPT !.age = @ + 1]]
           I == {i \in 1 .. Len(aged) : aged[i].age <= period_ + window_}
<1>1. Len(passed) \in Nat /\ DOMAIN passed = 1 .. Len(passed)
  BY LenProperties
<1>2. \A i \in 1 .. Len(passed) : /\ aged[i] \in Entry
                                  /\ aged[i].age = passed[i].age + 1
                                  /\ aged[i].size = passed[i].size
  <2>1. \A i \in 1 .. Len(passed) : passed[i] \in Entry
    BY <1>1, ElementOfSeq
  <2> QED
    BY <1>1, <2>1 DEF Entry
<1>3. aged \in Seq(Entry) /\ Len(aged) = Len(passed)
  <2>1. aged \in [1 .. Len(passed) -> Entry]
    BY <1>1, <1>2
  <2> QED
    BY <1>1, <2>1, SeqDef, LenProperties
<1>4. LET first == IF I # {} THEN Min(I) ELSE 0
      IN  passed' = IF first = 0 THEN <<>> ELSE SubSeq(aged, first, Len(aged))
  BY DEF Advance, From, SelectInSeq
<1> HIDE DEF aged
<1>5. passed' \in Seq(Entry) /\ \E d \in Nat : Popped(passed', aged, d)
  <2>1. I \in SUBSET (1 .. Len(aged))
    OBVIOUS
  <2> HIDE DEF I
  <2> QED
    BY <1>3, <1>4, <2>1, PoppedUntil
<1>6. PICK d \in Nat : Popped(passed', aged, d)
  BY <1>5
<1>7. Len(passed') \in Nat
  BY <1>5, LenProperties
<1>8. d \in 0 .. Len(passed) /\ Len(passed') = Len(passed) - d
      /\ \A i \in 1 .. Len(passed') : passed'[i] = aged[i + d] /\ i + d \in 1 .. Len(passed)
  BY <1>1, <1>3, <1>6, <1>7 DEF Popped
<1>9. ASSUME NEW i \in 1 .. Len(passed')
      PROVE  /\ passed'[i].age = passed[i + d].age + 1
             /\ passed'[i].size = passed[i + d].size
  <2>1. passed'[i] = aged[i + d] /\ i + d \in 1 .. Len(passed)
    BY <1>8
  <2> QED
    BY <1>2, <2>1
<1> QED
  BY <1>5, <1>8, <1>9

-----------------------------------------------------------------------------
\* RateInv holds initially.
LEMMA RateStart == Init => RateInv
  BY ThrottleAssumption, EmptySeq DEF Init, RateInv, Spaced, Aged

\* ... and when the clock advances,
LEMMA RateAdvances == RateInv /\ Advance => RateInv'
<1> SUFFICES ASSUME RateInv, Advance PROVE RateInv'
  OBVIOUS
<1>1. passed \in Seq(Entry) /\ Len(passed) \in Nat
  BY LenProperties DEF RateInv
<1>2. \A i \in 1 .. Len(passed) : passed[i].age \in Nat
  <2>1. \A i \in 1 .. Len(passed) : passed[i] \in Entry
    BY <1>1, ElementOfSeq
  <2> QED
    BY <2>1 DEF Entry
<1>3. passed' \in Seq(Entry)
  BY <1>1, AdvanceAges
<1>4. PICK d \in 0 .. Len(passed) :
        /\ Len(passed') = Len(passed) - d
        /\ \A i \in 1 .. Len(passed') : passed'[i].age = passed[i + d].age + 1
  BY <1>1, AdvanceAges
<1>5. now' = now + 1 /\ UNCHANGED <<throttle_type_, last_time_>>
  BY DEF Advance
<1>6. now \in Nat /\ LastTime \in Nat /\ LastTime' \in Nat /\ now' - LastTime' <= now - LastTime + 1
  BY <1>5 DEF LastTime, RateInv
<1>7. ASSUME throttle_type_ = "messages"
      PROVE  Spaced'
  <2> SUFFICES ASSUME NEW i \in 1 .. Len(passed') - 1
               PROVE  passed'[i].age - passed'[i + 1].age >= period_
    BY DEF Spaced
  <2>1. /\ i \in 1 .. Len(passed') /\ i + 1 \in 1 .. Len(passed')
        /\ i + d \in 1 .. Len(passed) - 1 /\ (i + d) + 1 = (i + 1) + d
        /\ i + d \in 1 .. Len(passed) /\ (i + d) + 1 \in 1 .. Len(passed)
    BY <1>1, <1>4
  <2>2. passed[i + d].age - passed[(i + d) + 1].age >= period_
    BY <1>7, <2>1 DEF RateInv, Spaced
  <2>3. /\ passed'[i].age = passed[i + d].age + 1
        /\ passed'[i + 1].age = passed[(i + d) + 1].age + 1
    BY <1>4, <2>1
  <2> QED
    <3>1. passed[i + d].age \in Nat /\ passed[(i + d) + 1].age \in Nat
      BY <1>2, <2>1
    <3>2. \A a, b \in Nat : (a + 1) - (b + 1) = a - b
      OBVIOUS
    <3> QED
      BY <2>2, <2>3, <3>1, <3>2, Zenon
<1>8. ASSUME throttle_type_ = "messages"
      PROVE  Aged'
  <2> SUFFICES ASSUME passed' # <<>>
               PROVE  passed'[Len(passed')].age >= now' - LastTime'
    BY DEF Aged
  <2>1. Len(passed') \in Nat /\ Len(passed') # 0
    BY <1>3, LenProperties, EmptySeq
  <2>2. Len(passed') + d = Len(passed) /\ Len(passed') \in 1 .. Len(passed') /\ Len(passed) # 0
    BY <1>1, <1>4, <2>1
  <2>3. passed'[Len(passed')].age = passed[Len(passed)].age + 1
    BY <1>4, <2>2
  <2>4. passed # <<>>
    BY <2>2, EmptySeq
  <2>5. passed[Len(passed)].age >= now - LastTime /\ passed[Len(passed)].age \in Nat
    BY <1>1, <1>8, <2>4, LastAge DEF RateInv, Aged
  <2> QED
    <3>1. now - LastTime \in Int /\ now' - LastTime' \in Int
      BY <1>5, <1>6
    <3>2. \A a, x, y \in Int : a >= x /\ y <= x + 1 => a + 1 >= y
      OBVIOUS
    <3>3. passed[Len(passed)].age \in Int
      BY <2>5
    <3> QED
      BY <1>6, <2>3, <2>5, <3>1, <3>2, <3>3, Zenon
<1> QED
  BY <1>3, <1>5, <1>7, <1>8 DEF RateInv

\* when it is set back,
LEMMA RateSetBack == RateInv /\ SetBack => RateInv'
<1> SUFFICES ASSUME RateInv, SetBack PROVE RateInv'
  OBVIOUS
<1>1. now \in Nat /\ now' \in 0 .. now - 1 /\ last_time_ \in Nat
      /\ throttle_type_' = throttle_type_ /\ last_time_' = last_time_ /\ passed' = passed
  BY DEF RateInv, SetBack
<1>2. now' - LastTime' <= now - LastTime /\ now - LastTime \in Int /\ now' - LastTime' \in Int
  <2>1. \A n, m, t \in Nat : m < n =>
          /\ m - (IF t > m THEN m ELSE t) <= n - (IF t > n THEN n ELSE t)
          /\ n - (IF t > n THEN n ELSE t) \in Int /\ m - (IF t > m THEN m ELSE t) \in Int
    OBVIOUS
  <2>2. LastTime = (IF last_time_ > now THEN now ELSE last_time_)
        /\ LastTime' = (IF last_time_ > now' THEN now' ELSE last_time_)
    BY <1>1 DEF LastTime
  <2>3. now' \in Nat /\ now' < now
    BY <1>1
  <2> QED
    BY <1>1, <2>1, <2>2, <2>3, Zenon
<1>3. ASSUME Aged PROVE Aged'
  <2> SUFFICES ASSUME passed # <<>>
               PROVE  passed[Len(passed)].age >= now' - LastTime'
    BY <1>1 DEF Aged
  <2>1. passed[Len(passed)].age >= now - LastTime /\ passed[Len(passed)].age \in Nat
    BY <1>3, LastAge DEF Aged, RateInv
  <2> QED
    BY <1>2, <2>1
<1> QED
  BY <1>1, <1>3 DEF RateInv, Spaced

\* when a message comes,
LEMMA RateProcesses ==
  ASSUME RateInv, NEW size \in Sizes, ProcessMessage(size)
  PROVE  RateInv'
<1>1. UNCHANGED <<throttle_type_, now>> /\ LastTime \in Nat /\ LastTime <= now
  BY DEF ProcessMessage, RateInv, LastTime
<1>2. CASE UNCHANGED <<last_time_, passed>>
  BY <1>1, <1>2 DEF RateInv, Spaced, Aged, LastTime
<1>3. CASE throttle_type_ # "messages" /\ last_time_' = last_time_
           /\ passed' = Append(passed, [age |-> 0, size |-> size])
  BY <1>1, <1>3, AppendProperties DEF RateInv, Entry
<1>4. CASE throttle_type_ = "messages" /\ ~Passes /\ last_time_' = LastTime /\ UNCHANGED passed
  BY <1>1, <1>4 DEF RateInv, Spaced, Aged, LastTime
<1>5. CASE throttle_type_ = "messages" /\ Passes /\ last_time_' = now
           /\ passed' = Append(passed, [age |-> 0, size |-> size])
  <2> DEFINE new == [age |-> 0, size |-> size]
             n == Len(passed)
  <2>1. passed \in Seq(Entry) /\ n \in Nat /\ new \in Entry
    BY LenProperties DEF RateInv, Entry
  <2>2. /\ passed' \in Seq(Entry) /\ Len(passed') = n + 1 /\ passed'[n + 1] = new
        /\ \A i \in 1 .. n : passed'[i] = passed[i]
    BY <1>5, <2>1, AppendProperties
  <2>3. now - LastTime >= period_
    BY <1>5 DEF Passes
  <2>4. Spaced'
    <3> SUFFICES ASSUME NEW i \in 1 .. n
                 PROVE  passed'[i].age - passed'[i + 1].age >= period_
      BY <2>1, <2>2 DEF Spaced
    <3>1. CASE i = n
      <4>1. passed # <<>> /\ passed[n].age >= now - LastTime /\ passed[n].age \in Nat
        <5>1. passed # <<>>
          BY <2>1, <3>1, EmptySeq
        <5> QED
          BY <1>5, <2>1, <5>1, LastAge DEF RateInv, Aged
      <4> QED
        BY <1>1, <2>2, <2>3, <3>1, <4>1, ThrottleAssumption DEF RateInv
    <3>2. CASE i # n
      <4>1. i \in 1 .. n - 1 /\ i + 1 \in 1 .. n
        BY <2>1, <3>2
      <4> QED
        BY <1>5, <2>2, <4>1 DEF RateInv, Spaced
    <3> QED
      BY <3>1, <3>2
  <2>5. Aged'
    <3>1. LastTime' = now
      BY <1>1, <1>5 DEF LastTime, RateInv
    <3> QED
      BY <1>1, <2>2, <3>1 DEF Aged, RateInv
  <2> QED
    BY <1>1, <1>5, <2>2, <2>4, <2>5 DEF RateInv
<1> QED
  BY <1>2, <1>3, <1>4, <1>5 DEF ProcessMessage

\* and when the tool discovers its source or the graph changes.
LEMMA RateStep == RateInv /\ [Next]_vars => RateInv'
<1> SUFFICES ASSUME RateInv, [Next]_vars PROVE RateInv'
  OBVIOUS
<1>1. CASE UNCHANGED timeVars
  BY <1>1 DEF timeVars, RateInv, Spaced, Aged, LastTime
<1>2. CASE \E size \in Sizes : ProcessMessage(size)
  BY <1>2, RateProcesses
<1>3. CASE Advance
  BY <1>3, RateAdvances
<1>4. CASE SetBack
  BY <1>4, RateSetBack
<1> QED
  BY <1>1, <1>2, <1>3, <1>4 DEF Next, vars

\* "maximum messages per second to let through": whatever the clock, however
\* often it is set back, two messages are a period apart.
THEOREM KeepsMessageRateHolds == Spec => []KeepsMessageRate
<1>1. RateInv => KeepsMessageRate
  BY DEF RateInv, KeepsMessageRate
<1> QED
  BY <1>1, RateStart, RateStep, PTL DEF Spec

-----------------------------------------------------------------------------
(* Bytes.  What was let through within the window is remembered, and is not  *)
(* older than the clock says: the next sum counts it.                       *)
Sent == [time : Nat, size : Sizes]
Place(i) == i + (Len(sent_deque_) - Len(passed))
Remembered ==
    \A i \in 1 .. Len(passed) : passed[i].age <= window_ =>
      /\ Place(i) \in 1 .. Len(sent_deque_)
      /\ sent_deque_[Place(i)].size = passed[i].size
      /\ sent_deque_[Place(i)].time + passed[i].age >= now
WindowInv ==
    /\ throttle_type_ \in {"messages", "bytes"} /\ now \in Nat
    /\ passed \in Seq(Entry) /\ sent_deque_ \in Seq(Sent)
    /\ throttle_type_ = "bytes" => Remembered
    /\ KeepsWindowLimit

\* The places of the messages within the window.
Recent(s) == {i \in DOMAIN s : s[i].age <= window_}

\* They have a sum.
LEMMA RecentSum ==
  ASSUME NEW s \in Seq(Entry)
  PROVE  /\ Recent(s) \subseteq 1 .. Len(s) /\ IsFiniteSet(Recent(s))
         /\ \A i \in 1 .. Len(s) : SizesOf(s)[i] = s[i].size /\ SizesOf(s)[i] \in Nat
         /\ SumFunctionOnSet(SizesOf(s), Recent(s)) \in Nat
<1>1. Len(s) \in Nat /\ DOMAIN s = 1 .. Len(s)
  BY LenProperties
<1>2. \A i \in 1 .. Len(s) : s[i] \in Entry
  BY ElementOfSeq
<1>3. \A i \in 1 .. Len(s) : SizesOf(s)[i] = s[i].size /\ SizesOf(s)[i] \in Nat
  BY <1>1, <1>2, ThrottleAssumption DEF Entry, SizesOf
<1>4. Recent(s) \subseteq 1 .. Len(s)
  BY <1>1 DEF Recent
<1>5. IsFiniteSet(Recent(s))
  <2>1. IsFiniteSet(1 .. Len(s))
    BY <1>1, FS_Interval
  <2> QED
    BY <1>4, <2>1, FS_Subset
<1>6. SumFunctionOnSet(SizesOf(s), Recent(s)) \in Nat
  BY <1>3, <1>4, <1>5, SumOfNaturals
<1> QED
  BY <1>3, <1>4, <1>5, <1>6

LEMMA WindowStart == Init => WindowInv
<1> SUFFICES ASSUME Init PROVE WindowInv
  OBVIOUS
<1>1. passed = <<>> /\ sent_deque_ = <<>> /\ Len(passed) = 0 /\ now \in Nat
      /\ throttle_type_ \in {"messages", "bytes"}
  BY EmptySeq, ThrottleAssumption DEF Init
<1>2. Recent(passed) = {}
  BY <1>1, LenProperties, EmptySeq DEF Recent
<1>3. KeepsWindowLimit
  <2>1. SumFunctionOnSet(SizesOf(passed), Recent(passed)) = 0
    BY <1>2, SumEmpty
  <2>2. \A size \in Sizes : 0 < bytes_per_sec_ + size
    BY ThrottleAssumption
  <2> QED
    BY <2>1, <2>2 DEF KeepsWindowLimit, Recent
<1> QED
  BY <1>1, <1>3, EmptySeq DEF WindowInv, Remembered

\* The entries of both sequences and their sizes.
LEMMA EntryTypes ==
  ASSUME WindowInv
  PROVE  /\ Len(passed) \in Nat /\ DOMAIN passed = 1 .. Len(passed)
         /\ \A i \in 1 .. Len(passed) : /\ passed[i].age \in Nat /\ passed[i].size \in Nat
                                        /\ SizesOf(passed)[i] = passed[i].size
         /\ Len(sent_deque_) \in Nat
         /\ \A i \in 1 .. Len(sent_deque_) : /\ sent_deque_[i].time \in Nat
                                             /\ sent_deque_[i].size \in Nat
<1>1. passed \in Seq(Entry) /\ sent_deque_ \in Seq(Sent)
  BY DEF WindowInv
<1>2. Len(passed) \in Nat /\ DOMAIN passed = 1 .. Len(passed) /\ Len(sent_deque_) \in Nat
  BY <1>1, LenProperties
<1>3. \A i \in 1 .. Len(passed) : passed[i] \in Entry
  BY <1>1, ElementOfSeq
<1>4. \A i \in 1 .. Len(sent_deque_) : sent_deque_[i] \in Sent
  BY <1>1, ElementOfSeq
<1>5. Sizes \subseteq Nat
  BY ThrottleAssumption
<1> QED
  BY <1>2, <1>3, <1>4, <1>5 DEF Entry, Sent, SizesOf

\* When the clock advances what is forgotten was too old and the rest ages.
LEMMA WindowAdvances == WindowInv /\ Advance => WindowInv'
<1> SUFFICES ASSUME WindowInv, Advance PROVE WindowInv'
  OBVIOUS
<1>1. passed \in Seq(Entry) /\ sent_deque_ \in Seq(Sent) /\ now \in Nat
  BY DEF WindowInv
<1>2. now' = now + 1 /\ UNCHANGED <<throttle_type_, sent_deque_>>
  BY DEF Advance
<1>3. passed' \in Seq(Entry)
  BY <1>1, AdvanceAges
<1>4. PICK d \in 0 .. Len(passed) :
        /\ Len(passed') = Len(passed) - d
        /\ \A i \in 1 .. Len(passed') : /\ passed'[i].age = passed[i + d].age + 1
                                        /\ passed'[i].size = passed[i + d].size
  BY <1>1, AdvanceAges
<1>5. Len(passed') \in Nat /\ DOMAIN passed' = 1 .. Len(passed')
  BY <1>3, LenProperties
<1>6. ASSUME NEW i \in 1 .. Len(passed'), passed'[i].age <= window_
      PROVE  /\ i + d \in 1 .. Len(passed) /\ passed[i + d].age \in Nat
             /\ passed[i + d].age + 1 = passed'[i].age /\ passed[i + d].age <= window_
             /\ Place(i)' = Place(i + d)
  <2>1. i + d \in 1 .. Len(passed) /\ Place(i)' = Place(i + d)
    BY <1>2, <1>4, <1>5, EntryTypes DEF Place
  <2>2. passed[i + d].age \in Nat /\ passed'[i].age = passed[i + d].age + 1
    BY <1>4, <2>1, EntryTypes
  <2>3. \A a \in Nat : a + 1 <= window_ => a <= window_
    BY ThrottleAssumption
  <2> QED
    BY <1>6, <2>1, <2>2, <2>3
<1>7. ASSUME throttle_type_ = "bytes" PROVE Remembered'
  <2> SUFFICES ASSUME NEW i \in 1 .. Len(passed'), passed'[i].age <= window_
               PROVE  /\ Place(i)' \in 1 .. Len(sent_deque_)
                      /\ sent_deque_[Place(i)'].size = passed'[i].size
                      /\ sent_deque_[Place(i)'].time + passed'[i].age >= now'
    BY <1>2 DEF Remembered
  <2> DEFINE k == Place(i + d)
  <2>1. /\ k \in 1 .. Len(sent_deque_)
        /\ sent_deque_[k].size = passed[i + d].size
        /\ sent_deque_[k].time + passed[i + d].age >= now
    BY <1>6, <1>7 DEF WindowInv, Remembered
  <2>2. Place(i)' = k /\ passed'[i].size = passed[i + d].size
    BY <1>4, <1>6
  <2> HIDE DEF k
  <2>3. sent_deque_[k].time + passed'[i].age >= now'
    <3>1. sent_deque_[k].time \in Nat
      BY <2>1, EntryTypes
    <3>2. \A t, a, n \in Nat : t + a >= n => t + (a + 1) >= n + 1
      OBVIOUS
    <3> QED
      BY <1>1, <1>2, <1>6, <2>1, <3>1, <3>2, Zenon
  <2> QED
    BY <2>1, <2>2, <2>3
<1>8. SumFunctionOnSet(SizesOf(passed'), Recent(passed')) <= SumFunctionOnSet(SizesOf(passed), Recent(passed))
  <2> DEFINE q == [i \in Recent(passed') |-> i + d]
  <2>1. Recent(passed') \subseteq 1 .. Len(passed') /\ Recent(passed) \subseteq 1 .. Len(passed)
    BY <1>1, <1>3, RecentSum
  <2>2. IsFiniteSet(Recent(passed')) /\ IsFiniteSet(Recent(passed))
    BY <1>1, <1>3, RecentSum
  <2>3. \A i \in Recent(passed) : SizesOf(passed)[i] \in Nat
    BY <1>1, <2>1, RecentSum
  <2>4. \A i \in Recent(passed') : /\ q[i] \in Recent(passed)
                           /\ SizesOf(passed)[q[i]] = SizesOf(passed')[i]
    <3> SUFFICES ASSUME NEW i \in Recent(passed')
                 PROVE  i + d \in Recent(passed) /\ SizesOf(passed)[i + d] = SizesOf(passed')[i]
      OBVIOUS
    <3>1. i \in 1 .. Len(passed') /\ passed'[i].age <= window_
      BY <2>1 DEF Recent
    <3>2. i + d \in 1 .. Len(passed) /\ passed[i + d].age <= window_
      BY <1>6, <3>1
    <3>3. SizesOf(passed')[i] = passed'[i].size
      BY <1>5, <3>1 DEF SizesOf
    <3> QED
      BY <1>4, <3>1, <3>2, <3>3, EntryTypes DEF Recent
  <2>5. \A i \in Recent(passed') : SizesOf(passed')[i] \in Nat
    BY <2>3, <2>4
  <2>6. \A i, j \in Recent(passed') : q[i] = q[j] => i = j
    BY <2>1, <1>5
  <2> HIDE DEF q
  <2> QED
    BY <2>2, <2>3, <2>4, <2>5, <2>6, SumInto
<1>9. KeepsWindowLimit'
  <2> SUFFICES ASSUME throttle_type_ = "bytes",
                      NEW size \in Sizes, \A s \in Sizes : s <= size
               PROVE  SumFunctionOnSet(SizesOf(passed'), Recent(passed')) < bytes_per_sec_ + size
    BY <1>2 DEF KeepsWindowLimit, Recent
  <2>1. SumFunctionOnSet(SizesOf(passed), Recent(passed)) < bytes_per_sec_ + size
    BY DEF WindowInv, KeepsWindowLimit, Recent
  <2> QED
    <3>1. \A a, b, c \in Int : a <= b /\ b < c => a < c
      OBVIOUS
    <3>2. /\ SumFunctionOnSet(SizesOf(passed), Recent(passed)) \in Int
          /\ SumFunctionOnSet(SizesOf(passed'), Recent(passed')) \in Int
          /\ bytes_per_sec_ + size \in Int
      BY <1>1, <1>3, RecentSum, ThrottleAssumption
    <3> QED
      BY <1>8, <2>1, <3>1, <3>2
<1> QED
  BY <1>1, <1>2, <1>3, <1>7, <1>9 DEF WindowInv

\* When the clock is set back it makes no message look older.
LEMMA WindowSetBack == WindowInv /\ SetBack => WindowInv'
<1> SUFFICES ASSUME WindowInv, SetBack PROVE WindowInv'
  OBVIOUS
<1>1. UNCHANGED <<throttle_type_, sent_deque_, passed>> /\ now' \in Nat /\ now' <= now /\ now \in Nat
  BY DEF SetBack, WindowInv
<1>2. ASSUME throttle_type_ = "bytes" PROVE Remembered'
  <2> SUFFICES ASSUME NEW i \in 1 .. Len(passed), passed[i].age <= window_
               PROVE  /\ Place(i) \in 1 .. Len(sent_deque_)
                      /\ sent_deque_[Place(i)].size = passed[i].size
                      /\ sent_deque_[Place(i)].time + passed[i].age >= now'
    BY <1>1 DEF Remembered, Place
  <2>1. /\ Place(i) \in 1 .. Len(sent_deque_)
        /\ sent_deque_[Place(i)].size = passed[i].size
        /\ sent_deque_[Place(i)].time + passed[i].age >= now
    BY <1>2 DEF WindowInv, Remembered
  <2>2. sent_deque_[Place(i)].time \in Nat /\ passed[i].age \in Nat
    BY <2>1, EntryTypes
  <2>3. \A t, a, n, m \in Nat : t + a >= n /\ m <= n => t + a >= m
    OBVIOUS
  <2> QED
    BY <1>1, <2>1, <2>2, <2>3, Zenon
<1> QED
  BY <1>1, <1>2 DEF WindowInv, KeepsWindowLimit

\* What process_message() pops from the front left the window: no message that
\* is recent by its age.
LEMMA PopsOld ==
  ASSUME WindowInv
  PROVE  /\ InWindow \in Seq(Sent)
         /\ \E d \in Nat :
              /\ Popped(InWindow, sent_deque_, d)
              /\ throttle_type_ = "bytes" => \A i \in Recent(passed) : Place(i) > d
<1> DEFINE I == {k \in 1 .. Len(sent_deque_) : sent_deque_[k].time >= now - window_}
<1>1. sent_deque_ \in Seq(Sent) /\ passed \in Seq(Entry) /\ now \in Nat
  BY DEF WindowInv
<1>2. LET first == IF I # {} THEN Min(I) ELSE 0
      IN  InWindow = IF first = 0 THEN <<>> ELSE SubSeq(sent_deque_, first, Len(sent_deque_))
  BY DEF InWindow, From, SelectInSeq
<1>3. InWindow \in Seq(Sent)
      /\ \E d \in Nat : Popped(InWindow, sent_deque_, d) /\ \A k \in I : k > d
  <2>1. I \in SUBSET (1 .. Len(sent_deque_))
    OBVIOUS
  <2> HIDE DEF I
  <2> QED
    BY <1>1, <1>2, <2>1, PoppedUntil
<1>4. ASSUME throttle_type_ = "bytes", NEW i \in Recent(passed) PROVE Place(i) \in I
  <2>1. i \in 1 .. Len(passed) /\ passed[i].age <= window_
    BY <1>1, RecentSum DEF Recent
  <2>2. /\ Place(i) \in 1 .. Len(sent_deque_)
        /\ sent_deque_[Place(i)].time + passed[i].age >= now
    BY <1>4, <2>1 DEF WindowInv, Remembered
  <2>3. sent_deque_[Place(i)].time \in Nat /\ passed[i].age \in Nat
    BY <2>1, <2>2, EntryTypes
  <2>4. \A t, a, n, w \in Nat : t + a >= n /\ a <= w => t >= n - w
    OBVIOUS
  <2>5. sent_deque_[Place(i)].time >= now - window_
    BY <1>1, <2>1, <2>2, <2>3, <2>4, ThrottleAssumption, Zenon
  <2> QED
    BY <2>2, <2>5
<1> QED
  <2> HIDE DEF I
  <2> QED
    BY <1>3, <1>4

\* The entries that are left are still remembered.
LEMMA StillRemembered ==
  ASSUME WindowInv, throttle_type_ = "bytes", NEW d \in Nat,
         Popped(InWindow, sent_deque_, d), \A i \in Recent(passed) : Place(i) > d,
         NEW i \in Recent(passed)
  PROVE  LET k == i + (Len(InWindow) - Len(passed))
         IN  /\ k \in 1 .. Len(InWindow) /\ InWindow[k].size = passed[i].size
             /\ InWindow[k].time + passed[i].age >= now
<1> DEFINE k == i + (Len(InWindow) - Len(passed))
<1>1. passed \in Seq(Entry) /\ InWindow \in Seq(Sent)
  BY PopsOld DEF WindowInv
<1>2. i \in 1 .. Len(passed) /\ passed[i].age <= window_
  BY <1>1, RecentSum DEF Recent
<1>3. /\ Place(i) \in 1 .. Len(sent_deque_)
      /\ sent_deque_[Place(i)].size = passed[i].size
      /\ sent_deque_[Place(i)].time + passed[i].age >= now
  BY <1>2 DEF WindowInv, Remembered
<1>4. Len(InWindow) \in Nat /\ Len(passed) \in Nat /\ Len(sent_deque_) \in Nat
  BY <1>1, LenProperties, EntryTypes
<1>5. k = Place(i) - d /\ k \in 1 .. Len(InWindow) /\ k + d = Place(i)
  BY <1>2, <1>3, <1>4 DEF Popped, Place
<1> HIDE DEF k
<1>6. InWindow[k] = sent_deque_[Place(i)]
  BY <1>5 DEF Popped
<1>7. /\ k \in 1 .. Len(InWindow) /\ InWindow[k].size = passed[i].size
      /\ InWindow[k].time + passed[i].age >= now
  BY <1>3, <1>5, <1>6
<1> QED
  BY <1>7 DEF k

\* The recent messages are among those that process_message() sums.
LEMMA CountsRecent ==
  ASSUME WindowInv, throttle_type_ = "bytes"
  PROVE  /\ Total(InWindow) \in Nat
         /\ SumFunctionOnSet(SizesOf(passed), Recent(passed)) <= Total(InWindow)
<1>1. passed \in Seq(Entry) /\ InWindow \in Seq(Sent)
  BY PopsOld DEF WindowInv
<1>2. PICK d \in Nat : /\ Popped(InWindow, sent_deque_, d)
                       /\ \A i \in Recent(passed) : Place(i) > d
  BY PopsOld
<1>3. Len(InWindow) \in Nat /\ DOMAIN InWindow = 1 .. Len(InWindow) /\ Len(passed) \in Nat
  BY <1>1, LenProperties
<1>4. Total(InWindow) = SumFunctionOnSet(SizesOf(InWindow), 1 .. Len(InWindow))
  BY <1>3 DEF Total, SumFunction, SizesOf
<1>5. \A k \in 1 .. Len(InWindow) : /\ SizesOf(InWindow)[k] = InWindow[k].size
                                    /\ SizesOf(InWindow)[k] \in Nat
  <2>1. \A k \in 1 .. Len(InWindow) : InWindow[k] \in Sent
    BY <1>1, ElementOfSeq
  <2> QED
    BY <1>3, <2>1, ThrottleAssumption DEF Sent, SizesOf
<1>6. IsFiniteSet(1 .. Len(InWindow))
  BY <1>3, FS_Interval
<1> DEFINE q == [i \in Recent(passed) |-> i + (Len(InWindow) - Len(passed))]
<1>7. \A i \in Recent(passed) : /\ q[i] \in 1 .. Len(InWindow)
                                /\ SizesOf(InWindow)[q[i]] = SizesOf(passed)[i]
  <2> SUFFICES ASSUME NEW i \in Recent(passed)
               PROVE  /\ q[i] \in 1 .. Len(InWindow)
                      /\ SizesOf(InWindow)[q[i]] = SizesOf(passed)[i]
    OBVIOUS
  <2>1. q[i] \in 1 .. Len(InWindow) /\ InWindow[q[i]].size = passed[i].size
    BY <1>2, StillRemembered
  <2> HIDE DEF q
  <2> QED
    BY <1>1, <1>5, <2>1, RecentSum
<1>8. \A i, j \in Recent(passed) : q[i] = q[j] => i = j
  BY <1>1, <1>3, RecentSum
<1>9. IsFiniteSet(Recent(passed)) /\ \A i \in Recent(passed) : SizesOf(passed)[i] \in Nat
  BY <1>1, RecentSum
<1>10. SumFunctionOnSet(SizesOf(passed), Recent(passed))
         <= SumFunctionOnSet(SizesOf(InWindow), 1 .. Len(InWindow))
  <2> HIDE DEF q
  <2> QED
    BY <1>5, <1>6, <1>7, <1>8, <1>9, SumInto
<1> QED
  BY <1>4, <1>5, <1>6, <1>10, SumOfNaturals

\* When a message comes: what is let through is remembered,
LEMMA WindowProcesses ==
  ASSUME WindowInv, NEW size \in Sizes, ProcessMessage(size)
  PROVE  WindowInv'
<1> DEFINE new == [age |-> 0, size |-> size]
           entry == [time |-> now, size |-> size]
<1>1. UNCHANGED <<throttle_type_, now>> /\ now \in Nat
  BY DEF ProcessMessage, WindowInv
<1>2. passed \in Seq(Entry) /\ sent_deque_ \in Seq(Sent) /\ new \in Entry /\ entry \in Sent
  BY <1>1 DEF WindowInv, Entry, Sent
<1>3. CASE UNCHANGED <<sent_deque_, passed>>
  BY <1>1, <1>3 DEF WindowInv, Remembered, Place, KeepsWindowLimit
<1>4. CASE throttle_type_ # "bytes" /\ UNCHANGED sent_deque_ /\ passed' = Append(passed, new)
  BY <1>1, <1>2, <1>4, AppendProperties DEF WindowInv, KeepsWindowLimit
<1>5. CASE throttle_type_ = "bytes" /\ ~Passes /\ UNCHANGED passed /\ sent_deque_' = InWindow \o <<>>
  <2>1. InWindow \in Seq(Sent) /\ sent_deque_' = InWindow
    BY <1>5, PopsOld, ConcatEmptySeq
  <2>2. PICK d \in Nat : /\ Popped(InWindow, sent_deque_, d)
                         /\ \A i \in Recent(passed) : Place(i) > d
    BY <1>5, PopsOld
  <2>3. Remembered'
    <3> SUFFICES ASSUME NEW i \in 1 .. Len(passed), passed[i].age <= window_
                 PROVE  LET k == i + (Len(InWindow) - Len(passed))
                        IN  /\ k \in 1 .. Len(InWindow) /\ InWindow[k].size = passed[i].size
                            /\ InWindow[k].time + passed[i].age >= now
      BY <1>1, <1>5, <2>1 DEF Remembered, Place
    <3>1. i \in Recent(passed)
      BY EntryTypes DEF Recent
    <3> QED
      BY <1>5, <2>2, <3>1, StillRemembered
  <2> QED
    BY <1>1, <1>2, <1>5, <2>1, <2>3 DEF WindowInv, KeepsWindowLimit
<1>6. CASE throttle_type_ = "bytes" /\ Passes /\ passed' = Append(passed, new)
           /\ sent_deque_' = InWindow \o <<entry>>
  <2> DEFINE n == Len(passed)
             m == Len(InWindow)
  <2>1. InWindow \in Seq(Sent) /\ n \in Nat /\ m \in Nat
    BY <1>2, PopsOld, LenProperties
  <2>2. PICK d \in Nat : /\ Popped(InWindow, sent_deque_, d)
                         /\ \A i \in Recent(passed) : Place(i) > d
    BY <1>6, PopsOld
  <2>3. /\ passed' \in Seq(Entry) /\ Len(passed') = n + 1 /\ passed'[n + 1] = new
        /\ \A i \in 1 .. n : passed'[i] = passed[i]
    BY <1>2, <1>6, AppendProperties
  <2>4. /\ sent_deque_' \in Seq(Sent) /\ Len(sent_deque_') = m + 1 /\ sent_deque_'[m + 1] = entry
        /\ \A k \in 1 .. m : sent_deque_'[k] = InWindow[k]
    <3>1. sent_deque_' = Append(InWindow, entry)
      BY <1>2, <1>6, <2>1, AppendIsConcat
    <3> QED
      BY <1>2, <2>1, <3>1, AppendProperties
  <2>5. Recent(passed') = Recent(passed) \cup {n + 1} /\ n + 1 \notin Recent(passed)
    <3>1. DOMAIN passed = 1 .. n /\ DOMAIN passed' = 1 .. n + 1
      BY <1>2, <2>1, <2>3, LenProperties
    <3>2. passed'[n + 1].age <= window_
      BY <2>3, ThrottleAssumption
    <3> QED
      BY <2>1, <2>3, <3>1, <3>2 DEF Recent
  <2>6. Remembered'
    <3> SUFFICES ASSUME NEW i \in 1 .. n + 1, passed'[i].age <= window_
                 PROVE  LET k == i + (m - n)
                        IN  /\ k \in 1 .. m + 1 /\ sent_deque_'[k].size = passed'[i].size
                            /\ sent_deque_'[k].time + passed'[i].age >= now
      <4>1. \A i \in 1 .. n + 1 : Place(i)' = i + (m - n)
        BY <2>1, <2>3, <2>4 DEF Place
      <4> QED
        BY <1>1, <2>1, <2>3, <2>4, <4>1 DEF Remembered
    <3>1. CASE i = n + 1
      <4>1. i + (m - n) = m + 1
        BY <2>1, <3>1
      <4> QED
        BY <1>1, <2>1, <2>3, <2>4, <3>1, <4>1
    <3>2. CASE i # n + 1
      <4>1. i \in 1 .. n /\ passed'[i] = passed[i]
        BY <2>1, <2>3, <3>2
      <4>2. i \in Recent(passed)
        BY <4>1, EntryTypes DEF Recent
      <4>3. LET k == i + (m - n)
            IN  /\ k \in 1 .. m /\ InWindow[k].size = passed[i].size
                /\ InWindow[k].time + passed[i].age >= now
        BY <1>6, <2>2, <4>2, StillRemembered
      <4> QED
        BY <2>1, <2>4, <4>1, <4>3
    <3> QED
      BY <3>1, <3>2
  <2>7. SumFunctionOnSet(SizesOf(passed'), Recent(passed'))
          = size + SumFunctionOnSet(SizesOf(passed), Recent(passed))
    <3>1. IsFiniteSet(Recent(passed')) /\ \A i \in 1 .. n + 1 : /\ SizesOf(passed')[i] = passed'[i].size
                                                               /\ SizesOf(passed')[i] \in Nat
      BY <2>3, RecentSum
    <3>2. Recent(passed') \ {n + 1} = Recent(passed) /\ Recent(passed') \subseteq 1 .. n + 1
      BY <2>3, <2>5, RecentSum
    <3>3. SumFunctionOnSet(SizesOf(passed'), Recent(passed'))
            = SizesOf(passed')[n + 1] + SumFunctionOnSet(SizesOf(passed'), Recent(passed))
      <4>1. n + 1 \in Recent(passed') /\ \A i \in Recent(passed') : SizesOf(passed')[i] \in Int
        BY <2>5, <3>1, <3>2
      <4> QED
        BY <3>1, <3>2, <4>1, SumTakes
    <3>4. SumFunctionOnSet(SizesOf(passed'), Recent(passed))
            = SumFunctionOnSet(SizesOf(passed), Recent(passed))
      <4>1. \A i \in Recent(passed) : /\ SizesOf(passed)[i] \in Int
                                      /\ SizesOf(passed')[i] = SizesOf(passed)[i]
        <5>1. \A i \in 1 .. n : SizesOf(passed)[i] = passed[i].size /\ SizesOf(passed)[i] \in Nat
          BY <1>2, RecentSum
        <5>2. Recent(passed) \subseteq 1 .. n /\ 1 .. n \subseteq 1 .. n + 1
          BY <1>2, <2>1, RecentSum
        <5> QED
          BY <2>3, <3>1, <5>1, <5>2
      <4> QED
        BY <1>2, <4>1, RecentSum, SumEqual
    <3>5. SizesOf(passed')[n + 1] = size
      BY <2>1, <2>3, <3>1
    <3> QED
      BY <3>3, <3>4, <3>5
  <2>8. KeepsWindowLimit'
    <3> SUFFICES ASSUME NEW most \in Sizes, \A z \in Sizes : z <= most
                 PROVE  SumFunctionOnSet(SizesOf(passed'), Recent(passed')) < bytes_per_sec_ + most
      BY DEF KeepsWindowLimit, Recent
    <3>1. SumFunctionOnSet(SizesOf(passed), Recent(passed)) <= Total(InWindow)
          /\ Total(InWindow) \in Nat /\ SumFunctionOnSet(SizesOf(passed), Recent(passed)) \in Nat
      BY <1>2, <1>6, CountsRecent, RecentSum
    <3>2. Total(InWindow) < bytes_per_sec_ /\ size <= most
      BY <1>6 DEF Passes
    <3>3. \A s, t, b, z, u \in Nat : s <= t /\ t < b /\ z <= u => z + s < b + u
      OBVIOUS
    <3>4. size \in Nat /\ most \in Nat /\ bytes_per_sec_ \in Nat
      BY ThrottleAssumption
    <3> QED
      BY <2>7, <3>1, <3>2, <3>3, <3>4
  <2> QED
    BY <1>1, <2>3, <2>4, <2>6, <2>8 DEF WindowInv
<1>7. \/ UNCHANGED <<sent_deque_, passed>>
      \/ throttle_type_ # "bytes" /\ UNCHANGED sent_deque_ /\ passed' = Append(passed, new)
      \/ throttle_type_ = "bytes" /\ ~Passes /\ UNCHANGED passed /\ sent_deque_' = InWindow \o <<>>
      \/ throttle_type_ = "bytes" /\ Passes /\ passed' = Append(passed, new)
           /\ sent_deque_' = InWindow \o <<entry>>
  <2>1. throttle_type_ \in {"messages", "bytes"}
    BY DEF WindowInv
  <2>2. CASE throttle_type_ = "messages"
    <3>1. sent_deque_' = sent_deque_ /\ (passed' = passed \/ passed' = Append(passed, new))
      BY <2>2 DEF ProcessMessage
    <3> QED
      BY <2>2, <3>1
  <2>3. CASE throttle_type_ = "bytes"
    <3> HIDE DEF new, entry
    <3>1. \/ UNCHANGED <<sent_deque_, passed>>
          \/ /\ IF Passes THEN passed' = Append(passed, new) ELSE UNCHANGED passed
             /\ sent_deque_' = InWindow \o (IF Passes THEN <<entry>> ELSE <<>>)
      BY <2>3 DEF ProcessMessage, new, entry
    <3> QED
      BY <2>3, <3>1
  <2> QED
    BY <2>1, <2>2, <2>3
<1> QED
  BY <1>3, <1>4, <1>5, <1>6, <1>7

\* and when the tool discovers its source or the graph changes.
LEMMA WindowStep == WindowInv /\ [Next]_vars => WindowInv'
<1> SUFFICES ASSUME WindowInv, [Next]_vars PROVE WindowInv'
  OBVIOUS
<1>1. CASE UNCHANGED timeVars
  BY <1>1 DEF timeVars, WindowInv, Remembered, Place, KeepsWindowLimit
<1>2. CASE \E size \in Sizes : ProcessMessage(size)
  BY <1>2, WindowProcesses
<1>3. CASE Advance
  BY <1>3, WindowAdvances
<1>4. CASE SetBack
  BY <1>4, WindowSetBack
<1> QED
  BY <1>1, <1>2, <1>3, <1>4 DEF Next, vars

\* bytes_per_sec_ over window_: whatever the clock, however often it is set back,
\* fewer bytes pass within a window than the limit and one message more.
THEOREM KeepsWindowLimitHolds == Spec => []KeepsWindowLimit
<1>1. WindowInv => KeepsWindowLimit
  BY DEF WindowInv
<1> QED
  BY <1>1, WindowStart, WindowStep, PTL DEF Spec
================================================================================
