------------------------ MODULE NackGenerator_proofs ------------------------
(***************************************************************************)
(* Proofs about NackGenerator, for any range of the sequence numbers, any  *)
(* limits and any order of packets.                                        *)
(***************************************************************************)
EXTENDS NackGenerator, FiniteSetTheorems, TLAPS

ListTypes(list)  == DOMAIN list \subseteq Seqs /\ \A s \in DOMAIN list : list[s] \in Entries
MarkTypes(marks) == DOMAIN marks \subseteq Nat /\ \A n \in DOMAIN marks : marks[n] \in Gaps

\* What is remembered lies between two numbers less than a round apart, so that
\* a sequence number stands for one packet.
InWindow(marks, low, high) == \A n \in DOMAIN marks : low < n /\ n < high

\* An entry of the list is the account of a gap that is still open.
Match(e, g) ==
  /\ g.fate = "open"
  /\ e.missed = g.missed
  /\ e.count = Len(g.asked)
  /\ e.sent = IF g.asked = <<>> THEN 0 ELSE g.asked[Len(g.asked)]

Linked(list, marks) == \A s \in DOMAIN list : \E n \in DOMAIN marks : n % Wrap = s /\ Match(list[s], marks[n])

Within(g) ==
  /\ Len(g.asked) <= MaxNackRetries
  /\ \A i \in 1 .. Len(g.asked) : g.asked[i] - g.missed <= MaxNackAge
  /\ \A i \in 1 .. Len(g.asked) - 1 : g.asked[i + 1] - g.asked[i] >= Cooldown

Remembered(list, marks, now) ==
  \A n \in DOMAIN marks : marks[n].fate = "open" =>
    \/ n % Wrap \in DOMAIN list
    \/ now - marks[n].missed > MaxNackAge
    \/ Len(marks[n].asked) = MaxNackRetries

\* List and history agree, at a time.
Agree(list, marks, low, high, now) ==
  /\ ListTypes(list) /\ MarkTypes(marks)
  /\ InWindow(marks, low, high)
  /\ Linked(list, marks)
  /\ \A n \in DOMAIN marks : Within(marks[n])
  /\ Remembered(list, marks, now)

TaskTypes == tasks \in Seq([seq : Seqs, at : Times]) /\ \A i \in 1 .. Len(tasks) : tasks[i].at <= clock

Stream ==
  \/ last_seq_unwrap = None /\ first = None
  \/ last_seq_unwrap \in Nat /\ first \in Nat /\ first <= last_seq_unwrap /\ last_seq_unwrap <= first + Span

Inv ==
  /\ dtls \in {"new", "done", "closed"} /\ clock \in Times
  /\ last_process_at \in 0 .. MaxTime
  /\ TaskTypes
  /\ Stream
  /\ Agree(nack_list, gaps, first, last_seq_unwrap, clock)

-----------------------------------------------------------------------------
(* Arithmetic                                                              *)

LEMMA Constants ==
  /\ Wrap \in Nat \ {0} /\ MaxNackAge \in Nat \ {0} /\ MaxNackRetries \in Nat \ {0}
  /\ Cooldown \in Nat \ {0} /\ MaxReorder \in Nat \ {0} /\ Span \in Nat \ {0} /\ MaxTime \in Nat \ {0}
  /\ Span + MaxReorder <= Wrap
BY NackAssumption

LEMMA Multiples ==
  ASSUME NEW w \in Nat \ {0}, NEW d \in Int
  PROVE  /\ d >= 1 => w * d >= w
         /\ d <= -1 => w * d <= -w
OBVIOUS

LEMMA Division ==
  ASSUME NEW n \in Int, NEW w \in Nat \ {0}
  PROVE  /\ n = w * (n \div w) + (n % w)
         /\ n \div w \in Int
         /\ n % w \in 0 .. w - 1
OBVIOUS

LEMMA OneRemainder ==
  ASSUME NEW w \in Nat \ {0}, NEW q1 \in Int, NEW q2 \in Int,
         NEW r1 \in 0 .. w - 1, NEW r2 \in 0 .. w - 1, w * q1 + r1 = w * q2 + r2
  PROVE  r1 = r2
<1>1. w * (q1 - q2) = r2 - r1
  OBVIOUS
<1>2. q1 - q2 < 1 /\ q1 - q2 > -1
  BY <1>1, Multiples
<1>3. q1 = q2
  BY <1>2
<1> QED
  BY <1>3

\* Numbers less than a round apart have different remainders.
LEMMA OneOfRound ==
  ASSUME NEW n \in Int, NEW m \in Int, NEW w \in Nat \ {0}, n - m < w, m - n < w, n % w = m % w
  PROVE  n = m
<1> DEFINE a == n \div w
           b == m \div w
           r == n % w
<1>1. n = w * a + r /\ a \in Int /\ r \in Int
  BY Division
<1>2. m = w * b + r /\ b \in Int
  BY Division
<1> HIDE DEF a, b, r
<1>3. n - m = w * (a - b)
  BY <1>1, <1>2
<1>4. a - b < 1 /\ a - b > -1
  BY <1>1, <1>2, <1>3, Multiples
<1>5. a = b
  BY <1>1, <1>2, <1>4
<1> QED
  BY <1>1, <1>2, <1>5

LEMMA SeqOf ==
  ASSUME NEW n \in Int
  PROVE  n % Wrap \in Seqs
BY Constants, Division DEF Seqs

\* The unwrapped number is one of the packet's.
LEMMA UnwrapIsOne ==
  ASSUME NEW seq \in Seqs, last_seq_unwrap \in Nat
  PROVE  Unwrap(seq) \in Int /\ Unwrap(seq) % Wrap = seq
<1> DEFINE d == (seq - last_seq_unwrap) % Wrap
           q == (seq - last_seq_unwrap) \div Wrap
           u == Unwrap(seq)
<1>1. seq \in 0 .. Wrap - 1 /\ seq - last_seq_unwrap \in Int /\ seq \in Int
  BY Constants DEF Seqs
<1>2. seq - last_seq_unwrap = Wrap * q + d /\ q \in Int /\ d \in 0 .. Wrap - 1
  BY <1>1, Constants, Division
<1>3. u = last_seq_unwrap + d \/ u = last_seq_unwrap + (d - Wrap)
  BY DEF Unwrap
<1> HIDE DEF d, q
<1>4. u \in Int
  BY <1>2, <1>3, Constants
<1> HIDE DEF u
<1>5. PICK p \in Int : u = Wrap * p + seq
  <2>1. CASE u = last_seq_unwrap + d
    <3>1. -q \in Int /\ u = Wrap * (-q) + seq
      BY <1>1, <1>2, <2>1, Constants
    <3> QED
      BY <3>1
  <2>2. CASE u = last_seq_unwrap + (d - Wrap)
    <3>1. -q - 1 \in Int /\ u = Wrap * (-q - 1) + seq
      BY <1>1, <1>2, <2>2, Constants
    <3> QED
      BY <3>1
  <2> QED
    BY <1>3, <2>1, <2>2
<1>6. u = Wrap * (u \div Wrap) + (u % Wrap) /\ u \div Wrap \in Int /\ u % Wrap \in 0 .. Wrap - 1
  BY <1>4, Constants, Division
<1>7. u % Wrap = seq
  BY <1>1, <1>5, <1>6, Constants, OneRemainder
<1> QED
  BY <1>4, <1>7 DEF u

LEMMA AppendFacts ==
  ASSUME NEW Q, NEW q \in Seq(Q), NEW x \in Q
  PROVE  /\ Append(q, x) \in Seq(Q) /\ Len(q) \in Nat /\ Len(Append(q, x)) = Len(q) + 1
         /\ \A i \in 1 .. Len(q) : Append(q, x)[i] = q[i]
         /\ Append(q, x)[Len(q) + 1] = x
         /\ Append(q, x) # <<>>
OBVIOUS

LEMMA Empty ==
  ASSUME NEW Q, NEW q \in Seq(Q)
  PROVE  Len(q) \in Nat /\ (q = <<>> <=> Len(q) = 0)
OBVIOUS

LEMMA EntryUpdate ==
  ASSUME NEW A, NEW B, NEW C, NEW e \in [missed : A, sent : B, count : C], NEW x \in B, NEW y \in C
  PROVE  [e EXCEPT !.sent = x, !.count = y] \in [missed : A, sent : B, count : C]
OBVIOUS

-----------------------------------------------------------------------------
(* GetNackBatch                                                            *)

\* One more request within the limits keeps a gap's account right.
LEMMA AskedOnceMore ==
  ASSUME NEW e \in Entries, NEW g \in Gaps, NEW now \in Times,
         Match(e, g), Within(g), ~GivenUp(e, now), Due(e, now)
  PROVE  LET h == [g EXCEPT !.asked = Append(@, now)]
             f == [e EXCEPT !.sent = now, !.count = @ + 1]
         IN  h \in Gaps /\ f \in Entries /\ Match(f, h) /\ Within(h) /\ h.missed = g.missed /\ h.fate = g.fate
<1> DEFINE h == [g EXCEPT !.asked = Append(@, now)]
           f == [e EXCEPT !.sent = now, !.count = @ + 1]
           q == g.asked
           n == Len(g.asked)
<1>1. /\ q \in Seq(Times) /\ g.missed \in Times /\ g.fate = "open"
      /\ e.missed = g.missed /\ e.count = n /\ e.sent \in 0 .. MaxTime
      /\ e.sent = IF q = <<>> THEN 0 ELSE q[n]
  BY DEF Gaps, Entries, Match
<1>2. /\ Append(q, now) \in Seq(Times) /\ n \in Nat /\ Len(Append(q, now)) = n + 1
      /\ \A i \in 1 .. n : Append(q, now)[i] = q[i]
      /\ Append(q, now)[n + 1] = now
      /\ Append(q, now) # <<>>
  BY <1>1, AppendFacts
<1>3. Times \subseteq Nat \ {0} /\ now \in 0 .. MaxTime
  BY Constants DEF Times
<1>4. /\ h \in Gaps /\ h.asked = Append(q, now) /\ h.missed = g.missed /\ h.fate = "open"
  BY <1>1, <1>2 DEF Gaps
<1>5. /\ f \in Entries /\ f.sent = now /\ f.count = n + 1 /\ f.missed = g.missed
  <2>1. e.count + 1 \in Nat /\ e.count + 1 = n + 1
    BY <1>1, <1>2
  <2>2. f \in Entries
    BY <1>3, <2>1, EntryUpdate DEF Entries
  <2>3. f.sent = now /\ f.count = e.count + 1 /\ f.missed = e.missed
    BY DEF Entries
  <2> QED
    BY <1>1, <2>1, <2>2, <2>3
<1> HIDE DEF h, f
<1>6. Match(f, h)
  BY <1>2, <1>4, <1>5 DEF Match
<1>7. now - g.missed <= MaxNackAge /\ n < MaxNackRetries
  <2>1. ~(now - g.missed > MaxNackAge) /\ ~(n >= MaxNackRetries)
    BY <1>1 DEF GivenUp
  <2> QED
    <3>1. now \in Int /\ g.missed \in Int
      <4>1. now \in Times /\ g.missed \in Times
        BY <1>1
      <4> QED
        BY <4>1, Constants DEF Times
    <3>2. n \in Int
      BY <1>2
    <3> QED
      BY <2>1, <3>1, <3>2, Constants
<1>8. n > 0 => now - q[n] >= Cooldown
  <2> SUFFICES ASSUME n > 0 PROVE now - q[n] >= Cooldown
    OBVIOUS
  <2>1. q # <<>> /\ q[n] \in Times
    BY <1>1, <1>2, Empty
  <2> QED
    BY <1>1, <1>3, <2>1 DEF Due
<1>9. Within(h)
  <2>1. Len(h.asked) <= MaxNackRetries
    BY <1>2, <1>4, <1>7, Constants
  <2>2. ASSUME NEW i \in 1 .. n + 1 PROVE h.asked[i] - h.missed <= MaxNackAge
    <3>1. CASE i = n + 1
      BY <1>2, <1>4, <1>7, <3>1
    <3>2. CASE i \in 1 .. n
      BY <1>2, <1>4, <3>2 DEF Within
    <3> QED
      BY <1>2, <3>1, <3>2
  <2>3. ASSUME NEW i \in 1 .. n PROVE h.asked[i + 1] - h.asked[i] >= Cooldown
    <3>1. CASE i = n
      BY <1>2, <1>4, <1>8, <3>1
    <3>2. CASE i \in 1 .. n - 1
      <4>1. h.asked[i + 1] = q[i + 1] /\ h.asked[i] = q[i]
        BY <1>2, <1>4, <3>2
      <4> QED
        BY <3>2, <4>1 DEF Within
    <3> QED
      BY <1>2, <3>1, <3>2
  <2> QED
    BY <1>2, <1>4, <2>1, <2>2, <2>3 DEF Within
<1> QED
  BY <1>1, <1>4, <1>5, <1>6, <1>9 DEF h, f

\* Picking what to ask for keeps the list and the history in agreement.
LEMMA Batch ==
  ASSUME NEW list, NEW marks, NEW low \in Int, NEW high \in Int, NEW now \in Times,
         high - low <= Wrap, clock \in Times, now <= clock, last_process_at \in 0 .. MaxTime,
         Agree(list, marks, low, high, clock), GetNackBatch(list, marks, now)
  PROVE  Agree(nack_list', gaps', low, high, clock) /\ last_process_at' \in 0 .. MaxTime
<1> DEFINE kept  == {s \in DOMAIN list : ~GivenUp(list[s], now)}
           batch == {s \in kept : Due(list[s], now)}
           asked(n) == marks[n].fate = "open" /\ n % Wrap \in batch
<1>1. now \in 0 .. MaxTime
  BY Constants DEF Times
<1>2. CASE nack_list' = list /\ gaps' = marks /\ last_process_at' \in {now, last_process_at}
  BY <1>1, <1>2
<1>3. ASSUME last_process_at' = now,
             nack_list' = [s \in kept |-> IF s \in batch
                                            THEN [list[s] EXCEPT !.sent = now, !.count = @ + 1]
                                            ELSE list[s]],
             gaps' = [n \in DOMAIN marks |-> IF asked(n) THEN [marks[n] EXCEPT !.asked = Append(@, now)]
                                                         ELSE marks[n]]
      PROVE  Agree(nack_list', gaps', low, high, clock)
  <2>1. /\ DOMAIN gaps' = DOMAIN marks /\ DOMAIN marks \subseteq Nat /\ DOMAIN nack_list' = kept
        /\ kept \subseteq DOMAIN list /\ batch \subseteq kept /\ DOMAIN list \subseteq Seqs
    BY <1>3 DEF Agree, MarkTypes, ListTypes
  <2>2. \A n \in DOMAIN marks : marks[n] \in Gaps /\ Within(marks[n])
    BY DEF Agree, MarkTypes
  <2>3. \A s \in DOMAIN list : list[s] \in Entries
    BY DEF Agree, ListTypes
  \* The packet an entry is about is the only one of its number.
  <2>4. ASSUME NEW n \in DOMAIN marks, marks[n].fate = "open", n % Wrap \in DOMAIN list
        PROVE  Match(list[n % Wrap], marks[n])
    <3>1. PICK m \in DOMAIN marks : m % Wrap = n % Wrap /\ Match(list[n % Wrap], marks[m])
      BY <2>4 DEF Agree, Linked
    <3>2. n \in Int /\ m \in Int /\ low < n /\ n < high /\ low < m /\ m < high
      BY <2>1 DEF Agree, InWindow
    <3>3. n - m < Wrap /\ m - n < Wrap
      BY <3>2, Constants
    <3>4. n = m
      BY <3>1, <3>2, <3>3, Constants, OneOfRound
    <3> QED
      BY <3>1, <3>4
  <2>5. ASSUME NEW n \in DOMAIN marks, asked(n)
        PROVE  LET h == gaps'[n]
                   f == nack_list'[n % Wrap]
               IN  h \in Gaps /\ f \in Entries /\ Match(f, h) /\ Within(h)
                   /\ h.missed = marks[n].missed /\ h.fate = marks[n].fate
    <3>1. n % Wrap \in DOMAIN list /\ Match(list[n % Wrap], marks[n])
      BY <2>1, <2>4, <2>5
    <3>2. ~GivenUp(list[n % Wrap], now) /\ Due(list[n % Wrap], now)
      BY <2>5
    <3>3. /\ gaps'[n] = [marks[n] EXCEPT !.asked = Append(@, now)]
          /\ nack_list'[n % Wrap] = [list[n % Wrap] EXCEPT !.sent = now, !.count = @ + 1]
      BY <1>3, <2>1, <2>5
    <3> QED
      <4> DEFINE e == list[n % Wrap]
                 g == marks[n]
                 h == [g EXCEPT !.asked = Append(@, now)]
                 f == [e EXCEPT !.sent = now, !.count = @ + 1]
      <4>1. e \in Entries /\ g \in Gaps /\ Match(e, g) /\ Within(g) /\ ~GivenUp(e, now) /\ Due(e, now)
        BY <2>2, <2>3, <3>1, <3>2
      <4>2. h \in Gaps /\ f \in Entries /\ Match(f, h) /\ Within(h) /\ h.missed = g.missed /\ h.fate = g.fate
        <5> HIDE DEF e, g
        <5> QED
          BY <4>1, AskedOnceMore
      <4> QED
        BY <3>3, <4>2
  <2>6. \A n \in DOMAIN marks : ~asked(n) => gaps'[n] = marks[n]
    BY <1>3
  <2>7. \A s \in kept \ batch : nack_list'[s] = list[s]
    BY <1>3
  <2> HIDE DEF asked, kept, batch
  <2>8. MarkTypes(gaps') /\ \A n \in DOMAIN gaps' : Within(gaps'[n])
    BY <2>1, <2>2, <2>5, <2>6 DEF MarkTypes
  <2>9. InWindow(gaps', low, high)
    BY <2>1 DEF Agree, InWindow
  <2>10. ASSUME NEW s \in kept
         PROVE  /\ nack_list'[s] \in Entries
                /\ \E n \in DOMAIN marks : n % Wrap = s /\ Match(nack_list'[s], gaps'[n])
    <3>1. PICK n \in DOMAIN marks : n % Wrap = s /\ Match(list[s], marks[n])
      BY <2>1 DEF Agree, Linked
    <3>2. CASE s \in batch
      <4>1. asked(n)
        BY <3>1, <3>2 DEF asked, Match
      <4> QED
        BY <2>5, <3>1, <4>1
    <3>3. CASE s \notin batch
      <4>1. ~asked(n)
        BY <3>1, <3>3 DEF asked
      <4> QED
        BY <2>1, <2>3, <2>6, <2>7, <3>1, <3>3, <4>1
    <3> QED
      BY <3>2, <3>3
  <2>11. ListTypes(nack_list') /\ Linked(nack_list', gaps')
    BY <2>1, <2>10 DEF ListTypes, Linked
  <2>12. Remembered(nack_list', gaps', clock)
    <3> SUFFICES ASSUME NEW n \in DOMAIN marks, gaps'[n].fate = "open", n % Wrap \notin kept
                 PROVE  \/ clock - gaps'[n].missed > MaxNackAge
                        \/ Len(gaps'[n].asked) = MaxNackRetries
      BY <2>1 DEF Remembered
    <3>1. ~asked(n) /\ gaps'[n] = marks[n] /\ marks[n].fate = "open"
      BY <2>1, <2>6 DEF asked
    <3>2. CASE n % Wrap \notin DOMAIN list
      BY <3>1, <3>2 DEF Agree, Remembered
    <3>3. CASE n % Wrap \in DOMAIN list
      <4>1. Match(list[n % Wrap], marks[n]) /\ GivenUp(list[n % Wrap], now)
        BY <2>4, <3>1, <3>3 DEF kept
      <4>2. /\ marks[n].missed \in Times /\ Len(marks[n].asked) \in Nat
            /\ Len(marks[n].asked) <= MaxNackRetries
        <5>1. marks[n].asked \in Seq(Times) /\ marks[n].missed \in Times
          BY <2>2 DEF Gaps
        <5> QED
          BY <2>2, <5>1, Empty DEF Within
      <4>3. now - marks[n].missed > MaxNackAge \/ Len(marks[n].asked) >= MaxNackRetries
        BY <4>1 DEF Match, GivenUp
      <4>4. now \in Int /\ clock \in Int /\ marks[n].missed \in Int
        BY <4>2, Constants DEF Times
      <4> QED
        BY <3>1, <4>2, <4>3, <4>4, Constants
    <3> QED
      BY <3>2, <3>3
  <2> QED
    BY <2>8, <2>9, <2>11, <2>12 DEF Agree
<1> QED
  BY <1>1, <1>2, <1>3 DEF GetNackBatch

-----------------------------------------------------------------------------
(* TrimBySize                                                              *)

\* The packets that TrimBySize erases after s: those missed later, and those of
\* a greater number among the ones missed together with it.
Outliving(list, s) ==
  {r \in DOMAIN list : \/ list[r].missed > list[s].missed
                       \/ list[r].missed = list[s].missed /\ r > s}

LEMMA ListNumbers ==
  ASSUME NEW list, ListTypes(list)
  PROVE  /\ IsFiniteSet(DOMAIN list)
         /\ \A s \in DOMAIN list : s \in Int /\ list[s].missed \in Int
<1>1. DOMAIN list \subseteq Seqs /\ \A s \in DOMAIN list : list[s] \in Entries
  BY DEF ListTypes
<1>2. IsFiniteSet(DOMAIN list)
  <2>1. IsFiniteSet(Seqs)
    BY Constants, FS_Interval DEF Seqs
  <2> QED
    BY <1>1, <2>1, FS_Subset
<1>3. Seqs \subseteq Int /\ \A e \in Entries : e.missed \in Int
  BY Constants DEF Seqs, Entries, Times
<1> QED
  BY <1>1, <1>2, <1>3

LEMMA OutlivingIsFinite ==
  ASSUME NEW list, ListTypes(list), NEW s \in DOMAIN list
  PROVE  IsFiniteSet(Outliving(list, s)) /\ Cardinality(Outliving(list, s)) \in Nat
<1>1. Outliving(list, s) \in SUBSET DOMAIN list
  BY DEF Outliving
<1>2. IsFiniteSet(DOMAIN list)
  BY ListNumbers
<1>3. IsFiniteSet(Outliving(list, s))
  BY <1>1, <1>2, FS_Subset
<1> QED
  BY <1>3, FS_CardinalityType

\* Of two packets, fewer outlive the one that outlives the other.
LEMMA FewerOutlive ==
  ASSUME NEW list, ListTypes(list), NEW s \in DOMAIN list, NEW t \in DOMAIN list,
         s \in Outliving(list, t)
  PROVE  Cardinality(Outliving(list, s)) < Cardinality(Outliving(list, t))
<1> DEFINE S == Outliving(list, s)
           T == Outliving(list, t)
<1>1. S \in SUBSET T
  <2> SUFFICES ASSUME NEW r \in DOMAIN list, r \in Outliving(list, s) PROVE r \in Outliving(list, t)
    BY DEF Outliving
  <2> DEFINE a == list[r].missed
             b == list[s].missed
             c == list[t].missed
  <2>1. a \in Int /\ b \in Int /\ c \in Int /\ r \in Int /\ s \in Int /\ t \in Int
    BY ListNumbers
  <2>2. /\ a > b \/ (a = b /\ r > s)
        /\ b > c \/ (b = c /\ s > t)
    BY DEF Outliving
  <2>3. a > c \/ (a = c /\ r > t)
    <3> HIDE DEF a, b, c
    <3> QED
      BY <2>1, <2>2
  <2> QED
    BY <2>3 DEF Outliving
<1>2. s \notin S
  BY ListNumbers DEF Outliving
<1>3. S # T
  BY <1>2
<1>4. IsFiniteSet(T) /\ Cardinality(S) \in Nat /\ Cardinality(T) \in Nat
  BY OutlivingIsFinite
<1> HIDE DEF S, T
<1>5. Cardinality(S) <= Cardinality(T) /\ Cardinality(S) # Cardinality(T)
  BY <1>1, <1>3, <1>4, FS_Subset
<1>6. Cardinality(S) < Cardinality(T)
  BY <1>4, <1>5
<1> QED
  BY <1>6 DEF S, T

LEMMA TrimmedIs ==
  ASSUME NEW list
  PROVE  TrimBySize(list) = {s \in DOMAIN list : Cardinality(Outliving(list, s)) < MaxPendingSeq}
BY DEF TrimBySize, Outliving

\* Trimming leaves no more than fit: no two of them are outlived by equally many.
LEMMA TrimmedFew ==
  ASSUME NEW list, ListTypes(list)
  PROVE  Cardinality(TrimBySize(list)) <= MaxPendingSeq
<1> DEFINE K == 0 .. MaxPendingSeq - 1
           T == TrimBySize(list)
           f == [s \in T |-> Cardinality(Outliving(list, s))]
<1>1. MaxPendingSeq \in Nat \ {0}
  BY NackAssumption
<1>2. T \subseteq DOMAIN list /\ \A s \in T : Cardinality(Outliving(list, s)) < MaxPendingSeq
  BY TrimmedIs
<1>3. f \in [T -> K]
  <2> SUFFICES ASSUME NEW s \in T PROVE Cardinality(Outliving(list, s)) \in K
    OBVIOUS
  <2>1. Cardinality(Outliving(list, s)) \in Nat
    BY <1>2, OutlivingIsFinite
  <2> QED
    BY <1>1, <1>2, <2>1
<1>4. ASSUME NEW s \in T, NEW t \in T, s # t PROVE f[s] # f[t]
  <2>1. s \in Int /\ t \in Int /\ list[s].missed \in Int /\ list[t].missed \in Int
        /\ s \in DOMAIN list /\ t \in DOMAIN list
    BY <1>2, ListNumbers
  <2>2. \/ list[s].missed > list[t].missed
        \/ list[s].missed = list[t].missed /\ s > t
        \/ list[t].missed > list[s].missed
        \/ list[t].missed = list[s].missed /\ t > s
    <3> DEFINE a == list[s].missed
               b == list[t].missed
    <3>1. a \in Int /\ b \in Int /\ s \in Int /\ t \in Int /\ s # t
      BY <1>4, <2>1
    <3> HIDE DEF a, b
    <3>2. a > b \/ b > a \/ (a = b /\ s > t) \/ (b = a /\ t > s)
      BY <3>1
    <3> QED
      BY <3>2 DEF a, b
  <2>3. s \in Outliving(list, t) \/ t \in Outliving(list, s)
    BY <2>1, <2>2 DEF Outliving
  <2>4. /\ f[s] = Cardinality(Outliving(list, s)) /\ f[s] \in Nat
        /\ f[t] = Cardinality(Outliving(list, t)) /\ f[t] \in Nat
    BY <2>1, OutlivingIsFinite
  <2> HIDE DEF f
  <2>5. f[s] < f[t] \/ f[t] < f[s]
    BY <2>1, <2>3, <2>4, FewerOutlive
  <2> QED
    BY <2>4, <2>5
<1> HIDE DEF f, T
<1>5. f \in Injection(T, K)
  BY <1>3, <1>4 DEF Injection, IsInjective
<1>6. IsFiniteSet(K) /\ Cardinality(K) = MaxPendingSeq
  BY <1>1, FS_Interval
<1>7. Cardinality(T) <= Cardinality(K)
  <2> HIDE DEF K
  <2> QED
    BY <1>5, <1>6, FS_Injection
<1> QED
  BY <1>6, <1>7 DEF T

\* What is trimmed was missed no later than what is left.
LEMMA TrimmedOldest ==
  ASSUME NEW list, ListTypes(list), NEW s \in TrimBySize(list), NEW t \in DOMAIN list \ TrimBySize(list)
  PROVE  list[t].missed <= list[s].missed
<1>1. s \in DOMAIN list /\ Cardinality(Outliving(list, s)) < MaxPendingSeq
  BY TrimmedIs
<1>2. ~(Cardinality(Outliving(list, t)) < MaxPendingSeq)
  BY TrimmedIs
<1>3. list[s].missed \in Int /\ list[t].missed \in Int
  BY <1>1, ListNumbers
<1>4. t \notin Outliving(list, s)
  <2> SUFFICES ASSUME t \in Outliving(list, s) PROVE FALSE
    OBVIOUS
  <2>1. Cardinality(Outliving(list, t)) < Cardinality(Outliving(list, s))
    BY <1>1, FewerOutlive
  <2>2. Cardinality(Outliving(list, t)) \in Nat /\ Cardinality(Outliving(list, s)) \in Nat
    BY <1>1, OutlivingIsFinite
  <2>3. MaxPendingSeq \in Nat
    BY NackAssumption
  <2> QED
    BY <1>1, <1>2, <2>1, <2>2, <2>3
<1>5. ~(list[t].missed > list[s].missed)
  BY <1>4 DEF Outliving
<1> QED
  BY <1>3, <1>5

-----------------------------------------------------------------------------
(* The bound of the list                                                   *)

\* Nothing was missed after now.
MissedBy(marks, now) == \A n \in DOMAIN marks : marks[n].missed <= now

\* Tasks are handled in the order of their times, and nothing was missed after
\* the first of them.
Timely ==
  /\ MissedBy(gaps, clock)
  /\ \A i \in 1 .. Len(tasks) : MissedBy(gaps, tasks[i].at)
  /\ \A i, j \in 1 .. Len(tasks) : i < j => tasks[i].at <= tasks[j].at

\* PendingBounded, of a list and a history.
Bounded(list, marks) ==
  /\ Cardinality(DOMAIN list) <= MaxPendingSeq
  /\ \A n, m \in DOMAIN marks :
       marks[n].fate = "trimmed" /\ m % Wrap \in DOMAIN list => marks[n].missed <= marks[m].missed

PendInv == Inv /\ Timely /\ Bounded(nack_list, gaps)

\* An entry of the list and the gap of its number are of the same time.
LEMMA SameTime ==
  ASSUME NEW list, NEW marks, NEW low \in Int, NEW high \in Int, high - low <= Wrap,
         InWindow(marks, low, high), DOMAIN marks \subseteq Nat, Linked(list, marks),
         NEW n \in DOMAIN marks, n % Wrap \in DOMAIN list
  PROVE  list[n % Wrap].missed = marks[n].missed
<1>1. PICK m \in DOMAIN marks : m % Wrap = n % Wrap /\ Match(list[n % Wrap], marks[m])
  BY DEF Linked
<1>2. n \in Int /\ m \in Int /\ low < n /\ n < high /\ low < m /\ m < high
  BY DEF InWindow
<1>3. n - m < Wrap /\ m - n < Wrap
  BY <1>2, Constants
<1>4. n = m
  BY <1>1, <1>2, <1>3, Constants, OneOfRound
<1> QED
  BY <1>1, <1>4 DEF Match

\* A smaller list is bounded too.
LEMMA SmallerBounded ==
  ASSUME NEW list, NEW marks, NEW less, ListTypes(list), Bounded(list, marks),
         DOMAIN less \subseteq DOMAIN list
  PROVE  Bounded(less, marks)
<1>1. Cardinality(DOMAIN less) <= Cardinality(DOMAIN list) /\ IsFiniteSet(DOMAIN less)
      /\ IsFiniteSet(DOMAIN list)
  BY ListNumbers, FS_Subset
<1>2. Cardinality(DOMAIN less) \in Nat /\ Cardinality(DOMAIN list) \in Nat /\ MaxPendingSeq \in Nat
  BY <1>1, FS_CardinalityType, NackAssumption
<1>3. Cardinality(DOMAIN less) <= MaxPendingSeq
  BY <1>1, <1>2 DEF Bounded
<1> QED
  BY <1>3 DEF Bounded

\* GetNackBatch only takes from the list and changes neither fate nor time.
LEMMA BatchBounded ==
  ASSUME NEW list, NEW marks, NEW now, ListTypes(list), MarkTypes(marks),
         Bounded(list, marks), MissedBy(marks, now), GetNackBatch(list, marks, now)
  PROVE  Bounded(nack_list', gaps') /\ MissedBy(gaps', now)
<1>1. DOMAIN nack_list' \subseteq DOMAIN list
  BY DEF GetNackBatch
<1>2. DOMAIN gaps' = DOMAIN marks
  BY DEF GetNackBatch
<1>3. ASSUME NEW n \in DOMAIN marks
      PROVE  gaps'[n].missed = marks[n].missed /\ gaps'[n].fate = marks[n].fate
  <2>1. gaps'[n] = marks[n] \/ gaps'[n] = [marks[n] EXCEPT !.asked = Append(@, now)]
    BY DEF GetNackBatch
  <2>2. marks[n] \in Gaps
    BY DEF MarkTypes
  <2> QED
    BY <2>1, <2>2 DEF Gaps
<1>4. Bounded(nack_list', marks)
  BY <1>1, SmallerBounded
<1> QED
  BY <1>2, <1>3, <1>4 DEF Bounded, MissedBy

\* What a task has to keep of the bound.
KeptBound(now) == Bounded(nack_list', gaps') /\ MissedBy(gaps', now)

-----------------------------------------------------------------------------
(* OnReceivedPacket                                                        *)

Kept == Stream' /\ Agree(nack_list', gaps', first', last_seq_unwrap', clock) /\ last_process_at' \in 0 .. MaxTime

\* What each branch has to show of the list and the history it hands to GetNackBatch.
LEMMA ThenBatch ==
  ASSUME Inv, NEW list, NEW marks, NEW now \in Times, now <= clock,
         GetNackBatch(list, marks, now), Stream',
         Agree(list, marks, first', last_seq_unwrap', clock)
  PROVE  Kept
<1>1. /\ clock \in Times /\ last_process_at \in 0 .. MaxTime
      /\ first' \in Int /\ last_seq_unwrap' \in Int /\ last_seq_unwrap' - first' <= Wrap
  BY Constants DEF Inv, Stream, None
<1> QED
  BY <1>1, Batch DEF Kept

LEMMA NothingYet ==
  ASSUME NEW list, NEW marks, NEW low \in Int, DOMAIN list = {}, DOMAIN marks = {}
  PROVE  Agree(list, marks, low, low, clock)
BY DEF Agree, ListTypes, MarkTypes, InWindow, Linked, Remembered

LEMMA StartKeeps ==
  ASSUME Inv, NEW seq \in Seqs, NEW now \in Times, now <= clock,
         FirstPacket(seq, now) \/ Restart(seq, now)
  PROVE  Kept
<1>1. seq \in Nat /\ seq \in Int
  BY Constants DEF Seqs
<1>2. last_seq_unwrap' = seq /\ first' = seq
  BY DEF FirstPacket, Restart
<1>3. Stream'
  BY <1>1, <1>2, Constants DEF Stream
<1>4. CASE FirstPacket(seq, now)
  <2>1. first = -1 /\ last_seq_unwrap = -1
    BY <1>4 DEF FirstPacket, Inv, Stream, None
  <2>2. DOMAIN gaps = {}
    <3> SUFFICES ASSUME NEW n \in DOMAIN gaps PROVE FALSE
      OBVIOUS
    <3>1. n \in Nat /\ first < n /\ n < last_seq_unwrap
      BY DEF Inv, Agree, InWindow, MarkTypes
    <3> QED
      BY <2>1, <3>1
  <2>3. DOMAIN nack_list = {}
    BY <2>2 DEF Inv, Agree, Linked
  <2>4. Agree(nack_list, gaps, first', last_seq_unwrap', clock)
    BY <1>1, <1>2, <2>2, <2>3, NothingYet
  <2> QED
    BY <1>3, <1>4, <2>4, ThenBatch DEF FirstPacket
<1>5. CASE Restart(seq, now)
  <2>1. Agree(<<>>, <<>>, first', last_seq_unwrap', clock)
    BY <1>1, <1>2, NothingYet
  <2> QED
    BY <1>3, <1>5, <2>1, ThenBatch DEF Restart
<1> QED
  BY <1>4, <1>5

LEMMA DuplicateKeeps ==
  ASSUME Inv, NEW seq \in Seqs, NEW now \in Times, now <= clock, Duplicate(seq, now)
  PROVE  Kept
<1>1. Stream' /\ Agree(nack_list, gaps, first', last_seq_unwrap', clock)
  BY DEF Duplicate, Inv, Stream
<1> QED
  BY <1>1, ThenBatch DEF Duplicate

\* A late packet leaves the list, and no other does: the numbers in the window
\* are less than a round away from it.
LEMMA LateKeeps ==
  ASSUME Inv, NEW seq \in Seqs, NEW now \in Times, now <= clock, Late(seq, now)
  PROVE  Kept
<1> DEFINE u     == Unwrap(seq)
           list  == [s \in DOMAIN nack_list \ {seq} |-> nack_list[s]]
           marks == [n \in DOMAIN gaps |-> IF n = u THEN [gaps[n] EXCEPT !.fate = "late"] ELSE gaps[n]]
<1>1. /\ last_seq_unwrap \in Nat /\ first \in Nat
      /\ first <= last_seq_unwrap /\ last_seq_unwrap <= first + Span
      /\ first' = first /\ last_seq_unwrap' = last_seq_unwrap /\ last_seq_unwrap - u \in 1 .. MaxReorder
      /\ GetNackBatch(list, marks, now)
  BY DEF Late, Inv, Stream
<1>2. u \in Int /\ u % Wrap = seq
  BY <1>1, UnwrapIsOne
<1> HIDE DEF u
<1>3. Stream'
  BY <1>1 DEF Stream
<1>4. ASSUME NEW n \in DOMAIN gaps, n % Wrap = seq
      PROVE  n = u
  <2>1. n \in Int /\ first < n /\ n < last_seq_unwrap
    BY <1>1 DEF Inv, Agree, InWindow, MarkTypes
  <2>2. n - u < Wrap /\ u - n < Wrap
    BY <1>1, <1>2, <2>1, Constants
  <2> QED
    BY <1>2, <1>4, <2>1, <2>2, Constants, OneOfRound
<1>5. /\ DOMAIN marks = DOMAIN gaps /\ DOMAIN gaps \subseteq Nat
      /\ DOMAIN list = DOMAIN nack_list \ {seq} /\ \A s \in DOMAIN list : list[s] = nack_list[s]
      /\ \A n \in DOMAIN gaps : n # u => marks[n] = gaps[n]
  BY DEF Inv, Agree, MarkTypes
<1>6. ASSUME NEW n \in DOMAIN gaps
      PROVE  /\ marks[n] \in Gaps /\ Within(marks[n])
             /\ n = u => marks[n].fate = "late"
  <2>1. gaps[n] \in Gaps /\ Within(gaps[n])
    BY DEF Inv, Agree, MarkTypes
  <2>2. CASE n = u
    <3>1. marks[n] = [gaps[n] EXCEPT !.fate = "late"]
      BY <2>2
    <3>2. /\ marks[n] \in Gaps /\ marks[n].fate = "late"
          /\ marks[n].asked = gaps[n].asked /\ marks[n].missed = gaps[n].missed
      BY <2>1, <3>1 DEF Gaps
    <3> QED
      BY <2>1, <3>2 DEF Within
  <2> QED
    BY <1>5, <2>1, <2>2
<1> HIDE DEF list, marks
<1>7. ListTypes(list) /\ MarkTypes(marks) /\ InWindow(marks, first, last_seq_unwrap)
  BY <1>5, <1>6 DEF Inv, Agree, ListTypes, MarkTypes, InWindow
<1>8. Linked(list, marks)
  <2> SUFFICES ASSUME NEW s \in DOMAIN list
               PROVE  \E n \in DOMAIN marks : n % Wrap = s /\ Match(list[s], marks[n])
    BY DEF Linked
  <2>1. PICK n \in DOMAIN gaps : n % Wrap = s /\ Match(nack_list[s], gaps[n])
    BY <1>5 DEF Inv, Agree, Linked
  <2>2. n # u
    BY <1>2, <1>5, <2>1
  <2> QED
    BY <1>5, <2>1, <2>2
<1>9. Remembered(list, marks, clock)
  <2> SUFFICES ASSUME NEW n \in DOMAIN gaps, marks[n].fate = "open"
               PROVE  \/ n % Wrap \in DOMAIN list
                      \/ clock - marks[n].missed > MaxNackAge
                      \/ Len(marks[n].asked) = MaxNackRetries
    BY <1>5 DEF Remembered
  <2>1. n # u /\ marks[n] = gaps[n] /\ n % Wrap # seq
    BY <1>4, <1>5, <1>6
  <2> QED
    BY <1>5, <2>1 DEF Inv, Agree, Remembered
<1>10. Agree(list, marks, first', last_seq_unwrap', clock)
  BY <1>1, <1>5, <1>6, <1>7, <1>8, <1>9 DEF Agree
<1> QED
  BY <1>1, <1>3, <1>10, ThenBatch

\* A packet ahead opens a gap: what is trimmed from the list is marked so, and the
\* rest of the gap is on the list.
LEMMA AdvanceKeeps ==
  ASSUME Inv, NEW seq \in Seqs, NEW now \in Times, now <= clock, Advance(seq, now)
  PROVE  Kept /\ (MissedBy(gaps, now) /\ Bounded(nack_list, gaps) => KeptBound(now))
<1> DEFINE u       == Unwrap(seq)
           skipped == last_seq_unwrap + 1 .. u - 1
           fresh   == [missed |-> now, sent |-> 0, count |-> 0]
           filled  == AddMissingRange(nack_list, last_seq_unwrap, u, now)
           trimmed == TrimBySize(filled)
           opened(n) == IF n \in DOMAIN gaps THEN gaps[n] ELSE [missed |-> now, asked |-> <<>>, fate |-> "open"]
           marks   == [n \in DOMAIN gaps \cup skipped |->
                         IF opened(n).fate = "open" /\ n % Wrap \in DOMAIN filled \ trimmed
                           THEN [opened(n) EXCEPT !.fate = "trimmed"]
                           ELSE opened(n)]
           before  == [n \in DOMAIN gaps \cup skipped |-> opened(n)]
           list    == [s \in trimmed |-> filled[s]]
<1>1. /\ last_seq_unwrap \in Nat /\ first \in Nat
      /\ first <= last_seq_unwrap /\ first' = first /\ last_seq_unwrap' = u
      /\ u > last_seq_unwrap /\ u <= first + Span
      /\ GetNackBatch(list, marks, now)
  BY DEF Advance, Inv, Stream
<1>2. u \in Int
  BY <1>1, UnwrapIsOne
<1> HIDE DEF u
<1>3. Stream'
  BY <1>1, <1>2 DEF Stream
<1>4. ASSUME NEW n \in DOMAIN gaps
      PROVE  n \in Int /\ n \in Nat /\ first < n /\ n < last_seq_unwrap
  BY <1>1 DEF Inv, Agree, InWindow, MarkTypes
<1>5. \A n \in DOMAIN gaps \cup skipped : n \in Int /\ n \in Nat /\ first < n /\ n < u
  BY <1>1, <1>2, <1>4
<1>6. /\ DOMAIN filled = DOMAIN nack_list \cup {n % Wrap : n \in skipped}
      /\ \A s \in DOMAIN nack_list : filled[s] = nack_list[s]
      /\ \A s \in DOMAIN filled \ DOMAIN nack_list : filled[s] = fresh
  BY DEF AddMissingRange
<1>7. trimmed \subseteq DOMAIN filled
  BY DEF TrimBySize
<1>8. DOMAIN list = trimmed /\ \A s \in trimmed : list[s] = filled[s]
  OBVIOUS
<1>9. fresh \in Entries /\ fresh.missed = now /\ fresh.sent = 0 /\ fresh.count = 0
  BY Constants DEF Entries
<1>10. ASSUME NEW n \in DOMAIN gaps \cup skipped
       PROVE  opened(n) \in Gaps /\ Within(opened(n))
  <2>1. CASE n \in DOMAIN gaps
    BY <2>1 DEF Inv, Agree, MarkTypes
  <2>2. CASE n \notin DOMAIN gaps
    <3>1. opened(n) = [missed |-> now, asked |-> <<>>, fate |-> "open"]
      BY <2>2
    <3> HIDE DEF opened
    <3>2. <<>> \in Seq(Times) /\ Len(<<>>) = 0
      OBVIOUS
    <3>3. opened(n) \in Gaps /\ opened(n).asked = <<>>
      BY <3>1, <3>2 DEF Gaps
    <3> QED
      BY <3>2, <3>3, Constants DEF Within
  <2> QED
    BY <2>1, <2>2
<1>11. /\ \A n \in DOMAIN gaps : opened(n) = gaps[n]
       /\ \A n \in skipped : /\ n \notin DOMAIN gaps
                             /\ opened(n) = [missed |-> now, asked |-> <<>>, fate |-> "open"]
  <2>1. \A n \in skipped : n \notin DOMAIN gaps
    BY <1>1, <1>2, <1>4
  <2> QED
    BY <2>1
<1>12. /\ DOMAIN marks = DOMAIN gaps \cup skipped
       /\ \A n \in DOMAIN marks :
            marks[n] = IF opened(n).fate = "open" /\ n % Wrap \in DOMAIN filled \ trimmed
                         THEN [opened(n) EXCEPT !.fate = "trimmed"]
                         ELSE opened(n)
       /\ DOMAIN before = DOMAIN gaps \cup skipped
       /\ \A n \in DOMAIN before : before[n] = opened(n)
  OBVIOUS
<1>t. trimmed = TrimBySize(filled)
  OBVIOUS
<1> HIDE DEF skipped, fresh, filled, trimmed, opened, marks, before, list
<1>13. ASSUME NEW n \in DOMAIN marks
       PROVE  /\ marks[n] \in Gaps /\ Within(marks[n])
              /\ marks[n].fate = "open" => marks[n] = opened(n) /\ n % Wrap \notin DOMAIN filled \ trimmed
              /\ n % Wrap \in trimmed => marks[n] = opened(n)
  <2>1. opened(n) \in Gaps /\ Within(opened(n))
    BY <1>10, <1>12
  <2>2. CASE opened(n).fate = "open" /\ n % Wrap \in DOMAIN filled \ trimmed
    <3>1. marks[n] = [opened(n) EXCEPT !.fate = "trimmed"]
      BY <1>12, <2>2
    <3>2. /\ marks[n] \in Gaps /\ marks[n].fate = "trimmed"
          /\ marks[n].asked = opened(n).asked /\ marks[n].missed = opened(n).missed
      BY <2>1, <3>1 DEF Gaps
    <3> QED
      BY <2>1, <2>2, <3>2 DEF Within
  <2>3. CASE ~(opened(n).fate = "open" /\ n % Wrap \in DOMAIN filled \ trimmed)
    <3>1. marks[n] = opened(n)
      BY <1>12, <2>3
    <3> QED
      BY <2>1, <2>3, <3>1
  <2> QED
    BY <2>2, <2>3
<1>14. ListTypes(filled) /\ ListTypes(list)
  <2>1. \A n \in skipped : n % Wrap \in Seqs
    BY <1>5, SeqOf
  <2>2. DOMAIN nack_list \subseteq Seqs /\ \A s \in DOMAIN nack_list : nack_list[s] \in Entries
    BY DEF Inv, Agree, ListTypes
  <2>3. ASSUME NEW s \in DOMAIN filled PROVE s \in Seqs /\ filled[s] \in Entries
    BY <1>6, <1>9, <2>1, <2>2
  <2>4. ListTypes(filled)
    BY <2>3 DEF ListTypes
  <2> QED
    BY <1>7, <1>8, <2>4 DEF ListTypes
<1>15. MarkTypes(marks) /\ InWindow(marks, first, u) /\ \A n \in DOMAIN marks : Within(marks[n])
  BY <1>5, <1>12, <1>13 DEF MarkTypes, InWindow
<1>b. /\ Linked(filled, before) /\ DOMAIN before \subseteq Nat /\ InWindow(before, first, u)
  <2>1. DOMAIN before \subseteq Nat /\ InWindow(before, first, u)
    BY <1>5, <1>12 DEF InWindow
  <2> SUFFICES ASSUME NEW s \in DOMAIN filled
               PROVE  \E n \in DOMAIN before : n % Wrap = s /\ Match(filled[s], before[n])
    BY <2>1 DEF Linked
  <2>2. CASE s \in DOMAIN nack_list
    <3>1. PICK n \in DOMAIN gaps : n % Wrap = s /\ Match(nack_list[s], gaps[n])
      BY <2>2 DEF Inv, Agree, Linked
    <3>2. n \in DOMAIN before /\ before[n] = gaps[n]
      BY <1>11, <1>12, <3>1
    <3> QED
      BY <1>6, <2>2, <3>1, <3>2
  <2>3. CASE s \notin DOMAIN nack_list
    <3>1. PICK n \in skipped : n % Wrap = s
      BY <1>6, <2>3
    <3>2. n \in DOMAIN before /\ before[n] = [missed |-> now, asked |-> <<>>, fate |-> "open"]
      BY <1>11, <1>12, <3>1
    <3>3. filled[s] = fresh
      BY <1>6, <2>3
    <3>4. Match(filled[s], before[n])
      <4>1. before[n].fate = "open" /\ before[n].missed = now /\ before[n].asked = <<>> /\ Len(<<>>) = 0
        BY <3>2
      <4> QED
        BY <1>9, <3>3, <4>1 DEF Match
    <3> QED
      BY <3>1, <3>2, <3>4
  <2> QED
    BY <2>2, <2>3
<1>16. Linked(list, marks)
  <2> SUFFICES ASSUME NEW s \in trimmed
               PROVE  \E n \in DOMAIN marks : n % Wrap = s /\ Match(list[s], marks[n])
    BY <1>8 DEF Linked
  <2>1. PICK n \in DOMAIN before : n % Wrap = s /\ Match(filled[s], before[n])
    BY <1>7, <1>b DEF Linked
  <2>2. n \in DOMAIN marks /\ marks[n] = before[n]
    BY <1>12, <1>13, <2>1
  <2> QED
    BY <1>8, <2>1, <2>2
<1>17. Remembered(list, marks, clock)
  <2> SUFFICES ASSUME NEW n \in DOMAIN marks, marks[n].fate = "open", n % Wrap \notin trimmed
               PROVE  \/ clock - marks[n].missed > MaxNackAge
                      \/ Len(marks[n].asked) = MaxNackRetries
    BY <1>8 DEF Remembered
  <2>1. marks[n] = opened(n) /\ n % Wrap \notin DOMAIN filled
    BY <1>13
  <2>2. n \notin skipped /\ n \in DOMAIN gaps /\ n % Wrap \notin DOMAIN nack_list
    BY <1>6, <1>12, <2>1
  <2>3. marks[n] = gaps[n]
    BY <1>11, <2>1, <2>2
  <2> QED
    BY <2>2, <2>3 DEF Inv, Agree, Remembered
<1>18. Agree(list, marks, first', last_seq_unwrap', clock)
  BY <1>1, <1>14, <1>15, <1>16, <1>17 DEF Agree
<1>19. ASSUME MissedBy(gaps, now), Bounded(nack_list, gaps)
       PROVE  KeptBound(now)
  <2>0. /\ now \in Int /\ now <= now
        /\ first \in Int /\ u \in Int /\ u - first <= Wrap
        /\ DOMAIN marks \subseteq Nat
    BY <1>1, <1>2, <1>15, Constants DEF Times, MarkTypes
  <2>1. Cardinality(DOMAIN list) <= MaxPendingSeq
    BY <1>8, <1>14, <1>t, TrimmedFew
  <2>2. ASSUME NEW n \in DOMAIN marks
        PROVE  /\ marks[n].missed = opened(n).missed /\ marks[n].missed <= now
               /\ marks[n].missed = before[n].missed
    <3>1. marks[n].missed = opened(n).missed
      <4>1. opened(n) \in Gaps
        BY <1>10, <1>12
      <4>2. marks[n] = opened(n) \/ marks[n] = [opened(n) EXCEPT !.fate = "trimmed"]
        BY <1>12
      <4> QED
        BY <4>1, <4>2 DEF Gaps
    <3>2. opened(n).missed <= now
      <4>1. CASE n \in DOMAIN gaps
        BY <1>11, <1>19, <4>1 DEF MissedBy
      <4>2. CASE n \in skipped
        BY <1>11, <2>0, <4>2
      <4> QED
        BY <1>12, <4>1, <4>2
    <3> QED
      BY <1>12, <3>1, <3>2
  <2>3. ASSUME NEW n \in DOMAIN marks, NEW m \in DOMAIN marks,
               marks[n].fate = "trimmed", m % Wrap \in trimmed
        PROVE  marks[n].missed <= marks[m].missed
    <3>1. marks[m].missed = filled[m % Wrap].missed
      BY <1>7, <1>12, <1>b, <2>0, <2>2, <2>3, SameTime
    <3>2. CASE opened(n).fate = "open"
      <4>1. n % Wrap \in DOMAIN filled \ trimmed
        BY <1>12, <2>3, <3>2
      <4>2. marks[n].missed = filled[n % Wrap].missed
        BY <1>12, <1>b, <2>0, <2>2, <4>1, SameTime
      <4>3. filled[n % Wrap].missed <= filled[m % Wrap].missed
        BY <1>14, <1>t, <2>3, <4>1, TrimmedOldest
      <4> QED
        BY <3>1, <4>2, <4>3
    <3>3. CASE opened(n).fate # "open"
      <4>a. n \notin skipped
        BY <1>11, <3>3
      <4>b. n \in DOMAIN gaps /\ opened(n) = gaps[n]
        BY <1>11, <1>12, <4>a
      <4>c. marks[n] = opened(n)
        BY <1>12, <3>3
      <4>1. n \in DOMAIN gaps /\ marks[n] = gaps[n]
        BY <4>b, <4>c
      <4>2. CASE m % Wrap \in DOMAIN nack_list
        <5>1. PICK l \in DOMAIN gaps : l % Wrap = m % Wrap /\ Match(nack_list[m % Wrap], gaps[l])
          BY <4>2 DEF Inv, Agree, Linked
        <5>2. gaps[n].missed <= gaps[l].missed
          BY <1>19, <2>3, <4>1, <4>2, <5>1 DEF Bounded
        <5>3. gaps[l].missed = filled[m % Wrap].missed
          BY <1>6, <4>2, <5>1 DEF Match
        <5> QED
          BY <3>1, <4>1, <5>2, <5>3
      <4>3. CASE m % Wrap \notin DOMAIN nack_list
        <5>1. filled[m % Wrap].missed = now
          BY <1>6, <1>7, <1>9, <2>3, <4>3
        <5> QED
          BY <2>2, <3>1, <5>1
      <4> QED
        BY <4>2, <4>3
    <3> QED
      BY <3>2, <3>3
  <2>4. Bounded(list, marks) /\ MissedBy(marks, now)
    BY <1>8, <2>1, <2>2, <2>3 DEF Bounded, MissedBy
  <2> QED
    BY <1>1, <1>14, <1>15, <2>4, BatchBounded DEF KeptBound
<1> QED
  BY <1>1, <1>3, <1>18, <1>19, ThenBatch

LEMMA StartBounded ==
  ASSUME PendInv, NEW seq \in Seqs, NEW now \in Times, MissedBy(gaps, now),
         FirstPacket(seq, now) \/ Duplicate(seq, now) \/ Restart(seq, now)
  PROVE  KeptBound(now)
<1>1. CASE FirstPacket(seq, now) \/ Duplicate(seq, now)
  <2>1. GetNackBatch(nack_list, gaps, now)
    BY <1>1 DEF FirstPacket, Duplicate
  <2>2. ListTypes(nack_list) /\ MarkTypes(gaps) /\ Bounded(nack_list, gaps)
    BY DEF PendInv, Inv, Agree
  <2> QED
    BY <2>1, <2>2, BatchBounded DEF KeptBound
<1>2. CASE Restart(seq, now)
  <2> DEFINE e == <<>>
  <2>1. GetNackBatch(e, e, now)
    BY <1>2 DEF Restart
  <2>2. DOMAIN e = {}
    OBVIOUS
  <2> HIDE DEF e
  <2>3. Cardinality(DOMAIN e) = 0
    BY <2>2, FS_EmptySet
  <2>4. ListTypes(e) /\ MarkTypes(e) /\ MissedBy(e, now)
    BY <2>2 DEF ListTypes, MarkTypes, MissedBy
  <2>5. Bounded(e, e)
    <3>1. 0 <= MaxPendingSeq
      BY NackAssumption
    <3> QED
      BY <2>2, <2>3, <3>1 DEF Bounded
  <2> QED
    BY <2>1, <2>4, <2>5, BatchBounded DEF KeptBound
<1> QED
  BY <1>1, <1>2

LEMMA LateBounded ==
  ASSUME PendInv, NEW seq \in Seqs, NEW now \in Times, MissedBy(gaps, now), Late(seq, now)
  PROVE  KeptBound(now)
<1> DEFINE u     == Unwrap(seq)
           list  == [s \in DOMAIN nack_list \ {seq} |-> nack_list[s]]
           marks == [n \in DOMAIN gaps |-> IF n = u THEN [gaps[n] EXCEPT !.fate = "late"] ELSE gaps[n]]
<1>1. GetNackBatch(list, marks, now)
  BY DEF Late
<1>2. /\ DOMAIN list \subseteq DOMAIN nack_list /\ DOMAIN marks = DOMAIN gaps
      /\ \A s \in DOMAIN list : list[s] = nack_list[s]
  OBVIOUS
<1>3. ASSUME NEW n \in DOMAIN gaps
      PROVE  /\ gaps[n] \in Gaps /\ marks[n] \in Gaps /\ marks[n].missed = gaps[n].missed
             /\ marks[n].fate = "trimmed" => gaps[n].fate = "trimmed"
  <2>1. gaps[n] \in Gaps
    BY DEF PendInv, Inv, Agree, MarkTypes
  <2>2. marks[n] = gaps[n] \/ marks[n] = [gaps[n] EXCEPT !.fate = "late"]
    OBVIOUS
  <2> HIDE DEF marks
  <2> QED
    BY <2>1, <2>2 DEF Gaps
<1> HIDE DEF list, marks
<1>4. ListTypes(nack_list) /\ MarkTypes(gaps) /\ Bounded(nack_list, gaps)
  BY DEF PendInv, Inv, Agree
<1>5. ListTypes(list) /\ MarkTypes(marks) /\ MissedBy(marks, now)
  BY <1>2, <1>3, <1>4 DEF ListTypes, MarkTypes, MissedBy
<1>6. Bounded(list, gaps)
  BY <1>2, <1>4, SmallerBounded
<1>7. Bounded(list, marks)
  BY <1>2, <1>3, <1>6 DEF Bounded
<1> QED
  BY <1>1, <1>5, <1>7, BatchBounded DEF KeptBound

-----------------------------------------------------------------------------
(* The invariant                                                           *)

LEMMA InvInit == NackInit => Inv
<1> SUFFICES ASSUME NackInit PROVE Inv
  OBVIOUS
<1>1. Agree(nack_list, gaps, first, last_seq_unwrap, clock)
  BY NothingYet DEF NackInit, None
<1>2. clock \in Times /\ last_process_at \in 0 .. MaxTime
  BY Constants DEF NackInit, Times
<1>3. TaskTypes
  BY DEF NackInit, TaskTypes
<1> QED
  BY <1>1, <1>2, <1>3 DEF NackInit, Inv, Stream

\* The oldest task leaves the queue.
LEMMA FirstTask ==
  ASSUME TaskTypes, tasks # <<>>
  PROVE  /\ Head(tasks).seq \in Seqs /\ Head(tasks).at \in Times /\ Head(tasks).at <= clock
         /\ Tail(tasks) \in Seq([seq : Seqs, at : Times])
         /\ \A i \in 1 .. Len(Tail(tasks)) : Tail(tasks)[i].at <= clock
<1> DEFINE T == [seq : Seqs, at : Times]
<1>1. tasks \in Seq(T)
  BY DEF TaskTypes
<1> HIDE DEF T
<1>2. /\ Tail(tasks) \in Seq(T) /\ Len(tasks) \in Nat \ {0} /\ Len(Tail(tasks)) = Len(tasks) - 1
      /\ \A i \in 1 .. Len(tasks) - 1 : Tail(tasks)[i] = tasks[i + 1]
  BY <1>1
<1>3. Head(tasks) = tasks[1] /\ Head(tasks) \in T
  BY <1>1
<1>4. 1 \in 1 .. Len(tasks)
  BY <1>2
<1>5. Head(tasks).at <= clock
  BY <1>3, <1>4 DEF TaskTypes
<1>6. \A i \in 1 .. Len(tasks) - 1 : i + 1 \in 1 .. Len(tasks)
  BY <1>2
<1>7. \A i \in 1 .. Len(Tail(tasks)) : Tail(tasks)[i].at <= clock
  BY <1>2, <1>6 DEF TaskTypes
<1>8. Head(tasks).seq \in Seqs /\ Head(tasks).at \in Times
  BY <1>3 DEF T
<1> QED
  BY <1>2, <1>5, <1>7, <1>8 DEF T

LEMMA InvStep == Inv /\ [NackNext]_nackVars => Inv'
<1> SUFFICES ASSUME Inv, [NackNext]_nackVars PROVE Inv'
  OBVIOUS
<1>1. ASSUME UNCHANGED <<clock, last_seq_unwrap, nack_list, last_process_at, first, gaps>>,
             TaskTypes', dtls' \in {"new", "done", "closed"}
      PROVE  Inv'
  <2>1. Agree(nack_list', gaps', first', last_seq_unwrap', clock')
    BY <1>1 DEF Inv
  <2>2. Stream'
    BY <1>1 DEF Inv, Stream
  <2> QED
    BY <1>1, <2>1, <2>2 DEF Inv
<1>2. CASE SetDtls \/ UNCHANGED nackVars
  <2>1. TaskTypes'
    BY <1>2 DEF Inv, TaskTypes, SetDtls, nackVars
  <2> QED
    BY <1>1, <1>2, <2>1 DEF SetDtls, nackVars, Inv
<1>3. ASSUME NEW seq \in Seqs, OnSrtpRtp(seq) PROVE Inv'
  <2> DEFINE T == [seq : Seqs, at : Times]
             t == [seq |-> seq, at |-> clock]
  <2>1. tasks \in Seq(T) /\ t \in T /\ t.at = clock /\ clock \in Times
    BY DEF Inv, TaskTypes
  <2>2. clock <= clock
    BY <2>1, Constants DEF Times
  <2> HIDE DEF T, t
  <2>3. /\ Append(tasks, t) \in Seq(T) /\ Len(tasks) \in Nat
        /\ Len(Append(tasks, t)) = Len(tasks) + 1
        /\ \A i \in 1 .. Len(tasks) : Append(tasks, t)[i] = tasks[i]
        /\ Append(tasks, t)[Len(tasks) + 1] = t
    BY <2>1, AppendFacts
  <2>4. tasks' = Append(tasks, t) /\ clock' = clock
    BY <1>3 DEF OnSrtpRtp, t
  <2>5. \A i \in 1 .. Len(tasks) : tasks[i].at <= clock
    BY DEF Inv, TaskTypes
  <2>6. \A i \in 1 .. Len(tasks') : tasks'[i].at <= clock'
    BY <2>1, <2>2, <2>3, <2>4, <2>5
  <2>7. TaskTypes'
    BY <2>3, <2>4, <2>6 DEF TaskTypes, T
  <2> QED
    BY <1>1, <1>3, <2>7 DEF OnSrtpRtp, Inv
<1>4. CASE TimePasses
  <2>1. clock \in Nat /\ clock' = clock + 1 /\ clock' \in Times
    BY <1>4, Constants DEF TimePasses, Inv, Times
  <2>2. TaskTypes'
    <3>1. tasks' = tasks /\ tasks \in Seq([seq : Seqs, at : Times])
      BY <1>4 DEF TimePasses, Inv, TaskTypes
    <3>2. \A i \in 1 .. Len(tasks) : tasks[i].at \in Times /\ tasks[i].at <= clock
      <4> DEFINE T == [seq : Seqs, at : Times]
      <4>1. tasks \in Seq(T)
        BY <3>1
      <4> SUFFICES ASSUME NEW i \in 1 .. Len(tasks)
                   PROVE  tasks[i].at \in Times /\ tasks[i].at <= clock
        OBVIOUS
      <4>2. tasks[i] \in T
        <5> HIDE DEF T
        <5> QED
          BY <4>1
      <4>3. tasks[i].at \in Times
        BY <4>2
      <4> QED
        BY <4>3 DEF Inv, TaskTypes
    <3>3. ASSUME NEW i \in 1 .. Len(tasks) PROVE tasks[i].at <= clock + 1
      <4>1. tasks[i].at \in Times /\ tasks[i].at <= clock
        BY <3>2
      <4> QED
        BY <2>1, <4>1, Constants DEF Times
    <3> QED
      BY <2>1, <3>1, <3>3 DEF TaskTypes
  <2>3. Remembered(nack_list, gaps, clock + 1)
    <3> SUFFICES ASSUME NEW n \in DOMAIN gaps, gaps[n].fate = "open"
                 PROVE  \/ n % Wrap \in DOMAIN nack_list
                        \/ (clock + 1) - gaps[n].missed > MaxNackAge
                        \/ Len(gaps[n].asked) = MaxNackRetries
      BY DEF Remembered
    <3>1. gaps[n].missed \in Int
      BY Constants DEF Inv, Agree, MarkTypes, Gaps, Times
    <3>2. clock - gaps[n].missed > MaxNackAge => (clock + 1) - gaps[n].missed > MaxNackAge
      BY <2>1, <3>1, Constants
    <3> QED
      BY <3>2 DEF Inv, Agree, Remembered
  <2>4. Agree(nack_list', gaps', first', last_seq_unwrap', clock')
    BY <1>4, <2>1, <2>3 DEF TimePasses, Inv, Agree
  <2> QED
    BY <1>4, <2>1, <2>2, <2>4 DEF TimePasses, Inv, Stream
<1>5. CASE DropTask
  <2>1. TaskTypes'
    BY <1>5, FirstTask DEF DropTask, Inv, TaskTypes
  <2> QED
    BY <1>1, <1>5, <2>1 DEF DropTask, Inv
<1>6. CASE ProcessIncomingSeqOnWorker
  <2> DEFINE seq == Head(tasks).seq
             now == Head(tasks).at
  <2>1. seq \in Seqs /\ now \in Times /\ now <= clock
    BY <1>6, FirstTask DEF ProcessIncomingSeqOnWorker, Inv
  <2>2. TaskTypes'
    BY <1>6, FirstTask DEF ProcessIncomingSeqOnWorker, Inv, TaskTypes
  <2>3. OnReceivedPacket(seq, now)
    BY <1>6 DEF ProcessIncomingSeqOnWorker
  <2> HIDE DEF seq, now
  <2>4. Kept
    BY <2>1, <2>3, StartKeeps, DuplicateKeeps, LateKeeps, AdvanceKeeps DEF OnReceivedPacket
  <2> QED
    BY <1>6, <2>2, <2>4 DEF ProcessIncomingSeqOnWorker, Kept, Inv
<1> QED
  BY <1>2, <1>3, <1>4, <1>5, <1>6 DEF NackNext

LEMMA PendInit == NackInit => PendInv
<1> SUFFICES ASSUME NackInit PROVE PendInv
  OBVIOUS
<1>1. DOMAIN nack_list = {} /\ DOMAIN gaps = {} /\ Len(tasks) = 0
  BY DEF NackInit
<1>2. Timely
  BY <1>1 DEF Timely, MissedBy
<1>3. Cardinality(DOMAIN nack_list) <= MaxPendingSeq
  <2>1. Cardinality(DOMAIN nack_list) = 0
    BY <1>1, FS_EmptySet
  <2> QED
    BY <2>1, NackAssumption
<1>4. Bounded(nack_list, gaps)
  BY <1>1, <1>3 DEF Bounded
<1> QED
  BY <1>2, <1>4, InvInit DEF PendInv

LEMMA MissedLater ==
  ASSUME NEW marks, MarkTypes(marks), NEW t \in Int, NEW v \in Int, t <= v, MissedBy(marks, t)
  PROVE  MissedBy(marks, v)
<1> SUFFICES ASSUME NEW n \in DOMAIN marks PROVE marks[n].missed <= v
  BY DEF MissedBy
<1>1. marks[n].missed \in Int
  BY Constants DEF MarkTypes, Gaps, Times
<1>2. marks[n].missed <= t
  BY DEF MissedBy
<1> QED
  BY <1>1, <1>2

\* The tasks, one by one.
LEMMA TaskTimes ==
  ASSUME TaskTypes
  PROVE  Len(tasks) \in Nat /\ \A i \in 1 .. Len(tasks) : tasks[i].at \in Int /\ tasks[i].at <= clock
<1> DEFINE T == [seq : Seqs, at : Times]
<1>1. tasks \in Seq(T)
  BY DEF TaskTypes
<1>2. \A x \in T : x.at \in Int
  BY Constants DEF Times
<1> HIDE DEF T
<1>3. Len(tasks) \in Nat /\ \A i \in 1 .. Len(tasks) : tasks[i] \in T
  BY <1>1
<1> QED
  BY <1>2, <1>3 DEF TaskTypes

LEMMA TailTimes ==
  ASSUME TaskTypes, tasks # <<>>
  PROVE  /\ Len(tasks) \in Nat \ {0} /\ Len(Tail(tasks)) = Len(tasks) - 1
         /\ Head(tasks) = tasks[1]
         /\ \A i \in 1 .. Len(tasks) - 1 : Tail(tasks)[i] = tasks[i + 1]
<1> DEFINE T == [seq : Seqs, at : Times]
<1>1. tasks \in Seq(T)
  BY DEF TaskTypes
<1> HIDE DEF T
<1> QED
  BY <1>1

LEMMA PendStep == PendInv /\ [NackNext]_nackVars => PendInv'
<1> SUFFICES ASSUME PendInv, [NackNext]_nackVars PROVE PendInv'
  OBVIOUS
<1>1. Inv /\ Inv' /\ TaskTypes /\ MarkTypes(gaps) /\ MarkTypes(gaps') /\ clock \in Int
  BY InvStep, Constants DEF PendInv, Inv, Agree, Times
<1>2. ASSUME UNCHANGED <<nack_list, gaps>>, Timely' PROVE PendInv'
  BY <1>1, <1>2 DEF PendInv, Bounded
<1>3. CASE SetDtls \/ UNCHANGED nackVars
  BY <1>2, <1>3 DEF PendInv, Timely, MissedBy, SetDtls, nackVars
<1>4. ASSUME NEW seq \in Seqs, OnSrtpRtp(seq) PROVE PendInv'
  <2> DEFINE T == [seq : Seqs, at : Times]
             t == [seq |-> seq, at |-> clock]
  <2>1. tasks \in Seq(T) /\ t \in T /\ t.at = clock
    BY <1>1 DEF Inv, TaskTypes
  <2>2. tasks' = Append(tasks, t) /\ UNCHANGED <<clock, nack_list, gaps>>
    BY <1>4 DEF OnSrtpRtp
  <2> HIDE DEF T, t
  <2>3. /\ Len(tasks) \in Nat /\ Len(tasks') = Len(tasks) + 1
        /\ \A i \in 1 .. Len(tasks) : tasks'[i] = tasks[i]
        /\ tasks'[Len(tasks) + 1] = t
    BY <2>1, <2>2, AppendFacts
  <2>4. \A i \in 1 .. Len(tasks') : i \in 1 .. Len(tasks) \/ i = Len(tasks) + 1
    BY <2>3
  <2>5. ASSUME NEW i \in 1 .. Len(tasks') PROVE MissedBy(gaps', tasks'[i].at)
    BY <2>1, <2>2, <2>3, <2>4 DEF PendInv, Timely
  <2>6. ASSUME NEW i \in 1 .. Len(tasks'), NEW j \in 1 .. Len(tasks'), i < j
        PROVE  tasks'[i].at <= tasks'[j].at
    <3>1. i \in 1 .. Len(tasks)
      BY <2>3, <2>6
    <3>2. CASE j \in 1 .. Len(tasks)
      BY <2>3, <2>6, <3>1, <3>2 DEF PendInv, Timely
    <3>3. CASE j = Len(tasks) + 1
      BY <1>1, <2>1, <2>3, <3>1, <3>3, TaskTimes
    <3> QED
      BY <2>4, <3>2, <3>3
  <2>7. MissedBy(gaps', clock')
    BY <2>2 DEF PendInv, Timely
  <2> QED
    BY <1>2, <2>2, <2>5, <2>6, <2>7 DEF Timely
<1>5. CASE TimePasses
  <2>1. clock' = clock + 1 /\ clock + 1 \in Int /\ clock <= clock + 1 /\ UNCHANGED <<tasks, nack_list, gaps>>
    BY <1>1, <1>5 DEF TimePasses
  <2>2. MissedBy(gaps, clock + 1)
    BY <1>1, <2>1, MissedLater DEF PendInv, Timely
  <2> QED
    BY <1>2, <2>1, <2>2 DEF PendInv, Timely
<1>6. ASSUME tasks # <<>>, tasks' = Tail(tasks)
      PROVE  /\ \A i \in 1 .. Len(tasks') : i + 1 \in 1 .. Len(tasks) /\ tasks'[i] = tasks[i + 1]
             /\ \A i, j \in 1 .. Len(tasks') : i < j => tasks'[i].at <= tasks'[j].at
             /\ Head(tasks) = tasks[1] /\ 1 \in 1 .. Len(tasks)
             /\ \A i \in 1 .. Len(tasks') : tasks[1].at <= tasks'[i].at
  <2>1. /\ Len(tasks) \in Nat \ {0} /\ Len(tasks') = Len(tasks) - 1 /\ Head(tasks) = tasks[1]
        /\ \A i \in 1 .. Len(tasks) - 1 : tasks'[i] = tasks[i + 1]
    BY <1>1, <1>6, TailTimes
  <2>2. \A i \in 1 .. Len(tasks') : i \in Int /\ i + 1 \in 1 .. Len(tasks) /\ 1 < i + 1
    BY <2>1
  <2>3. \A i \in 1 .. Len(tasks') : tasks'[i] = tasks[i + 1]
    BY <2>1
  <2>4. 1 \in 1 .. Len(tasks)
    BY <2>1
  <2>5. \A i, j \in 1 .. Len(tasks) : i < j => tasks[i].at <= tasks[j].at
    BY DEF PendInv, Timely
  <2>6. ASSUME NEW i \in 1 .. Len(tasks'), NEW j \in 1 .. Len(tasks'), i < j
        PROVE  tasks'[i].at <= tasks'[j].at
    <3>1. i + 1 < j + 1
      BY <2>2, <2>6
    <3> QED
      BY <2>2, <2>3, <2>5, <3>1
  <2> QED
    BY <2>1, <2>2, <2>3, <2>4, <2>5, <2>6
<1>7. CASE DropTask
  <2>1. tasks # <<>> /\ tasks' = Tail(tasks) /\ UNCHANGED <<clock, nack_list, gaps>>
    BY <1>7 DEF DropTask
  <2>2. \A i \in 1 .. Len(tasks') : MissedBy(gaps, tasks'[i].at)
    BY <1>6, <2>1 DEF PendInv, Timely
  <2>3. Timely'
    BY <1>6, <2>1, <2>2 DEF PendInv, Timely
  <2> QED
    BY <1>2, <2>1, <2>3
<1>8. CASE ProcessIncomingSeqOnWorker
  <2> DEFINE seq == Head(tasks).seq
             now == Head(tasks).at
  <2>1. tasks # <<>> /\ tasks' = Tail(tasks) /\ clock' = clock /\ OnReceivedPacket(seq, now)
    BY <1>8 DEF ProcessIncomingSeqOnWorker
  <2>2. seq \in Seqs /\ now \in Times /\ now <= clock /\ now \in Int
    BY <1>1, <2>1, FirstTask, Constants DEF Times
  <2>3. MissedBy(gaps, now)
    BY <1>6, <2>1 DEF PendInv, Timely
  <2>4. \A i \in 1 .. Len(tasks') : tasks'[i].at \in Int /\ now <= tasks'[i].at
    BY <1>1, <1>6, <2>1, TaskTimes
  <2> HIDE DEF seq, now
  <2>5. KeptBound(now)
    BY <1>1, <2>1, <2>2, <2>3, StartBounded, LateBounded, AdvanceKeeps DEF OnReceivedPacket, PendInv
  <2>6. MissedBy(gaps', clock)
    BY <1>1, <2>2, <2>5, MissedLater DEF KeptBound
  <2>7. ASSUME NEW i \in 1 .. Len(tasks') PROVE MissedBy(gaps', tasks'[i].at)
    BY <1>1, <2>2, <2>4, <2>5, MissedLater DEF KeptBound
  <2>8. Timely'
    BY <1>6, <2>1, <2>6, <2>7 DEF Timely
  <2> QED
    BY <1>1, <2>5, <2>8 DEF PendInv, KeptBound
<1> QED
  BY <1>3, <1>4, <1>5, <1>7, <1>8 DEF NackNext

-----------------------------------------------------------------------------
(* The theorems                                                            *)

\* The list of missing packets and the history of the stream agree.
THEOREM Invariance == NackSpec => []Inv
BY InvInit, InvStep, PTL DEF NackSpec

\* Every variable of NackGenerator keeps its type.
THEOREM TypesHold == NackSpec => []NackTypeOK
<1>1. Inv => NackTypeOK
  BY DEF Inv, TaskTypes, Stream, Agree, ListTypes, MarkTypes, NackTypeOK
<1> QED
  BY <1>1, Invariance, PTL

\* The list never names a packet that has come (OnReceivedPacket), in whatever
\* order packets come, around the wrap and over a restart of the stream.
THEOREM OnlyMissing == NackSpec => []ListedIsMissing
<1>1. Inv => ListedIsMissing
  <2> SUFFICES ASSUME Inv, NEW s \in DOMAIN nack_list
               PROVE  \E n \in DOMAIN gaps :
                        /\ n % Wrap = s /\ gaps[n].fate = "open" /\ n < last_seq_unwrap
                        /\ nack_list[s].missed = gaps[n].missed
                        /\ nack_list[s].count = Len(gaps[n].asked)
    BY DEF ListedIsMissing
  <2>1. PICK n \in DOMAIN gaps : n % Wrap = s /\ Match(nack_list[s], gaps[n])
    BY DEF Inv, Agree, Linked
  <2>2. n < last_seq_unwrap
    BY DEF Inv, Agree, InWindow
  <2> QED
    BY <2>1, <2>2 DEF Match
<1> QED
  BY <1>1, Invariance, PTL

\* A missing packet is on the list until it is given up or pushed out, however
\* late the worker gets to its task (GetNackBatch).
THEOREM NoneForgotten == NackSpec => []NothingForgotten
<1>1. Inv => NothingForgotten
  BY DEF Inv, Agree, Remembered, NothingForgotten
<1> QED
  BY <1>1, Invariance, PTL

\* Each packet is asked for at most kMaxNackRetries times, not after
\* kMaxNackAgeMs and not before its cooldown is over (GetNackBatch).
THEOREM LimitsKept == NackSpec => []AskedWithinLimits
<1>1. Inv => AskedWithinLimits
  BY DEF Inv, Agree, Within, AskedWithinLimits
<1> QED
  BY <1>1, Invariance, PTL

\* The pending list never holds more than kMaxPendingSeq numbers, and TrimBySize
\* gives up only packets that were missed no later than those it keeps.
THEOREM ListIsBounded == NackSpec => []PendingBounded
<1>1. PendInv => PendingBounded
  BY DEF PendInv, Bounded, PendingBounded
<1> QED
  BY <1>1, PendInit, PendStep, PTL DEF NackSpec
=============================================================================
