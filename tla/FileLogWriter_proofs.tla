------------------------ MODULE FileLogWriter_proofs ------------------------
(***************************************************************************)
(* Proofs about FileLogWriter, for any threads, messages, settings and     *)
(* bounds.                                                                 *)
(***************************************************************************)
EXTENDS FileLogWriter, TLAPS

FlagsType == [enabled : BOOLEAN, echo : BOOLEAN, cap : Nat]

\* TypeOK, in four parts.
ThreadTypes ==
  /\ thread \in [Threads -> {"idle", "tested", "notify"}]
  /\ shutdown \in BOOLEAN
  /\ worker \in {"ready", "asleep", "busy", "exited"}

QueueTypes ==
  /\ queue \in Seq(Messages) /\ batch \in Seq(Messages)
  /\ next \in 1 .. MaxMessages + 1
  /\ dropped \subseteq 1 .. MaxMessages

CfgTypes ==
  /\ flags \in FlagsType /\ unset \subseteq Flags
  /\ cfg \in FlagsType /\ configured \in BOOLEAN

FileTypes ==
  /\ key \in Days \cup {NoFile} /\ part \in Nat \ {0} /\ lines \in Nat
  /\ file \in Files \cup {NoFile} /\ disk \subseteq Files
  /\ day \in Days
  /\ output \in Seq(Outputs)

Types == ThreadTypes /\ QueueTypes /\ CfgTypes /\ FileTypes

\* The queue holds the latest messages, one after the other: overflow takes from
\* its front and the writer takes it all.
QueueIsLatest == \A i \in 1 .. Len(queue) : queue[i].id = next - 1 - Len(queue) + i

\* The batch, and what has been written, are older and in order.
Ordered(q)   == \A i, j \in 1 .. Len(q) : i < j => q[i].id < q[j].id
Before(p, q) == \A i \in 1 .. Len(p), j \in 1 .. Len(q) : p[i].id < q[j].id
Below(q, n)  == \A i \in 1 .. Len(q) : q[i].id < n

Order ==
  /\ Ordered(output) /\ Ordered(batch) /\ Before(output, batch)
  /\ Below(output, next - Len(queue)) /\ Below(batch, next - Len(queue))

\* The writer has a batch exactly when it is busy.
Working == worker = "busy" <=> batch # <<>>

Inv == Types /\ QueueIsLatest /\ Order /\ Working

-----------------------------------------------------------------------------
(* Facts about sequences                                                   *)

LEMMA Empty ==
  ASSUME NEW Q, NEW q \in Seq(Q)
  PROVE  Len(q) \in Nat /\ (q = <<>> <=> Len(q) = 0)
OBVIOUS

LEMMA TailFacts ==
  ASSUME NEW Q, NEW q \in Seq(Q), q # <<>>
  PROVE  /\ Tail(q) \in Seq(Q) /\ Len(q) \in Nat \ {0} /\ Len(Tail(q)) = Len(q) - 1
         /\ \A i \in 1 .. Len(q) - 1 : Tail(q)[i] = q[i + 1]
         /\ Head(q) = q[1] /\ Head(q) \in Q
         /\ (Tail(q) = <<>> <=> Len(q) = 1)
<1>1. Tail(q) \in Seq(Q) /\ Len(q) \in Nat \ {0} /\ Len(Tail(q)) = Len(q) - 1
  OBVIOUS
<1>2. \A i \in 1 .. Len(q) - 1 : Tail(q)[i] = q[i + 1]
  OBVIOUS
<1>3. Head(q) = q[1] /\ Head(q) \in Q
  OBVIOUS
<1>4. Tail(q) = <<>> <=> Len(Tail(q)) = 0
  BY <1>1, Empty
<1> QED
  BY <1>1, <1>2, <1>3, <1>4

LEMMA AppendFacts ==
  ASSUME NEW Q, NEW q \in Seq(Q), NEW x \in Q
  PROVE  /\ Append(q, x) \in Seq(Q) /\ Len(q) \in Nat /\ Len(Append(q, x)) = Len(q) + 1
         /\ \A i \in 1 .. Len(q) : Append(q, x)[i] = q[i]
         /\ Append(q, x)[Len(q) + 1] = x
         /\ Append(q, x) # <<>>
OBVIOUS

LEMMA SuffixFacts ==
  ASSUME NEW Q, NEW q \in Seq(Q), NEW n \in 0 .. Len(q)
  PROVE  /\ SubSeq(q, n + 1, Len(q)) \in Seq(Q)
         /\ Len(SubSeq(q, n + 1, Len(q))) = Len(q) - n
         /\ \A i \in 1 .. Len(q) - n : SubSeq(q, n + 1, Len(q))[i] = q[i + n]
OBVIOUS

\* Ordered sequences one after the other are ordered.
LEMMA ConcatIncreasing ==
  ASSUME NEW p \in Seq(Nat), NEW q \in Seq(Nat),
         \A i, j \in 1 .. Len(p) : i < j => p[i] < p[j],
         \A i, j \in 1 .. Len(q) : i < j => q[i] < q[j],
         \A i \in 1 .. Len(p), j \in 1 .. Len(q) : p[i] < q[j]
  PROVE  /\ p \o q \in Seq(Nat) /\ Len(p \o q) = Len(p) + Len(q)
         /\ \A i \in 1 .. Len(p) : (p \o q)[i] = p[i]
         /\ \A i \in 1 .. Len(q) : (p \o q)[Len(p) + i] = q[i]
         /\ \A i, j \in 1 .. Len(p \o q) : i < j => (p \o q)[i] < (p \o q)[j]
<1>1. /\ p \o q \in Seq(Nat) /\ Len(p) \in Nat /\ Len(q) \in Nat /\ Len(p \o q) = Len(p) + Len(q)
  OBVIOUS
<1>2. \A i \in 1 .. Len(p) + Len(q) : (p \o q)[i] = IF i <= Len(p) THEN p[i] ELSE q[i - Len(p)]
  OBVIOUS
<1>3. ASSUME NEW i \in 1 .. Len(p) + Len(q), NEW j \in 1 .. Len(p) + Len(q), i < j
      PROVE  (p \o q)[i] < (p \o q)[j]
  <2>1. CASE j <= Len(p)
    BY <1>1, <1>2, <1>3, <2>1
  <2>2. CASE i <= Len(p) /\ j > Len(p)
    <3>1. j - Len(p) \in 1 .. Len(q)
      BY <1>1, <2>2
    <3> QED
      BY <1>1, <1>2, <2>2, <3>1
  <2>3. CASE i > Len(p)
    <3>1. i - Len(p) \in 1 .. Len(q) /\ j - Len(p) \in 1 .. Len(q) /\ i - Len(p) < j - Len(p)
      BY <1>1, <1>3, <2>3
    <3>2. (p \o q)[i] = q[i - Len(p)] /\ (p \o q)[j] = q[j - Len(p)]
      BY <1>1, <1>2, <1>3, <2>3
    <3> QED
      BY <3>1, <3>2
  <2> QED
    BY <1>1, <1>3, <2>1, <2>2, <2>3
<1>4. /\ \A i \in 1 .. Len(p) : (p \o q)[i] = p[i]
      /\ \A i \in 1 .. Len(q) : (p \o q)[Len(p) + i] = q[i]
  BY <1>1, <1>2
<1> QED
  BY <1>1, <1>3, <1>4

-----------------------------------------------------------------------------
(* The invariant                                                           *)

\* A key has no date, so every message starts the day's first part.
LEMMA AlwaysRotates == Types => MaybeRotateByDate
BY NotAFile DEF Types, FileTypes, MaybeRotateByDate, SegmentDate, KeyLength

LEMMA SettingTypes == Configs \cup {Default} \subseteq FlagsType
<1>1. Default \in FlagsType
  BY Assumption DEF Default, FlagsType
<1>2. Configs \subseteq FlagsType
  BY Assumption DEF FlagsType
<1> QED
  BY <1>1, <1>2

LEMMA IdTypes ==
  ASSUME Types
  PROVE  /\ \A i \in 1 .. Len(queue)  : queue[i].id \in 1 .. MaxMessages
         /\ \A i \in 1 .. Len(batch)  : batch[i].id \in 1 .. MaxMessages
         /\ \A i \in 1 .. Len(output) : output[i].id \in 1 .. MaxMessages
<1>1. queue \in Seq(Messages) /\ batch \in Seq(Messages) /\ output \in Seq(Outputs)
  BY DEF Types, QueueTypes, FileTypes
<1>2. /\ \A i \in 1 .. Len(queue)  : queue[i] \in Messages
      /\ \A i \in 1 .. Len(batch)  : batch[i] \in Messages
      /\ \A i \in 1 .. Len(output) : output[i] \in Outputs
  BY <1>1
<1> QED
  BY <1>2 DEF Messages, Outputs

LEMMA InvInit == Init => Inv
<1> SUFFICES ASSUME Init PROVE Inv
  OBVIOUS
<1>1. Types
  <2>1. ThreadTypes
    BY DEF Init, ThreadTypes
  <2>2. QueueTypes
    BY Assumption DEF Init, QueueTypes
  <2>3. CfgTypes
    BY SettingTypes DEF Init, CfgTypes
  <2>4. FileTypes
    BY Assumption DEF Init, FileTypes, Days
  <2> QED
    BY <2>1, <2>2, <2>3, <2>4 DEF Types
<1>2. QueueIsLatest /\ Order /\ Working
  BY DEF Init, QueueIsLatest, Order, Working, Ordered, Before, Below
<1> QED
  BY <1>1, <1>2 DEF Inv

LEMMA Queues ==
  ASSUME Inv, NEW t \in Threads, NEW n \in Lengths, WriteQueue(t, n)
  PROVE  /\ Inv'
         /\ \A d \in dropped' \ dropped : flags.cap > 0 /\ d + flags.cap < next'
<1> DEFINE over == Overflow(flags.cap)
           m    == [id |-> next, lines |-> n]
           kept == SubSeq(queue, over + 1, Len(queue))
<1>1. /\ queue \in Seq(Messages) /\ Len(queue) \in Nat
      /\ next \in 1 .. MaxMessages /\ flags.cap \in Nat /\ MaxMessages \in Nat
      /\ queue' = Append(kept, m) /\ next' = next + 1
      /\ dropped' = dropped \cup {queue[i].id : i \in 1 .. over}
  <2>1. queue \in Seq(Messages) /\ next \in 1 .. MaxMessages + 1 /\ flags \in FlagsType
    BY DEF Inv, Types, QueueTypes, CfgTypes
  <2> QED
    BY <2>1, Assumption DEF WriteQueue, FlagsType
<1>2. /\ over \in 0 .. Len(queue)
      /\ over > 0 => flags.cap > 0 /\ over = Len(queue) + 1 - flags.cap
  <2> DEFINE c == flags.cap
             l == Len(queue)
  <2>1. c \in Nat /\ l \in Nat
    BY <1>1
  <2>2. over = IF c > 0 /\ l >= c THEN l + 1 - c ELSE 0
    BY DEF Overflow
  <2> HIDE DEF c, l, over
  <2>3. over \in 0 .. l /\ (over > 0 => c > 0 /\ over = l + 1 - c)
    BY <2>1, <2>2
  <2> QED
    BY <2>3 DEF c, l
<1> HIDE DEF over
<1>3. /\ kept \in Seq(Messages) /\ Len(kept) = Len(queue) - over
      /\ \A i \in 1 .. Len(queue) - over : kept[i] = queue[i + over]
  BY <1>1, <1>2, SuffixFacts
<1> HIDE DEF kept
<1>4. m \in Messages
  BY <1>1 DEF Messages
<1>5. /\ queue' \in Seq(Messages) /\ Len(queue') = Len(queue) - over + 1 /\ queue' # <<>>
      /\ \A i \in 1 .. Len(queue) - over : queue'[i] = queue[i + over]
      /\ queue'[Len(queue) - over + 1] = m
  BY <1>1, <1>3, <1>4, AppendFacts
<1>6. ASSUME NEW i \in 1 .. over
      PROVE  queue[i].id \in 1 .. MaxMessages /\ queue[i].id = next - 1 - Len(queue) + i
  <2>1. i \in 1 .. Len(queue)
    BY <1>1, <1>2
  <2> QED
    BY <2>1, IdTypes DEF Inv, QueueIsLatest
<1>7. Types'
  <2>1. ThreadTypes'
    BY DEF Inv, Types, ThreadTypes, WriteQueue
  <2>2. QueueTypes'
    <3>1. UNCHANGED batch /\ batch \in Seq(Messages) /\ dropped \subseteq 1 .. MaxMessages
      BY DEF Inv, Types, QueueTypes, WriteQueue
    <3>2. {queue[i].id : i \in 1 .. over} \subseteq 1 .. MaxMessages
      BY <1>6
    <3>3. next' \in 1 .. MaxMessages + 1
      BY <1>1
    <3> QED
      BY <1>1, <1>5, <3>1, <3>2, <3>3 DEF QueueTypes
  <2>3. CfgTypes'
    BY DEF Inv, Types, CfgTypes, WriteQueue, cfgVars
  <2>4. FileTypes'
    BY DEF Inv, Types, FileTypes, WriteQueue, fileVars
  <2> QED
    BY <2>1, <2>2, <2>3, <2>4 DEF Types
<1>8. QueueIsLatest'
  <2> SUFFICES ASSUME NEW i \in 1 .. Len(queue')
               PROVE  queue'[i].id = next' - 1 - Len(queue') + i
    BY DEF QueueIsLatest
  <2>1. CASE i <= Len(queue) - over
    <3> HIDE DEF m
    <3>0. /\ over \in Nat /\ Len(queue) \in Nat /\ Len(queue') = Len(queue) - over + 1
          /\ i \in Nat \ {0} /\ i <= Len(queue) - over
      BY <1>1, <1>2, <1>5, <2>1
    <3>a. i \in 1 .. Len(queue) - over
      BY <3>0
    <3>b. queue'[i] = queue[i + over]
      BY <1>5, <3>a
    <3>c. i + over \in 1 .. Len(queue)
      BY <3>0
    <3>1. i + over \in 1 .. Len(queue) /\ queue'[i] = queue[i + over]
      BY <3>b, <3>c
    <3>2. queue[i + over].id = next - 1 - Len(queue) + (i + over)
      BY <3>1 DEF Inv, QueueIsLatest
    <3>3. queue'[i].id = next - 1 - Len(queue) + (i + over)
      BY <3>1, <3>2
    <3>4. over \in Int /\ i \in Int /\ next \in Int /\ Len(queue) \in Int
      BY <1>1, <1>2
    <3>5. Len(queue') = Len(queue) - over + 1 /\ next' = next + 1
      BY <1>1, <1>5
    <3> QED
      BY <3>3, <3>4, <3>5
  <2>2. CASE i = Len(queue) - over + 1
    <3>1. queue'[i].id = next
      BY <1>5, <2>2
    <3>2. Len(queue') = i /\ next' = next + 1 /\ next \in Int /\ i \in Int
      BY <1>1, <1>2, <1>5, <2>2
    <3>3. next' - 1 - Len(queue') + i = next
      BY <3>2
    <3> QED
      BY <3>1, <3>3
  <2>3. i <= Len(queue) - over \/ i = Len(queue) - over + 1
    <3>1. Len(queue) \in Nat /\ over \in Nat /\ over <= Len(queue) /\ i \in 1 .. Len(queue) - over + 1
      BY <1>1, <1>2, <1>5
    <3> QED
      BY <3>1
  <2> QED
    BY <2>1, <2>2, <2>3
<1>9. Order'
  <2>1. UNCHANGED <<output, batch>>
    BY DEF WriteQueue, fileVars
  <2>2. next' - Len(queue') = next - Len(queue) + over
    <3>1. over \in Nat /\ Len(queue) \in Nat /\ next \in Nat
      BY <1>1, <1>2
    <3>2. Len(queue') = Len(queue) - over + 1 /\ next' = next + 1
      BY <1>1, <1>5
    <3> HIDE DEF m
    <3> QED
      BY <3>1, <3>2
  <2>3. /\ \A i \in 1 .. Len(output) : output[i].id \in Nat
        /\ \A i \in 1 .. Len(batch) : batch[i].id \in Nat
    BY IdTypes DEF Inv
  <2>4. Below(output, next' - Len(queue')) /\ Below(batch, next' - Len(queue'))
    <3>1. next - Len(queue) <= next' - Len(queue') /\ next - Len(queue) \in Int /\ next' - Len(queue') \in Int
      BY <1>1, <1>2, <2>2
    <3>2. /\ \A i \in 1 .. Len(output) : output[i].id < next - Len(queue)
          /\ \A i \in 1 .. Len(batch) : batch[i].id < next - Len(queue)
      BY DEF Inv, Order, Below
    <3> HIDE DEF Inv
    <3> QED
      BY <2>3, <3>1, <3>2 DEF Below
  <2> QED
    BY <2>1, <2>4 DEF Inv, Order, Ordered, Before, Below
<1>10. Working'
  BY DEF Inv, Working, WriteQueue
<1>11. ASSUME NEW d \in dropped' \ dropped PROVE flags.cap > 0 /\ d + flags.cap < next'
  <2>1. PICK i \in 1 .. over : d = queue[i].id
    BY <1>1
  <2>2. over \in Nat /\ Len(queue) \in Nat /\ next \in Nat /\ flags.cap \in Nat /\ i \in 1 .. over
    BY <1>1, <1>2
  <2>3. d = next - 1 - Len(queue) + i
    BY <1>6, <2>1
  <2>4. next' = next + 1
    BY <1>1
  <2>5. flags.cap > 0 /\ over = Len(queue) + 1 - flags.cap
    BY <1>2, <2>2
  <2> HIDE DEF m
  <2> QED
    BY <2>2, <2>3, <2>4, <2>5
<1> QED
  BY <1>7, <1>8, <1>9, <1>10, <1>11 DEF Inv

LEMMA Takes == Inv /\ Take => Inv'
<1> SUFFICES ASSUME Inv, Take PROVE Inv'
  OBVIOUS
<1>1. Types'
  <2>1. ThreadTypes'
    BY DEF Inv, Types, ThreadTypes, Take
  <2>2. QueueTypes'
    <3>1. /\ queue \in Seq(Messages) /\ batch \in Seq(Messages) /\ <<>> \in Seq(Messages)
          /\ next \in 1 .. MaxMessages + 1 /\ dropped \subseteq 1 .. MaxMessages
      BY DEF Inv, Types, QueueTypes
    <3>2. /\ UNCHANGED <<next, dropped>>
          /\ queue' \in {queue, <<>>} /\ batch' \in {queue, batch}
      BY DEF Take
    <3> QED
      BY <3>1, <3>2 DEF QueueTypes
  <2>3. CfgTypes'
    BY DEF Inv, Types, CfgTypes, Take, cfgVars
  <2>4. FileTypes'
    BY DEF Inv, Types, FileTypes, Take, fileVars
  <2> QED
    BY <2>1, <2>2, <2>3, <2>4 DEF Types
<1>2. /\ queue \in Seq(Messages) /\ Len(queue) \in Nat /\ next \in Nat
      /\ \A i \in 1 .. Len(output) : output[i].id \in Nat
      /\ batch = <<>> /\ UNCHANGED <<output, next>>
  <2>1. queue \in Seq(Messages) /\ next \in Nat
    BY DEF Inv, Types, QueueTypes
  <2>2. \A i \in 1 .. Len(output) : output[i].id \in Nat
    BY IdTypes DEF Inv
  <2> QED
    BY <2>1, <2>2 DEF Inv, Working, Take, fileVars
<1>3. CASE queue # <<>> /\ batch' = queue /\ queue' = <<>>
  <2>1. \A i \in 1 .. Len(queue) : queue[i].id = next - 1 - Len(queue) + i
    BY DEF Inv, QueueIsLatest
  <2>2. Ordered(queue) /\ Before(output, queue) /\ Below(queue, next) /\ Below(output, next)
    BY <1>2, <2>1 DEF Inv, Order, Ordered, Before, Below
  <2>3. Order' /\ QueueIsLatest'
    BY <1>2, <1>3, <2>2 DEF Inv, Order, Ordered, Before, Below, QueueIsLatest
  <2> QED
    BY <1>1, <1>3, <2>3 DEF Inv, Working, Take
<1>4. CASE queue = <<>> /\ UNCHANGED <<queue, batch>>
  <2>1. Order' /\ QueueIsLatest'
    BY <1>2, <1>4 DEF Inv, Order, Ordered, Before, Below, QueueIsLatest
  <2> QED
    BY <1>1, <1>4, <2>1 DEF Inv, Working, Take
<1> QED
  BY <1>3, <1>4 DEF Take

\* The first message of the batch becomes the last that is written.
LEMMA Writes ==
  ASSUME Inv, worker = "busy", NEW r \in Outputs, r.id = Head(batch).id,
         output' = Append(output, r), Finish, UNCHANGED <<queue, next>>
  PROVE  /\ output' \in Seq(Outputs) /\ batch' \in Seq(Messages) /\ worker' \in {"ready", "busy"}
         /\ Order' /\ QueueIsLatest' /\ Working'
<1>1. /\ output \in Seq(Outputs) /\ batch \in Seq(Messages) /\ batch # <<>>
      /\ batch' = Tail(batch) /\ worker' = IF Len(batch) = 1 THEN "ready" ELSE "busy"
  BY DEF Inv, Types, QueueTypes, FileTypes, Working, Finish
<1>2. /\ output' \in Seq(Outputs) /\ Len(output) \in Nat /\ Len(output') = Len(output) + 1
      /\ \A i \in 1 .. Len(output) : output'[i] = output[i]
      /\ output'[Len(output) + 1] = r
  BY <1>1, AppendFacts
<1>3. /\ batch' \in Seq(Messages) /\ Len(batch) \in Nat \ {0} /\ Len(batch') = Len(batch) - 1
      /\ \A i \in 1 .. Len(batch) - 1 : batch'[i] = batch[i + 1]
      /\ r.id = batch[1].id
      /\ (batch' = <<>> <=> Len(batch) = 1)
  BY <1>1, TailFacts
<1>4. Ordered(output')
  <2> SUFFICES ASSUME NEW i \in 1 .. Len(output) + 1, NEW j \in 1 .. Len(output) + 1, i < j
               PROVE  output'[i].id < output'[j].id
    BY <1>2 DEF Ordered
  <2>1. i \in 1 .. Len(output) /\ output'[i] = output[i]
    BY <1>2
  <2>2. CASE j \in 1 .. Len(output)
    BY <1>2, <2>1, <2>2 DEF Inv, Order, Ordered
  <2>3. CASE j = Len(output) + 1
    <3>1. 1 \in 1 .. Len(batch)
      BY <1>3
    <3> QED
      BY <1>2, <1>3, <2>1, <2>3, <3>1 DEF Inv, Order, Before
  <2> QED
    BY <1>2, <2>2, <2>3
<1>5. Ordered(batch')
  <2> SUFFICES ASSUME NEW i \in 1 .. Len(batch) - 1, NEW j \in 1 .. Len(batch) - 1, i < j
               PROVE  batch'[i].id < batch'[j].id
    BY <1>3 DEF Ordered
  <2>1. i + 1 \in 1 .. Len(batch) /\ j + 1 \in 1 .. Len(batch) /\ i + 1 < j + 1
    BY <1>3
  <2>2. batch[i + 1].id < batch[j + 1].id
    BY <2>1 DEF Inv, Order, Ordered
  <2> QED
    BY <1>3, <2>2
<1>6. Before(output', batch')
  <2> SUFFICES ASSUME NEW i \in 1 .. Len(output'), NEW j \in 1 .. Len(batch')
               PROVE  output'[i].id < batch'[j].id
    BY DEF Before
  <2>1. j + 1 \in 1 .. Len(batch) /\ batch'[j] = batch[j + 1] /\ 1 \in 1 .. Len(batch) /\ 1 < j + 1
    BY <1>3
  <2>2. batch[1].id < batch[j + 1].id
    BY <2>1 DEF Inv, Order, Ordered
  <2>3. CASE i = Len(output) + 1
    BY <1>2, <1>3, <2>1, <2>2, <2>3
  <2>4. CASE i \in 1 .. Len(output)
    BY <1>2, <2>1, <2>4 DEF Inv, Order, Before
  <2> QED
    BY <1>2, <2>3, <2>4
<1>7. Below(output', next - Len(queue))
  <2>1. batch[1].id < next - Len(queue)
    BY <1>3 DEF Inv, Order, Below
  <2> QED
    BY <1>2, <1>3, <2>1 DEF Inv, Order, Below
<1>8. Below(batch', next - Len(queue))
  BY <1>3 DEF Inv, Order, Below
<1>9. Order' /\ QueueIsLatest'
  BY <1>4, <1>5, <1>6, <1>7, <1>8 DEF Order, Inv, QueueIsLatest
<1>10. Working'
  BY <1>1, <1>3 DEF Inv, Working
<1> QED
  BY <1>1, <1>2, <1>3, <1>9, <1>10

\* The file that is chosen is of the day, and the writer's settings of it keep
\* their types.
LEMMA FileOfTheDay ==
  ASSUME Inv, NEW m \in Messages, NEW f \in FilesFor
  PROVE  /\ f \in Files \cup {NoFile} /\ (f # NoFile => f.day = day)
         /\ WriteToFile(m, f) => /\ key' \in Days \cup {NoFile} /\ part' \in Nat \ {0} /\ lines' \in Nat
                                 /\ file' \in Files \cup {NoFile} /\ disk' \subseteq Files
<1>1. /\ MaybeRotateByDate /\ day \in Days /\ key \in Days \cup {NoFile}
      /\ part \in Nat \ {0} /\ lines \in Nat /\ disk \subseteq Files
  BY AlwaysRotates DEF Inv, Types, FileTypes
<1>2. NextPart \in Nat \ {0}
  BY <1>1 DEF NextPart
<1>3. f = NoFile \/ f = [day |-> day, part |-> NextPart]
  BY <1>1 DEF FilesFor
<1>4. f \in Files \cup {NoFile} /\ (f # NoFile => f \in Files /\ f.day = day)
  BY <1>1, <1>2, <1>3 DEF Files
<1>5. Purged \subseteq Files
  BY <1>1 DEF Purged, Kept
<1>6. m.lines \in Nat
  BY Assumption DEF Messages
<1>7. ASSUME WriteToFile(m, f)
      PROVE  /\ key' \in Days \cup {NoFile} /\ part' \in Nat \ {0} /\ lines' \in Nat
             /\ file' \in Files \cup {NoFile} /\ disk' \subseteq Files
  <2> DEFINE full    == (IF f = file /\ ~MaybeRotateByDate THEN lines ELSE 0) + m.lines
             rotated == [f EXCEPT !.part = NextPart + 1]
  <2>1. full \in Nat
    BY <1>1, <1>6
  <2>2. f # NoFile => rotated \in Files
    BY <1>2, <1>4 DEF Files
  <2>3. key' \in Days \cup {NoFile}
    BY <1>1, <1>7 DEF WriteToFile
  <2>4. \/ f = NoFile /\ file' = NoFile /\ part' = NextPart /\ disk' = Purged /\ lines' = lines
        \/ f # NoFile /\ file' = f /\ part' = NextPart /\ disk' = Purged \cup {f} /\ lines' = full
        \/ f # NoFile /\ part' = NextPart + 1 /\ file' = rotated /\ disk' = Purged \cup {f, rotated} /\ lines' = 0
        \/ f # NoFile /\ part' = NextPart + 1 /\ file' = NoFile /\ disk' = Purged \cup {f} /\ lines' = full
    BY <1>7 DEF WriteToFile
  <2> HIDE DEF full, rotated
  <2> QED
    BY <1>1, <1>2, <1>4, <1>5, <2>1, <2>2, <2>3, <2>4
<1> QED
  BY <1>4, <1>7

\* One message is written, to a file of today or to none.
LEMMA Payloads ==
  ASSUME Inv, WritePayload \/ EchoPayload
  PROVE  /\ Inv'
         /\ \E r \in Outputs :
              /\ output' = Append(output, r) /\ r.id = Head(batch).id
              /\ r.file # NoFile => r.file.day = r.day
<1> DEFINE m == Head(batch)
<1>1. /\ worker = "busy" /\ batch \in Seq(Messages) /\ batch # <<>> /\ m \in Messages
      /\ day \in Days
  <2>1. worker = "busy" /\ batch \in Seq(Messages) /\ batch # <<>> /\ day \in Days
    BY DEF Inv, Types, QueueTypes, FileTypes, Working, WritePayload, EchoPayload
  <2> QED
    BY <2>1, TailFacts
<1>2. /\ Finish /\ UNCHANGED <<queue, next, dropped, thread, shutdown, day>>
      /\ UNCHANGED <<flags, unset, cfg, configured>>
  BY DEF WritePayload, EchoPayload, queueVars, cfgVars
<1>3. PICK f \in Files \cup {NoFile} :
        /\ output' = Append(output, [id |-> m.id, lines |-> m.lines, day |-> day, file |-> f])
        /\ f # NoFile => f.day = day
        /\ key' \in Days \cup {NoFile} /\ part' \in Nat \ {0} /\ lines' \in Nat
        /\ file' \in Files \cup {NoFile} /\ disk' \subseteq Files
  <2>1. ASSUME NEW f \in FilesFor, WriteToFile(m, f)
        PROVE  /\ f \in Files \cup {NoFile} /\ (f # NoFile => f.day = day)
               /\ key' \in Days \cup {NoFile} /\ part' \in Nat \ {0} /\ lines' \in Nat
               /\ file' \in Files \cup {NoFile} /\ disk' \subseteq Files
    BY <1>1, <2>1, FileOfTheDay
  <2>2. UNCHANGED <<key, part, lines, file, disk>> =>
          /\ key' \in Days \cup {NoFile} /\ part' \in Nat \ {0} /\ lines' \in Nat
          /\ file' \in Files \cup {NoFile} /\ disk' \subseteq Files
    BY DEF Inv, Types, FileTypes
  <2>3. CASE EchoPayload
    BY <2>2, <2>3 DEF EchoPayload
  <2>4. CASE WritePayload /\ cfg.enabled
    BY <2>1, <2>4 DEF WritePayload
  <2>5. CASE WritePayload /\ ~cfg.enabled
    BY <2>2, <2>5 DEF WritePayload
  <2> QED
    BY <2>3, <2>4, <2>5
<1> DEFINE r == [id |-> m.id, lines |-> m.lines, day |-> day, file |-> f]
<1>4. r \in Outputs /\ r.id = m.id /\ r.day = day /\ r.file = f
  BY <1>1, <1>3 DEF Messages, Outputs
<1> HIDE DEF r
<1>5. output' = Append(output, r)
  BY <1>3 DEF r
<1>6. /\ output' \in Seq(Outputs) /\ batch' \in Seq(Messages) /\ worker' \in {"ready", "busy"}
      /\ Order' /\ QueueIsLatest' /\ Working'
  BY <1>1, <1>2, <1>4, <1>5, Writes
<1>7. Types'
  <2>1. ThreadTypes'
    BY <1>2, <1>6 DEF Inv, Types, ThreadTypes
  <2>2. QueueTypes'
    BY <1>2, <1>6 DEF Inv, Types, QueueTypes
  <2>3. CfgTypes'
    BY <1>2 DEF Inv, Types, CfgTypes
  <2>4. FileTypes'
    BY <1>1, <1>2, <1>3, <1>6 DEF FileTypes
  <2> QED
    BY <2>1, <2>2, <2>3, <2>4 DEF Types
<1>8. r.file # NoFile => r.file.day = r.day
  BY <1>3, <1>4
<1> QED
  BY <1>4, <1>5, <1>6, <1>7, <1>8 DEF Inv

\* The steps that touch neither the messages nor the files, except that
\* Configure starts the file's part again.
LEMMA Others ==
  ASSUME Inv, UNCHANGED <<queue, next, dropped, batch, output>>,
         thread' \in [Threads -> {"idle", "tested", "notify"}], shutdown' \in BOOLEAN,
         worker' = worker \/ (worker = "asleep" /\ worker' = "ready"),
         flags' \in FlagsType, cfg' \in FlagsType,
         unset' \subseteq Flags, configured' \in BOOLEAN,
         UNCHANGED <<key, part, lines, file, disk>> \/
           (key' = NoFile /\ part' = 1 /\ lines' = 0 /\ file' = NoFile /\ disk' = disk),
         day' \in Days
  PROVE  Inv'
<1>1. ThreadTypes'
  BY DEF Inv, Types, ThreadTypes
<1>2. QueueTypes'
  BY DEF Inv, Types, QueueTypes
<1>3. CfgTypes'
  BY DEF CfgTypes
<1>4. FileTypes'
  BY DEF Inv, Types, FileTypes
<1>5. QueueIsLatest' /\ Order' /\ Working'
  BY DEF Inv, QueueIsLatest, Order, Ordered, Before, Below, Working
<1> QED
  BY <1>1, <1>2, <1>3, <1>4, <1>5 DEF Inv, Types

LEMMA InvStep == Inv /\ [Next]_vars => Inv'
<1> SUFFICES ASSUME Inv, [Next]_vars PROVE Inv'
  OBVIOUS
<1>1. /\ thread \in [Threads -> {"idle", "tested", "notify"}] /\ shutdown \in BOOLEAN
      /\ flags \in FlagsType /\ cfg \in FlagsType
      /\ unset \subseteq Flags /\ configured \in BOOLEAN /\ day \in Days
  BY DEF Inv, Types, ThreadTypes, CfgTypes, FileTypes
<1>2. ASSUME NEW t \in Threads, WriteTest(t) PROVE Inv'
  BY <1>1, <1>2, Others DEF WriteTest, queueVars, cfgVars, fileVars
<1>3. ASSUME NEW t \in Threads, WriteNotify(t) PROVE Inv'
  BY <1>1, <1>3, Others DEF WriteNotify, queueVars, cfgVars, fileVars
<1>4. ASSUME NEW c \in Configs, Configure(c) PROVE Inv'
  BY <1>1, <1>4, SettingTypes, Others DEF Configure, queueVars
<1>5. ASSUME NEW f \in Flags, ConfigureFlag(f) PROVE Inv'
  <2>1. flags' = [flags EXCEPT ![f] = cfg[f]]
    BY <1>5 DEF ConfigureFlag
  <2>2. flags' \in FlagsType
    BY <1>1, <2>1 DEF FlagsType, Flags
  <2> QED
    BY <1>1, <1>5, <2>2, Others DEF ConfigureFlag, queueVars, fileVars
<1>6. CASE SpuriousWakeup
  BY <1>1, <1>6, Others DEF SpuriousWakeup, queueVars, cfgVars, fileVars
<1>7. CASE Shutdown
  BY <1>1, <1>7, Others DEF Shutdown, queueVars, cfgVars, fileVars
<1>8. CASE Midnight
  <2>1. day' \in Days
    BY <1>1, <1>8, Assumption DEF Midnight, Days
  <2> QED
    BY <1>1, <1>8, <2>1, Others DEF Midnight, queueVars, cfgVars, fileVars
<1>9. CASE UNCHANGED vars
  BY <1>1, <1>9, Others DEF vars, queueVars, cfgVars, fileVars
<1> QED
  BY <1>2, <1>3, <1>4, <1>5, <1>6, <1>7, <1>8, <1>9, Queues, Takes, Payloads DEF Next, WorkerStep

-----------------------------------------------------------------------------
(* The theorems                                                            *)

\* The order of queue, batch and output, and when the writer has a batch.
THEOREM Invariance == Spec => []Inv
BY InvInit, InvStep, PTL DEF Spec

\* Every variable of FileLogWriter keeps its type.
THEOREM TypesHold == Spec => []TypeOK
<1>1. Inv => TypeOK
  BY DEF Inv, Types, ThreadTypes, QueueTypes, CfgTypes, FileTypes, FlagsType, TypeOK
<1> QED
  BY <1>1, Invariance, PTL

LEMMA OrderIsGlobal == Inv => InOrder
<1> SUFFICES ASSUME Inv PROVE InOrder
  OBVIOUS
<1> DEFINE o == Ids(output)
           b == Ids(batch)
           q == Ids(queue)
<1>1. /\ output \in Seq(Outputs) /\ batch \in Seq(Messages) /\ queue \in Seq(Messages)
      /\ next \in Nat
  BY DEF Inv, Types, QueueTypes, FileTypes
<1>2. /\ o \in Seq(Nat) /\ Len(o) = Len(output) /\ \A i \in 1 .. Len(output) : o[i] = output[i].id
      /\ b \in Seq(Nat) /\ Len(b) = Len(batch) /\ \A i \in 1 .. Len(batch) : b[i] = batch[i].id
      /\ q \in Seq(Nat) /\ Len(q) = Len(queue) /\ \A i \in 1 .. Len(queue) : q[i] = queue[i].id
      /\ Len(output) \in Nat /\ Len(batch) \in Nat /\ Len(queue) \in Nat
  <2>1. Len(output) \in Nat /\ Len(batch) \in Nat /\ Len(queue) \in Nat
    BY <1>1
  <2>2. /\ \A i \in 1 .. Len(output) : output[i].id \in Nat
        /\ \A i \in 1 .. Len(batch) : batch[i].id \in Nat
        /\ \A i \in 1 .. Len(queue) : queue[i].id \in Nat
    BY IdTypes DEF Inv
  <2> QED
    BY <2>1, <2>2 DEF Ids
<1> HIDE DEF o, b, q
<1>3. /\ \A i, j \in 1 .. Len(o) : i < j => o[i] < o[j]
      /\ \A i, j \in 1 .. Len(b) : i < j => b[i] < b[j]
      /\ \A i \in 1 .. Len(o), j \in 1 .. Len(b) : o[i] < b[j]
  BY <1>2 DEF Inv, Order, Ordered, Before
<1>4. \A i \in 1 .. Len(q) : q[i] = next - 1 - Len(q) + i
  BY <1>2 DEF Inv, QueueIsLatest
<1>5. /\ \A i \in 1 .. Len(o) : o[i] < next - Len(q)
      /\ \A i \in 1 .. Len(b) : b[i] < next - Len(q)
  BY <1>2 DEF Inv, Order, Below
<1> DEFINE ob == o \o b
<1>6. /\ ob \in Seq(Nat) /\ Len(ob) = Len(o) + Len(b)
      /\ \A i \in 1 .. Len(o) : ob[i] = o[i]
      /\ \A i \in 1 .. Len(b) : ob[Len(o) + i] = b[i]
      /\ \A i, j \in 1 .. Len(ob) : i < j => ob[i] < ob[j]
  BY <1>2, <1>3, ConcatIncreasing
<1> HIDE DEF ob
<1>7. \A i \in 1 .. Len(ob) : ob[i] < next - Len(q)
  <2> SUFFICES ASSUME NEW i \in 1 .. Len(ob) PROVE ob[i] < next - Len(q)
    OBVIOUS
  <2>1. CASE i \in 1 .. Len(o)
    BY <1>5, <1>6, <2>1
  <2>2. ASSUME NEW k \in 1 .. Len(b), i = Len(o) + k
        PROVE  ob[i] < next - Len(q)
    BY <1>5, <1>6, <2>2
  <2>3. i \in 1 .. Len(o) \/ (i - Len(o) \in 1 .. Len(b) /\ i = Len(o) + (i - Len(o)))
    BY <1>2, <1>6
  <2> QED
    BY <2>1, <2>2, <2>3
<1>8. /\ \A i, j \in 1 .. Len(q) : i < j => q[i] < q[j]
      /\ \A i \in 1 .. Len(ob), j \in 1 .. Len(q) : ob[i] < q[j]
  <2>1. \A i \in 1 .. Len(ob) : ob[i] \in Nat
    BY <1>6
  <2>2. Len(q) \in Nat /\ \A i \in 1 .. Len(q) : q[i] >= next - Len(q)
    BY <1>1, <1>2, <1>4
  <2>3. \A i, j \in 1 .. Len(q) : i < j => q[i] < q[j]
    BY <1>1, <1>4, <2>2
  <2>4. ASSUME NEW i \in 1 .. Len(ob), NEW j \in 1 .. Len(q)
        PROVE  ob[i] < q[j]
    <3>1. ob[i] \in Nat /\ ob[i] < next - Len(q) /\ q[j] >= next - Len(q)
      BY <1>7, <2>1, <2>2
    <3>2. q[j] \in Int
      BY <1>2, <2>2
    <3> QED
      BY <1>1, <2>2, <3>1, <3>2
  <2> QED
    BY <2>3, <2>4
<1>9. \A i, j \in 1 .. Len(ob \o q) : i < j => (ob \o q)[i] < (ob \o q)[j]
  BY <1>2, <1>6, <1>8, ConcatIncreasing
<1> QED
  BY <1>9 DEF InOrder, ob, o, b, q

\* Messages are written in the order they were queued, whatever threads queue
\* them and however batches and overflows cut the queue (Write, WorkerLoop).
THEOREM WrittenInOrder == Spec => []InOrder
BY OrderIsGlobal, Invariance, PTL

\* A message is dropped only when as many newer ones as the capacity of that moment
\* are queued, even while Configure changes the capacity (Write).
THEOREM NoNeedlessDrop == Spec => DropsMakeRoom
<1>1. ASSUME Inv, [Next]_vars, NEW d \in dropped' \ dropped
      PROVE  flags.cap > 0 /\ d + flags.cap < next'
  <2>1. \E t \in Threads, n \in Lengths : WriteQueue(t, n)
    BY <1>1 DEF Next, WriteTest, WriteNotify, Configure, ConfigureFlag, WorkerStep, Take, WritePayload,
           EchoPayload, SpuriousWakeup, Shutdown, Midnight, vars, queueVars
  <2> QED
    BY <1>1, <2>1, Queues
<1>2. Inv /\ [Next]_vars => [\A d \in dropped' \ dropped : flags.cap > 0 /\ d + flags.cap < next']_vars
  BY <1>1
<1> QED
  BY <1>2, Invariance, PTL DEF Spec, DropsMakeRoom

\* A message is never written to the file of another day, although the key of a
\* file is shorter than the test expects (MaybeRotateByDateLocked).
THEOREM NeverAnotherDay == Spec => []RightDay
<1>1. Init => RightDay
  BY DEF Init, RightDay
<1>2. Inv /\ RightDay /\ [Next]_vars => RightDay'
  <2> SUFFICES ASSUME Inv, RightDay, [Next]_vars PROVE RightDay'
    OBVIOUS
  <2>1. CASE WritePayload \/ EchoPayload
    <3>1. PICK r \in Outputs : output' = Append(output, r) /\ (r.file # NoFile => r.file.day = r.day)
      BY <2>1, Payloads
    <3>2. /\ Len(output) \in Nat /\ Len(output') = Len(output) + 1
          /\ \A i \in 1 .. Len(output) : output'[i] = output[i]
          /\ output'[Len(output) + 1] = r
      <4>1. output \in Seq(Outputs)
        BY DEF Inv, Types, FileTypes
      <4> QED
        BY <3>1, <4>1, AppendFacts
    <3> QED
      BY <3>1, <3>2 DEF RightDay
  <2>2. CASE UNCHANGED output
    BY <2>2 DEF RightDay
  <2>3. UNCHANGED output \/ WritePayload \/ EchoPayload
    BY DEF Next, WriteTest, WriteQueue, WriteNotify, Configure, ConfigureFlag, WorkerStep, Take,
           SpuriousWakeup, Shutdown, Midnight, vars, fileVars
  <2> QED
    BY <2>1, <2>2, <2>3
<1> QED
  BY <1>1, <1>2, Invariance, PTL DEF Spec

-----------------------------------------------------------------------------
(* Nothing gets lost                                                       *)

IdsIn(s) == {s[i].id : i \in 1 .. Len(s)}

\* Every message that was queued is in exactly one of four places: dropped,
\* written, in the batch or in the queue.  With InOrder, it is there once.
InOnePlace ==
  /\ 1 .. next - 1 = dropped \cup IdsIn(output) \cup IdsIn(batch) \cup IdsIn(queue)
  /\ dropped \cap (IdsIn(output) \cup IdsIn(batch) \cup IdsIn(queue)) = {}

\* What was dropped is older than what is queued.
DroppedAreOld == \A d \in dropped : d < next - Len(queue)

PlaceInv == Inv /\ InOnePlace /\ DroppedAreOld

\* The steps that move a message.
LEMMA QueueKeepsPlaces ==
  ASSUME PlaceInv, NEW t \in Threads, NEW n \in Lengths, WriteQueue(t, n)
  PROVE  InOnePlace' /\ DroppedAreOld'
<1> DEFINE over == Overflow(flags.cap)
           m    == [id |-> next, lines |-> n]
           kept == SubSeq(queue, over + 1, Len(queue))
           lost == {queue[i].id : i \in 1 .. over}
<1>1. /\ queue \in Seq(Messages) /\ Len(queue) \in Nat /\ next \in 1 .. MaxMessages
      /\ MaxMessages \in Nat /\ flags.cap \in Nat
      /\ queue' = Append(kept, m) /\ next' = next + 1 /\ dropped' = dropped \cup lost
      /\ UNCHANGED <<output, batch>>
  <2>1. queue \in Seq(Messages) /\ next \in 1 .. MaxMessages + 1 /\ flags \in FlagsType
    BY DEF PlaceInv, Inv, Types, QueueTypes, CfgTypes
  <2> QED
    BY <2>1, Assumption DEF WriteQueue, FlagsType, fileVars
<1>2. over \in 0 .. Len(queue)
  <2> DEFINE c == flags.cap
             l == Len(queue)
  <2>1. c \in Nat /\ l \in Nat
    BY <1>1
  <2>2. over = IF c > 0 /\ l >= c THEN l + 1 - c ELSE 0
    BY DEF Overflow
  <2> HIDE DEF c, l, over
  <2>3. over \in 0 .. l
    BY <2>1, <2>2
  <2> QED
    BY <2>3 DEF l
<1> HIDE DEF over
<1>3. /\ kept \in Seq(Messages) /\ Len(kept) = Len(queue) - over
      /\ \A i \in 1 .. Len(queue) - over : kept[i] = queue[i + over]
  BY <1>1, <1>2, SuffixFacts
<1>4. m \in Messages /\ m.id = next
  BY <1>1 DEF Messages
<1> HIDE DEF kept, m
<1>5. /\ Len(queue') = Len(kept) + 1
      /\ \A i \in 1 .. Len(kept) : queue'[i] = kept[i]
      /\ queue'[Len(kept) + 1] = m
  <2>1. /\ Len(Append(kept, m)) = Len(kept) + 1
        /\ \A i \in 1 .. Len(kept) : Append(kept, m)[i] = kept[i]
        /\ Append(kept, m)[Len(kept) + 1] = m
    BY <1>3, <1>4, AppendFacts
  <2>2. queue' = Append(kept, m)
    BY <1>1
  <2> QED
    BY <2>1, <2>2
<1>6. \A i \in 1 .. Len(queue) : queue[i].id = next - 1 - Len(queue) + i
  BY DEF PlaceInv, Inv, QueueIsLatest
<1>7. IdsIn(queue) = lost \cup IdsIn(kept)
  <2>1. \A i \in 1 .. Len(queue) : i \in 1 .. over \/ (i - over \in 1 .. Len(kept) /\ (i - over) + over = i)
    BY <1>1, <1>2, <1>3
  <2>2. \A i \in 1 .. Len(kept) : i + over \in 1 .. Len(queue) /\ kept[i] = queue[i + over]
    BY <1>1, <1>2, <1>3
  <2>3. \A i \in 1 .. over : i \in 1 .. Len(queue)
    BY <1>1, <1>2
  <2>4. \A i \in 1 .. Len(queue) : queue[i].id \in lost \cup IdsIn(kept)
    <3> SUFFICES ASSUME NEW i \in 1 .. Len(queue), i \notin 1 .. over
                 PROVE  queue[i].id \in IdsIn(kept)
      BY DEF IdsIn
    <3>1. i - over \in 1 .. Len(kept) /\ (i - over) + over = i
      BY <2>1
    <3>2. kept[i - over] = queue[i]
      BY <2>2, <3>1
    <3> QED
      BY <3>1, <3>2 DEF IdsIn
  <2>5. IdsIn(queue) \subseteq lost \cup IdsIn(kept)
    BY <2>4 DEF IdsIn
  <2>6. lost \subseteq IdsIn(queue)
    BY <2>3 DEF IdsIn
  <2>7. IdsIn(kept) \subseteq IdsIn(queue)
    BY <2>2 DEF IdsIn
  <2> QED
    BY <2>5, <2>6, <2>7
<1>8. IdsIn(queue') = IdsIn(kept) \cup {next}
  <2>1. Len(kept) \in Nat
    BY <1>3
  <2>2. \A i \in 1 .. Len(queue') : i \in 1 .. Len(kept) \/ i = Len(kept) + 1
    BY <1>5, <2>1
  <2>3. Len(kept) + 1 \in 1 .. Len(queue') /\ \A i \in 1 .. Len(kept) : i \in 1 .. Len(queue')
    BY <1>5, <2>1
  <2> QED
    BY <1>4, <1>5, <2>2, <2>3 DEF IdsIn
<1>9. 1 .. next' - 1 = 1 .. next - 1 \cup {next}
  BY <1>1
<1>10. \A x \in lost : x < next - Len(queue) + over /\ x \in Int
  <2>1. \A i \in 1 .. over : i \in 1 .. Len(queue) /\ i <= over /\ i \in Nat
    BY <1>1, <1>2
  <2>2. next \in Int /\ Len(queue) \in Int /\ over \in Int
    BY <1>1, <1>2
  <2>3. ASSUME NEW i \in 1 .. over
        PROVE  queue[i].id < next - Len(queue) + over /\ queue[i].id \in Int
    <3>1. queue[i].id = next - 1 - Len(queue) + i
      BY <1>6, <2>1
    <3>2. i <= over /\ i \in Int
      BY <2>1
    <3> QED
      BY <2>2, <3>1, <3>2
  <2> QED
    BY <2>3
<1>11. \A x \in lost : x >= next - Len(queue) /\ x \notin IdsIn(output) /\ x \notin IdsIn(batch)
  <2>1. \A i \in 1 .. over : i \in 1 .. Len(queue) /\ i >= 1 /\ i \in Nat
    BY <1>1, <1>2
  <2>2. next \in Int /\ Len(queue) \in Int
    BY <1>1
  <2>3. ASSUME NEW i \in 1 .. over PROVE queue[i].id >= next - Len(queue)
    <3>1. queue[i].id = next - 1 - Len(queue) + i
      BY <1>6, <2>1
    <3>2. i >= 1 /\ i \in Int
      BY <2>1
    <3> QED
      BY <2>2, <3>1, <3>2
  <2>4. \A x \in IdsIn(output) \cup IdsIn(batch) : x < next - Len(queue)
    BY DEF PlaceInv, Inv, Order, Below, IdsIn
  <2>5. \A x \in IdsIn(output) \cup IdsIn(batch) : x \in Int
    BY IdTypes DEF PlaceInv, Inv, IdsIn
  <2>6. \A x \in lost : x >= next - Len(queue)
    BY <2>3
  <2>7. \A x \in IdsIn(output) \cup IdsIn(batch) : ~(x >= next - Len(queue))
    BY <2>2, <2>4, <2>5
  <2> QED
    BY <2>6, <2>7
<1>12. \A x \in IdsIn(kept) : x >= next - Len(queue) + over /\ x \in Int
  <2>1. next \in Int /\ Len(queue) \in Int /\ over \in Int
    BY <1>1, <1>2
  <2>2. ASSUME NEW i \in 1 .. Len(kept)
        PROVE  kept[i].id >= next - Len(queue) + over /\ kept[i].id \in Int
    <3>1. i + over \in 1 .. Len(queue) /\ kept[i] = queue[i + over] /\ i \in Int /\ i >= 1
      BY <1>1, <1>2, <1>3
    <3>2. kept[i].id = next - 1 - Len(queue) + (i + over)
      BY <1>6, <3>1
    <3> QED
      BY <2>1, <3>1, <3>2
  <2> QED
    BY <2>2 DEF IdsIn
<1>13. \A x \in dropped : x < next - Len(queue) /\ x \in Int
  BY DEF PlaceInv, DroppedAreOld, Inv, Types, QueueTypes
<1>14. \A x \in dropped' : x < next - Len(queue) + over /\ x \in Int
  <2>1. next \in Int /\ Len(queue) \in Int /\ over \in Int /\ over >= 0
    BY <1>1, <1>2
  <2>2. \A x \in dropped : x < next - Len(queue) + over
    BY <1>13, <2>1
  <2> QED
    BY <1>1, <1>10, <1>13, <2>2
<1>15. DroppedAreOld'
  <2>1. next' - Len(queue') = next - Len(queue) + over
    BY <1>1, <1>2, <1>3, <1>5
  <2> QED
    BY <1>14, <2>1 DEF DroppedAreOld
<1>16. dropped' \cap IdsIn(kept) = {} /\ next \notin dropped'
  <2>1. next \in Int /\ Len(queue) \in Int /\ over \in Int /\ over <= Len(queue)
    BY <1>1, <1>2
  <2>2. \A x \in IdsIn(kept) : ~(x < next - Len(queue) + over)
    BY <1>12, <2>1
  <2>3. ~(next < next - Len(queue) + over)
    BY <2>1
  <2> QED
    BY <1>14, <2>2, <2>3
<1>17. IdsIn(output') = IdsIn(output) /\ IdsIn(batch') = IdsIn(batch)
  BY <1>1
<1>18. /\ 1 .. next - 1 = dropped \cup IdsIn(output) \cup IdsIn(batch) \cup IdsIn(queue)
       /\ dropped \cap (IdsIn(output) \cup IdsIn(batch) \cup IdsIn(queue)) = {}
  BY DEF PlaceInv, InOnePlace
<1> HIDE DEF lost
<1>19. InOnePlace'
  <2>1. 1 .. next' - 1 = dropped' \cup IdsIn(output') \cup IdsIn(batch') \cup IdsIn(queue')
    BY <1>1, <1>7, <1>8, <1>9, <1>17, <1>18
  <2>2. dropped' \cap (IdsIn(output') \cup IdsIn(batch') \cup IdsIn(queue')) = {}
    BY <1>1, <1>8, <1>11, <1>16, <1>17, <1>18
  <2> QED
    BY <2>1, <2>2 DEF InOnePlace, IdsIn
<1> QED
  BY <1>15, <1>19

LEMMA TakeKeepsPlaces ==
  ASSUME PlaceInv, Take
  PROVE  InOnePlace' /\ DroppedAreOld'
<1>1. /\ queue \in Seq(Messages) /\ Len(queue) \in Nat /\ next \in Nat /\ batch = <<>>
      /\ dropped \subseteq Nat /\ UNCHANGED <<output, next, dropped>>
  BY Assumption DEF PlaceInv, Inv, Types, QueueTypes, Working, Take, fileVars
<1>2. Len(<<>>) = 0
  OBVIOUS
<1>3. IdsIn(<<>>) = {}
  BY <1>2 DEF IdsIn
<1>4. CASE queue = <<>> /\ UNCHANGED <<queue, batch>>
  BY <1>1, <1>4 DEF PlaceInv, InOnePlace, DroppedAreOld, IdsIn
<1>5. CASE batch' = queue /\ queue' = <<>>
  <2>1. IdsIn(batch') = IdsIn(queue) /\ IdsIn(queue') = {} /\ IdsIn(batch) = {} /\ IdsIn(output') = IdsIn(output)
    BY <1>1, <1>3, <1>5
  <2>2. InOnePlace'
    <3>1. 1 .. next - 1 = dropped \cup IdsIn(output) \cup IdsIn(batch') \cup IdsIn(queue')
      BY <2>1 DEF PlaceInv, InOnePlace
    <3>2. dropped \cap (IdsIn(output) \cup IdsIn(batch') \cup IdsIn(queue')) = {}
      BY <2>1 DEF PlaceInv, InOnePlace
    <3> QED
      BY <1>1, <2>1, <3>1, <3>2 DEF InOnePlace, IdsIn
  <2>3. Len(queue') = 0
    BY <1>2, <1>5
  <2>4. \A d \in dropped : d < next - 0
    BY <1>1 DEF PlaceInv, DroppedAreOld
  <2> QED
    BY <1>1, <2>2, <2>3, <2>4 DEF DroppedAreOld
<1> QED
  BY <1>4, <1>5 DEF Take

LEMMA PayloadKeepsPlaces ==
  ASSUME PlaceInv, WritePayload \/ EchoPayload
  PROVE  InOnePlace' /\ DroppedAreOld'
<1>1. /\ batch \in Seq(Messages) /\ batch # <<>> /\ output \in Seq(Outputs)
      /\ batch' = Tail(batch) /\ UNCHANGED <<queue, next, dropped>>
  BY DEF PlaceInv, Inv, Types, QueueTypes, FileTypes, Working, WritePayload, EchoPayload, Finish, queueVars
<1>2. PICK r \in Outputs : output' = Append(output, r) /\ r.id = Head(batch).id
  BY Payloads DEF PlaceInv
<1>3. IdsIn(batch) = {r.id} \cup IdsIn(batch')
  <2>1. /\ Len(batch) \in Nat \ {0} /\ Len(batch') = Len(batch) - 1
        /\ \A i \in 1 .. Len(batch) - 1 : batch'[i] = batch[i + 1]
        /\ Head(batch) = batch[1]
    BY <1>1, TailFacts
  <2>2. \A i \in 1 .. Len(batch) : i = 1 \/ (i - 1 \in 1 .. Len(batch') /\ (i - 1) + 1 = i)
    BY <2>1
  <2>3. 1 \in 1 .. Len(batch) /\ \A i \in 1 .. Len(batch') : i + 1 \in 1 .. Len(batch) /\ i \in 1 .. Len(batch) - 1
    BY <2>1
  <2>4. \A i \in 1 .. Len(batch) : batch[i].id \in {r.id} \cup IdsIn(batch')
    <3> SUFFICES ASSUME NEW i \in 1 .. Len(batch), i # 1
                 PROVE  batch[i].id \in IdsIn(batch')
      BY <1>2, <2>1
    <3>1. i - 1 \in 1 .. Len(batch') /\ (i - 1) + 1 = i
      BY <2>2
    <3>2. batch'[i - 1] = batch[i]
      BY <2>1, <2>3, <3>1
    <3> QED
      BY <3>1, <3>2 DEF IdsIn
  <2>5. IdsIn(batch) \subseteq {r.id} \cup IdsIn(batch')
    BY <2>4 DEF IdsIn
  <2>6. r.id \in IdsIn(batch)
    BY <1>2, <2>1, <2>3 DEF IdsIn
  <2>7. IdsIn(batch') \subseteq IdsIn(batch)
    BY <2>1, <2>3 DEF IdsIn
  <2> QED
    BY <2>5, <2>6, <2>7
<1>4. IdsIn(output') = IdsIn(output) \cup {r.id}
  <2>1. /\ Len(output) \in Nat /\ Len(output') = Len(output) + 1
        /\ \A i \in 1 .. Len(output) : output'[i] = output[i]
        /\ output'[Len(output) + 1] = r
    <3>1. /\ Len(output) \in Nat /\ Len(Append(output, r)) = Len(output) + 1
          /\ \A i \in 1 .. Len(output) : Append(output, r)[i] = output[i]
          /\ Append(output, r)[Len(output) + 1] = r
      BY <1>1, AppendFacts
    <3> QED
      BY <1>2, <3>1
  <2>2. \A i \in 1 .. Len(output') : i \in 1 .. Len(output) \/ i = Len(output) + 1
    BY <2>1
  <2>3. Len(output) + 1 \in 1 .. Len(output') /\ \A i \in 1 .. Len(output) : i \in 1 .. Len(output')
    BY <2>1
  <2> QED
    BY <2>1, <2>2, <2>3 DEF IdsIn
<1>5. InOnePlace'
  <2>1. 1 .. next - 1 = dropped \cup IdsIn(output') \cup IdsIn(batch') \cup IdsIn(queue)
    BY <1>3, <1>4 DEF PlaceInv, InOnePlace
  <2>2. dropped \cap (IdsIn(output') \cup IdsIn(batch') \cup IdsIn(queue)) = {}
    BY <1>3, <1>4 DEF PlaceInv, InOnePlace
  <2> QED
    BY <1>1, <2>1, <2>2 DEF InOnePlace, IdsIn
<1>6. DroppedAreOld'
  BY <1>1 DEF PlaceInv, DroppedAreOld
<1> QED
  BY <1>5, <1>6

LEMMA PlacesKept == Spec => []PlaceInv
<1>1. Init => PlaceInv
  <2> SUFFICES ASSUME Init PROVE InOnePlace /\ DroppedAreOld
    BY InvInit DEF PlaceInv
  <2>1. Len(<<>>) = 0 /\ 1 .. 1 - 1 = {} /\ 1 .. 0 = {}
    OBVIOUS
  <2>2. IdsIn(<<>>) = {}
    BY <2>1 DEF IdsIn
  <2> QED
    BY <2>1, <2>2 DEF Init, InOnePlace, DroppedAreOld
<1>2. PlaceInv /\ [Next]_vars => PlaceInv'
  <2> SUFFICES ASSUME PlaceInv, [Next]_vars PROVE InOnePlace' /\ DroppedAreOld'
    BY InvStep DEF PlaceInv
  <2>1. CASE UNCHANGED <<queue, next, dropped, output, batch>>
    BY <2>1 DEF PlaceInv, InOnePlace, DroppedAreOld, IdsIn
  <2>2. \/ UNCHANGED <<queue, next, dropped, output, batch>>
        \/ \E t \in Threads, n \in Lengths : WriteQueue(t, n)
        \/ Take \/ WritePayload \/ EchoPayload
    BY DEF Next, WriteTest, WriteNotify, Configure, ConfigureFlag, WorkerStep, SpuriousWakeup,
           Shutdown, Midnight, vars, queueVars, fileVars
  <2> QED
    BY <2>1, <2>2, QueueKeepsPlaces, TakeKeepsPlaces, PayloadKeepsPlaces
<1> QED
  BY <1>1, <1>2, PTL DEF Spec

\* No message is lost between the threads, and none is written that was dropped:
\* each of those queued so far is dropped, written, in the batch or in the queue,
\* and in one of them only (Write, WorkerLoop).
THEOREM NothingVanishes == Spec => []InOnePlace
<1>1. PlaceInv => InOnePlace
  BY DEF PlaceInv
<1> QED
  BY <1>1, PlacesKept, PTL

\* When the writer thread ends, every message queued so far is done with, those
\* included that other threads queued after the destructor had begun (WorkerLoop,
\* Write and the destructor).
THEOREM EndsOnNothing == Spec => NothingLeft
<1>1. PlaceInv /\ [Next]_vars /\ worker # "exited" /\ worker' = "exited" => \A i \in 1 .. next - 1 : Settled(i)
  <2> SUFFICES ASSUME PlaceInv, [Next]_vars, worker # "exited", worker' = "exited", NEW i \in 1 .. next - 1
               PROVE  Settled(i)
    OBVIOUS
  <2>1. worker = "ready" /\ queue = <<>>
    BY DEF Next, WorkerStep, Take, WritePayload, EchoPayload, Finish, WriteTest, WriteQueue, WriteNotify,
           Configure, ConfigureFlag, SpuriousWakeup, Shutdown, Midnight, vars
  <2>2. batch = <<>>
    BY <2>1 DEF PlaceInv, Inv, Working
  <2>3. Len(<<>>) = 0
    OBVIOUS
  <2>4. IdsIn(queue) = {} /\ IdsIn(batch) = {}
    BY <2>1, <2>2, <2>3 DEF IdsIn
  <2>5. i \in dropped \cup IdsIn(output)
    BY <2>4 DEF PlaceInv, InOnePlace
  <2> QED
    BY <2>5 DEF IdsIn, Settled
<1> QED
  BY <1>1, PlacesKept, PTL DEF NothingLeft, Spec

-----------------------------------------------------------------------------
(* No wakeup is lost                                                       *)

\* The writer sleeps on a queue that is not empty only while the notification of
\* a thread is on its way, and never once the destructor has begun.
WakeupOnItsWay ==
  worker = "asleep" => ~shutdown /\ (queue = <<>> \/ \E t \in Threads : thread[t] = "notify")

\* Write notifies after it has let go of queue_mutex_, and the writer tests its
\* condition and sleeps under it: the safety that Delivered rests on.
THEOREM NoWakeupIsLost == Spec => []WakeupOnItsWay
<1>1. Init => WakeupOnItsWay
  BY DEF Init, WakeupOnItsWay
<1>2. Inv /\ WakeupOnItsWay /\ [Next]_vars => WakeupOnItsWay'
  <2> SUFFICES ASSUME Inv, WakeupOnItsWay, [Next]_vars PROVE WakeupOnItsWay'
    OBVIOUS
  <2>1. thread \in [Threads -> {"idle", "tested", "notify"}]
    BY DEF Inv, Types, ThreadTypes
  <2>2. ASSUME NEW t \in Threads, WriteTest(t) PROVE WakeupOnItsWay'
    <3>1. \A u \in Threads : thread[u] = "notify" => thread'[u] = "notify"
      BY <2>1, <2>2 DEF WriteTest
    <3> QED
      BY <2>2, <3>1 DEF WriteTest, WakeupOnItsWay, queueVars
  <2>3. ASSUME NEW t \in Threads, NEW n \in Lengths, WriteQueue(t, n) PROVE WakeupOnItsWay'
    <3>1. thread'[t] = "notify"
      BY <2>1, <2>3 DEF WriteQueue
    <3> QED
      BY <2>3, <3>1 DEF WriteQueue, WakeupOnItsWay
  <2>4. ASSUME NEW t \in Threads, WriteNotify(t) PROVE WakeupOnItsWay'
    BY <2>4 DEF WriteNotify, WakeupOnItsWay
  <2>5. CASE Take
    BY <2>5 DEF Take, WakeupOnItsWay
  <2>6. CASE WritePayload \/ EchoPayload
    BY <2>6 DEF WritePayload, EchoPayload, Finish, WakeupOnItsWay
  <2>7. CASE SpuriousWakeup \/ Shutdown
    BY <2>7 DEF SpuriousWakeup, Shutdown, WakeupOnItsWay
  <2>8. CASE UNCHANGED <<thread, queue, shutdown, worker>>
    BY <2>8 DEF WakeupOnItsWay
  <2>9. UNCHANGED <<thread, queue, shutdown, worker>>
        \/ (\E t \in Threads : WriteTest(t) \/ WriteNotify(t) \/ \E n \in Lengths : WriteQueue(t, n))
        \/ WorkerStep \/ SpuriousWakeup \/ Shutdown
    BY DEF Next, Configure, ConfigureFlag, Midnight, vars, queueVars
  <2> QED
    BY <2>2, <2>3, <2>4, <2>5, <2>6, <2>7, <2>8, <2>9 DEF WorkerStep
<1> QED
  BY <1>1, <1>2, Invariance, PTL DEF Spec
=============================================================================
