---------------------------- MODULE NackGenerator ----------------------------
(***************************************************************************)
(* The upstream NACKs of GBServer: RtcProducer (producer/rtc_producer.cpp) *)
(* and its NackGenerator (share/nack_generator.cpp), for one SSRC.         *)
(*                                                                         *)
(* The network thread posts the sequence number of every packet, with the  *)
(* time, to the worker thread.  There the generator keeps the numbers that *)
(* were skipped, and after each packet picks those to ask for: no number   *)
(* too often, too soon after the last time, or too late.  Its calls come   *)
(* from the worker thread alone, so that one task is one action.           *)
(***************************************************************************)
EXTENDS Integers, Sequences, FiniteSets

CONSTANTS
  Wrap,              \* sequence numbers there are (2^16)
  MaxNackAge,        \* kMaxNackAgeMs
  MaxNackRetries,    \* kMaxNackRetries
  Cooldown,          \* the greater of rtt_ms_ (never set: 100) and kMinNackIntervalMs
  ProcessInterval,   \* kProcessIntervalMs
  MaxPendingSeq,     \* kMaxPendingSeq
  MaxReorder,        \* kMaxReorder
  TaskSafetyAlive,   \* whether ToQueuedTask runs the tasks of task_safety_
  FirstSeqs,         \* numbers a stream may start with
  Span,              \* bound: numbers between the first and the last of a stream
  MaxTime,           \* bound: the time runs from 1
  MaxTasks           \* bound: posted tasks

ASSUME NackAssumption ==
  /\ {Wrap, MaxNackAge, MaxNackRetries, Cooldown, ProcessInterval, MaxPendingSeq, MaxReorder, Span,
      MaxTime, MaxTasks} \subseteq Nat \ {0}
  /\ Wrap % 2 = 0 /\ MaxReorder < Wrap \div 2 /\ Span + MaxReorder <= Wrap
  /\ TaskSafetyAlive \in BOOLEAN
  /\ FirstSeqs \subseteq 0 .. Wrap - 1

Seqs  == 0 .. Wrap - 1
Times == 1 .. MaxTime
None  == -1

VARIABLES
  dtls,             \* the producer's connection: "new", "done" (dtls_done_) or "closed"
  clock,            \* rtc::TimeMillis()
  tasks,            \* posted ProcessIncomingSeqOnWorker tasks: number and time
  last_seq_unwrap,  \* greatest number received, None before the first (last_seq_raw_ is its remainder)
  nack_list,        \* skipped number -> when it was missed, last asked for (0: never), how often asked
  last_process_at,  \* time of the last GetNackBatch that was not throttled, 0 before
  first,            \* history: the first number of the stream
  gaps              \* history: number skipped -> when, times it was asked for, what became of it

nackVars == <<dtls, clock, tasks, last_seq_unwrap, nack_list, last_process_at, first, gaps>>

NackInit ==
  /\ dtls = "new"
  /\ clock = 1
  /\ tasks = <<>>
  /\ last_seq_unwrap = None /\ nack_list = <<>> /\ last_process_at = 0
  /\ first = None /\ gaps = <<>>

-----------------------------------------------------------------------------
(* The network thread.                                                     *)

\* OnDtlsConnected; OnDtlsClosed or OnDtlsFailed.
SetDtls ==
  /\ \/ dtls = "new" /\ dtls' = "done"
     \/ dtls = "done" /\ dtls' = "closed"
  /\ UNCHANGED <<clock, tasks, last_seq_unwrap, nack_list, last_process_at, first, gaps>>

\* OnSrtpRtp, a packet of the stream's SSRC and payload type: any number may come.
OnSrtpRtp(seq) ==
  /\ Len(tasks) < MaxTasks
  /\ tasks' = Append(tasks, [seq |-> seq, at |-> clock])
  /\ UNCHANGED <<dtls, clock, last_seq_unwrap, nack_list, last_process_at, first, gaps>>

TimePasses ==
  /\ clock < MaxTime
  /\ clock' = clock + 1
  /\ UNCHANGED <<dtls, tasks, last_seq_unwrap, nack_list, last_process_at, first, gaps>>

-----------------------------------------------------------------------------
(* GetNackBatch, on the list that OnReceivedPacket left.                   *)

GivenUp_NoLimit(e, now) == now - e.missed > MaxNackAge  \* slip: asked for without limit

GivenUp(e, now) == now - e.missed > MaxNackAge \/ e.count >= MaxNackRetries

Due(e, now) == e.sent = 0 \/ now - e.sent >= Cooldown

\* list and marks are the pending list and the history after OnReceivedPacket.
GetNackBatch(list, marks, now) ==
  LET throttled == last_process_at # 0 /\ now - last_process_at < ProcessInterval
      kept      == {s \in DOMAIN list : ~GivenUp(list[s], now)}
      batch     == {s \in kept : Due(list[s], now)}
  IN \/ /\ DOMAIN list = {}
        /\ last_process_at' = now
        /\ nack_list' = list /\ gaps' = marks
     \/ /\ DOMAIN list # {} /\ throttled
        /\ nack_list' = list /\ gaps' = marks
        /\ UNCHANGED last_process_at
     \/ /\ DOMAIN list # {} /\ ~throttled
        /\ last_process_at' = now
        /\ nack_list' = [s \in kept |-> IF s \in batch
                                          THEN [list[s] EXCEPT !.sent = now, !.count = @ + 1]
                                          ELSE list[s]]
        /\ gaps' = [n \in DOMAIN marks |-> IF marks[n].fate = "open" /\ n % Wrap \in batch
                                             THEN [marks[n] EXCEPT !.asked = Append(@, now)]
                                             ELSE marks[n]]

-----------------------------------------------------------------------------
(* OnReceivedPacket and GetNackBatch: one task of the worker thread.       *)

Unwrap(seq) ==
  LET diff == (seq - last_seq_unwrap) % Wrap
  IN last_seq_unwrap + IF diff < Wrap \div 2 THEN diff ELSE diff - Wrap

\* The first packet of a stream.
FirstPacket(seq, now) ==
  /\ last_seq_unwrap = None
  /\ seq \in FirstSeqs
  /\ last_seq_unwrap' = seq /\ first' = seq
  /\ GetNackBatch(nack_list, gaps, now)

Duplicate(seq, now) ==
  /\ last_seq_unwrap # None
  /\ Unwrap(seq) = last_seq_unwrap
  /\ GetNackBatch(nack_list, gaps, now)
  /\ UNCHANGED <<last_seq_unwrap, first>>

AddMissingRange_SkipsFirst(list, from, to, now) ==  \* slip: both ends taken for inclusive
  LET new == {n % Wrap : n \in from + 2 .. to - 1} \ DOMAIN list
  IN [s \in DOMAIN list \cup new |-> IF s \in new THEN [missed |-> now, sent |-> 0, count |-> 0] ELSE list[s]]

\* The numbers between from and to, unless they are there already.
AddMissingRange(list, from, to, now) ==
  LET new == {n % Wrap : n \in from + 1 .. to - 1} \ DOMAIN list
  IN [s \in DOMAIN list \cup new |-> IF s \in new THEN [missed |-> now, sent |-> 0, count |-> 0] ELSE list[s]]

TrimBySize_Not(list) == DOMAIN list  \* slip: the list is not trimmed

\* What is left when the first of the oldest was erased until the size is right.
TrimBySize(list) ==
  LET Outlives(r, s) == \/ list[r].missed > list[s].missed
                        \/ list[r].missed = list[s].missed /\ r > s
  IN {s \in DOMAIN list : Cardinality({r \in DOMAIN list : Outlives(r, s)}) < MaxPendingSeq}

\* A packet ahead of all others: what it skips is missing.
Advance(seq, now) ==
  /\ last_seq_unwrap # None
  /\ LET u       == Unwrap(seq)
         filled  == AddMissingRange(nack_list, last_seq_unwrap, u, now)
         trimmed == TrimBySize(filled)
         Opened(n) == IF n \in DOMAIN gaps THEN gaps[n] ELSE [missed |-> now, asked |-> <<>>, fate |-> "open"]
         marks   == [n \in DOMAIN gaps \cup (last_seq_unwrap + 1 .. u - 1) |->
                       IF Opened(n).fate = "open" /\ n % Wrap \in DOMAIN filled \ trimmed
                         THEN [Opened(n) EXCEPT !.fate = "trimmed"]
                         ELSE Opened(n)]
     IN /\ u > last_seq_unwrap
        /\ u <= first + Span
        /\ last_seq_unwrap' = u
        /\ GetNackBatch([s \in trimmed |-> filled[s]], marks, now)
  /\ UNCHANGED first

Restart_Unwrapped(seq, now) ==  \* slip: last_seq_unwrap_ = unwrapped
  /\ last_seq_unwrap # None
  /\ last_seq_unwrap - Unwrap(seq) > MaxReorder
  /\ last_seq_unwrap' = Unwrap(seq) /\ first' = seq
  /\ GetNackBatch(<<>>, <<>>, now)

\* A packet far behind: the stream has started again.
Restart(seq, now) ==
  /\ last_seq_unwrap # None
  /\ last_seq_unwrap - Unwrap(seq) > MaxReorder
  /\ last_seq_unwrap' = seq /\ first' = seq
  /\ GetNackBatch(<<>>, <<>>, now)

Late_Kept(seq, now) ==  \* slip: a late packet stays on the list
  /\ last_seq_unwrap # None
  /\ last_seq_unwrap - Unwrap(seq) \in 1 .. MaxReorder
  /\ GetNackBatch(nack_list, [n \in DOMAIN gaps |-> IF n = Unwrap(seq) THEN [gaps[n] EXCEPT !.fate = "late"]
                                                                       ELSE gaps[n]], now)
  /\ UNCHANGED <<last_seq_unwrap, first>>

\* A packet out of order is no longer missing.
Late(seq, now) ==
  /\ last_seq_unwrap # None
  /\ last_seq_unwrap - Unwrap(seq) \in 1 .. MaxReorder
  /\ LET list  == [s \in DOMAIN nack_list \ {seq} |-> nack_list[s]]
         marks == [n \in DOMAIN gaps |-> IF n = Unwrap(seq) THEN [gaps[n] EXCEPT !.fate = "late"] ELSE gaps[n]]
     IN GetNackBatch(list, marks, now)
  /\ UNCHANGED <<last_seq_unwrap, first>>

OnReceivedPacket(seq, now) ==
  FirstPacket(seq, now) \/ Duplicate(seq, now) \/ Advance(seq, now) \/ Restart(seq, now) \/ Late(seq, now)

ProcessIncomingSeqOnWorker ==
  /\ tasks # <<>>
  /\ tasks' = Tail(tasks)
  /\ TaskSafetyAlive /\ dtls = "done"
  /\ OnReceivedPacket(Head(tasks).seq, Head(tasks).at)
  /\ UNCHANGED <<dtls, clock>>

\* The task is dropped, or finds the handshake undone.
DropTask ==
  /\ tasks # <<>>
  /\ tasks' = Tail(tasks)
  /\ ~TaskSafetyAlive \/ dtls # "done"
  /\ UNCHANGED <<dtls, clock, last_seq_unwrap, nack_list, last_process_at, first, gaps>>

NackNext ==
  \/ SetDtls
  \/ \E seq \in Seqs : OnSrtpRtp(seq)
  \/ TimePasses
  \/ ProcessIncomingSeqOnWorker
  \/ DropTask

NackSpec == NackInit /\ [][NackNext]_nackVars

-----------------------------------------------------------------------------
Entries == [missed : Times, sent : 0 .. MaxTime, count : Nat]
Gaps    == [missed : Times, asked : Seq(Times), fate : {"open", "late", "trimmed"}]

NackTypeOK ==
  /\ dtls \in {"new", "done", "closed"}
  /\ clock \in Times
  /\ tasks \in Seq([seq : Seqs, at : Times])
  /\ last_seq_unwrap \in Nat \cup {None} /\ first \in Nat \cup {None}
  /\ DOMAIN nack_list \subseteq Seqs /\ \A s \in DOMAIN nack_list : nack_list[s] \in Entries
  /\ last_process_at \in 0 .. MaxTime
  /\ DOMAIN gaps \subseteq Nat /\ \A n \in DOMAIN gaps : gaps[n] \in Gaps

\* The list names packets that are missing: never one that has come, in whatever
\* order packets come, around the wrap and over a restart of the stream; and it
\* has not lost track of how often and since when.
ListedIsMissing ==
  \A s \in DOMAIN nack_list : \E n \in DOMAIN gaps :
    /\ n % Wrap = s /\ gaps[n].fate = "open" /\ n < last_seq_unwrap
    /\ nack_list[s].missed = gaps[n].missed
    /\ nack_list[s].count = Len(gaps[n].asked)

\* A packet that is missing is on the list unless it was given up for its age or
\* for the times it was asked for, or pushed out by newer ones.
NothingForgotten ==
  \A n \in DOMAIN gaps : gaps[n].fate = "open" =>
    \/ n % Wrap \in DOMAIN nack_list
    \/ clock - gaps[n].missed > MaxNackAge
    \/ Len(gaps[n].asked) = MaxNackRetries

\* nack_generator.h: at most kMaxNackRetries times, not after kMaxNackAgeMs, and
\* not before the cooldown is over, whatever packets drive it and however late
\* the worker gets to them.
AskedWithinLimits ==
  \A n \in DOMAIN gaps : LET asked == gaps[n].asked IN
    /\ Len(asked) <= MaxNackRetries
    /\ \A i \in 1 .. Len(asked) : asked[i] - gaps[n].missed <= MaxNackAge
    /\ \A i \in 1 .. Len(asked) - 1 : asked[i + 1] - asked[i] >= Cooldown

\* The list is bounded, and packets are pushed out only for newer ones.
PendingBounded ==
  /\ Cardinality(DOMAIN nack_list) <= MaxPendingSeq
  /\ \A n, m \in DOMAIN gaps :
       gaps[n].fate = "trimmed" /\ m % Wrap \in DOMAIN nack_list => gaps[n].missed <= gaps[m].missed

-----------------------------------------------------------------------------
\* producer/rtc_producer.h: on the worker thread, the arrival of a packet updates
\* the NackGenerator (once the handshake is over).
ArrivalsProcessed == [][Len(tasks') < Len(tasks) /\ dtls = "done" => last_seq_unwrap' # None]_nackVars

=============================================================================
