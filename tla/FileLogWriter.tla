---------------------------- MODULE FileLogWriter ----------------------------
(***************************************************************************)
(* The asynchronous file log of GbMediaServer (utils/file_log_writer.cpp). *)
(*                                                                         *)
(* Any thread calls Write, which copies the message into a bounded queue   *)
(* and wakes the writer thread; the writer takes the whole queue and       *)
(* writes it message by message, choosing the file by date and by number   *)
(* of lines.  Configure changes the file's settings under one mutex and    *)
(* the writers' flags one by one, without it.  The destructor lets the     *)
(* writer empty the queue.                                                 *)
(***************************************************************************)
EXTENDS Integers, Sequences, FiniteSets

CONSTANTS
  Threads,       \* threads that log
  MaxMessages,   \* bound: messages queued in a run
  Lengths,       \* numbers of lines a message may have
  Configs,       \* settings Configure may be called with
  DefaultCap,    \* max_queued_messages before Configure
  MaxLines,      \* max_lines_per_file
  RetentionDays, \* retention_days
  MaxDay,        \* bound: days that pass
  NoFile

ASSUME Assumption ==
  /\ MaxMessages \in Nat /\ MaxLines \in Nat \ {0} /\ MaxDay \in Nat
  /\ DefaultCap \in Nat /\ RetentionDays \in Nat
  /\ Lengths \subseteq Nat \ {0}
  /\ Configs \subseteq [enabled : BOOLEAN, echo : BOOLEAN, cap : Nat]

Days     == 0 .. MaxDay
Files    == [day : Days, part : Nat]
Messages == [id : 1 .. MaxMessages, lines : Lengths]
Flags    == {"enabled", "echo", "cap"}
Default  == [enabled |-> TRUE, echo |-> TRUE, cap |-> DefaultCap]

ASSUME NotAFile == NoFile \notin Files \cup Days

\* today is YYYYMMDD and so is the key: its two digits of the hour are a field
\* width with nothing to print.
KeyLength  == 8
DateLength == 8

VARIABLES
  thread,    \* a thread calling Write: past its test of the flags, or to notify
  queue,     \* queue_
  next,      \* id of the next message: the order in which messages are queued
  flags,     \* enabled_, echo_stdout_, max_queued_
  unset,     \* the flags Configure has not stored yet
  cfg,       \* cfg_
  configured,
  shutdown,  \* worker_shutdown_
  worker,    \* the writer thread: "ready" to test its condition, "asleep", "busy", "exited"
  batch,     \* what it has taken from the queue
  key,       \* the day in current_time_key_
  part,      \* part_index_
  lines,     \* lines_in_current_file_
  file,      \* file_: the open file
  disk,      \* the log files there are
  day,       \* today
  output,    \* the messages written: where, and on what day
  dropped    \* ids of the messages pushed out of the full queue

queueVars == <<queue, next, dropped>>
cfgVars   == <<flags, unset, cfg, configured>>
fileVars  == <<key, part, lines, file, disk, output>>
vars == <<thread, queueVars, cfgVars, shutdown, worker, batch, fileVars, day>>

Init ==
  /\ thread = [t \in Threads |-> "idle"]
  /\ queue = <<>> /\ next = 1 /\ dropped = {}
  /\ flags = Default /\ unset = {} /\ cfg = Default /\ configured = FALSE
  /\ shutdown = FALSE
  /\ worker = "ready" /\ batch = <<>>
  /\ key = NoFile /\ part = 1 /\ lines = 0 /\ file = NoFile /\ disk = {}
  /\ day = 0
  /\ output = <<>>

-----------------------------------------------------------------------------
(* Write, in any thread: the flags are read outside the lock.  It does not *)
(* look at worker_shutdown_: what is queued after the writer has ended     *)
(* stays in the queue.                                                     *)

WriteTest(t) ==
  /\ thread[t] = "idle"
  /\ flags.enabled \/ flags.echo
  /\ thread' = [thread EXCEPT ![t] = "tested"]
  /\ UNCHANGED <<queueVars, cfgVars, shutdown, worker, batch, fileVars, day>>

\* How many of the oldest messages make room for one more.
Overflow_All(cap) == IF cap > 0 /\ Len(queue) >= cap THEN Len(queue) ELSE 0  \* slip: clear()

Overflow(cap) == IF cap > 0 /\ Len(queue) >= cap THEN Len(queue) + 1 - cap ELSE 0

WriteQueue(t, n) ==
  /\ thread[t] = "tested"
  /\ next <= MaxMessages
  /\ thread' = [thread EXCEPT ![t] = "notify"]
  /\ LET over == Overflow(flags.cap) IN
       /\ queue' = Append(SubSeq(queue, over + 1, Len(queue)), [id |-> next, lines |-> n])
       /\ dropped' = dropped \cup {queue[i].id : i \in 1 .. over}
  /\ next' = next + 1
  /\ UNCHANGED <<cfgVars, shutdown, worker, batch, fileVars, day>>

WriteNotify_Not(t) ==  \* slip: the writer is not woken
  /\ thread[t] = "notify"
  /\ thread' = [thread EXCEPT ![t] = "idle"]
  /\ UNCHANGED <<queueVars, cfgVars, shutdown, worker, batch, fileVars, day>>

WriteNotify(t) ==
  /\ thread[t] = "notify"
  /\ thread' = [thread EXCEPT ![t] = "idle"]
  /\ worker' = IF worker = "asleep" THEN "ready" ELSE worker
  /\ UNCHANGED <<queueVars, cfgVars, shutdown, batch, fileVars, day>>

-----------------------------------------------------------------------------
(* Configure: the file's part under file_mutex_, then the three flags,     *)
(* relaxed stores that other threads may see in any order.                 *)

Configure_PartZero(c) ==  \* slip: parts are counted from zero
  /\ ~configured /\ ~shutdown
  /\ configured' = TRUE
  /\ cfg' = c
  /\ unset' = Flags
  /\ key' = NoFile /\ part' = 0 /\ lines' = 0 /\ file' = NoFile
  /\ UNCHANGED <<thread, queueVars, flags, shutdown, worker, batch, disk, output, day>>

Configure(c) ==
  /\ ~configured /\ ~shutdown
  /\ configured' = TRUE
  /\ cfg' = c
  /\ unset' = Flags
  /\ key' = NoFile /\ part' = 1 /\ lines' = 0 /\ file' = NoFile
  /\ UNCHANGED <<thread, queueVars, flags, shutdown, worker, batch, disk, output, day>>

ConfigureFlag(f) ==
  /\ f \in unset
  /\ unset' = unset \ {f}
  /\ flags' = [flags EXCEPT ![f] = cfg[f]]
  /\ UNCHANGED <<thread, queueVars, cfg, configured, shutdown, worker, batch, fileVars, day>>

-----------------------------------------------------------------------------
(* WorkerLoop.                                                             *)

\* slip: the batch is taken from the back of the queue
Take_Backwards ==
  /\ worker = "ready"
  /\ IF queue # <<>>
       THEN /\ worker' = "busy"
            /\ batch' = [i \in 1 .. Len(queue) |-> queue[Len(queue) + 1 - i]]
            /\ queue' = <<>>
       ELSE /\ worker' = IF shutdown THEN "exited" ELSE "asleep"
            /\ UNCHANGED <<queue, batch>>
  /\ UNCHANGED <<thread, next, dropped, cfgVars, shutdown, fileVars, day>>

\* slip: the writer stops without emptying the queue
Take_Stops ==
  /\ worker = "ready"
  /\ IF shutdown
       THEN worker' = "exited" /\ UNCHANGED <<queue, batch>>
       ELSE IF queue # <<>>
              THEN worker' = "busy" /\ batch' = queue /\ queue' = <<>>
              ELSE worker' = "asleep" /\ UNCHANGED <<queue, batch>>
  /\ UNCHANGED <<thread, next, dropped, cfgVars, shutdown, fileVars, day>>

\* Under queue_mutex_: wait, leave, or take all there is.
Take ==
  /\ worker = "ready"
  /\ IF queue # <<>>
       THEN worker' = "busy" /\ batch' = queue /\ queue' = <<>>
       ELSE /\ worker' = IF shutdown THEN "exited" ELSE "asleep"
            /\ UNCHANGED <<queue, batch>>
  /\ UNCHANGED <<thread, next, dropped, cfgVars, shutdown, fileVars, day>>

SpuriousWakeup ==
  /\ worker = "asleep"
  /\ worker' = "ready"
  /\ UNCHANGED <<thread, queueVars, cfgVars, shutdown, batch, fileVars, day>>

\* PurgeExpiredLogsLocked: today is parsed as YYYY-MM-DD, ten characters long.
Kept(files) == IF RetentionDays > 0 /\ DateLength = 10
                 THEN {f \in files : f.day >= day - RetentionDays}
                 ELSE files

\* The day a segment's key starts with, if the key is long enough to have one.
SegmentDate(k) == IF KeyLength >= 10 THEN k ELSE NoFile

\* slip: a key without a date is taken for today's
MaybeRotateByDate_Never == key = NoFile

MaybeRotateByDate == key = NoFile \/ SegmentDate(key) # day

Purged == IF MaybeRotateByDate THEN Kept(disk) ELSE disk

\* EnsureCurrentFileLocked: the part, and the file the next message goes to,
\* NoFile when it cannot be opened.
NextPart == IF MaybeRotateByDate /\ key # NoFile THEN 1 ELSE part

FilesFor ==
  IF MaybeRotateByDate THEN {NoFile, [day |-> day, part |-> NextPart]}
  ELSE IF file # NoFile THEN {file} ELSE {NoFile, [day |-> key, part |-> part]}

\* WritePayloadLocked writes m to f; the lines then in the file may rotate it.
WriteToFile(m, f) ==
  LET full    == (IF f = file /\ ~MaybeRotateByDate THEN lines ELSE 0) + m.lines
      rotated == [f EXCEPT !.part = NextPart + 1]
  IN /\ key' = IF MaybeRotateByDate THEN day ELSE key
     /\ \/ f = NoFile
           /\ file' = NoFile /\ part' = NextPart /\ disk' = Purged /\ UNCHANGED lines
        \/ f # NoFile /\ full < MaxLines
           /\ file' = f /\ part' = NextPart /\ disk' = Purged \cup {f} /\ lines' = full
        \/ f # NoFile /\ full >= MaxLines
           /\ part' = NextPart + 1
           /\ \/ file' = rotated /\ disk' = Purged \cup {f, rotated} /\ lines' = 0
              \/ file' = NoFile /\ disk' = Purged \cup {f} /\ lines' = full

Finish == batch' = Tail(batch) /\ worker' = IF Len(batch) = 1 THEN "ready" ELSE "busy"

\* One message of the batch, file logging on.
WritePayload ==
  /\ worker = "busy"
  /\ flags.enabled
  /\ LET m == Head(batch) IN
       IF cfg.enabled
         THEN \E f \in FilesFor :
                /\ WriteToFile(m, f)
                /\ output' = Append(output, [id |-> m.id, lines |-> m.lines, day |-> day, file |-> f])
         ELSE /\ output' = Append(output, [id |-> m.id, lines |-> m.lines, day |-> day, file |-> NoFile])
              /\ UNCHANGED <<key, part, lines, file, disk>>
  /\ Finish
  /\ UNCHANGED <<thread, queueVars, cfgVars, shutdown, day>>

\* One message of the batch, only for the console or for nobody.
EchoPayload ==
  /\ worker = "busy"
  /\ ~flags.enabled
  /\ output' = Append(output, [id |-> Head(batch).id, lines |-> Head(batch).lines, day |-> day,
                               file |-> NoFile])
  /\ Finish
  /\ UNCHANGED <<thread, queueVars, cfgVars, shutdown, key, part, lines, file, disk, day>>

-----------------------------------------------------------------------------
\* The destructor: sets the flag under queue_mutex_ and notifies; it then waits
\* for the thread.
Shutdown ==
  /\ ~shutdown /\ unset = {}
  /\ shutdown' = TRUE
  /\ worker' = IF worker = "asleep" THEN "ready" ELSE worker
  /\ UNCHANGED <<thread, queueVars, cfgVars, batch, fileVars, day>>

Midnight ==
  /\ day < MaxDay
  /\ day' = day + 1
  /\ UNCHANGED <<thread, queueVars, cfgVars, shutdown, worker, batch, fileVars>>

WorkerStep == Take \/ WritePayload \/ EchoPayload

Next ==
  \/ \E t \in Threads : WriteTest(t) \/ WriteNotify(t) \/ \E n \in Lengths : WriteQueue(t, n)
  \/ \E c \in Configs : Configure(c)
  \/ \E f \in Flags : ConfigureFlag(f)
  \/ WorkerStep
  \/ SpuriousWakeup
  \/ Shutdown
  \/ Midnight

Spec == Init /\ [][Next]_vars

\* Threads run: the writer goes on when it is awake, and a thread that has queued
\* a message gets to notify.  Spurious wakeups are not counted on.
Fairness == WF_vars(WorkerStep) /\ \A t \in Threads : WF_vars(WriteNotify(t))

FairSpec == Spec /\ Fairness

-----------------------------------------------------------------------------
Outputs == [id : 1 .. MaxMessages, lines : Lengths, day : Days, file : Files \cup {NoFile}]

TypeOK ==
  /\ thread \in [Threads -> {"idle", "tested", "notify"}]
  /\ queue \in Seq(Messages) /\ batch \in Seq(Messages)
  /\ next \in 1 .. MaxMessages + 1
  /\ dropped \subseteq 1 .. MaxMessages
  /\ flags \in [enabled : BOOLEAN, echo : BOOLEAN, cap : Nat] /\ unset \subseteq Flags
  /\ cfg \in [enabled : BOOLEAN, echo : BOOLEAN, cap : Nat] /\ configured \in BOOLEAN
  /\ shutdown \in BOOLEAN
  /\ worker \in {"ready", "asleep", "busy", "exited"}
  /\ key \in Days \cup {NoFile} /\ part \in Nat \ {0} /\ lines \in Nat
  /\ file \in Files \cup {NoFile} /\ disk \subseteq Files
  /\ day \in Days
  /\ output \in Seq(Outputs)

Ids(s) == [i \in 1 .. Len(s) |-> s[i].id]

\* Messages are written in the order they were queued, whatever threads queue
\* them and however batches and overflows cut the queue.
InOrder ==
  LET s == Ids(output) \o Ids(batch) \o Ids(queue) IN
    \A i, j \in 1 .. Len(s) : i < j => s[i] < s[j]

\* README.md: when the queue is full the oldest message is dropped.  One is pushed
\* out only when as many newer ones as the capacity of that moment are queued,
\* although Configure may have changed the capacity since it was queued (Write).
DropsMakeRoom ==
  [][\A d \in dropped' \ dropped : flags.cap > 0 /\ d + flags.cap < next']_vars

\* A message is never written to the file of another day.
RightDay == \A i \in 1 .. Len(output) : output[i].file # NoFile => output[i].file.day = output[i].day

\* A message is done with: pushed out of the queue, or written.
Settled(i) == i \in dropped \/ \E j \in 1 .. Len(output) : output[j].id = i

\* The writer thread ends only when every message queued so far is done with:
\* those queued between the destructor's flag and its last look included.
NothingLeft == [][worker # "exited" /\ worker' = "exited" => \A i \in 1 .. next - 1 : Settled(i)]_vars

\* A message queued before the writer thread ends does not wait for ever: no
\* wakeup is lost, neither Write's nor the destructor's.
Delivered == \A i \in 1 .. MaxMessages : (i < next /\ worker # "exited") ~> Settled(i)

=============================================================================
