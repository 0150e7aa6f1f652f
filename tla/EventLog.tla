------------------------------ MODULE EventLog ------------------------------
(***************************************************************************)
(* eventlog/logger.go: the event log, its rotation and its live streams.   *)
(* The current file (number 0) and at most Backups older ones hold the     *)
(* events in the order they were written.  A rotation closes the current   *)
(* file, removes the oldest one, renames the others upwards and opens a    *)
(* new one; Clear removes every file and begins with an audit event.  Any  *)
(* of these steps may fail; the logger then reopens what has the current   *)
(* name, unless that fails too: from then on its handle is closed and every *)
(* write is refused until the next start.  What touches the files runs     *)
(* under the logger's mutex, so each such operation is one step; a step    *)
(* that the process does not survive leaves the files half renamed.        *)
(*                                                                         *)
(* Streams (Subscribe) are channels of Buffer events; a write never waits  *)
(* for their readers: it drops the oldest event of a full channel.  It     *)
(* holds both mutexes while it tells the streams one after the other, but  *)
(* a reader takes from its channel with no lock (admin/logstream.go): a    *)
(* write tries a channel, drops and tries again in three steps, between    *)
(* which the reader goes on.                                               *)
(*                                                                         *)
(* Events are numbered in the order they are written and every line has    *)
(* the same length: maxBytes is MaxLines of them.  A line is written whole *)
(* or not at all: a part of one that stays when the disk is full, and what *)
(* is written behind it, are not modelled (writeLocked).                   *)
(***************************************************************************)
EXTENDS Integers, Sequences

CONSTANTS Backups,     \* rotated files that are kept (production: 5)
          MaxLines,    \* lines a file may hold
          Buffer,      \* events a channel may hold
          Readers,     \* holders of subscriptions
          MaxEvents,   \* bound: events that are written
          MaxFaults    \* bound: failing file operations and crashes

VARIABLES
  files,      \* the files there are: the events in each, by file number
  usable,     \* the handle of the current file is open
  size,       \* the logger's idea of the size of the current file
  last,       \* history: the number of the last event
  kept,       \* history: the events that reached a file
  cleared,    \* history: the events that a Clear removed
  published,  \* history: the events that streams were told, in order
  open,       \* the readers with a subscription
  queue,      \* the channel of each
  seen,       \* history: how many of the published events each reader is past
  step,       \* what the write in progress does next with the channel of each
  lagged,     \* history: the readers whose channel was found full since they last received
  faults      \* how many operations have failed

logVars == <<files, usable, size, last, kept, cleared>>
streamVars == <<published, open, queue, seen, step, lagged>>
vars == <<logVars, streamVars, faults>>

Init ==
  /\ files = [i \in {0} |-> <<>>] /\ usable = TRUE /\ size = 0
  /\ last = 0 /\ kept = {} /\ cleared = {}
  /\ published = <<>> /\ open = {}
  /\ queue = [r \in Readers |-> <<>>] /\ seen = [r \in Readers |-> 0]
  /\ step = [r \in Readers |-> "idle"] /\ lagged = {}
  /\ faults = 0

MayFail(n) == faults + n <= MaxFaults /\ faults' = faults + n
Lines(fs) == UNION {{fs[i][k] : k \in DOMAIN fs[i]} : i \in DOMAIN fs}

(***************************************************************************)
(* Streams                                                                 *)
(***************************************************************************)
\* no write is telling the streams: both mutexes can be had
Quiet == \A r \in Readers : step[r] = "idle"

\* notifySubscribersLocked begins
Publish(e) ==
  /\ published' = Append(published, e)
  /\ step' = [r \in Readers |-> IF r \in open THEN "offer" ELSE "idle"]
  /\ UNCHANGED <<queue, lagged>>

Newest == published[Len(published)]
Sends(r) == queue' = [queue EXCEPT ![r] = Append(@, Newest)]
Goes(r, next) == step' = [step EXCEPT ![r] = next]

\* Mutant: an event that does not fit is the one that is dropped
OfferOnce(r) ==
  /\ step[r] = "offer" /\ \A o \in Readers : step[o] \in {"idle", "offer"}
  /\ IF Len(queue[r]) < Buffer THEN Sends(r) /\ UNCHANGED lagged
     ELSE lagged' = lagged \cup {r} /\ UNCHANGED queue
  /\ Goes(r, "idle")
  /\ UNCHANGED <<logVars, published, open, seen, faults>>

\* the first select: the event goes into the channel, or the channel is full
Offer(r) ==
  /\ step[r] = "offer" /\ \A o \in Readers : step[o] \in {"idle", "offer"}
  /\ IF Len(queue[r]) < Buffer
     THEN Sends(r) /\ Goes(r, "idle") /\ UNCHANGED lagged
     ELSE Goes(r, "drop") /\ lagged' = lagged \cup {r} /\ UNCHANGED queue
  /\ UNCHANGED <<logVars, published, open, seen, faults>>

\* the second: the oldest event goes, if the reader has left one
Drop(r) ==
  /\ step[r] = "drop"
  /\ queue' = [queue EXCEPT ![r] = IF @ = <<>> THEN @ ELSE Tail(@)]
  /\ Goes(r, "retry")
  /\ UNCHANGED <<logVars, published, open, seen, lagged, faults>>

\* the third; an event that does not fit now either is lost
Retry(r) ==
  /\ step[r] = "retry"
  /\ IF Len(queue[r]) < Buffer THEN Sends(r) ELSE UNCHANGED queue
  /\ Goes(r, "idle")
  /\ UNCHANGED <<logVars, published, open, seen, lagged, faults>>

Subscribe(r) ==
  /\ Quiet /\ r \notin open
  /\ open' = open \cup {r}
  /\ seen' = [seen EXCEPT ![r] = Len(published)]
  /\ UNCHANGED <<logVars, published, queue, step, lagged, faults>>

\* the reader takes the next event, whatever the write in progress is about to do;
\* everything older is behind it
Receive(r) ==
  /\ r \in open /\ queue[r] # <<>>
  /\ queue' = [queue EXCEPT ![r] = Tail(@)]
  /\ seen' = [seen EXCEPT ![r] =
       CHOOSE k \in DOMAIN published : published[k] = Head(queue[r])]
  /\ lagged' = IF step[r] = "drop" THEN lagged ELSE lagged \ {r}
  /\ UNCHANGED <<logVars, published, open, step, faults>>

Unsubscribe(r) ==
  /\ Quiet /\ r \in open
  /\ open' = open \ {r}
  /\ queue' = [queue EXCEPT ![r] = <<>>] /\ seen' = [seen EXCEPT ![r] = 0]
  /\ lagged' = lagged \ {r}
  /\ UNCHANGED <<logVars, published, step, faults>>

(***************************************************************************)
(* Files                                                                   *)
(***************************************************************************)
\* Mutant: the renames begin with the current file and overwrite the others
ShiftedUpwards(k) ==
  IF k = 0 THEN files
  ELSE [i \in {k - 1} \cup {j \in DOMAIN files : j >= k /\ j # Backups} |->
          files[IF i = k - 1 THEN 0 ELSE i]]

\* rotateLocked: the files after its first k steps.  The first removes the
\* oldest; each of the others renames the next older file to the number above,
\* which is free by then; a file that is missing is passed over
Shifted(k) ==
  LET free == Backups + 1 - k
      from(i) == IF i > free THEN i - 1 ELSE i
  IN  IF k = 0 THEN files
      ELSE [i \in {j \in 0..Backups : j # free /\ from(j) \in DOMAIN files} |-> files[from(i)]]

\* a file with the current name, created when there is none
WithCurrent(fs) == [i \in DOMAIN fs \cup {0} |-> IF i \in DOMAIN fs THEN fs[i] ELSE <<>>]

\* reopenCurrentLocked after a failure, and New at a start
Reopen(fs) ==
  /\ files' = WithCurrent(fs) /\ usable' = TRUE /\ size' = Len(WithCurrent(fs)[0])

\* an operation fails after it has left the files as fs, and is recovered from;
\* or the file cannot be opened again either
Recover(fs) ==
  \/ MayFail(1) /\ Reopen(fs)
  \/ MayFail(2) /\ files' = fs /\ usable' = FALSE /\ size' = size

MustRotate == size > 0 /\ size + 1 > MaxLines
Ready == IF MustRotate THEN WithCurrent(Shifted(Backups + 1)) ELSE files
Persist ==
  /\ Quiet /\ usable /\ last < MaxEvents /\ last' = last + 1
  /\ files' = [Ready EXCEPT ![0] = Append(@, last + 1)]
  /\ size' = (IF MustRotate THEN 0 ELSE size) + 1
  /\ kept' = kept \cup {last + 1}
  /\ UNCHANGED <<usable, cleared, open, seen>>

\* writeLocked, after a rotation when the line does not fit
Write == Persist /\ Publish(last + 1) /\ UNCHANGED faults

\* the line is in the file but not on the standard output: the caller gets an
\* error and the streams are not told
WriteHalf == Persist /\ MayFail(1) /\ UNCHANGED <<published, queue, step, lagged>>

\* the line cannot be written; a rotation before it stays
WriteFails ==
  /\ Quiet /\ usable /\ MayFail(1)
  /\ files' = Ready /\ size' = (IF MustRotate THEN 0 ELSE size)
  /\ UNCHANGED <<usable, last, kept, cleared, streamVars>>

\* rotateLocked fails after k of its steps; the event is refused
RotateFails(k) ==
  /\ Quiet /\ usable /\ MustRotate
  /\ Recover(Shifted(k))
  /\ UNCHANGED <<last, kept, cleared, streamVars>>

\* Clear: every file is removed and the first event says who did it
Clear ==
  /\ Quiet /\ usable /\ last < MaxEvents /\ last' = last + 1
  /\ files' = [i \in {0} |-> <<last + 1>>] /\ size' = 1
  /\ kept' = kept \cup {last + 1} /\ cleared' = cleared \cup Lines(files)
  /\ Publish(last + 1)
  /\ UNCHANGED <<usable, open, seen, faults>>

\* Clear fails after it has removed the files below k
ClearFails(k) ==
  LET left == [i \in {j \in DOMAIN files : j >= k} |-> files[i]] IN
  /\ Quiet /\ usable
  /\ Recover(left)
  /\ cleared' = cleared \cup (Lines(files) \ Lines(left))
  /\ UNCHANGED <<last, kept, streamVars>>

\* the process ends, k steps into a rotation if one was due; subscriptions end
\* with it and New opens the file again
Restart(k) ==
  /\ MayFail(1)
  /\ k > 0 => Quiet /\ usable /\ MustRotate
  /\ Reopen(Shifted(k))
  /\ open' = {} /\ published' = <<>>
  /\ queue' = [r \in Readers |-> <<>>] /\ seen' = [r \in Readers |-> 0]
  /\ step' = [r \in Readers |-> "idle"] /\ lagged' = {}
  /\ UNCHANGED <<last, kept, cleared>>

Steps == 0..(Backups + 1)
Next ==
  \/ \E r \in Readers : \/ Subscribe(r) \/ Receive(r) \/ Unsubscribe(r)
                        \/ Offer(r) \/ Drop(r) \/ Retry(r)
  \/ Write \/ WriteHalf \/ WriteFails \/ Clear
  \/ \E k \in Steps : RotateFails(k) \/ ClearFails(k) \/ Restart(k)

Spec == Init /\ [][Next]_vars

(***************************************************************************)
(* Properties                                                              *)
(***************************************************************************)
\* Whatever fails in a rotation or a Clear, and wherever the process dies, no
\* event gets lost between others: an event that reached a file and is gone was
\* cleared or is older than every event that is left, and the files, from the
\* oldest to the current one, hold the events in the order they were written.
\* Until something fails the files hold at least what fills the older ones.
OnlyTheOldestGo ==
  /\ \A e \in (kept \ cleared) \ Lines(files) :
       /\ \A d \in Lines(files) : e < d
       /\ faults = 0 => e + Backups * MaxLines <= last
  /\ \A i, j \in DOMAIN files : \A a \in DOMAIN files[i], b \in DOMAIN files[j] :
       (i > j \/ (i = j /\ a < b)) => files[i][a] < files[j][b]

\* However slow its reader, and whenever it takes an event while one is written, the channel of
\* a stream holds the last of the events that its write has told, in order and without a gap.
\* Of those after the last one received some are missing only if the channel was found full
\* since; the newest never is, and more than one only when the channel is full: a reader that
\* makes room in the middle of a write costs itself one event.
StreamIsNewest ==
  \A r \in open :
    LET told == IF step[r] = "idle" THEN Len(published) ELSE Len(published) - 1
        n == Len(queue[r])
        missing == told - (seen[r] + n)
    IN  /\ queue[r] = SubSeq(published, told - n + 1, told)
        /\ missing >= 0
        /\ missing > 0 => r \in lagged
        /\ missing > 0 /\ step[r] = "idle" => n > 0
        /\ missing > 1 /\ step[r] = "idle" => n = Buffer
=============================================================================
