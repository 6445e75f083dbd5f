------------------------------ MODULE SiemQueue -----------------------------
(***************************************************************************)
(* The retry queue of the SIEM push (gateway/channels/siem_push.py and     *)
(* siem_queue.py): a push that fails is appended to a file, a flush loads  *)
(* the file, posts what is due, and rewrites the file with what is left.   *)
(* A lock of the module keeps the threads of one process apart; processes  *)
(* share only the file.  A process may end and a write may fail anywhere.  *)
(***************************************************************************)
EXTENDS Naturals, Sequences, FiniteSets

CONSTANTS Pushers,      \* the threads that push
          Flushers,     \* the threads that flush
          Processes,    \* the processes they run in
          ProcessOf,    \* thread -> its process
          MaxBodies,    \* bound on the pushes
          MaxAttempts,  \* failed posts of a flush until a row is given up, 8
          MaxRows,      \* bound on the rows of a file written by two at a time
          MaxItems,     \* posts a flush may succeed in
          MaxFlushes,   \* bound on the flushes
          MaxFaults,    \* bound on the ends of processes and the failing writes
          NoThread

Threads == Pushers \cup Flushers
Bodies == 1 .. MaxBodies

Configured ==
  /\ ProcessOf \in [Threads -> Processes]
  /\ MaxBodies \in Nat /\ MaxRows \in Nat /\ MaxAttempts \in Nat \ {0}
  /\ MaxItems \in Nat \ {0}
  /\ MaxFlushes \in Nat /\ MaxFaults \in Nat
  /\ NoThread \notin Threads
ASSUME SiemAssumption == Configured

VARIABLES file,         \* the queue: the rows a load finds in it
          tail,         \* its last line: "whole", "bare" (a row that lacks the
                        \* newline) or "cut" (a part of a row, lacking it too)
          lock,         \* process -> the thread in the locked part,
                        \* or NoThread
          thread,       \* the local state of a thread
          pushed,       \* the number of pushes so far
          flushes,      \* the number of flushes so far
          faults,       \* the number of ended processes and failed writes so far
          posts,        \* history: body -> how often the SIEM took it (2: more)
          givenUp,      \* history: the bodies dropped after MaxAttempts
          gone,         \* history: bodies lost to a fault or another process
          unsure        \* history: bodies whose delivery was not recorded
queueVars ==
  <<file, tail, lock, thread, pushed, flushes, faults, posts, givenUp, gone,
    unsure>>

\* A row notes the process that wrote it last: history, not in the file.
Row(b, n, p) == [body |-> b, attempts |-> n, writer |-> p]
Rows == [body : Bodies, attempts : 0 .. MaxAttempts, writer : Processes]
BodiesIn(s) == {s[i].body : i \in DOMAIN s}

FreeThread == [at |-> "idle", body |-> 0, loaded |-> {}, rows |-> <<>>,
               kept |-> <<>>, flushed |-> 0]

QueueTypeOK ==
  /\ file \in Seq(Rows)
  /\ tail \in {"whole", "bare", "cut"}
  /\ lock \in [Processes -> Threads \cup {NoThread}]
  /\ pushed \in 0 .. MaxBodies
  /\ flushes \in 0 .. MaxFlushes
  /\ faults \in 0 .. MaxFaults
  /\ posts \in [Bodies -> 0 .. 2]
  /\ givenUp \subseteq Bodies
  /\ gone \subseteq Bodies
  /\ unsure \subseteq Bodies

QueueInit ==
  /\ file = <<>>
  /\ tail = "whole"
  /\ lock = [p \in Processes |-> NoThread]
  /\ thread = [t \in Threads |-> FreeThread]
  /\ pushed = 0
  /\ flushes = 0
  /\ faults = 0
  /\ posts = [b \in Bodies |-> 0]
  /\ givenUp = {}
  /\ gone = {}
  /\ unsure = {}

My(t) == ProcessOf[t]
Locked(t) == lock[My(t)] # NoThread
Took(b) == posts' = [posts EXCEPT ![b] = IF @ = 2 THEN 2 ELSE @ + 1]

-----------------------------------------------------------------------------
(* push_trace and enqueue_failed.                                          *)

\* The SIEM takes the body, or refuses it, or takes it and its answer is lost.
Push(t) ==
  /\ t \in Pushers
  /\ thread[t] = FreeThread
  /\ pushed < MaxBodies
  /\ pushed' = pushed + 1
  /\ LET b == pushed + 1
         failed == [thread EXCEPT ![t] = [FreeThread EXCEPT !.at = "append",
                                                            !.body = b]]
     IN  \/ Took(b) /\ UNCHANGED <<thread, unsure>>
         \/ thread' = failed /\ UNCHANGED <<posts, unsure>>
         \/ Took(b) /\ thread' = failed /\ unsure' = unsure \cup {b}
  /\ UNCHANGED <<file, tail, lock, flushes, faults, givenUp, gone>>

\* A slip: the append does not wait for a flush of the process to end.
MayAppendSlip(t) == thread[t].at = "append"
MayAppend(t) == thread[t].at = "append" /\ ~Locked(t)

\* A line is written after what the file ends in: a line that lacks its newline
\* and this one are one line then, which no load reads.
Readable == IF tail = "bare" THEN SubSeq(file, 1, Len(file) - 1) ELSE file
Appended(r) == IF tail = "whole" THEN Append(file, r) ELSE Readable

\* What was in the file, or in the hands of who wrote it, and is not in it now.
Lost(hands) == gone' = gone \cup ((BodiesIn(file) \cup hands) \ BodiesIn(file'))

NewRow(t) == Row(thread[t].body, 0, My(t))

Enqueue(t) ==
  /\ MayAppend(t)
  /\ file' = Appended(NewRow(t))
  /\ tail' = "whole"
  /\ Lost({thread[t].body})
  /\ thread' = [thread EXCEPT ![t] = FreeThread]
  /\ UNCHANGED <<lock, pushed, flushes, faults, posts, givenUp, unsure>>

\* The write of the line breaks off: before its first byte, amid the line or before
\* its newline.
AppendBreaks(t) ==
  \/ UNCHANGED <<file, tail>>
  \/ file' = Readable /\ tail' = "cut"
  \/ tail = "whole" /\ file' = Append(file, NewRow(t)) /\ tail' = "bare"

\* The open or the write raises; push_trace swallows it.
EnqueueFails(t) ==
  /\ MayAppend(t)
  /\ faults < MaxFaults
  /\ faults' = faults + 1
  /\ AppendBreaks(t)
  /\ Lost({thread[t].body})
  /\ thread' = [thread EXCEPT ![t] = FreeThread]
  /\ UNCHANGED <<lock, pushed, flushes, posts, givenUp, unsure>>

-----------------------------------------------------------------------------
(* flush_siem_queue.                                                       *)

Flushing(t) == thread[t].at \in {"flush", "save"}

\* Another process may be in a flush of its own over the same rows.
Load(t) ==
  /\ t \in Flushers
  /\ thread[t] = FreeThread
  /\ ~Locked(t)
  /\ flushes < MaxFlushes
  /\ flushes' = flushes + 1
  /\ lock' = [lock EXCEPT ![My(t)] = t]
  /\ thread' = [thread EXCEPT ![t] =
       [FreeThread EXCEPT !.at = "flush", !.rows = file,
                          !.loaded = BodiesIn(file)]]
  /\ unsure' = unsure \cup
       {b \in BodiesIn(file) :
          \E u \in Threads \ {t} : Flushing(u) /\ b \in thread[u].loaded}
  /\ UNCHANGED <<file, tail, pushed, faults, posts, givenUp, gone>>

\* The steps of a flush take the next row of those it loaded.
FirstRow(t) == Head(thread[t].rows)
Drop(t) == thread' = [thread EXCEPT ![t].rows = Tail(@)]
Keep(t, n) ==
  thread' = [thread EXCEPT ![t].rows = Tail(@),
                           ![t].kept =
                             Append(@, Row(FirstRow(t).body, n, My(t)))]
InRows(t) == thread[t].at = "flush" /\ thread[t].rows # <<>>

\* Not due yet, or enough was posted.
Later(t) ==
  /\ InRows(t)
  /\ Keep(t, FirstRow(t).attempts)
  /\ UNCHANGED <<file, tail, lock, pushed, flushes, faults, posts, givenUp, gone,
                 unsure>>

\* A slip: the row is kept as well.
PostSlip(t) ==
  /\ InRows(t)
  /\ thread[t].flushed < MaxItems
  /\ Took(FirstRow(t).body)
  /\ Keep(t, FirstRow(t).attempts)
  /\ UNCHANGED <<file, tail, lock, pushed, flushes, faults, givenUp, gone,
                 unsure>>

Post(t) ==
  /\ InRows(t)
  /\ thread[t].flushed < MaxItems
  /\ Took(FirstRow(t).body)
  /\ thread' = [thread EXCEPT ![t].rows = Tail(@), ![t].flushed = @ + 1]
  /\ UNCHANGED <<file, tail, lock, pushed, flushes, faults, givenUp, gone,
                 unsure>>

\* The post fails, or its answer is lost: one attempt more, and the last one
\* gives the row up.
PostFails(t) ==
  /\ InRows(t)
  /\ thread[t].flushed < MaxItems
  /\ LET b == FirstRow(t).body
         n == FirstRow(t).attempts + 1
     IN  /\ \/ Took(b) /\ unsure' = unsure \cup {b}
            \/ UNCHANGED <<posts, unsure>>
         /\ \/ n >= MaxAttempts /\ Drop(t) /\ givenUp' = givenUp \cup {b}
            \/ n < MaxAttempts /\ Keep(t, n) /\ UNCHANGED givenUp
  /\ UNCHANGED <<file, tail, lock, pushed, flushes, faults, gone>>

\* _save_rows opens the file for writing, which empties it, and writes the rows
\* when it closes it.  What another process put there since the load is lost.
Foreign(t) == {file[i].body : i \in {j \in DOMAIN file :
                 /\ file[j].writer # My(t)
                 /\ file[j].body \notin BodiesIn(thread[t].kept)}}

Truncate(t) ==
  /\ thread[t].at = "flush"
  /\ thread[t].rows = <<>>
  /\ gone' = gone \cup Foreign(t)
  /\ file' = <<>>
  /\ tail' = "whole"
  /\ thread' = [thread EXCEPT ![t].at = "save"]
  /\ UNCHANGED <<lock, pushed, flushes, faults, posts, givenUp, unsure>>

LeaveFlush(t) ==
  /\ thread' = [thread EXCEPT ![t] = FreeThread]
  /\ lock' = [lock EXCEPT ![My(t)] = NoThread]

\* The open raises: the file stays as it was, with the rows that were posted.
TruncateFails(t) ==
  /\ thread[t].at = "flush"
  /\ thread[t].rows = <<>>
  /\ faults < MaxFaults
  /\ faults' = faults + 1
  /\ unsure' = unsure \cup (thread[t].loaded \ BodiesIn(thread[t].kept))
  /\ LeaveFlush(t)
  /\ UNCHANGED <<file, tail, pushed, flushes, posts, givenUp, gone>>

\* The first k rows are written, over the first j of those that another process
\* put there since the file was emptied.
Overwrite(t, k, j) ==
  /\ k > 0 /\ file # <<>> => j > 0
  /\ j < Len(file) => k + Len(file) - j <= MaxRows
  /\ file' = SubSeq(thread[t].kept, 1, k) \o SubSeq(file, j + 1, Len(file))

\* All the rows are written.  What they leave of the last line of another process
\* is whole or cut as that line was.
Save(t) ==
  /\ thread[t].at = "save"
  /\ \E j \in 0 .. Len(file) :
       /\ Overwrite(t, Len(thread[t].kept), j)
       /\ \/ j < Len(file) /\ tail' = tail
          \/ j = Len(file) /\ tail' = "whole"
          \/ j = Len(file) /\ tail # "whole" /\ tail' = "cut"
       /\ thread[t].kept = <<>> => j = 0 /\ tail' = tail
  /\ Lost({})
  /\ LeaveFlush(t)
  /\ UNCHANGED <<pushed, flushes, faults, posts, givenUp, unsure>>

\* The write of the rows breaks off anywhere.
SaveBreaks(t) ==
  \E k \in 0 .. Len(thread[t].kept), j \in 0 .. Len(file) :
    /\ Overwrite(t, k, j)
    /\ \/ j < Len(file) /\ tail' = tail
       \/ j = Len(file) /\ tail' \in {"whole", "cut"}
       \/ j = Len(file) /\ k > 0 /\ tail' = "bare"

\* The write raises.
SaveFails(t) ==
  /\ thread[t].at = "save"
  /\ faults < MaxFaults
  /\ faults' = faults + 1
  /\ SaveBreaks(t)
  /\ Lost(BodiesIn(thread[t].kept))
  /\ LeaveFlush(t)
  /\ UNCHANGED <<pushed, flushes, posts, givenUp, unsure>>

-----------------------------------------------------------------------------
\* A process ends amid a push or a flush.  What its threads held in memory alone
\* is gone; a write that was under way breaks off.
Saving(p) == {t \in Threads : My(t) = p /\ thread[t].at = "save"}
Appending(p) == {t \in Threads : My(t) = p /\ thread[t].at = "append"}

WriteBreaks(p) ==
  \/ \E t \in Saving(p) : SaveBreaks(t)
  \/ \E t \in Appending(p) : ~Locked(t) /\ AppendBreaks(t)
  \/ Saving(p) = {} /\ UNCHANGED <<file, tail>>

EndProcess(p) ==
  /\ faults < MaxFaults
  /\ \E t \in Threads : My(t) = p /\ thread[t] # FreeThread
  /\ faults' = faults + 1
  /\ WriteBreaks(p)
  /\ Lost((UNION {BodiesIn(thread[t].kept) : t \in Saving(p)})
            \cup {thread[t].body : t \in Appending(p)})
  /\ unsure' = unsure \cup (UNION {thread[t].loaded :
                      t \in {u \in Threads : My(u) = p /\ Flushing(u)}})
  /\ thread' = [t \in Threads |-> IF My(t) = p THEN FreeThread ELSE thread[t]]
  /\ lock' = [lock EXCEPT ![p] = NoThread]
  /\ UNCHANGED <<pushed, flushes, posts, givenUp>>

QueueNext ==
  \/ \E t \in Threads :
       \/ Push(t) \/ Enqueue(t) \/ EnqueueFails(t)
       \/ Load(t) \/ Later(t) \/ Post(t) \/ PostFails(t)
       \/ Truncate(t) \/ TruncateFails(t) \/ Save(t) \/ SaveFails(t)
  \/ \E p \in Processes : EndProcess(p)

QueueSpec == QueueInit /\ [][QueueNext]_queueVars

-----------------------------------------------------------------------------
\* A push that failed is never forgotten by the threads of one process: it is
\* queued, held by a flush, delivered or given up after MaxAttempts - unless a
\* fault lost it (its append or the save that held it raised, siem_push.py:89 and
\* siem_queue.py:76-78; its process ended; it stood in, or was written after, a line
\* that a fault left without a newline, siem_queue.py:65-70), or another process
\* rewrote the file meanwhile (siem_queue.py:103: the lock is of one process).
Held(t) ==
  BodiesIn(thread[t].rows) \cup BodiesIn(thread[t].kept)
    \cup (IF thread[t].at = "append" THEN {thread[t].body} ELSE {})
NothingForgotten ==
  \A b \in 1 .. pushed :
    \/ posts[b] > 0
    \/ b \in BodiesIn(file) \cup givenUp \cup gone
    \/ \E t \in Threads : b \in Held(t)

\* The SIEM gets a body twice only when an answer was lost, a process ended or
\* could not open the file between a post and its rewrite, or two processes flushed
\* the same rows.
TwiceOnlyUnsure == \A b \in Bodies : posts[b] > 1 => b \in unsure
=============================================================================
