------------------------------ MODULE Transfer ------------------------------
(***************************************************************************)
(* The transfer of sealed evidence (adapters/audit/transfer_pipeline.py    *)
(* and transfer_ledger.py).  An executor - a chat command or the script,   *)
(* in a process of its own - reads the intent in the ledger, copies the    *)
(* files of the sealed segments it finds into the outbox of the transfer,  *)
(* one at a time and only where no file of that name lies there yet, may   *)
(* PUT the first copy, writes the manifest and marks the ledger.  A copy   *)
(* can stop half-way, by an error or with its process, and two executors   *)
(* may run the same transfer.                                              *)
(***************************************************************************)
EXTENDS Naturals

CONSTANTS Transfers,    \* the intents
          Executors,    \* the processes that execute them
          MaxSegment,   \* bound on the sealed segments
          MaxRuns,      \* bound on the executions of one transfer
          None

\* A segment is a JSONL file and its manifest, copied in that order and in the
\* order of the segments.
Segments == 1 .. MaxSegment
Files == Segments \X {"jsonl", "manifest"}
Rank(f) == 2 * f[1] + (IF f[2] = "jsonl" THEN 0 ELSE 1)
First(files) == CHOOSE f \in files : \A g \in files : Rank(f) <= Rank(g)
Backends == {"local_copy", "http_put", "http_put without url"}

ASSUME TransferAssumption ==
         /\ MaxSegment \in Nat /\ MaxRuns \in Nat
         /\ None \notin Executors

\* A file of an outbox is absent, being written (the last executor that opened
\* it, which truncates it), cut short, or whole.
Writing(e) == <<"writing", e>>
Absent == <<"absent", None>>
Torn == <<"torn", None>>
Whole == <<"whole", None>>
FileStates == {Absent, Torn, Whole} \cup {Writing(e) : e \in Executors}

VARIABLES sealed,       \* the number of sealed segments
          status,       \* the ledger's status of a transfer
          outbox,       \* transfer -> file -> its state
          listed,       \* transfer -> the files its manifest names
          owed,         \* history: those the run that marked it was to copy
          executor,     \* the local state of an execution
          runs,         \* how often a transfer was executed
          sent,         \* history: what was PUT, <<transfer, file, content>>
          raced         \* history: <<transfer, file>> two executors opened
vars == <<sealed, status, outbox, listed, owed, executor, runs, sent, raced>>

Idle == [at |-> "idle", transfer |-> None, backend |-> None,
         todo |-> {}, copied |-> {}, asked |-> {}]
Executions ==
  [at : {"idle", "copy", "open", "write", "send", "name", "mark", "fail"},
   transfer : Transfers \cup {None}, backend : Backends \cup {None},
   todo : SUBSET Files, copied : SUBSET Files, asked : SUBSET Files]

TypeOK ==
  /\ sealed \in 0 .. MaxSegment
  /\ status \in [Transfers -> {"none", "recorded", "executed", "failed"}]
  /\ outbox \in [Transfers -> [Files -> FileStates]]
  /\ listed \in [Transfers -> SUBSET Files]
  /\ owed \in [Transfers -> SUBSET Files]
  /\ executor \in [Executors -> Executions]
  /\ runs \in [Transfers -> 0 .. MaxRuns]
  /\ sent \subseteq Transfers \X Files \X FileStates
  /\ raced \subseteq Transfers \X Files

Init ==
  /\ sealed = 0
  /\ status = [t \in Transfers |-> "none"]
  /\ outbox = [t \in Transfers |-> [f \in Files |-> Absent]]
  /\ listed = [t \in Transfers |-> {}]
  /\ owed = [t \in Transfers |-> {}]
  /\ executor = [e \in Executors |-> Idle]
  /\ runs = [t \in Transfers |-> 0]
  /\ sent = {}
  /\ raced = {}

-----------------------------------------------------------------------------
(* The intents and the archive.                                            *)

RecordIntent(t) ==
  /\ status[t] = "none"
  /\ status' = [status EXCEPT ![t] = "recorded"]
  /\ UNCHANGED <<sealed, outbox, listed, owed, executor, runs, sent, raced>>

\* A segment is listed once its manifest is complete.
Seal ==
  /\ sealed < MaxSegment
  /\ sealed' = sealed + 1
  /\ UNCHANGED <<status, outbox, listed, owed, executor, runs, sent, raced>>

-----------------------------------------------------------------------------
(* execute_transfer.                                                       *)

\* A slip: a segment whose JSONL file lies in the outbox counts as copied.
FilesOfSlip(t, chosen) ==
  {f \in Files : f[1] \in chosen /\ outbox[t][<<f[1], "jsonl">>] = Absent}

FilesOf(t, chosen) == {f \in Files : f[1] \in chosen}

\* The intent is read, its status is checked, and the segments are listed: all
\* that are sealed, or those of them the script names.  The configuration, the
\* backend with it, is read anew by every execution.
Begin(e, t) ==
  /\ executor[e] = Idle
  /\ status[t] \in {"recorded", "failed"}
  /\ runs[t] < MaxRuns
  /\ runs' = [runs EXCEPT ![t] = @ + 1]
  /\ \E b \in Backends, chosen \in SUBSET (1 .. sealed) :
       executor' = [executor EXCEPT ![e] =
         [at |-> "copy", transfer |-> t, backend |-> b,
          todo |-> FilesOf(t, chosen), copied |-> {},
          asked |-> {f \in Files : f[1] \in chosen}]]
  /\ UNCHANGED <<sealed, status, outbox, listed, owed, sent, raced>>

\* The local steps of an execution read the record of its executor.
In(e, place) == executor[e].at = place
File(e) == First(executor[e].todo)
Lies(e) == outbox[executor[e].transfer][File(e)]
Put(e, s) ==
  outbox' = [outbox EXCEPT ![executor[e].transfer][File(e)] = s]
Go(e, place) == executor' = [executor EXCEPT ![e].at = place]
Fail(e) == Go(e, "fail")

\* A name that is taken is skipped, whatever lies there.
\* A slip: it counts as copied.
SkipSlip(e) ==
  /\ In(e, "copy")
  /\ executor[e].todo # {}
  /\ Lies(e) # Absent
  /\ executor' = [executor EXCEPT ![e].todo = @ \ {File(e)},
                                  ![e].copied = @ \cup {File(e)}]
  /\ UNCHANGED <<sealed, status, outbox, listed, owed, runs, sent, raced>>

Skip(e) ==
  /\ In(e, "copy")
  /\ executor[e].todo # {}
  /\ Lies(e) # Absent
  /\ executor' = [executor EXCEPT ![e].todo = @ \ {File(e)}]
  /\ UNCHANGED <<sealed, status, outbox, listed, owed, runs, sent, raced>>

\* The name is free: shutil.copy2 follows, a step later.
Found(e) ==
  /\ In(e, "copy")
  /\ executor[e].todo # {}
  /\ Lies(e) = Absent
  /\ Go(e, "open")
  /\ UNCHANGED <<sealed, status, outbox, listed, owed, runs, sent, raced>>

\* Opening truncates what another executor may have put there meanwhile.
Open(e) ==
  /\ In(e, "open")
  /\ raced' = IF Lies(e) = Absent
              THEN raced ELSE raced \cup {<<executor[e].transfer, File(e)>>}
  /\ Put(e, Writing(e))
  /\ Go(e, "write")
  /\ UNCHANGED <<sealed, status, listed, owed, runs, sent>>

\* The last to open a file has written all of it when it is done.
Copied(e) ==
  /\ In(e, "write")
  /\ IF Lies(e) = Writing(e) THEN Put(e, Whole) ELSE UNCHANGED outbox
  /\ executor' = [executor EXCEPT ![e].at = "copy",
                                  ![e].todo = @ \ {File(e)},
                                  ![e].copied = @ \cup {File(e)}]
  /\ UNCHANGED <<sealed, status, listed, owed, runs, sent, raced>>

\* The disk is full: the exception ends the execution, the file stays.
CopyFails(e) ==
  /\ In(e, "write")
  /\ IF Lies(e) = Writing(e) THEN Put(e, Torn) ELSE UNCHANGED outbox
  /\ Fail(e)
  /\ UNCHANGED <<sealed, status, listed, owed, runs, sent, raced>>

\* An execution that copied nothing fails, and so does one whose backend cannot
\* run.
Gathered(e) ==
  /\ In(e, "copy")
  /\ executor[e].todo = {}
  /\ \/ /\ \/ executor[e].copied = {}
           \/ executor[e].backend = "http_put without url"
        /\ Fail(e)
     \/ /\ executor[e].copied # {}
        /\ \/ executor[e].backend = "http_put" /\ Go(e, "send")
           \/ executor[e].backend = "local_copy" /\ Go(e, "name")
  /\ UNCHANGED <<sealed, status, outbox, listed, owed, runs, sent, raced>>

\* The PUT of the first copy: its bytes are read from the outbox.  The answer
\* may be lost after the other side took them.
Send(e) ==
  /\ In(e, "send")
  /\ LET t == executor[e].transfer
         f == First(executor[e].copied)
     IN  \/ /\ sent' = sent \cup {<<t, f, outbox[t][f]>>}
            /\ Go(e, "name") \/ Fail(e)
         \/ Fail(e) /\ UNCHANGED sent
  /\ UNCHANGED <<sealed, status, outbox, listed, owed, runs, raced>>

\* The manifest names the copies of this execution alone and replaces the one
\* before.
WriteManifest(e) ==
  /\ In(e, "name")
  /\ listed' = [listed EXCEPT ![executor[e].transfer] = executor[e].copied]
  /\ Go(e, "mark")
  /\ UNCHANGED <<sealed, status, outbox, owed, runs, sent, raced>>

Mark(e) ==
  /\ In(e, "mark")
  /\ status' = [status EXCEPT ![executor[e].transfer] = "executed"]
  /\ owed' = [owed EXCEPT ![executor[e].transfer] = executor[e].asked]
  /\ executor' = [executor EXCEPT ![e] = Idle]
  /\ UNCHANGED <<sealed, outbox, listed, runs, sent, raced>>

\* Any exception: the ledger is marked failed, whatever it says by now.
MarkFailed(e) ==
  /\ In(e, "fail")
  /\ status' = [status EXCEPT ![executor[e].transfer] = "failed"]
  /\ executor' = [executor EXCEPT ![e] = Idle]
  /\ UNCHANGED <<sealed, outbox, listed, owed, runs, sent, raced>>

\* The process ends; a file it was writing stays as it is.
Crash(e) ==
  /\ executor[e] # Idle
  /\ outbox' = [t \in Transfers |-> [f \in Files |->
                 IF outbox[t][f] = Writing(e) THEN Torn ELSE outbox[t][f]]]
  /\ executor' = [executor EXCEPT ![e] = Idle]
  /\ UNCHANGED <<sealed, status, listed, owed, runs, sent, raced>>

Step(e) ==
  \/ Skip(e)
  \/ Found(e)
  \/ Open(e)
  \/ Copied(e)
  \/ CopyFails(e)
  \/ Gathered(e)
  \/ Send(e)
  \/ WriteManifest(e)
  \/ Mark(e)
  \/ MarkFailed(e)

Next ==
  \/ Seal
  \/ \E t \in Transfers : RecordIntent(t)
  \/ \E e \in Executors : Step(e) \/ Crash(e)
  \/ \E e \in Executors, t \in Transfers : Begin(e, t)

Spec == Init /\ [][Next]_vars

-----------------------------------------------------------------------------
\* What leaves is the evidence as it was sealed: a file named by a manifest
\* lies whole in the outbox and what was PUT was whole, however earlier
\* executions of the transfer ended (transfer_pipeline.py:140) - except a file
\* that two executors opened because each found its name free.
ShippedIsWhole ==
  /\ \A s \in sent : s[3] = Whole \/ <<s[1], s[2]>> \in raced
  /\ \A t \in Transfers : \A f \in listed[t] :
       outbox[t][f] = Whole \/ <<t, f>> \in raced

\* A transfer marked executed left none of the files it was to copy behind, and
\* those a manifest leaves out are copies of earlier executions of it: no
\* sequence of failed and repeated executions loses one.
ExecutedIsComplete ==
  \A t \in Transfers : \A f \in owed[t] : outbox[t][f] # Absent
=============================================================================
