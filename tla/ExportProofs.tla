---------------------------- MODULE ExportProofs ----------------------------
(***************************************************************************)
(* Proofs about the two ways audit data leaves the machine, for any bounds  *)
(* and any threads, processes, transfers and executors: the transfer of     *)
(* sealed evidence into an outbox (Transfer), and the retry queue of the    *)
(* SIEM push (SiemQueue).  The two share no state, and each has its         *)
(* invariant.                                                               *)
(*                                                                          *)
(* Of a transfer: nothing ever leaves an outbox, a whole file stays whole   *)
(* unless somebody opens it a second time, and that is noted in raced.      *)
(*                                                                          *)
(* Of the queue: a flush answers for what it loaded and for what its own    *)
(* process wrote, so its rewrite loses only rows of others (SafeInv); and a *)
(* body about which nothing is unsure has one copy (SureInv).               *)
(***************************************************************************)
EXTENDS Transfer, SiemQueue, TLAPS, WellFoundedInduction

\* A file lies there; it lies there whole, or two executors opened it; and it
\* is being written by e, or two executors opened it.
Present(t, f) == outbox[t][f] # Absent
Sound(t, f) == outbox[t][f] = Whole \/ <<t, f>> \in raced
Owned(e, t, f) == outbox[t][f] = Writing(e) \/ <<t, f>> \in raced

\* What an executor holds of its transfer.
Busy == {"copy", "open", "write", "send", "name", "mark", "fail"}
Copying == {"copy", "open", "write"}
Done == {"send", "name", "mark"}

Placed(x) ==
  /\ x.at \in Busy => x.transfer \in Transfers
  /\ x.at \in {"open", "write"} => x.todo # {}
  /\ x.at = "send" => x.copied # {}
  /\ x.at \in Done => x.todo = {}
Writes(e, x) ==
  x.at = "write" => /\ Owned(e, x.transfer, First(x.todo))
                    /\ Present(x.transfer, First(x.todo))
Copies(x) == x.at \in Busy => \A f \in x.copied : Sound(x.transfer, f)
Covers(x) ==
  x.at \in Copying \cup Done =>
    \A f \in x.asked : f \in x.todo \/ Present(x.transfer, f)

ExecutorInv(e) ==
  /\ Placed(executor[e])
  /\ Writes(e, executor[e])
  /\ Copies(executor[e])
  /\ Covers(executor[e])

Inv ==
  /\ TypeOK
  /\ \A e \in Executors : ExecutorInv(e)
  /\ ShippedIsWhole
  /\ ExecutedIsComplete

-----------------------------------------------------------------------------
\* The first of some files is one of them.
LEMMA FirstIsIn ==
  ASSUME NEW files \in SUBSET Files, files # {}
  PROVE  First(files) \in files
<1> DEFINE ranks == {Rank(f) : f \in files}
<1>1. \A f \in Files : Rank(f) \in Nat
  BY TransferAssumption DEF Files, Segments, Rank
<1>2. ranks \subseteq Nat /\ ranks # {}
  BY <1>1
<1>3. PICK r \in ranks : \A k \in ranks : <<k, r>> \notin OpToRel(<, Nat)
  <2> HIDE DEF ranks
  <2> QED BY <1>2, WFMin, NatLessThanWellFounded, Zenon
<1>4. PICK f \in files : r = Rank(f)
  BY <1>3
<1>5. ASSUME NEW g \in files PROVE Rank(f) <= Rank(g)
  <2>1. Rank(g) \in ranks /\ Rank(f) \in Nat /\ Rank(g) \in Nat
    BY <1>1
  <2>2. ~(Rank(g) < Rank(f))
    <3>1. <<Rank(g), r>> \notin OpToRel(<, Nat)
      BY <2>1, <1>3
    <3> QED BY <3>1, <1>4, <2>1, Zenon DEF OpToRel
  <2> QED BY <2>1, <2>2
<1> QED BY <1>5 DEF First

LEMMA FileIsInTodo ==
  ASSUME TypeOK, NEW e \in Executors, executor[e].todo # {}
  PROVE  /\ File(e) \in executor[e].todo
         /\ File(e) \in Files
<1>1. executor[e].todo \in SUBSET Files
  BY DEF TypeOK, Executions
<1> QED BY <1>1, FirstIsIn DEF File

-----------------------------------------------------------------------------
\* What a step does to the outboxes.

Kept ==
  /\ raced \subseteq raced'
  /\ \A t \in Transfers, f \in Files :
       /\ Present(t, f) => outbox'[t][f] # Absent
       /\ Sound(t, f) => outbox'[t][f] = Whole \/ <<t, f>> \in raced'
KeptFor(d) ==
  \A t \in Transfers, f \in Files :
    Owned(d, t, f) => outbox'[t][f] = Writing(d) \/ <<t, f>> \in raced'

LEMMA Distinct ==
  /\ Absent # Whole /\ Torn # Whole /\ Torn # Absent
  /\ \A e \in Executors : Writing(e) \notin {Absent, Torn, Whole}
  /\ \A e, d \in Executors : Writing(e) = Writing(d) => e = d
BY DEF Absent, Torn, Whole, Writing

\* A file put in the place of another.
LEMMA PutKeeps ==
  ASSUME TypeOK, NEW t \in Transfers, NEW f \in Files, NEW s,
         outbox' = [outbox EXCEPT ![t][f] = s],
         s # Absent, raced \subseteq raced',
         outbox[t][f] = Whole => s = Whole \/ <<t, f>> \in raced'
  PROVE  Kept
<1>1. \A u \in Transfers, g \in Files :
        outbox'[u][g] = IF u = t /\ g = f THEN s ELSE outbox[u][g]
  BY DEF TypeOK
<1> QED BY <1>1 DEF Kept, Present, Sound

LEMMA PutKeepsFor ==
  ASSUME TypeOK, NEW t \in Transfers, NEW f \in Files, NEW s,
         NEW d \in Executors,
         outbox' = [outbox EXCEPT ![t][f] = s],
         raced \subseteq raced',
         outbox[t][f] = Writing(d) => <<t, f>> \in raced'
  PROVE  KeptFor(d)
<1>1. \A u \in Transfers, g \in Files :
        outbox'[u][g] = IF u = t /\ g = f THEN s ELSE outbox[u][g]
  BY DEF TypeOK
<1> QED BY <1>1 DEF KeptFor, Owned

LEMMA UnchangedKeeps ==
  ASSUME UNCHANGED <<outbox, raced>>
  PROVE  Kept /\ \A d \in Executors : KeptFor(d)
BY DEF Kept, KeptFor, Present, Sound, Owned

LEMMA OpenKeeps ==
  ASSUME TypeOK, NEW e \in Executors, ExecutorInv(e), Open(e),
         NEW t, t = executor[e].transfer, NEW f, f = File(e)
  PROVE  /\ Kept
         /\ \A d \in Executors : KeptFor(d)
         /\ outbox'[t][f] = Writing(e)
<1>1. t \in Transfers /\ executor[e].todo # {}
  BY DEF ExecutorInv, Placed, Open, In, Busy
<1>2. f \in Files
  BY <1>1, FileIsInTodo
<1>3. /\ outbox' = [outbox EXCEPT ![t][f] = Writing(e)]
      /\ raced' = IF outbox[t][f] = Absent THEN raced ELSE raced \cup {<<t, f>>}
  BY DEF Open, Put, Lies
<1>4. outbox'[t][f] = Writing(e)
  BY <1>1, <1>2, <1>3 DEF TypeOK
<1>5. /\ Writing(e) # Absent /\ raced \subseteq raced'
      /\ outbox[t][f] # Absent => <<t, f>> \in raced'
  BY <1>3, Distinct
<1>6. Kept
  BY <1>1, <1>2, <1>3, <1>5, PutKeeps, Distinct
<1>7. ASSUME NEW d \in Executors PROVE KeptFor(d)
  BY <1>1, <1>2, <1>3, <1>5, PutKeepsFor, Distinct
<1> QED BY <1>4, <1>6, <1>7

\* The end of a copy: s is Whole or Torn.
LEMMA WrittenKeeps ==
  ASSUME TypeOK, NEW e \in Executors, ExecutorInv(e), In(e, "write"),
         NEW t, t = executor[e].transfer, NEW f, f = File(e),
         NEW s \in {Whole, Torn}, UNCHANGED raced,
         IF Lies(e) = Writing(e) THEN Put(e, s) ELSE UNCHANGED outbox
  PROVE  /\ Kept
         /\ \A d \in Executors \ {e} : KeptFor(d)
         /\ s = Whole => outbox'[t][f] = Whole \/ <<t, f>> \in raced'
         /\ outbox'[t][f] # Absent
<1>1. t \in Transfers /\ executor[e].todo # {}
  BY DEF ExecutorInv, Placed, In, Busy
<1>2. f \in Files
  BY <1>1, FileIsInTodo
<1>3. Owned(e, t, f) /\ Present(t, f)
  BY DEF ExecutorInv, Writes, In, File
<1>4. CASE Lies(e) = Writing(e)
  <2>1. outbox' = [outbox EXCEPT ![t][f] = s] /\ outbox[t][f] = Writing(e)
    BY <1>4 DEF Put, Lies
  <2>2. outbox'[t][f] = s
    BY <1>1, <1>2, <2>1 DEF TypeOK
  <2>3. Kept
    BY <1>1, <1>2, <2>1, PutKeeps, Distinct
  <2>4. ASSUME NEW d \in Executors \ {e} PROVE KeptFor(d)
    BY <1>1, <1>2, <2>1, PutKeepsFor, Distinct
  <2> QED BY <2>2, <2>3, <2>4, Distinct
<1>5. CASE Lies(e) # Writing(e)
  <2>1. UNCHANGED <<outbox, raced>> /\ outbox[t][f] # Writing(e)
    BY <1>5 DEF Lies
  <2> QED BY <1>3, <2>1, UnchangedKeeps DEF Owned, Present
<1> QED BY <1>4, <1>5

LEMMA CrashKeeps ==
  ASSUME TypeOK, NEW e \in Executors, Crash(e)
  PROVE  Kept /\ \A d \in Executors \ {e} : KeptFor(d)
<1>1. /\ UNCHANGED raced
      /\ \A t \in Transfers, f \in Files :
           outbox'[t][f] = IF outbox[t][f] = Writing(e) THEN Torn ELSE outbox[t][f]
  BY DEF Crash
<1> QED BY <1>1, Distinct DEF Kept, KeptFor, Present, Sound, Owned

-----------------------------------------------------------------------------
\* An executor whose record a step leaves alone keeps its invariant.
LEMMA ExecutorInvStays ==
  ASSUME TypeOK, NEW d \in Executors, ExecutorInv(d),
         executor'[d] = executor[d], Kept, KeptFor(d)
  PROVE  ExecutorInv(d)'
<1> DEFINE x == executor[d]
<1>1. /\ x.todo \subseteq Files /\ x.copied \subseteq Files /\ x.asked \subseteq Files
      /\ x.at # "idle" => x.at \in Busy
  BY DEF TypeOK, Executions, Busy
<1>2. Placed(x)'
  BY DEF ExecutorInv, Placed
<1>3. Writes(d, x)'
  <2>1. SUFFICES ASSUME x.at = "write"
                 PROVE  (Owned(d, x.transfer, First(x.todo)) /\ Present(x.transfer, First(x.todo)))'
    BY DEF Writes
  <2>2. x.transfer \in Transfers /\ First(x.todo) \in Files
    BY <1>1, <2>1, FirstIsIn DEF ExecutorInv, Placed, Busy
  <2>3. Owned(d, x.transfer, First(x.todo)) /\ Present(x.transfer, First(x.todo))
    BY <2>1 DEF ExecutorInv, Writes
  <2> QED BY <2>2, <2>3 DEF Kept, KeptFor, Owned, Present
<1>4. Copies(x)'
  BY <1>1 DEF ExecutorInv, Placed, Copies, Kept, Sound, Busy
<1>5. Covers(x)'
  BY <1>1 DEF ExecutorInv, Placed, Covers, Kept, Present, Busy, Copying, Done
<1> QED BY <1>2, <1>3, <1>4, <1>5 DEF ExecutorInv

\* What was sent, named or marked keeps its promises.
LEMMA ShippedStays ==
  ASSUME TypeOK, ShippedIsWhole, ExecutedIsComplete, Kept
  PROVE  /\ UNCHANGED <<sent, listed>> => ShippedIsWhole'
         /\ UNCHANGED owed => ExecutedIsComplete'
<1>1. /\ \A t \in Transfers : listed[t] \subseteq Files /\ owed[t] \subseteq Files
      /\ raced \subseteq raced'
  BY DEF TypeOK, Kept
<1> QED BY <1>1 DEF ShippedIsWhole, ExecutedIsComplete, Kept, Present, Sound

-----------------------------------------------------------------------------
\* A step of an executor keeps the outboxes, and the others' records.
LEMMA StepKeeps ==
  ASSUME Inv, NEW e \in Executors, Step(e) \/ Crash(e)
  PROVE  /\ Kept
         /\ \A d \in Executors \ {e} : KeptFor(d) /\ executor'[d] = executor[d]
<1>1. TypeOK /\ ExecutorInv(e)
  BY DEF Inv
<1>2. CASE Open(e)
  BY <1>1, <1>2, OpenKeeps DEF Open, Go, TypeOK
<1>3. CASE Copied(e)
  <2>1. Kept /\ \A d \in Executors \ {e} : KeptFor(d)
    BY <1>1, <1>3, WrittenKeeps DEF Copied
  <2> QED BY <1>1, <1>3, <2>1 DEF Copied, TypeOK
<1>4. CASE CopyFails(e)
  <2>1. Kept /\ \A d \in Executors \ {e} : KeptFor(d)
    BY <1>1, <1>4, WrittenKeeps DEF CopyFails
  <2> QED BY <1>1, <1>4, <2>1 DEF CopyFails, Fail, Go, TypeOK
<1>5. CASE Crash(e)
  BY <1>1, <1>5, CrashKeeps DEF Crash, TypeOK
<1>6. CASE \/ Skip(e) \/ Found(e) \/ Gathered(e) \/ Send(e)
           \/ WriteManifest(e) \/ Mark(e) \/ MarkFailed(e)
  <2>1. UNCHANGED <<outbox, raced>>
    BY <1>6 DEF Skip, Found, Gathered, Send, WriteManifest, Mark, MarkFailed
  <2>2. \A d \in Executors \ {e} : executor'[d] = executor[d]
    BY <1>1, <1>6 DEF Skip, Found, Gathered, Send, WriteManifest, Mark,
       MarkFailed, Go, Fail, TypeOK
  <2> QED BY <2>1, <2>2, UnchangedKeeps
<1> QED BY <1>2, <1>3, <1>4, <1>5, <1>6 DEF Step

\* The record an executor of a transfer moves to: x with another place, or
\* with its first file done.
LEMMA StepExecutorInv ==
  ASSUME Inv, NEW e \in Executors, Step(e) \/ Crash(e)
  PROVE  ExecutorInv(e)'
<1> DEFINE x == executor[e]
           t == x.transfer
           f == File(e)
<1>1. /\ TypeOK /\ ExecutorInv(e) /\ Kept
      /\ Placed(x) /\ Writes(e, x) /\ Copies(x) /\ Covers(x)
  BY StepKeeps DEF Inv, ExecutorInv
<1>2. /\ x \in Executions
      /\ x.todo \subseteq Files /\ x.copied \subseteq Files /\ x.asked \subseteq Files
  BY <1>1 DEF TypeOK, Executions
<1>3. /\ x.at \in Busy => t \in Transfers
      /\ x.at \in Busy => \A g \in x.copied :
           outbox'[t][g] = Whole \/ <<t, g>> \in raced'
      /\ x.at \in Copying \cup Done => \A g \in x.asked :
           g \in x.todo \/ outbox'[t][g] # Absent
  BY <1>1, <1>2 DEF Placed, Copies, Covers, Kept, Sound, Present, Busy, Copying, Done
<1>4. x.todo # {} => f \in x.todo /\ f \in Files
  BY <1>1, FileIsInTodo
<1> HIDE DEF x, t, f
<1>5. CASE Skip(e)
  <2>1. /\ x.at = "copy" /\ x.todo # {} /\ outbox'[t][f] # Absent
        /\ executor'[e] = [x EXCEPT !.todo = @ \ {f}]
    BY <1>1, <1>5 DEF Skip, In, Lies, TypeOK, x, t, f
  <2>2. \A g \in x.asked : g \in x.todo \ {f} \/ outbox'[t][g] # Absent
    BY <1>3, <2>1 DEF Copying
  <2> QED BY <1>2, <1>3, <2>1, <2>2 DEF ExecutorInv, Placed, Writes, Copies, Covers,
      Sound, Present, Busy, Copying, Done, Executions, t
<1>6. CASE Found(e)
  <2>1. /\ x.at = "copy" /\ x.todo # {}
        /\ executor'[e] = [x EXCEPT !.at = "open"]
    BY <1>1, <1>6 DEF Found, Go, In, TypeOK, x
  <2> QED BY <1>2, <1>3, <2>1 DEF ExecutorInv, Placed, Writes, Copies, Covers,
      Sound, Present, Busy, Copying, Done, Executions, t
<1>7. CASE Open(e)
  <2>1. /\ x.at = "open"
        /\ executor'[e] = [x EXCEPT !.at = "write"]
    BY <1>1, <1>7 DEF Open, Go, In, TypeOK, x
  <2>2. outbox'[t][f] = Writing(e)
    BY <1>1, <1>7, OpenKeeps DEF x, t, f
  <2>3. x.todo # {} /\ f = First(x.todo) /\ outbox'[t][f] # Absent
    BY <1>1, <2>1, <2>2, Distinct DEF Placed, File, x, f
  <2> QED BY <1>2, <1>3, <2>1, <2>2, <2>3 DEF ExecutorInv, Placed, Writes, Copies,
      Covers, Owned, Sound, Present, Busy, Copying, Done, Executions, t
<1>8. CASE Copied(e)
  <2>1. /\ x.at = "write"
        /\ executor'[e] = [x EXCEPT !.at = "copy", !.todo = @ \ {f},
                                    !.copied = @ \cup {f}]
    BY <1>1, <1>8 DEF Copied, In, TypeOK, x, f
  <2>2. /\ outbox'[t][f] = Whole \/ <<t, f>> \in raced'
        /\ outbox'[t][f] # Absent
    BY <1>1, <1>8, WrittenKeeps DEF Copied, x, t, f
  <2>3. /\ \A g \in x.asked : g \in x.todo \ {f} \/ outbox'[t][g] # Absent
        /\ \A g \in x.copied \cup {f} : outbox'[t][g] = Whole \/ <<t, g>> \in raced'
    BY <1>3, <2>1, <2>2 DEF Copying, Busy
  <2> QED BY <1>2, <1>3, <2>1, <2>3 DEF ExecutorInv, Placed, Writes, Copies, Covers,
      Sound, Present, Busy, Copying, Done, Executions, t
<1>9. CASE CopyFails(e) \/ Gathered(e) \/ Send(e) \/ WriteManifest(e)
  <2>1. PICK p \in {"fail", "send", "name", "mark"} :
          /\ executor'[e] = [x EXCEPT !.at = p]
          /\ x.at \in Busy
          /\ p # "fail" => x.at \in Copying \cup Done /\ x.todo = {}
          /\ p = "send" => x.copied # {}
    <3>1. CASE CopyFails(e) \/ Send(e) \/ WriteManifest(e)
      BY <1>1, <3>1 DEF CopyFails, Send, WriteManifest, Fail, Go, In, TypeOK,
         Placed, Busy, Copying, Done, x
    <3>2. CASE Gathered(e)
      BY <1>1, <3>2 DEF Gathered, Fail, Go, In, TypeOK, Busy, Copying, Done, x
    <3> QED BY <1>9, <3>1, <3>2
  <2> QED BY <1>2, <1>3, <2>1 DEF ExecutorInv, Placed, Writes, Copies, Covers,
      Sound, Present, Busy, Copying, Done, Executions, t
<1>10. CASE Mark(e) \/ MarkFailed(e) \/ Crash(e)
  <2>1. executor'[e] = Idle
    BY <1>1, <1>10 DEF Mark, MarkFailed, Crash, TypeOK
  <2> QED BY <2>1 DEF ExecutorInv, Placed, Writes, Copies, Covers, Idle, Busy,
      Copying, Done
<1> QED BY <1>5, <1>6, <1>7, <1>8, <1>9, <1>10 DEF Step

\* So does the executor that begins, and all others with it.
LEMMA BeginKeeps ==
  ASSUME Inv, NEW e \in Executors, NEW t \in Transfers, Begin(e, t)
  PROVE  \A d \in Executors : ExecutorInv(d)'
<1>1. UNCHANGED <<outbox, raced>> /\ TypeOK
  BY DEF Begin, Inv
<1>2. PICK b \in Backends, chosen \in SUBSET (1 .. sealed) :
        executor' = [executor EXCEPT ![e] =
          [at |-> "copy", transfer |-> t, backend |-> b,
           todo |-> FilesOf(t, chosen), copied |-> {},
           asked |-> {f \in Files : f[1] \in chosen}]]
  BY DEF Begin
<1>3. ASSUME NEW d \in Executors \ {e} PROVE ExecutorInv(d)'
  BY <1>1, <1>2, UnchangedKeeps, ExecutorInvStays DEF Inv, TypeOK
<1>4. ExecutorInv(e)'
  <2>1. executor'[e] = [at |-> "copy", transfer |-> t, backend |-> b,
                        todo |-> FilesOf(t, chosen), copied |-> {},
                        asked |-> FilesOf(t, chosen)]
    BY <1>1, <1>2 DEF TypeOK, FilesOf
  <2> HIDE DEF FilesOf
  <2> QED BY <2>1 DEF ExecutorInv, Placed, Writes, Copies, Covers, Busy, Copying, Done
<1> QED BY <1>3, <1>4

-----------------------------------------------------------------------------
\* A record that moves on, with its first file done or not, is a record.
LEMMA MovedIsExecution ==
  ASSUME NEW x \in Executions, NEW f,
         NEW p \in {"copy", "open", "write", "send", "name", "mark", "fail"}
  PROVE  /\ [x EXCEPT !.at = p] \in Executions
         /\ [x EXCEPT !.todo = @ \ {f}] \in Executions
         /\ f \in Files => [x EXCEPT !.at = p, !.todo = @ \ {f},
                                     !.copied = @ \cup {f}] \in Executions
BY DEF Executions

\* A step of an executor leaves every variable in its type.
LEMMA StepTypes ==
  ASSUME Inv, NEW e \in Executors, Step(e) \/ Crash(e)
  PROVE  TypeOK'
<1> DEFINE x == executor[e]
           t == x.transfer
           f == File(e)
<1>1. /\ TypeOK /\ x \in Executions /\ Placed(x)
      /\ x.at # "idle" => t \in Transfers
      /\ x.todo # {} => f \in Files
  BY FileIsInTodo DEF Inv, TypeOK, ExecutorInv, Placed, Executions, Busy
<1>2. Writing(e) \in FileStates /\ Whole \in FileStates /\ Torn \in FileStates
  BY DEF FileStates
<1> HIDE DEF x, t, f
<1> DEFINE To(y) == executor' = [executor EXCEPT ![e] = y]
<1>2a. ASSUME NEW y \in Executions, To(y)
       PROVE  executor' \in [Executors -> Executions]
  BY <1>1, <1>2a DEF TypeOK
<1>2b. ASSUME NEW p \in {"copy", "open", "write", "send", "name", "mark", "fail"},
              Go(e, p)
       PROVE  executor' \in [Executors -> Executions]
  <2>1. [x EXCEPT !.at = p] \in Executions /\ To([x EXCEPT !.at = p])
    BY <1>1, <1>2b, MovedIsExecution DEF Go, x
  <2> QED BY <2>1, <1>2a
<1> HIDE DEF To
<1>3. CASE Skip(e) \/ Found(e) \/ Gathered(e)
  <2>1. CASE Skip(e)
    <3>1. [x EXCEPT !.todo = @ \ {f}] \in Executions
      BY <1>1, MovedIsExecution
    <3>2. To([x EXCEPT !.todo = @ \ {f}])
      BY <2>1 DEF Skip, To, x, f
    <3> QED BY <1>1, <1>2a, <2>1, <3>1, <3>2 DEF Skip, TypeOK
  <2>2. CASE Found(e) \/ Gathered(e)
    <3>1. executor' \in [Executors -> Executions]
      BY <1>2b, <2>2 DEF Found, Gathered, Fail
    <3> QED BY <1>1, <2>2, <3>1 DEF Found, Gathered, TypeOK
  <2> QED BY <1>3, <2>1, <2>2
<1>4. CASE Open(e)
  <2>1. t \in Transfers /\ f \in Files
    BY <1>1, <1>4 DEF Open, In, Placed, x
  <2>2. outbox' \in [Transfers -> [Files -> FileStates]]
    BY <1>1, <1>2, <1>4, <2>1 DEF Open, Put, TypeOK, t, x, f
  <2>3. executor' \in [Executors -> Executions]
    BY <1>1, <1>4 DEF Open, Go, TypeOK, Executions, x
  <2>4. raced' \subseteq Transfers \X Files
    BY <1>1, <1>4, <2>1 DEF Open, TypeOK, t, x, f
  <2> QED BY <1>1, <1>4, <2>2, <2>3, <2>4 DEF Open, TypeOK
<1>5. CASE Copied(e) \/ CopyFails(e)
  <2>1. t \in Transfers /\ f \in Files
    BY <1>1, <1>5 DEF Copied, CopyFails, In, Placed, x
  <2>2. outbox' \in [Transfers -> [Files -> FileStates]]
    <3>1. PICK s \in {Whole, Torn, outbox[t][f]} :
            outbox' = [outbox EXCEPT ![t][f] = s]
      <4>1. outbox = [outbox EXCEPT ![t][f] = outbox[t][f]]
        BY <1>1, <2>1 DEF TypeOK
      <4>2. \/ outbox' = [outbox EXCEPT ![t][f] = Whole]
            \/ outbox' = [outbox EXCEPT ![t][f] = Torn]
            \/ outbox' = outbox
        BY <1>5 DEF Copied, CopyFails, Put, t, x, f
      <4> QED BY <4>1, <4>2
    <3> QED BY <1>1, <1>2, <2>1, <3>1 DEF TypeOK
  <2>3. executor' \in [Executors -> Executions]
    <3>1. CASE Copied(e)
      <4> DEFINE y == [x EXCEPT !.at = "copy", !.todo = @ \ {f},
                                !.copied = @ \cup {f}]
      <4>1. y \in Executions
        BY <1>1, <2>1, MovedIsExecution
      <4>2. To(y)
        BY <3>1 DEF Copied, To, x, f
      <4> QED BY <4>1, <4>2, <1>2a
    <3>2. CASE CopyFails(e)
      BY <1>2b, <3>2 DEF CopyFails, Fail
    <3> QED BY <1>5, <3>1, <3>2
  <2> QED BY <1>1, <1>5, <2>2, <2>3 DEF Copied, CopyFails, TypeOK
<1>6. CASE Send(e)
  <2>1. t \in Transfers /\ First(x.copied) \in Files
    BY <1>1, <1>6, FirstIsIn DEF Send, In, Placed, Executions, x
  <2>2. sent' \subseteq Transfers \X Files \X FileStates
    BY <1>1, <1>6, <2>1 DEF Send, TypeOK, t, x
  <2>3. executor' \in [Executors -> Executions]
    BY <1>2b, <1>6 DEF Send, Fail
  <2> QED BY <1>1, <1>6, <2>2, <2>3 DEF Send, TypeOK
<1>7. CASE WriteManifest(e)
  BY <1>1, <1>7 DEF WriteManifest, In, Go, TypeOK, Executions, t, x
<1>8. CASE Mark(e) \/ MarkFailed(e)
  <2>1. Idle \in Executions
    BY DEF Idle, Executions
  <2>2. t \in Transfers /\ x.asked \subseteq Files
    BY <1>1, <1>8 DEF Mark, MarkFailed, In, Executions, x
  <2>3. executor' \in [Executors -> Executions]
    BY <1>1, <1>8, <2>1 DEF Mark, MarkFailed, TypeOK
  <2>4. owed' \in [Transfers -> SUBSET Files]
    BY <1>1, <1>8, <2>2 DEF Mark, MarkFailed, TypeOK, t, x
  <2>5. status' \in [Transfers -> {"none", "recorded", "executed", "failed"}]
    BY <1>1, <1>8, <2>2 DEF Mark, MarkFailed, TypeOK, t, x
  <2> QED BY <1>1, <1>8, <2>3, <2>4, <2>5 DEF Mark, MarkFailed, TypeOK
<1>9. CASE Crash(e)
  <2>1. Idle \in Executions
    BY DEF Idle, Executions
  <2> QED BY <1>1, <1>2, <1>9, <2>1 DEF Crash, TypeOK
<1> QED BY <1>3, <1>4, <1>5, <1>6, <1>7, <1>8, <1>9 DEF Step

\* What a step sends or names is a copy it made, and what it marks lies there.
LEMMA StepShips ==
  ASSUME Inv, NEW e \in Executors, Step(e) \/ Crash(e)
  PROVE  ShippedIsWhole' /\ ExecutedIsComplete'
<1> DEFINE x == executor[e]
           t == x.transfer
<1>1. /\ TypeOK /\ ShippedIsWhole /\ ExecutedIsComplete /\ Kept
      /\ x \in Executions /\ Placed(x) /\ Copies(x) /\ Covers(x)
  BY StepKeeps DEF Inv, ExecutorInv, TypeOK
<1>2. /\ UNCHANGED <<sent, listed>> => ShippedIsWhole'
      /\ UNCHANGED owed => ExecutedIsComplete'
  BY <1>1, ShippedStays
<1> HIDE DEF x, t
<1>3. CASE Send(e)
  <2> DEFINE f == First(x.copied)
  <2>1. t \in Transfers /\ f \in x.copied /\ x.at = "send"
    BY <1>1, <1>3, FirstIsIn DEF Send, In, Placed, Executions, Busy, x, t
  <2>2. /\ outbox[t][f] = Whole \/ <<t, f>> \in raced
        /\ UNCHANGED <<outbox, raced, listed, owed>>
        /\ sent' \subseteq sent \cup {<<t, f, outbox[t][f]>>}
    BY <1>1, <1>3, <2>1 DEF Copies, Sound, Send, Busy, x, t
  <2> HIDE DEF f
  <2>3. ShippedIsWhole'
    BY <1>1, <2>2 DEF ShippedIsWhole
  <2> QED BY <1>2, <2>2, <2>3
<1>4. CASE WriteManifest(e)
  <2>1. /\ t \in Transfers /\ x.at = "name"
        /\ UNCHANGED <<outbox, raced, sent, owed>>
        /\ listed' = [listed EXCEPT ![t] = x.copied]
    BY <1>1, <1>4 DEF WriteManifest, In, Placed, Busy, x, t
  <2>2. \A f \in x.copied : outbox[t][f] = Whole \/ <<t, f>> \in raced
    BY <1>1, <2>1 DEF Copies, Sound, Busy, t
  <2>3. \A u \in Transfers : listed'[u] = IF u = t THEN x.copied ELSE listed[u]
    BY <1>1, <2>1 DEF TypeOK
  <2>4. ShippedIsWhole'
    BY <1>1, <2>1, <2>2, <2>3 DEF ShippedIsWhole
  <2> QED BY <1>2, <2>1, <2>4
<1>5. CASE Mark(e)
  <2>1. /\ t \in Transfers /\ x.at = "mark" /\ x.todo = {}
        /\ UNCHANGED <<outbox, sent, listed>>
        /\ owed' = [owed EXCEPT ![t] = x.asked]
    BY <1>1, <1>5 DEF Mark, In, Placed, Busy, Done, x, t
  <2>2. \A f \in x.asked : outbox[t][f] # Absent
    BY <1>1, <2>1 DEF Covers, Present, Done, t
  <2>3. \A u \in Transfers : owed'[u] = IF u = t THEN x.asked ELSE owed[u]
    BY <1>1, <2>1 DEF TypeOK
  <2>4. ExecutedIsComplete'
    BY <1>1, <2>1, <2>2, <2>3 DEF ExecutedIsComplete
  <2> QED BY <1>2, <2>1, <2>4
<1>6. CASE \/ Skip(e) \/ Found(e) \/ Open(e) \/ Copied(e) \/ CopyFails(e)
           \/ Gathered(e) \/ MarkFailed(e) \/ Crash(e)
  BY <1>2, <1>6 DEF Skip, Found, Open, Copied, CopyFails, Gathered, MarkFailed, Crash
<1> QED BY <1>3, <1>4, <1>5, <1>6 DEF Step

-----------------------------------------------------------------------------
\* The invariant of Transfer: it holds at first, and every step keeps it.
LEMMA InvInit == Init => Inv
<1> SUFFICES ASSUME Init PROVE Inv
  OBVIOUS
<1>1. Idle \in Executions /\ Absent \in FileStates
  BY DEF Idle, Executions, FileStates
<1>2. TypeOK
  BY <1>1, TransferAssumption DEF Init, TypeOK
<1>3. \A e \in Executors : ExecutorInv(e)
  BY DEF Init, ExecutorInv, Placed, Writes, Copies, Covers, Idle, Busy, Copying, Done
<1> QED BY <1>2, <1>3 DEF Init, Inv, ShippedIsWhole, ExecutedIsComplete

LEMMA InvNext == Inv /\ [Next]_vars => Inv'
<1> SUFFICES ASSUME Inv, [Next]_vars PROVE Inv'
  OBVIOUS
<1>1. TypeOK /\ ShippedIsWhole /\ ExecutedIsComplete
  BY DEF Inv
<1>2. ASSUME NEW e \in Executors, Step(e) \/ Crash(e) PROVE Inv'
  <2>1. ASSUME NEW d \in Executors PROVE ExecutorInv(d)'
    <3>1. CASE d = e
      BY <1>2, <3>1, StepExecutorInv
    <3>2. CASE d # e
      BY <1>1, <1>2, <3>2, StepKeeps, ExecutorInvStays DEF Inv
    <3> QED BY <3>1, <3>2
  <2> QED BY <1>2, <2>1, StepTypes, StepShips DEF Inv
<1>3. ASSUME NEW e \in Executors, NEW t \in Transfers, Begin(e, t) PROVE Inv'
  <2>1. \A d \in Executors : ExecutorInv(d)'
    BY <1>3, BeginKeeps
  <2>2. TypeOK'
    <3>1. PICK b \in Backends, chosen \in SUBSET (1 .. sealed) :
            executor' = [executor EXCEPT ![e] =
              [at |-> "copy", transfer |-> t, backend |-> b,
               todo |-> FilesOf(t, chosen), copied |-> {},
               asked |-> {f \in Files : f[1] \in chosen}]]
      BY <1>3 DEF Begin
    <3>2. [at |-> "copy", transfer |-> t, backend |-> b,
           todo |-> FilesOf(t, chosen), copied |-> {},
           asked |-> {f \in Files : f[1] \in chosen}] \in Executions
      BY DEF Executions, FilesOf
    <3>3. runs' \in [Transfers -> 0 .. MaxRuns]
      BY <1>1, <1>3, TransferAssumption DEF Begin, TypeOK
    <3> QED BY <1>1, <1>3, <3>1, <3>2, <3>3 DEF Begin, TypeOK
  <2>3. ShippedIsWhole' /\ ExecutedIsComplete'
    BY <1>1, <1>3 DEF Begin, ShippedIsWhole, ExecutedIsComplete
  <2> QED BY <2>1, <2>2, <2>3 DEF Inv
<1>4. CASE Seal \/ (\E t \in Transfers : RecordIntent(t)) \/ UNCHANGED vars
  <2>1. UNCHANGED <<outbox, raced, executor, sent, listed, owed>>
    BY <1>4 DEF Seal, RecordIntent, vars
  <2>2. TypeOK'
    BY <1>1, <1>4, TransferAssumption DEF Seal, RecordIntent, vars, TypeOK
  <2>3. \A d \in Executors : ExecutorInv(d)'
    BY <1>1, <2>1, UnchangedKeeps, ExecutorInvStays DEF Inv
  <2>4. ShippedIsWhole' /\ ExecutedIsComplete'
    BY <1>1, <2>1 DEF ShippedIsWhole, ExecutedIsComplete
  <2> QED BY <2>2, <2>3, <2>4 DEF Inv
<1> QED BY <1>2, <1>3, <1>4 DEF Next

LEMMA InvAlways == Spec => []Inv
BY InvInit, InvNext, PTL DEF Spec

\* Every variable stays in its type (transfer_pipeline.py:196-270).
THEOREM TransferTypeCorrect == Spec => []TypeOK
<1>1. Inv => TypeOK
  BY DEF Inv
<1> QED BY <1>1, InvAlways, PTL

\* What a manifest names lies whole in the outbox and what was PUT was whole,
\* for any number of executors, runs and crashes: the name check of
\* _copy_sealed_segments (transfer_pipeline.py:140) and the order of copy, PUT
\* and manifest suffice, but for a file two executors opened at once.
THEOREM ShippedIsWholeHolds == Spec => []ShippedIsWhole
<1>1. Inv => ShippedIsWhole
  BY DEF Inv
<1> QED BY <1>1, InvAlways, PTL

\* An execution that marks its transfer executed has left none of the files it
\* was to copy out of the outbox (transfer_pipeline.py:124-150, 262-267).
THEOREM ExecutedIsCompleteHolds == Spec => []ExecutedIsComplete
<1>1. Inv => ExecutedIsComplete
  BY DEF Inv
<1> QED BY <1>1, InvAlways, PTL

-----------------------------------------------------------------------------
\* The retry queue of the SIEM push.

SiemThread ==
  [at : {"idle", "append", "flush", "save"}, body : 0 .. MaxBodies,
   loaded : SUBSET Bodies, rows : Seq(Rows), kept : Seq(Rows), flushed : Nat]

\* A thread x of process p when n bodies were pushed: it holds only what it
\* loaded or was asked to append, and signs what it keeps.
SiemThreadOK(x, p, n) ==
  /\ x \in SiemThread
  /\ x.at = "idle" => x = FreeThread
  /\ x.at \in {"append", "save"} => x.rows = <<>>
  /\ x.at = "append" => x.kept = <<>> /\ x.loaded = {} /\ x.body \in 1 .. n
  /\ \A i \in DOMAIN x.kept : x.kept[i].writer = p
  /\ x.loaded \subseteq 1 .. n
  /\ BodiesIn(x.rows) \cup BodiesIn(x.kept) \subseteq x.loaded

\* Nothing exists of a body before it is pushed; whoever flushes has the
\* lock of its process.
SiemBase ==
  /\ QueueTypeOK
  /\ thread \in [Threads -> SiemThread]
  /\ \A t \in Threads : SiemThreadOK(thread[t], My(t), pushed)
  /\ \A t \in Threads : Flushing(t) => lock[My(t)] = t
  /\ BodiesIn(file) \subseteq 1 .. pushed
  /\ \A b \in Bodies : b > pushed => posts[b] = 0

HeldBy(x) == BodiesIn(x.rows) \cup BodiesIn(x.kept)
               \cup (IF x.at = "append" THEN {x.body} ELSE {})

\* Every body a flush loaded is still held, delivered or given up, and what
\* its own process wrote into the file it has loaded.
Accounted ==
  \A t \in Threads : Flushing(t) =>
    /\ \A b \in thread[t].loaded :
         posts[b] > 0 \/ b \in givenUp \/ b \in HeldBy(thread[t])
    /\ \A i \in DOMAIN file :
         file[i].writer = My(t) => file[i].body \in thread[t].loaded

\* Where a body is when no flush is counted on: a flush leaves the file as it is
\* until it saves.
Carries(x, b) ==
  \/ x.at = "append" /\ x.body = b
  \/ x.at = "save" /\ b \in BodiesIn(x.kept)

\* Who has a body, in hand or among what it loaded, and that it has it once.
HasIt(x, b) ==
  \/ x.at = "append" /\ x.body = b
  \/ x.at \in {"flush", "save"} /\ b \in x.loaded
Single(s, b) == \A i, j \in DOMAIN s : s[i].body = b /\ s[j].body = b => i = j
SureThread(x, b) ==
  /\ Single(x.rows, b) /\ Single(x.kept, b)
  /\ ~ (b \in BodiesIn(x.rows) /\ b \in BodiesIn(x.kept))

-----------------------------------------------------------------------------
\* Sequences of rows.

LEMMA SeqParts ==
  ASSUME NEW s \in Seq(Rows), s # <<>>
  PROVE  /\ Len(s) \in Nat \ {0} /\ DOMAIN s = 1 .. Len(s)
         /\ Head(s) = s[1] /\ Head(s) \in Rows
         /\ Tail(s) \in Seq(Rows) /\ DOMAIN Tail(s) = 1 .. (Len(s) - 1)
         /\ \A i \in 1 .. (Len(s) - 1) : Tail(s)[i] = s[i + 1]
OBVIOUS

LEMMA AppendParts ==
  ASSUME NEW s \in Seq(Rows), NEW r \in Rows
  PROVE  /\ Len(s) \in Nat /\ DOMAIN s = 1 .. Len(s)
         /\ Append(s, r) \in Seq(Rows)
         /\ DOMAIN Append(s, r) = 1 .. (Len(s) + 1)
         /\ \A i \in 1 .. Len(s) : Append(s, r)[i] = s[i]
         /\ Append(s, r)[Len(s) + 1] = r
OBVIOUS

LEMMA BodiesOfTail ==
  ASSUME NEW s \in Seq(Rows), s # <<>>
  PROVE  BodiesIn(s) = {Head(s).body} \cup BodiesIn(Tail(s))
<1>1. ASSUME NEW i \in DOMAIN s PROVE s[i].body \in {Head(s).body} \cup BodiesIn(Tail(s))
  <2>1. CASE i = 1
    BY <2>1, SeqParts
  <2>2. CASE i # 1
    <3>1. i - 1 \in 1 .. (Len(s) - 1) /\ (i - 1) + 1 = i
      BY <2>2, SeqParts
    <3>2. Tail(s)[i - 1] = s[i] /\ i - 1 \in DOMAIN Tail(s)
      BY <3>1, SeqParts
    <3>3. QED
      BY <3>2 DEF BodiesIn
  <2>3. QED
    BY <2>1, <2>2
<1>2. ASSUME NEW i \in DOMAIN Tail(s) PROVE Tail(s)[i].body \in BodiesIn(s)
  <2>1. i + 1 \in DOMAIN s /\ Tail(s)[i] = s[i + 1]
    BY SeqParts
  <2>2. QED
    BY <2>1 DEF BodiesIn
<1>3. Head(s).body \in BodiesIn(s)
  <2>1. 1 \in DOMAIN s /\ Head(s) = s[1]
    BY SeqParts
  <2>2. QED
    BY <2>1 DEF BodiesIn
<1>4. QED
  BY <1>1, <1>2, <1>3 DEF BodiesIn

LEMMA BodiesOfAppend ==
  ASSUME NEW s \in Seq(Rows), NEW r \in Rows
  PROVE  BodiesIn(Append(s, r)) = BodiesIn(s) \cup {r.body}
<1>1. ASSUME NEW i \in DOMAIN Append(s, r)
      PROVE  Append(s, r)[i].body \in BodiesIn(s) \cup {r.body}
  <2>1. i \in 1 .. Len(s) \/ i = Len(s) + 1
    BY AppendParts
  <2>2. QED
    BY <2>1, AppendParts DEF BodiesIn
<1>2. ASSUME NEW i \in DOMAIN s PROVE s[i].body \in BodiesIn(Append(s, r))
  <2>1. i \in DOMAIN Append(s, r) /\ Append(s, r)[i] = s[i]
    BY AppendParts
  <2>2. QED
    BY <2>1 DEF BodiesIn
<1>3. r.body \in BodiesIn(Append(s, r))
  <2>1. Len(s) + 1 \in DOMAIN Append(s, r) /\ Append(s, r)[Len(s) + 1] = r
    BY AppendParts
  <2>2. QED
    BY <2>1 DEF BodiesIn
<1>4. QED
  BY <1>1, <1>2, <1>3 DEF BodiesIn

LEMMA NoBodies == BodiesIn(<<>>) = {} /\ <<>> \in Seq(Rows) /\ DOMAIN <<>> = {}
<1>1. DOMAIN <<>> = {} /\ <<>> \in Seq(Rows)
  OBVIOUS
<1>2. QED
  BY <1>1 DEF BodiesIn

LEMMA BodiesTyped ==
  ASSUME NEW s \in Seq(Rows)
  PROVE  BodiesIn(s) \subseteq Bodies
<1>1. \A i \in DOMAIN s : s[i] \in Rows
  OBVIOUS
<1>2. QED
  BY <1>1 DEF BodiesIn, Rows

LEMMA ConcatParts ==
  ASSUME NEW S, NEW s \in Seq(S), NEW t \in Seq(S)
  PROVE  /\ s \o t \in Seq(S) /\ DOMAIN (s \o t) = 1 .. (Len(s) + Len(t))
         /\ \A i \in 1 .. (Len(s) + Len(t)) :
              (s \o t)[i] = IF i <= Len(s) THEN s[i] ELSE t[i - Len(s)]
OBVIOUS

LEMMA SingleEmpty == \A b : Single(<<>>, b)
BY DEF Single

LEMMA SingleTail ==
  ASSUME NEW s \in Seq(Rows), s # <<>>, NEW b, Single(s, b)
  PROVE  /\ Single(Tail(s), b)
         /\ Head(s).body = b => b \notin BodiesIn(Tail(s))
<1>1. /\ Len(s) \in Nat \ {0} /\ DOMAIN s = 1 .. Len(s) /\ Head(s) = s[1]
      /\ DOMAIN Tail(s) = 1 .. (Len(s) - 1)
      /\ \A i \in 1 .. (Len(s) - 1) : Tail(s)[i] = s[i + 1]
  BY SeqParts
<1>2. ASSUME NEW i \in DOMAIN Tail(s)
      PROVE  i \in Nat /\ i + 1 \in DOMAIN s /\ Tail(s)[i] = s[i + 1] /\ i + 1 # 1
  BY <1>1
<1>3. ASSUME NEW i \in DOMAIN Tail(s), NEW j \in DOMAIN Tail(s),
             Tail(s)[i].body = b, Tail(s)[j].body = b
      PROVE  i = j
  <2>1. i + 1 = j + 1
    BY <1>2, <1>3 DEF Single
  <2>2. QED
    BY <1>2, <2>1
<1>4. ASSUME Head(s).body = b, NEW i \in DOMAIN Tail(s), Tail(s)[i].body = b
      PROVE  FALSE
  <2>1. 1 \in DOMAIN s /\ s[1].body = b
    BY <1>1, <1>4
  <2>2. QED
    BY <1>2, <1>4, <2>1 DEF Single
<1>5. QED
  BY <1>3, <1>4 DEF Single, BodiesIn

LEMMA SingleAppend ==
  ASSUME NEW s \in Seq(Rows), NEW r \in Rows, NEW b, Single(s, b),
         r.body = b => b \notin BodiesIn(s)
  PROVE  Single(Append(s, r), b)
<1>1. /\ DOMAIN s = 1 .. Len(s) /\ DOMAIN Append(s, r) = 1 .. (Len(s) + 1)
      /\ \A i \in 1 .. Len(s) : Append(s, r)[i] = s[i]
      /\ Append(s, r)[Len(s) + 1] = r /\ Len(s) \in Nat
  BY AppendParts
<1>2. \A i \in DOMAIN Append(s, r) :
        \/ i \in DOMAIN s /\ Append(s, r)[i] = s[i]
        \/ i = Len(s) + 1 /\ Append(s, r)[i] = r
  BY <1>1
<1>3. r.body = b => \A i \in DOMAIN s : s[i].body # b
  BY DEF BodiesIn
<1>4. QED
  BY <1>2, <1>3 DEF Single

\* The rows of f are those of s and of g, and of a body either has only once there
\* is only one - unless both have it.
Blend(f, s, g) ==
  /\ f \in Seq(Rows)
  /\ \A i \in DOMAIN f :
       \/ \E j \in DOMAIN s : f[i] = s[j]
       \/ \E j \in DOMAIN g : f[i] = g[j]
  /\ \A b : Single(s, b) /\ Single(g, b) /\ (b \notin BodiesIn(s) \/ b \notin BodiesIn(g))
              => Single(f, b)

LEMMA BlendBodies ==
  ASSUME NEW f, NEW s, NEW g, Blend(f, s, g)
  PROVE  BodiesIn(f) \subseteq BodiesIn(s) \cup BodiesIn(g)
BY DEF Blend, BodiesIn

LEMMA BlendSame ==
  ASSUME NEW s, NEW g \in Seq(Rows)
  PROVE  Blend(g, s, g)
BY DEF Blend

LEMMA AtMost == ASSUME NEW m \in Nat, NEW n \in Nat, m <= n PROVE m < n \/ m = n
OBVIOUS

\* The part of a sequence from j + 1 on, behind the first k rows of another.
LEMMA BlendParts ==
  ASSUME NEW s \in Seq(Rows), NEW g \in Seq(Rows), NEW k \in 0 .. Len(s), NEW j \in 0 .. Len(g)
  PROVE  LET w == SubSeq(s, 1, k) \o SubSeq(g, j + 1, Len(g)) IN
         /\ w \in Seq(Rows) /\ k \in Nat /\ j \in Nat
         /\ \A i \in DOMAIN w :
              \/ i <= k /\ i \in DOMAIN s /\ w[i] = s[i]
              \/ /\ i \in Nat /\ i > k /\ (i - k) + j \in DOMAIN g /\ w[i] = g[(i - k) + j]
<1> DEFINE front == SubSeq(s, 1, k)
           back == SubSeq(g, j + 1, Len(g))
           w == front \o back
<1>1. /\ Len(s) \in Nat /\ Len(g) \in Nat /\ k \in Nat /\ j \in Nat /\ j <= Len(g)
      /\ DOMAIN s = 1 .. Len(s) /\ DOMAIN g = 1 .. Len(g)
  OBVIOUS
<1>2. /\ front \in Seq(Rows) /\ Len(front) = k
      /\ \A i \in 1 .. k : front[i] = s[i]
  BY <1>1
<1>8. /\ back \in Seq(Rows) /\ Len(back) = IF j < Len(g) THEN Len(g) - j ELSE 0
      /\ \A i \in 1 .. Len(back) : back[i] = g[j + i]
  BY <1>1
<1> HIDE DEF front, back
<1>3. /\ back \in Seq(Rows) /\ Len(back) = Len(g) - j
      /\ \A i \in 1 .. Len(back) : back[i] = g[j + i]
  <2>1. CASE j < Len(g)
    BY <1>8, <2>1
  <2>2. CASE j = Len(g)
    <3>1. ~ j < Len(g) /\ Len(g) - j = 0
      BY <1>1, <2>2
    <3>2. QED
      BY <1>8, <3>1
  <2>3. j < Len(g) \/ j = Len(g)
    BY <1>1, AtMost
  <2>4. QED
    BY <2>1, <2>2, <2>3
<1>4. /\ w \in Seq(Rows) /\ DOMAIN w = 1 .. (k + Len(back))
      /\ \A i \in 1 .. (k + Len(back)) :
           w[i] = IF i <= k THEN front[i] ELSE back[i - k]
  BY <1>2, <1>3, ConcatParts
<1>5. ASSUME NEW i \in DOMAIN w
      PROVE  \/ i <= k /\ i \in DOMAIN s /\ w[i] = s[i]
             \/ i \in Nat /\ i > k /\ (i - k) + j \in DOMAIN g /\ w[i] = g[(i - k) + j]
  <2>1. i \in 1 .. (k + Len(back)) /\ Len(back) \in Nat
    BY <1>1, <1>3, <1>4
  <2>2. CASE i <= k
    BY <2>1, <2>2, <1>1, <1>2, <1>4
  <2>3. CASE ~ i <= k
    <3>1. i \in Nat /\ i > k /\ i - k \in 1 .. Len(back)
      BY <1>1, <2>1, <2>3
    <3>2. w[i] = back[i - k] /\ back[i - k] = g[j + (i - k)]
      BY <1>3, <1>4, <2>1, <2>3, <3>1
    <3>3. (i - k) + j = j + (i - k) /\ (i - k) + j \in DOMAIN g
      BY <1>1, <1>3, <3>1
    <3>4. QED
      BY <3>1, <3>2, <3>3
  <2>4. QED
    BY <2>2, <2>3
<1>6. QED
  BY <1>1, <1>4, <1>5 DEF front, back

LEMMA BlendOver ==
  ASSUME NEW s \in Seq(Rows), NEW g \in Seq(Rows), NEW k \in 0 .. Len(s), NEW j \in 0 .. Len(g),
         NEW w, w = SubSeq(s, 1, k) \o SubSeq(g, j + 1, Len(g))
  PROVE  Blend(w, s, g)
<1>1. /\ w \in Seq(Rows) /\ k \in Nat /\ j \in Nat
      /\ \A i \in DOMAIN w :
           \/ i <= k /\ i \in DOMAIN s /\ w[i] = s[i]
           \/ i \in Nat /\ i > k /\ (i - k) + j \in DOMAIN g /\ w[i] = g[(i - k) + j]
  <2> DEFINE v == SubSeq(s, 1, k) \o SubSeq(g, j + 1, Len(g))
  <2>1. /\ v \in Seq(Rows) /\ k \in Nat /\ j \in Nat
        /\ \A i \in DOMAIN v :
             \/ i <= k /\ i \in DOMAIN s /\ v[i] = s[i]
             \/ i \in Nat /\ i > k /\ (i - k) + j \in DOMAIN g /\ v[i] = g[(i - k) + j]
    BY BlendParts
  <2>2. w = v
    OBVIOUS
  <2> HIDE DEF v
  <2>3. QED
    BY <2>1, <2>2
<1>2. \A i \in DOMAIN w :
        \/ \E m \in DOMAIN s : w[i] = s[m]
        \/ \E m \in DOMAIN g : w[i] = g[m]
  BY <1>1
<1>3. ASSUME NEW b, Single(s, b), Single(g, b), b \notin BodiesIn(s) \/ b \notin BodiesIn(g),
             NEW m \in DOMAIN w, NEW n \in DOMAIN w, w[m].body = b, w[n].body = b
      PROVE  m = n
  <2>1. m \in Nat /\ n \in Nat
    BY <1>1
  <2>2. CASE b \notin BodiesIn(g)
    <3>1. \A i \in DOMAIN g : g[i].body # b
      BY <2>2 DEF BodiesIn
    <3>2. m \in DOMAIN s /\ w[m] = s[m] /\ n \in DOMAIN s /\ w[n] = s[n]
      BY <1>1, <1>3, <3>1
    <3>3. QED
      BY <1>3, <3>2 DEF Single
  <2>3. CASE b \notin BodiesIn(s)
    <3>1. \A i \in DOMAIN s : s[i].body # b
      BY <2>3 DEF BodiesIn
    <3>2. /\ (m - k) + j \in DOMAIN g /\ w[m] = g[(m - k) + j]
          /\ (n - k) + j \in DOMAIN g /\ w[n] = g[(n - k) + j]
      BY <1>1, <1>3, <3>1
    <3>3. (m - k) + j = (n - k) + j
      BY <1>3, <3>2 DEF Single
    <3>4. QED
      BY <1>1, <2>1, <3>3
  <2>4. QED
    BY <1>3, <2>2, <2>3
<1>5. ASSUME NEW b, Single(s, b), Single(g, b), b \notin BodiesIn(s) \/ b \notin BodiesIn(g)
      PROVE  Single(w, b)
  BY <1>3, <1>5 DEF Single
<1>6. w \in Seq(Rows)
  BY <1>1
<1>7. QED
  BY <1>2, <1>5, <1>6 DEF Blend

LEMMA FrontBodies ==
  ASSUME NEW s \in Seq(Rows), NEW t \in Seq(Rows)
  PROVE  BodiesIn(s) \subseteq BodiesIn(s \o t)
<1>1. ASSUME NEW i \in DOMAIN s PROVE i \in DOMAIN (s \o t) /\ (s \o t)[i] = s[i]
  <2>1. /\ i \in 1 .. Len(s) /\ Len(s) \in Nat /\ Len(t) \in Nat
    OBVIOUS
  <2>2. i \in 1 .. (Len(s) + Len(t)) /\ i <= Len(s)
    BY <2>1
  <2>3. QED
    BY <2>2, ConcatParts
<1>2. QED
  BY <1>1 DEF BodiesIn

LEMMA BackTyped ==
  ASSUME NEW g \in Seq(Rows), NEW j \in 0 .. Len(g)
  PROVE  SubSeq(g, j + 1, Len(g)) \in Seq(Rows)
OBVIOUS

LEMMA WholeFront == ASSUME NEW s \in Seq(Rows) PROVE SubSeq(s, 1, Len(s)) = s
OBVIOUS

\* A row behind those of the file, or behind all but the last of them.
LEMMA BlendAppend ==
  ASSUME NEW g \in Seq(Rows), NEW r \in Rows
  PROVE  /\ <<r>> \in Seq(Rows) /\ BodiesIn(<<r>>) = {r.body}
         /\ \A b : Single(<<r>>, b)
         /\ \A i \in DOMAIN <<r>> : <<r>>[i] = r
         /\ Blend(Append(g, r), <<r>>, g)
<1>1. <<r>> \in Seq(Rows) /\ DOMAIN <<r>> = {1} /\ <<r>>[1] = r
  OBVIOUS
<1>2. BodiesIn(<<r>>) = {r.body} /\ \A b : Single(<<r>>, b)
  BY <1>1 DEF BodiesIn, Single
<1>3. \A b : Single(g, b) /\ (r.body # b \/ b \notin BodiesIn(g)) => Single(Append(g, r), b)
  BY SingleAppend
<1>4. \A i \in DOMAIN Append(g, r) :
        \/ \E j \in DOMAIN <<r>> : Append(g, r)[i] = <<r>>[j]
        \/ \E j \in DOMAIN g : Append(g, r)[i] = g[j]
  <2>1. ASSUME NEW i \in DOMAIN Append(g, r)
        PROVE  \/ \E j \in DOMAIN <<r>> : Append(g, r)[i] = <<r>>[j]
               \/ \E j \in DOMAIN g : Append(g, r)[i] = g[j]
    <3>1. (i \in DOMAIN g /\ Append(g, r)[i] = g[i]) \/ Append(g, r)[i] = r
      BY AppendParts
    <3>2. QED
      BY <1>1, <3>1
  <2>2. QED
    BY <2>1
<1>5. Append(g, r) \in Seq(Rows)
  BY AppendParts
<1>6. QED
  BY <1>1, <1>2, <1>3, <1>4, <1>5 DEF Blend

LEMMA BlendFront ==
  ASSUME NEW g \in Seq(Rows), g # <<>>, NEW s
  PROVE  Blend(SubSeq(g, 1, Len(g) - 1), s, g)
<1> DEFINE f == SubSeq(g, 1, Len(g) - 1)
<1>1. /\ f \in Seq(Rows) /\ \A i \in DOMAIN f : i \in DOMAIN g /\ f[i] = g[i]
  OBVIOUS
<1> HIDE DEF f
<1>2. Blend(f, s, g)
  BY <1>1 DEF Blend, Single
<1>3. QED
  BY <1>2 DEF f

-----------------------------------------------------------------------------
\* Types, and who holds what.

LEMMA SiemParts ==
  ASSUME Configured, SiemBase
  PROVE  /\ file \in Seq(Rows) /\ lock \in [Processes -> Threads \cup {NoThread}]
         /\ thread \in [Threads -> SiemThread]
         /\ pushed \in 0 .. MaxBodies /\ MaxBodies \in Nat
         /\ faults \in 0 .. MaxFaults /\ MaxFaults \in Nat
         /\ flushes \in 0 .. MaxFlushes /\ MaxFlushes \in Nat
         /\ tail \in {"whole", "bare", "cut"}
         /\ posts \in [Bodies -> 0 .. 2]
         /\ givenUp \subseteq Bodies /\ gone \subseteq Bodies /\ unsure \subseteq Bodies
         /\ BodiesIn(file) \subseteq 1 .. pushed /\ 1 .. pushed \subseteq Bodies
         /\ \A b \in Bodies : b > pushed => posts[b] = 0
BY DEF SiemBase, QueueTypeOK, Configured, Bodies

LEMMA FreeThreadIs ==
  ASSUME Configured
  PROVE  /\ \A p, n : SiemThreadOK(FreeThread, p, n)
         /\ FreeThread.at = "idle" /\ HeldBy(FreeThread) = {} /\ FreeThread.loaded = {}
         /\ FreeThread.rows = <<>> /\ FreeThread.kept = <<>>
<1>1. FreeThread \in SiemThread
  BY NoBodies DEF SiemThread, FreeThread, Configured
<1>2. /\ FreeThread.at = "idle" /\ FreeThread.rows = <<>> /\ FreeThread.kept = <<>> /\ FreeThread.loaded = {}
  BY DEF FreeThread
<1>3. HeldBy(FreeThread) = {}
  BY <1>2, NoBodies DEF HeldBy
<1>4. QED
  BY <1>1, <1>2, <1>3, NoBodies DEF SiemThreadOK

\* Later pushes disturb nobody.
LEMMA OlderThread ==
  ASSUME Configured, SiemBase, NEW t \in Threads, NEW n \in pushed .. MaxBodies
  PROVE  SiemThreadOK(thread[t], My(t), n)
<1>1. 1 .. pushed \subseteq 1 .. n
  BY SiemParts
<1>2. QED
  BY <1>1 DEF SiemBase, SiemThreadOK

LEMMA TookParts ==
  ASSUME Configured, SiemBase, NEW b \in Bodies, Took(b)
  PROVE  /\ posts' \in [Bodies -> 0 .. 2]
         /\ posts'[b] > 0
         /\ posts[b] = 0 => posts'[b] = 1
         /\ \A c \in Bodies : c # b => posts'[c] = posts[c]
         /\ \A c \in Bodies : posts[c] > 0 => posts'[c] > 0
<1>1. posts \in [Bodies -> 0 .. 2]
  BY SiemParts
<1>2. posts' = [posts EXCEPT ![b] = IF posts[b] = 2 THEN 2 ELSE posts[b] + 1]
  BY DEF Took
<1>3. posts[b] \in 0 .. 2
  BY <1>1
<1>4. posts'[b] = IF posts[b] = 2 THEN 2 ELSE posts[b] + 1
  BY <1>1, <1>2
<1>5. posts'[b] \in 0 .. 2 /\ posts'[b] > 0 /\ (posts[b] = 0 => posts'[b] = 1)
  BY <1>3, <1>4
<1>6. \A c \in Bodies : c # b => posts'[c] = posts[c]
  BY <1>1, <1>2
<1>7. posts' \in [Bodies -> 0 .. 2]
  BY <1>1, <1>2, <1>4, <1>5
<1>8. QED
  BY <1>5, <1>6, <1>7

\* A step of one thread.
ThreadStep(t, x) == thread' = [thread EXCEPT ![t] = x]

LEMMA ThreadIs ==
  ASSUME Configured, SiemBase, NEW t \in Threads, NEW x, ThreadStep(t, x)
  PROVE  /\ thread'[t] = x
         /\ \A u \in Threads : u # t => thread'[u] = thread[u]
         /\ \A u \in Threads : thread'[u] = IF u = t THEN x ELSE thread[u]
BY SiemParts DEF ThreadStep

LEMMA BaseStep ==
  ASSUME Configured, SiemBase, NEW t \in Threads, NEW x, ThreadStep(t, x),
         SiemThreadOK(x, My(t), pushed'),
         file' \in Seq(Rows), BodiesIn(file') \subseteq 1 .. pushed',
         pushed' \in pushed .. MaxBodies, tail' \in {"whole", "bare", "cut"},
         flushes' \in 0 .. MaxFlushes, faults' \in 0 .. MaxFaults,
         posts' \in [Bodies -> 0 .. 2], \A b \in Bodies : b > pushed' => posts'[b] = 0,
         givenUp' \subseteq Bodies, gone' \subseteq Bodies, unsure' \subseteq Bodies,
         \/ /\ lock' = lock
            /\ x.at \in {"flush", "save"} => lock[My(t)] = t
         \/ /\ lock' = [lock EXCEPT ![My(t)] = t]
            /\ lock[My(t)] = NoThread
         \/ /\ lock' = [lock EXCEPT ![My(t)] = NoThread]
            /\ lock[My(t)] = t /\ x.at \notin {"flush", "save"}
  PROVE  SiemBase'
<1>0. /\ My(t) \in Processes /\ NoThread \notin Threads /\ pushed' \in 0 .. MaxBodies
      /\ lock \in [Processes -> Threads \cup {NoThread}]
      /\ thread \in [Threads -> SiemThread] /\ x \in SiemThread
  BY SiemParts DEF Configured, My, SiemThreadOK
<1>1. \A u \in Threads : thread'[u] = IF u = t THEN x ELSE thread[u]
  BY ThreadIs
<1>2. thread' \in [Threads -> SiemThread]
  BY <1>0 DEF ThreadStep
<1>3. \A u \in Threads : SiemThreadOK(thread'[u], My(u), pushed')
  BY <1>1, OlderThread
<1>4. ASSUME NEW u \in Threads, thread'[u].at \in {"flush", "save"}
      PROVE  lock'[My(u)] = u
  <2>1. My(u) \in Processes
    BY DEF Configured, My
  <2>2. CASE u = t
    BY <1>0, <1>1, <1>4, <2>2
  <2>3. CASE u # t
    <3>1. lock[My(u)] = u
      BY <1>1, <1>4, <2>3 DEF SiemBase, Flushing
    <3>2. My(u) = My(t) => lock' = lock
      BY <1>0, <2>3, <3>1
    <3>3. QED
      BY <1>0, <2>1, <3>1, <3>2
  <2>4. QED
    BY <2>2, <2>3
<1>5. lock' \in [Processes -> Threads \cup {NoThread}]
  BY <1>0
<1>6. QueueTypeOK'
  BY <1>0, <1>5, SiemParts DEF QueueTypeOK
<1>7. QED
  BY <1>2, <1>3, <1>4, <1>6 DEF SiemBase, Flushing, My

\* Push: the body is new; it is delivered, or held for the append.
LEMMA PushIs ==
  ASSUME Configured, SiemBase, NEW t \in Threads, Push(t)
  PROVE  \E x :
           /\ ThreadStep(t, x) /\ thread[t] = FreeThread
           /\ pushed' = pushed + 1 /\ pushed + 1 \in Bodies
           /\ SiemThreadOK(x, My(t), pushed + 1)
           /\ UNCHANGED <<file, tail, lock, flushes, faults, givenUp, gone>>
           /\ \/ x = FreeThread /\ Took(pushed + 1) /\ unsure' = unsure
              \/ /\ x.at = "append" /\ x.body = pushed + 1
                 /\ x.rows = <<>> /\ x.kept = <<>>
                 /\ \/ posts' = posts /\ unsure' = unsure
                    \/ Took(pushed + 1) /\ unsure' = unsure \cup {pushed + 1}
<1> DEFINE y == [FreeThread EXCEPT !.at = "append", !.body = pushed + 1]
<1>1. thread[t] = FreeThread /\ pushed < MaxBodies /\ pushed' = pushed + 1
  BY DEF Push
<1>2. pushed + 1 \in Bodies /\ pushed + 1 \in 1 .. (pushed + 1) /\ pushed + 1 \in 0 .. MaxBodies
  BY <1>1, SiemParts DEF Bodies
<1>3. /\ y.at = "append" /\ y.body = pushed + 1 /\ y.rows = <<>> /\ y.kept = <<>>
      /\ y.loaded = {} /\ y \in SiemThread
  BY <1>2, NoBodies DEF SiemThread, FreeThread
<1> HIDE DEF y
<1>4. SiemThreadOK(y, My(t), pushed + 1)
  BY <1>2, <1>3, NoBodies DEF SiemThreadOK
<1>5. ThreadStep(t, FreeThread) <=> UNCHANGED thread
  BY <1>1, SiemParts DEF ThreadStep
<1>6. CASE Took(pushed + 1) /\ UNCHANGED <<thread, unsure>>
  <2>1. ThreadStep(t, FreeThread) /\ SiemThreadOK(FreeThread, My(t), pushed + 1)
    BY <1>5, <1>6, FreeThreadIs
  <2>2. QED
    BY <1>1, <1>2, <1>6, <2>1 DEF Push
<1>7. CASE ~ (Took(pushed + 1) /\ UNCHANGED <<thread, unsure>>)
  <2>1. /\ ThreadStep(t, y)
        /\ \/ posts' = posts /\ unsure' = unsure
           \/ Took(pushed + 1) /\ unsure' = unsure \cup {pushed + 1}
    BY <1>7 DEF Push, ThreadStep, y
  <2>2. QED
    BY <1>1, <1>2, <1>3, <1>4, <2>1 DEF Push
<1>8. QED
  BY <1>6, <1>7

LEMMA BasePush ==
  ASSUME Configured, SiemBase, NEW t \in Threads, Push(t)
  PROVE  SiemBase'
<1>1. PICK x :
        /\ ThreadStep(t, x)
        /\ pushed' = pushed + 1 /\ pushed + 1 \in Bodies
        /\ SiemThreadOK(x, My(t), pushed + 1)
        /\ UNCHANGED <<file, tail, lock, flushes, faults, givenUp, gone>>
        /\ x.at \in {"idle", "append"}
        /\ \/ Took(pushed + 1) /\ unsure' = unsure
           \/ posts' = posts /\ unsure' = unsure
           \/ Took(pushed + 1) /\ unsure' = unsure \cup {pushed + 1}
  BY PushIs, FreeThreadIs
<1>2. /\ pushed' \in pushed .. MaxBodies /\ 1 .. pushed \subseteq 1 .. pushed'
      /\ \A b \in Bodies : b > pushed' => b > pushed /\ b # pushed + 1
  BY <1>1, SiemParts DEF Bodies
<1>3. posts' \in [Bodies -> 0 .. 2] /\ \A b \in Bodies : b > pushed' => posts'[b] = 0
  BY <1>1, <1>2, SiemParts, TookParts
<1>4. unsure' \subseteq Bodies
  BY <1>1, SiemParts
<1>5. file' \in Seq(Rows) /\ BodiesIn(file') \subseteq 1 .. pushed'
  BY <1>1, <1>2, SiemParts
<1>6. QED
  BY <1>1, <1>2, <1>3, <1>4, <1>5, SiemParts, BaseStep

\* flush_siem_queue: the rows of the file, under the lock of the process.
LEMMA LoadIs ==
  ASSUME Configured, SiemBase, NEW t \in Threads, Load(t)
  PROVE  \E x :
           /\ ThreadStep(t, x) /\ thread[t] = FreeThread /\ lock[My(t)] = NoThread
           /\ SiemThreadOK(x, My(t), pushed)
           /\ x.at = "flush" /\ x.rows = file /\ x.kept = <<>>
           /\ x.loaded = BodiesIn(file)
           /\ lock' = [lock EXCEPT ![My(t)] = t]
           /\ unsure' = unsure \cup
                {b \in BodiesIn(file) :
                   \E u \in Threads \ {t} : Flushing(u) /\ b \in thread[u].loaded}
           /\ flushes' \in 0 .. MaxFlushes
           /\ UNCHANGED <<file, tail, pushed, faults, posts, givenUp, gone>>
<1> DEFINE x == [FreeThread EXCEPT !.at = "flush", !.rows = file, !.loaded = BodiesIn(file)]
<1>1. /\ ThreadStep(t, x) /\ thread[t] = FreeThread /\ lock[My(t)] = NoThread
      /\ lock' = [lock EXCEPT ![My(t)] = t]
      /\ unsure' = unsure \cup
           {b \in BodiesIn(file) :
              \E u \in Threads \ {t} : Flushing(u) /\ b \in thread[u].loaded}
      /\ flushes' \in 0 .. MaxFlushes
           /\ UNCHANGED <<file, tail, pushed, faults, posts, givenUp, gone>>
  BY SiemParts DEF Load, Locked, ThreadStep
<1>2. /\ x.at = "flush" /\ x.rows = file /\ x.kept = <<>> /\ x.loaded = BodiesIn(file)
      /\ x.body = 0 /\ x.flushed = 0
  BY DEF FreeThread
<1>3. x \in SiemThread
  <2>1. BodiesIn(file) \in SUBSET Bodies /\ file \in Seq(Rows) /\ 0 \in 0 .. MaxBodies
    BY SiemParts
  <2>2. QED
    BY <2>1, NoBodies DEF FreeThread, SiemThread
<1> HIDE DEF x
<1>4. SiemThreadOK(x, My(t), pushed)
  BY <1>2, <1>3, SiemParts, NoBodies DEF SiemThreadOK
<1>5. QED
  BY <1>1, <1>2, <1>4

LEMMA BaseLoad ==
  ASSUME Configured, SiemBase, NEW t \in Threads, Load(t)
  PROVE  SiemBase'
<1>1. PICK x :
        /\ ThreadStep(t, x) /\ lock[My(t)] = NoThread
        /\ SiemThreadOK(x, My(t), pushed)
        /\ lock' = [lock EXCEPT ![My(t)] = t]
        /\ unsure' \subseteq unsure \cup BodiesIn(file)
        /\ flushes' \in 0 .. MaxFlushes
           /\ UNCHANGED <<file, tail, pushed, faults, posts, givenUp, gone>>
  BY LoadIs
<1>2. pushed' \in pushed .. MaxBodies /\ unsure' \subseteq Bodies
  BY <1>1, SiemParts
<1>3. QED
  BY <1>1, <1>2, SiemParts, BaseStep

\* What a flush does to the row it takes: it keeps it under its own name,
\* or the SIEM took it, or it is given up.  A row both delivered and kept
\* is unsure.
RowTaken(t, x, r) ==
  /\ ThreadStep(t, x) /\ SiemThreadOK(x, My(t), pushed)
  /\ thread[t].at = "flush" /\ x.at = "flush" /\ x.loaded = thread[t].loaded
  /\ thread[t].rows # <<>> /\ x.rows = Tail(thread[t].rows)
  /\ r \in Rows /\ r.body = Head(thread[t].rows).body
  /\ r.body \in thread[t].loaded
  /\ \/ x.kept = Append(thread[t].kept, r)
     \/ x.kept = thread[t].kept /\ (posts'[r.body] > 0 \/ r.body \in givenUp')
  /\ \/ posts' = posts /\ unsure' = unsure
     \/ Took(r.body) /\ unsure' = unsure \cup {r.body}
     \/ Took(r.body) /\ unsure' = unsure /\ x.kept = thread[t].kept
  /\ givenUp \subseteq givenUp' /\ givenUp' \subseteq Bodies
  /\ UNCHANGED <<file, tail, lock, pushed, flushes, faults, gone>>

LEMMA RowOf ==
  ASSUME Configured, SiemBase, NEW t \in Threads, InRows(t)
  PROVE  /\ thread[t].at = "flush" /\ thread[t].rows # <<>>
         /\ thread[t] \in SiemThread
         /\ FirstRow(t) \in Rows /\ FirstRow(t) = Head(thread[t].rows)
         /\ FirstRow(t).body \in thread[t].loaded /\ FirstRow(t).body \in Bodies
         /\ FirstRow(t).attempts \in 0 .. MaxAttempts
<1>1. /\ thread[t].at = "flush" /\ thread[t].rows # <<>> /\ thread[t] \in SiemThread
      /\ BodiesIn(thread[t].rows) \subseteq thread[t].loaded
  BY SiemParts DEF InRows, SiemBase, SiemThreadOK
<1>2. thread[t].rows \in Seq(Rows)
  BY <1>1 DEF SiemThread
<1>3. FirstRow(t) = Head(thread[t].rows) /\ FirstRow(t) \in Rows
  BY <1>1, <1>2, SeqParts DEF FirstRow
<1>4. FirstRow(t).body \in thread[t].loaded
  BY <1>1, <1>2, <1>3, BodiesOfTail
<1>5. QED
  BY <1>1, <1>3, <1>4 DEF Rows

\* The thread after the row was kept, or dropped.
LEMMA RowKept ==
  ASSUME Configured, SiemBase, NEW t \in Threads, InRows(t),
         NEW n \in 0 .. MaxAttempts, Keep(t, n)
  PROVE  \E x : \E r \in Rows :
           /\ ThreadStep(t, x) /\ SiemThreadOK(x, My(t), pushed)
           /\ x.at = "flush" /\ x.loaded = thread[t].loaded
           /\ x.rows = Tail(thread[t].rows)
           /\ r.body = FirstRow(t).body /\ x.kept = Append(thread[t].kept, r)
<1> DEFINE r == Row(FirstRow(t).body, n, My(t))
           x == [thread[t] EXCEPT !.rows = Tail(@), !.kept = Append(@, r)]
<1>1. ThreadStep(t, x)
  BY SiemParts DEF Keep, ThreadStep
<1>2. r \in Rows /\ r.body = FirstRow(t).body /\ r.writer = My(t)
  BY RowOf DEF Row, Rows, Configured, My
<1>3. /\ thread[t].rows \in Seq(Rows) /\ thread[t].kept \in Seq(Rows)
      /\ SiemThreadOK(thread[t], My(t), pushed)
  BY RowOf DEF SiemBase, SiemThread
<1> HIDE DEF r
<1>4. Tail(thread[t].rows) \in Seq(Rows) /\ Append(thread[t].kept, r) \in Seq(Rows)
  BY <1>2, <1>3, RowOf, SeqParts, AppendParts
<1>5. /\ x \in SiemThread /\ x.at = "flush" /\ x.loaded = thread[t].loaded
      /\ x.rows = Tail(thread[t].rows) /\ x.kept = Append(thread[t].kept, r)
  BY <1>4, RowOf DEF SiemThread
<1> HIDE DEF x
<1>6. \A i \in DOMAIN x.kept : x.kept[i].writer = My(t)
  <2>1. \A i \in DOMAIN thread[t].kept : thread[t].kept[i].writer = My(t)
    BY <1>3 DEF SiemThreadOK
  <2>2. ASSUME NEW i \in DOMAIN x.kept PROVE x.kept[i].writer = My(t)
    <3>1. i \in 1 .. Len(thread[t].kept) \/ i = Len(thread[t].kept) + 1
      BY <1>2, <1>3, <1>5, AppendParts
    <3>2. QED
      BY <1>2, <1>3, <1>5, <2>1, <3>1, AppendParts
  <2>3. QED
    BY <2>2
<1>7. BodiesIn(x.rows) \cup BodiesIn(x.kept) \subseteq x.loaded
  <2>1. BodiesIn(thread[t].rows) \cup BodiesIn(thread[t].kept) \subseteq thread[t].loaded
    BY <1>3 DEF SiemThreadOK
  <2>2. BodiesIn(x.rows) \subseteq BodiesIn(thread[t].rows)
    BY <1>3, <1>5, RowOf, BodiesOfTail
  <2>3. BodiesIn(x.kept) = BodiesIn(thread[t].kept) \cup {FirstRow(t).body}
    BY <1>2, <1>3, <1>5, BodiesOfAppend
  <2>4. QED
    BY <1>5, <2>1, <2>2, <2>3, RowOf
<1>8. SiemThreadOK(x, My(t), pushed)
  BY <1>3, <1>5, <1>6, <1>7 DEF SiemThreadOK
<1>9. QED
  BY <1>1, <1>2, <1>5, <1>8

LEMMA RowDropped ==
  ASSUME Configured, SiemBase, NEW t \in Threads, InRows(t), NEW n \in Nat,
         ThreadStep(t, [thread[t] EXCEPT !.rows = Tail(@), !.flushed = n])
  PROVE  \E x :
           /\ ThreadStep(t, x) /\ SiemThreadOK(x, My(t), pushed)
           /\ x.at = "flush" /\ x.loaded = thread[t].loaded
           /\ x.rows = Tail(thread[t].rows) /\ x.kept = thread[t].kept
<1> DEFINE x == [thread[t] EXCEPT !.rows = Tail(@), !.flushed = n]
<1>1. /\ thread[t].rows \in Seq(Rows) /\ thread[t].kept \in Seq(Rows)
      /\ SiemThreadOK(thread[t], My(t), pushed)
  BY RowOf DEF SiemBase, SiemThread
<1>2. Tail(thread[t].rows) \in Seq(Rows)
  BY <1>1, RowOf, SeqParts
<1>3. /\ x \in SiemThread /\ x.at = "flush" /\ x.loaded = thread[t].loaded
      /\ x.rows = Tail(thread[t].rows) /\ x.kept = thread[t].kept
  BY <1>2, RowOf DEF SiemThread
<1>4. ThreadStep(t, x)
  OBVIOUS
<1> HIDE DEF x
<1>5. BodiesIn(x.rows) \subseteq BodiesIn(thread[t].rows)
  BY <1>1, <1>3, RowOf, BodiesOfTail
<1>6. SiemThreadOK(x, My(t), pushed)
  BY <1>1, <1>3, <1>5 DEF SiemThreadOK
<1>7. QED
  BY <1>3, <1>4, <1>6

LEMMA RowIsTaken ==
  ASSUME Configured, SiemBase, NEW t \in Threads, Later(t) \/ Post(t) \/ PostFails(t)
  PROVE  \E x, r : RowTaken(t, x, r)
<1> DEFINE b == FirstRow(t).body
<1>1. InRows(t) /\ UNCHANGED <<file, tail, lock, pushed, flushes, faults, gone>>
  BY DEF Later, Post, PostFails
<1>2. givenUp \subseteq Bodies /\ b \in Bodies /\ FirstRow(t) \in Rows
  BY <1>1, SiemParts, RowOf
<1>3. ASSUME NEW n \in 0 .. MaxAttempts, Keep(t, n), givenUp' = givenUp,
             \/ posts' = posts /\ unsure' = unsure
             \/ Took(b) /\ unsure' = unsure \cup {b}
      PROVE  \E x, r : RowTaken(t, x, r)
  <2>1. PICK x : \E r \in Rows :
          /\ ThreadStep(t, x) /\ SiemThreadOK(x, My(t), pushed)
          /\ x.at = "flush" /\ x.loaded = thread[t].loaded
          /\ x.rows = Tail(thread[t].rows)
          /\ r.body = FirstRow(t).body /\ x.kept = Append(thread[t].kept, r)
    BY <1>1, <1>3, RowKept
  <2>4. PICK r \in Rows :
          r.body = FirstRow(t).body /\ x.kept = Append(thread[t].kept, r)
    BY <2>1
  <2>2. RowTaken(t, x, r)
    BY <1>1, <1>2, <1>3, <2>1, <2>4, RowOf DEF RowTaken
  <2>3. QED
    BY <2>2
<1>4. ASSUME NEW n \in Nat,
             ThreadStep(t, [thread[t] EXCEPT !.rows = Tail(@), !.flushed = n]),
             givenUp \subseteq givenUp', givenUp' \subseteq Bodies,
             posts'[b] > 0 \/ b \in givenUp',
             \/ posts' = posts /\ unsure' = unsure
             \/ Took(b) /\ unsure' = unsure \cup {b}
             \/ Took(b) /\ unsure' = unsure
      PROVE  \E x, r : RowTaken(t, x, r)
  <2>1. PICK x :
          /\ ThreadStep(t, x) /\ SiemThreadOK(x, My(t), pushed)
          /\ x.at = "flush" /\ x.loaded = thread[t].loaded
          /\ x.rows = Tail(thread[t].rows) /\ x.kept = thread[t].kept
    BY <1>1, <1>4, RowDropped
  <2>2. RowTaken(t, x, FirstRow(t))
    BY <1>1, <1>2, <1>4, <2>1, RowOf DEF RowTaken
  <2>3. QED
    BY <2>2
<1>5. CASE Later(t)
  BY <1>1, <1>3, <1>5, RowOf DEF Later
<1>6. CASE Post(t)
  <2>1. Took(b) /\ unsure' = unsure /\ givenUp' = givenUp
    BY <1>6 DEF Post
  <2>2. thread[t].flushed + 1 \in Nat
    BY <1>1, RowOf DEF SiemThread
  <2>3. ThreadStep(t, [thread[t] EXCEPT !.rows = Tail(@), !.flushed = thread[t].flushed + 1])
    BY <1>6, SiemParts DEF Post, ThreadStep
  <2>4. posts'[b] > 0
    BY <1>2, <2>1, TookParts
  <2>5. QED
    BY <1>2, <1>4, <2>1, <2>2, <2>3, <2>4
<1>7. CASE PostFails(t)
  <2>1. \/ posts' = posts /\ unsure' = unsure
        \/ Took(b) /\ unsure' = unsure \cup {b}
    BY <1>7 DEF PostFails
  <2>2. CASE Drop(t) /\ givenUp' = givenUp \cup {b}
    <3>1. thread[t].flushed \in Nat /\ thread[t] \in SiemThread
      BY <1>1, RowOf DEF SiemThread
    <3>2. [thread[t] EXCEPT !.rows = Tail(@)]
            = [thread[t] EXCEPT !.rows = Tail(@), !.flushed = thread[t].flushed]
      BY <3>1 DEF SiemThread
    <3>3. ThreadStep(t, [thread[t] EXCEPT !.rows = Tail(@), !.flushed = thread[t].flushed])
      BY <2>2, <3>2, SiemParts DEF Drop, ThreadStep
    <3>4. QED
      BY <1>2, <1>4, <2>1, <2>2, <3>1, <3>3
  <2>3. CASE /\ FirstRow(t).attempts + 1 < MaxAttempts
             /\ Keep(t, FirstRow(t).attempts + 1) /\ UNCHANGED givenUp
    <3>1. FirstRow(t).attempts + 1 \in 0 .. MaxAttempts
      BY <1>1, <2>3, RowOf DEF Configured
    <3>2. QED
      BY <1>3, <2>1, <2>3, <3>1
  <2>4. QED
    BY <1>7, <2>2, <2>3 DEF PostFails
<1>8. QED
  BY <1>5, <1>6, <1>7

LEMMA BaseRow ==
  ASSUME Configured, SiemBase, NEW t \in Threads, NEW x, NEW r, RowTaken(t, x, r)
  PROVE  SiemBase'
<1>1. /\ ThreadStep(t, x) /\ SiemThreadOK(x, My(t), pushed')
      /\ UNCHANGED <<file, tail, lock, pushed, flushes, faults, gone>>
      /\ r.body \in thread[t].loaded /\ r \in Rows /\ givenUp' \subseteq Bodies
      /\ posts' = posts \/ Took(r.body)
      /\ unsure' \subseteq unsure \cup {r.body}
  BY DEF RowTaken
<1>2. r.body \in Bodies /\ r.body <= pushed
  BY <1>1, SiemParts DEF SiemBase, SiemThreadOK, Rows
<1>3. posts' \in [Bodies -> 0 .. 2] /\ \A b \in Bodies : b > pushed' => posts'[b] = 0
  <2>1. \A b \in Bodies : b > pushed => b # r.body
    BY <1>2, SiemParts DEF Bodies
  <2>2. QED
    BY <1>1, <1>2, <2>1, SiemParts, TookParts
<1>4. lock[My(t)] = t
  BY DEF RowTaken, SiemBase, Flushing
<1>5. pushed' \in pushed .. MaxBodies /\ unsure' \subseteq Bodies
  BY <1>1, <1>2, SiemParts
<1>6. QED
  BY <1>1, <1>3, <1>4, <1>5, SiemParts, BaseStep

\* _save_rows: emptied first, then written; foreign rows are lost.
LEMMA TruncateIs ==
  ASSUME Configured, SiemBase, NEW t \in Threads, Truncate(t)
  PROVE  \E x :
           /\ ThreadStep(t, x) /\ SiemThreadOK(x, My(t), pushed)
           /\ thread[t].at = "flush" /\ thread[t].rows = <<>>
           /\ x.at = "save" /\ x.loaded = thread[t].loaded
           /\ x.rows = <<>> /\ x.kept = thread[t].kept
           /\ file' = <<>> /\ tail' = "whole" /\ gone' = gone \cup Foreign(t)
           /\ UNCHANGED <<lock, pushed, flushes, faults, posts, givenUp, unsure>>
<1> DEFINE x == [thread[t] EXCEPT !.at = "save"]
<1>1. /\ thread[t].at = "flush" /\ thread[t].rows = <<>> /\ ThreadStep(t, x)
      /\ file' = <<>> /\ tail' = "whole" /\ gone' = gone \cup Foreign(t)
      /\ UNCHANGED <<lock, pushed, flushes, faults, posts, givenUp, unsure>>
  BY SiemParts DEF Truncate, ThreadStep
<1>2. thread[t] \in SiemThread /\ SiemThreadOK(thread[t], My(t), pushed)
  BY SiemParts DEF SiemBase
<1>3. /\ x \in SiemThread /\ x.at = "save" /\ x.loaded = thread[t].loaded
      /\ x.rows = <<>> /\ x.kept = thread[t].kept
  BY <1>1, <1>2 DEF SiemThread
<1> HIDE DEF x
<1>4. SiemThreadOK(x, My(t), pushed)
  BY <1>1, <1>2, <1>3 DEF SiemThreadOK
<1>5. QED
  BY <1>1, <1>3, <1>4

LEMMA ForeignTyped ==
  ASSUME Configured, SiemBase, NEW t PROVE Foreign(t) \subseteq Bodies
<1>1. Foreign(t) \subseteq BodiesIn(file)
  BY DEF Foreign, BodiesIn
<1>2. QED
  BY <1>1, SiemParts

LEMMA BaseTruncate ==
  ASSUME Configured, SiemBase, NEW t \in Threads, Truncate(t)
  PROVE  SiemBase'
<1>1. PICK x :
        /\ ThreadStep(t, x) /\ SiemThreadOK(x, My(t), pushed)
        /\ thread[t].at = "flush"
        /\ file' = <<>> /\ tail' = "whole" /\ gone' = gone \cup Foreign(t)
        /\ UNCHANGED <<lock, pushed, flushes, faults, posts, givenUp, unsure>>
  BY TruncateIs
<1>2. lock[My(t)] = t /\ pushed' \in pushed .. MaxBodies /\ gone' \subseteq Bodies
  BY <1>1, SiemParts, ForeignTyped DEF SiemBase, Flushing
<1>3. file' \in Seq(Rows) /\ BodiesIn(file') \subseteq 1 .. pushed'
  BY <1>1, NoBodies
<1>4. QED
  BY <1>1, <1>2, <1>3, SiemParts, BaseStep

LEMMA ReadableIs ==
  ASSUME Configured, SiemBase
  PROVE  \A s : Blend(Readable, s, file)
<1>1. CASE tail = "bare" /\ file # <<>>
  BY <1>1, SiemParts, BlendFront DEF Readable
<1>2. CASE tail = "bare" /\ file = <<>>
  <2>1. Readable = <<>> /\ <<>> \in Seq(Rows)
    BY <1>2 DEF Readable
  <2>2. QED
    BY <1>2, <2>1, BlendSame
<1>3. CASE tail # "bare"
  BY <1>3, SiemParts, BlendSame DEF Readable
<1>4. QED
  BY <1>1, <1>2, <1>3

\* What the end of an append, complete or broken, leaves of the file.
LEMMA AppendIs ==
  ASSUME Configured, SiemBase, NEW t \in Threads, thread[t].at = "append",
         \/ file' = Appended(NewRow(t)) /\ tail' = "whole"
         \/ AppendBreaks(t)
  PROVE  /\ NewRow(t) \in Rows /\ NewRow(t).body = thread[t].body /\ NewRow(t).writer = My(t)
         /\ thread[t].body \in 1 .. pushed /\ thread[t].body \in Bodies
         /\ Blend(file', <<NewRow(t)>>, file)
         /\ tail' \in {"whole", "bare", "cut"}
<1>1. thread[t].body \in 1 .. pushed /\ thread[t].body \in Bodies
  BY SiemParts DEF SiemBase, SiemThreadOK
<1>2. NewRow(t) \in Rows /\ NewRow(t).body = thread[t].body /\ NewRow(t).writer = My(t)
  BY <1>1 DEF NewRow, Row, Rows, Configured, My
<1>3. Blend(file', <<NewRow(t)>>, file)
  <2>1. \/ file' = Append(file, NewRow(t)) \/ file' = Readable \/ file' = file
    BY DEF Appended, AppendBreaks
  <2>2. file \in Seq(Rows)
    BY SiemParts
  <2>3. CASE file' = Append(file, NewRow(t))
    BY <1>2, <2>2, <2>3, BlendAppend
  <2>4. CASE file' = Readable
    BY <2>4, ReadableIs
  <2>5. CASE file' = file
    BY <2>2, <2>5, BlendSame
  <2>6. QED
    BY <2>1, <2>3, <2>4, <2>5
<1>4. tail' \in {"whole", "bare", "cut"}
  BY SiemParts DEF AppendBreaks
<1>5. QED
  BY <1>1, <1>2, <1>3, <1>4

\* A step of t that writes the rows s, or some of them, into the file and leaves
\* the thread free: an append or a save that ends or breaks off.
Puts(t, s) ==
  /\ ThreadStep(t, FreeThread) /\ thread[t].at \in {"append", "save"}
  /\ s \in Seq(Rows)
  /\ \A i \in DOMAIN s : s[i].writer = My(t)
  /\ BodiesIn(s) \subseteq 1 .. pushed
  /\ \A b \in BodiesIn(s) : HasIt(thread[t], b) /\ b \in HeldBy(thread[t])
  /\ \A b : SureThread(thread[t], b) => Single(s, b)
  /\ Blend(file', s, file) /\ tail' \in {"whole", "bare", "cut"}
  /\ BodiesIn(file) \subseteq BodiesIn(file') \cup gone'
  /\ \A b : Carries(thread[t], b) => b \in BodiesIn(file') \cup gone'
  /\ gone \subseteq gone' /\ gone' \subseteq Bodies
  /\ \A u \in Threads \ {t} : My(u) = My(t) => ~ Flushing(u)
  /\ \/ lock' = lock
     \/ lock' = [lock EXCEPT ![My(t)] = NoThread] /\ lock[My(t)] = t
  /\ faults' \in 0 .. MaxFaults
  /\ UNCHANGED <<pushed, flushes, posts, givenUp, unsure>>

LEMMA LostIs ==
  ASSUME Configured, SiemBase, NEW hands, hands \subseteq Bodies, Lost(hands)
  PROVE  /\ BodiesIn(file) \cup hands \subseteq BodiesIn(file') \cup gone'
         /\ gone \subseteq gone' /\ gone' \subseteq Bodies
<1>1. gone' = gone \cup ((BodiesIn(file) \cup hands) \ BodiesIn(file'))
  BY DEF Lost
<1>2. BodiesIn(file) \subseteq Bodies /\ gone \subseteq Bodies
  BY SiemParts
<1>3. QED
  BY <1>1, <1>2

LEMMA AppendPuts ==
  ASSUME Configured, SiemBase, NEW t \in Threads, Enqueue(t) \/ EnqueueFails(t)
  PROVE  Puts(t, <<NewRow(t)>>)
<1>1. /\ ThreadStep(t, FreeThread) /\ thread[t].at = "append" /\ lock[My(t)] = NoThread
      /\ \/ file' = Appended(NewRow(t)) /\ tail' = "whole"
         \/ AppendBreaks(t)
      /\ Lost({thread[t].body})
      /\ UNCHANGED <<lock, pushed, flushes, posts, givenUp, unsure>>
  BY DEF Enqueue, EnqueueFails, MayAppend, Locked, ThreadStep
<1>2. faults' \in 0 .. MaxFaults
  BY SiemParts DEF Enqueue, EnqueueFails
<1>3. /\ NewRow(t) \in Rows /\ NewRow(t).body = thread[t].body /\ NewRow(t).writer = My(t)
      /\ thread[t].body \in 1 .. pushed /\ thread[t].body \in Bodies
      /\ Blend(file', <<NewRow(t)>>, file)
      /\ tail' \in {"whole", "bare", "cut"}
  BY <1>1, AppendIs
<1>4. /\ <<NewRow(t)>> \in Seq(Rows) /\ BodiesIn(<<NewRow(t)>>) = {thread[t].body}
      /\ \A b : Single(<<NewRow(t)>>, b)
      /\ \A i \in DOMAIN <<NewRow(t)>> : <<NewRow(t)>>[i].writer = My(t)
  BY <1>3, SiemParts, BlendAppend
<1>5. /\ BodiesIn(file) \subseteq BodiesIn(file') \cup gone'
      /\ thread[t].body \in BodiesIn(file') \cup gone'
      /\ gone \subseteq gone' /\ gone' \subseteq Bodies
  <2>1. {thread[t].body} \subseteq Bodies
    BY <1>3
  <2>2. QED
    BY <1>1, <2>1, LostIs
<1>6. \A u \in Threads \ {t} : My(u) = My(t) => ~ Flushing(u)
  BY <1>1 DEF SiemBase, Configured
<1>7. /\ \A b \in {thread[t].body} : HasIt(thread[t], b) /\ b \in HeldBy(thread[t])
      /\ \A b : Carries(thread[t], b) => b = thread[t].body
  BY <1>1 DEF HasIt, HeldBy, Carries
<1>8. QED
  BY <1>1, <1>2, <1>3, <1>4, <1>5, <1>6, <1>7 DEF Puts

LEMMA SavingIs ==
  ASSUME Configured, SiemBase, NEW t \in Threads, thread[t].at = "save"
  PROVE  /\ thread[t].kept \in Seq(Rows) /\ lock[My(t)] = t
         /\ \A i \in DOMAIN thread[t].kept : thread[t].kept[i].writer = My(t)
         /\ BodiesIn(thread[t].kept) \subseteq 1 .. pushed
         /\ BodiesIn(thread[t].kept) \subseteq Bodies
         /\ BodiesIn(thread[t].kept) \subseteq thread[t].loaded
<1>1. SiemThreadOK(thread[t], My(t), pushed) /\ thread[t] \in SiemThread
  BY SiemParts DEF SiemBase
<1>2. lock[My(t)] = t
  BY DEF SiemBase, Flushing
<1>3. thread[t].kept \in Seq(Rows)
  BY <1>1 DEF SiemThread
<1>4. 1 .. pushed \subseteq Bodies
  BY SiemParts
<1>5. QED
  BY <1>1, <1>2, <1>3, <1>4 DEF SiemThreadOK

LEMMA SaveBreaksIs ==
  ASSUME Configured, SiemBase, NEW t \in Threads, thread[t].at = "save", SaveBreaks(t)
  PROVE  Blend(file', thread[t].kept, file) /\ tail' \in {"whole", "bare", "cut"}
<1> DEFINE s == thread[t].kept
<1>1. s \in Seq(Rows) /\ file \in Seq(Rows)
  BY SavingIs, SiemParts
<1>2. PICK k \in 0 .. Len(s) : \E j \in 0 .. Len(file) :
        /\ Overwrite(t, k, j)
        /\ \/ j < Len(file) /\ tail' = tail
           \/ j = Len(file) /\ tail' \in {"whole", "cut"}
           \/ j = Len(file) /\ k > 0 /\ tail' = "bare"
  BY DEF SaveBreaks
<1>3. PICK j \in 0 .. Len(file) :
        /\ Overwrite(t, k, j)
        /\ \/ j < Len(file) /\ tail' = tail
           \/ j = Len(file) /\ tail' \in {"whole", "cut"}
           \/ j = Len(file) /\ k > 0 /\ tail' = "bare"
  BY <1>2
<1>4. file' = SubSeq(s, 1, k) \o SubSeq(file, j + 1, Len(file))
  BY <1>3 DEF Overwrite
<1>5. Blend(file', s, file)
  <2> HIDE DEF s
  <2>1. QED
    BY <1>1, <1>4, BlendOver
<1>6. tail' \in {"whole", "bare", "cut"}
  BY <1>3, SiemParts
<1>7. QED
  BY <1>5, <1>6

LEMMA SavePuts ==
  ASSUME Configured, SiemBase, NEW t \in Threads, Save(t) \/ SaveFails(t)
  PROVE  Puts(t, thread[t].kept)
<1> DEFINE s == thread[t].kept
<1>1. /\ ThreadStep(t, FreeThread) /\ thread[t].at = "save"
      /\ lock' = [lock EXCEPT ![My(t)] = NoThread]
      /\ UNCHANGED <<pushed, flushes, posts, givenUp, unsure>>
  BY DEF Save, SaveFails, LeaveFlush, ThreadStep
<1>2. faults' \in 0 .. MaxFaults
  BY SiemParts DEF Save, SaveFails
<1>3. /\ s \in Seq(Rows) /\ lock[My(t)] = t
      /\ \A i \in DOMAIN s : s[i].writer = My(t)
      /\ BodiesIn(s) \subseteq 1 .. pushed /\ BodiesIn(s) \subseteq Bodies
      /\ BodiesIn(s) \subseteq thread[t].loaded /\ file \in Seq(Rows)
  BY <1>1, SavingIs, SiemParts
<1>4. /\ Blend(file', s, file) /\ tail' \in {"whole", "bare", "cut"}
      /\ BodiesIn(file) \subseteq BodiesIn(file') \cup gone'
      /\ BodiesIn(s) \subseteq BodiesIn(file') \cup gone'
      /\ gone \subseteq gone' /\ gone' \subseteq Bodies
  <2>1. CASE Save(t)
    <3>1. Len(s) \in Nat /\ Len(s) \in 0 .. Len(s)
      BY <1>3
    <3>2. PICK j \in 0 .. Len(file) :
            /\ Overwrite(t, Len(s), j)
            /\ \/ j < Len(file) /\ tail' = tail
               \/ j = Len(file) /\ tail' = "whole"
               \/ j = Len(file) /\ tail # "whole" /\ tail' = "cut"
      BY <2>1 DEF Save
    <3>3. file' = SubSeq(s, 1, Len(s)) \o SubSeq(file, j + 1, Len(file))
      BY <3>2 DEF Overwrite
    <3>4. Blend(file', s, file) /\ BodiesIn(s) \subseteq BodiesIn(file')
      <4> HIDE DEF s
      <4>1. Blend(file', s, file)
        BY <1>3, <3>1, <3>3, BlendOver
      <4> DEFINE back == SubSeq(file, j + 1, Len(file))
      <4>2. back \in Seq(Rows)
        BY <1>3, BackTyped
      <4>3. SubSeq(s, 1, Len(s)) = s
        BY <1>3, WholeFront
      <4>4. file' = s \o back
        BY <3>3, <4>3
      <4> HIDE DEF back
      <4>5. BodiesIn(s) \subseteq BodiesIn(s \o back)
        BY <1>3, <4>2, FrontBodies
      <4>6. QED
        BY <4>1, <4>4, <4>5
    <3>5. tail' \in {"whole", "bare", "cut"}
      BY <3>2, SiemParts
    <3>6. Lost({})
      BY <2>1 DEF Save
    <3>7. BodiesIn(file) \subseteq BodiesIn(file') \cup gone' /\ gone \subseteq gone' /\ gone' \subseteq Bodies
      BY <3>6, LostIs
    <3>8. QED
      BY <3>4, <3>5, <3>7
  <2>2. CASE SaveFails(t)
    <3>1. SaveBreaks(t) /\ Lost(BodiesIn(s))
      BY <2>2 DEF SaveFails
    <3>2. Blend(file', s, file) /\ tail' \in {"whole", "bare", "cut"}
      BY <1>1, <3>1, SaveBreaksIs
    <3>3. QED
      BY <1>3, <3>1, <3>2, LostIs
  <2>3. QED
    BY <2>1, <2>2
<1>5. \A u \in Threads \ {t} : My(u) = My(t) => ~ Flushing(u)
  BY <1>3 DEF SiemBase
<1>6. /\ \A b \in BodiesIn(s) : HasIt(thread[t], b) /\ b \in HeldBy(thread[t])
      /\ \A b : Carries(thread[t], b) => b \in BodiesIn(s)
      /\ \A b : SureThread(thread[t], b) => Single(s, b)
  BY <1>1, <1>3 DEF HasIt, HeldBy, Carries, SureThread
<1> HIDE DEF s
<1>7. Puts(t, s)
  BY <1>1, <1>2, <1>3, <1>4, <1>5, <1>6 DEF Puts
<1>8. QED
  BY <1>7 DEF s

LEMMA PutsIs ==
  ASSUME Configured, SiemBase, NEW t \in Threads,
         Enqueue(t) \/ EnqueueFails(t) \/ Save(t) \/ SaveFails(t)
  PROVE  \E s : Puts(t, s)
BY AppendPuts, SavePuts

LEMMA BasePuts ==
  ASSUME Configured, SiemBase, NEW t \in Threads, NEW s, Puts(t, s)
  PROVE  SiemBase'
<1>1. /\ ThreadStep(t, FreeThread)
      /\ BodiesIn(s) \subseteq 1 .. pushed
      /\ Blend(file', s, file) /\ tail' \in {"whole", "bare", "cut"}
      /\ gone' \subseteq Bodies
      /\ \/ lock' = lock
         \/ lock' = [lock EXCEPT ![My(t)] = NoThread] /\ lock[My(t)] = t
      /\ faults' \in 0 .. MaxFaults
      /\ UNCHANGED <<pushed, flushes, posts, givenUp, unsure>>
  BY DEF Puts
<1>2. file' \in Seq(Rows)
  BY <1>1 DEF Blend
<1>3. BodiesIn(file') \subseteq 1 .. pushed'
  BY <1>1, BlendBodies, SiemParts
<1>4. pushed' \in pushed .. MaxBodies
  BY <1>1, SiemParts
<1>5. QED
  BY <1>1, <1>2, <1>3, <1>4, SiemParts, FreeThreadIs, BaseStep

\* The open of a save raises: the flush ends, the file is as it was.
LEMMA TruncateFailsIs ==
  ASSUME Configured, SiemBase, NEW t \in Threads, TruncateFails(t)
  PROVE  /\ ThreadStep(t, FreeThread)
         /\ thread[t].at = "flush" /\ thread[t].rows = <<>> /\ thread[t].loaded \subseteq Bodies
         /\ lock[My(t)] = t /\ lock' = [lock EXCEPT ![My(t)] = NoThread]
         /\ unsure' = unsure \cup (thread[t].loaded \ BodiesIn(thread[t].kept))
         /\ faults' \in 0 .. MaxFaults
         /\ UNCHANGED <<file, tail, pushed, flushes, posts, givenUp, gone>>
<1>1. /\ ThreadStep(t, FreeThread) /\ thread[t].at = "flush" /\ thread[t].rows = <<>>
      /\ lock' = [lock EXCEPT ![My(t)] = NoThread]
      /\ unsure' = unsure \cup (thread[t].loaded \ BodiesIn(thread[t].kept))
      /\ UNCHANGED <<file, tail, pushed, flushes, posts, givenUp, gone>>
  BY DEF TruncateFails, LeaveFlush, ThreadStep
<1>2. faults' \in 0 .. MaxFaults
  BY SiemParts DEF TruncateFails
<1>3. lock[My(t)] = t
  BY <1>1 DEF SiemBase, Flushing
<1>4. thread[t].loaded \subseteq Bodies
  BY SiemParts DEF SiemThread
<1>5. QED
  BY <1>1, <1>2, <1>3, <1>4

LEMMA BaseTruncateFails ==
  ASSUME Configured, SiemBase, NEW t \in Threads, TruncateFails(t)
  PROVE  SiemBase'
<1>1. /\ ThreadStep(t, FreeThread) /\ thread[t].loaded \subseteq Bodies
      /\ lock[My(t)] = t /\ lock' = [lock EXCEPT ![My(t)] = NoThread]
      /\ unsure' = unsure \cup (thread[t].loaded \ BodiesIn(thread[t].kept))
      /\ faults' \in 0 .. MaxFaults
      /\ UNCHANGED <<file, tail, pushed, flushes, posts, givenUp, gone>>
  BY TruncateFailsIs
<1>2. unsure' \subseteq Bodies
  BY <1>1, SiemParts
<1>3. BodiesIn(file') \subseteq 1 .. pushed' /\ pushed' \in pushed .. MaxBodies
  BY <1>1, SiemParts
<1>4. QED
  BY <1>1, <1>2, <1>3, SiemParts, FreeThreadIs, BaseStep

\* A process ends: its threads are gone, a write one was in leaves some of its
\* rows s in the file, and what is lost or uncertain thereby is noted.
CrashEnds(p, s) ==
  /\ s \in Seq(Rows)
  /\ \A i \in DOMAIN s : s[i].writer = p
  /\ BodiesIn(s) \subseteq 1 .. pushed
  /\ \A b \in BodiesIn(s) :
       \/ b \in unsure'
       \/ /\ Single(s, b)
          /\ \E t \in Threads :
               My(t) = p /\ thread[t].at = "append" /\ thread[t].body = b
  /\ Blend(file', s, file) /\ tail' \in {"whole", "bare", "cut"}
  /\ thread' = [t \in Threads |-> IF My(t) = p THEN FreeThread ELSE thread[t]]
  /\ lock' = [lock EXCEPT ![p] = NoThread]
  /\ BodiesIn(file) \subseteq BodiesIn(file') \cup gone'
  /\ \A t \in Threads : My(t) = p =>
       /\ \A b : Carries(thread[t], b) => b \in BodiesIn(file') \cup gone'
       /\ Flushing(t) => thread[t].loaded \subseteq unsure'
  /\ gone \subseteq gone' /\ gone' \subseteq Bodies
  /\ unsure \subseteq unsure' /\ unsure' \subseteq Bodies
  /\ faults' \in 0 .. MaxFaults /\ UNCHANGED <<pushed, flushes, posts, givenUp>>

LEMMA CrashIs ==
  ASSUME Configured, SiemBase, NEW p \in Processes, EndProcess(p)
  PROVE  \E s : CrashEnds(p, s)
<1> DEFINE rewritten == UNION {BodiesIn(thread[t].kept) : t \in Saving(p)}
           appended == {thread[t].body : t \in Appending(p)}
           loaded == UNION {thread[t].loaded : t \in {u \in Threads : My(u) = p /\ Flushing(u)}}
<1>1. /\ faults < MaxFaults /\ faults' = faults + 1
      /\ thread' = [t \in Threads |-> IF My(t) = p THEN FreeThread ELSE thread[t]]
      /\ lock' = [lock EXCEPT ![p] = NoThread] /\ UNCHANGED <<pushed, flushes, posts, givenUp>>
  BY DEF EndProcess
<1>2. WriteBreaks(p)
  BY DEF EndProcess
<1>3. Lost(rewritten \cup appended) /\ unsure' = unsure \cup loaded
  <2>1. Lost(rewritten \cup appended)
    BY Zenon DEF EndProcess
  <2>2. unsure' = unsure \cup loaded
    BY Zenon DEF EndProcess
  <2>3. QED
    BY <2>1, <2>2
<1>4. \A t \in Threads :
        /\ SiemThreadOK(thread[t], My(t), pushed)
        /\ thread[t].kept \in Seq(Rows) /\ thread[t].loaded \subseteq Bodies
        /\ thread[t].at = "append" => thread[t].body \in Bodies
        /\ BodiesIn(thread[t].kept) \subseteq Bodies
  BY SiemParts DEF SiemBase, SiemThread, SiemThreadOK
<1>5. rewritten \cup appended \subseteq Bodies /\ loaded \subseteq Bodies
  BY <1>4 DEF Saving, Appending
<1>6. ASSUME NEW t \in Threads, My(t) = p
      PROVE  /\ thread[t].at = "append" => thread[t].body \in appended
             /\ thread[t].at = "save" => BodiesIn(thread[t].kept) \subseteq rewritten
             /\ Flushing(t) => thread[t].loaded \subseteq loaded
  BY <1>6 DEF Saving, Appending
<1> HIDE DEF rewritten, appended, loaded
<1>7. /\ BodiesIn(file) \cup (rewritten \cup appended) \subseteq BodiesIn(file') \cup gone'
      /\ gone \subseteq gone' /\ gone' \subseteq Bodies
  BY <1>3, <1>5, LostIs
<1>8. unsure \subseteq unsure' /\ unsure' \subseteq Bodies /\ loaded \subseteq unsure'
  BY <1>3, <1>5, SiemParts
<1>9. ASSUME NEW t \in Threads, My(t) = p
      PROVE  /\ \A b : Carries(thread[t], b) => b \in BodiesIn(file') \cup gone'
             /\ Flushing(t) => thread[t].loaded \subseteq unsure'
  BY <1>6, <1>7, <1>8, <1>9 DEF Carries
<1>10. faults' \in 0 .. MaxFaults
  BY <1>1, SiemParts
<1> DEFINE Left(s) ==
        /\ s \in Seq(Rows)
        /\ \A i \in DOMAIN s : s[i].writer = p
        /\ BodiesIn(s) \subseteq 1 .. pushed
        /\ \A b \in BodiesIn(s) :
             \/ b \in unsure'
             \/ /\ Single(s, b)
                /\ \E t \in Threads :
                     My(t) = p /\ thread[t].at = "append" /\ thread[t].body = b
        /\ Blend(file', s, file) /\ tail' \in {"whole", "bare", "cut"}
<1>11. \E s : Left(s)
  <2>1. ASSUME NEW t \in Saving(p), SaveBreaks(t) PROVE \E s : Left(s)
    <3>1. t \in Threads /\ My(t) = p /\ thread[t].at = "save" /\ Flushing(t)
      BY DEF Saving, Flushing
    <3>2. /\ thread[t].kept \in Seq(Rows)
          /\ \A i \in DOMAIN thread[t].kept : thread[t].kept[i].writer = p
          /\ BodiesIn(thread[t].kept) \subseteq 1 .. pushed
          /\ BodiesIn(thread[t].kept) \subseteq thread[t].loaded
      BY <3>1, SavingIs
    <3>3. Blend(file', thread[t].kept, file) /\ tail' \in {"whole", "bare", "cut"}
      BY <2>1, <3>1, SaveBreaksIs
    <3>4. \A b \in BodiesIn(thread[t].kept) : b \in unsure'
      BY <1>9, <3>1, <3>2
    <3>5. Left(thread[t].kept)
      BY <3>2, <3>3, <3>4
    <3> HIDE DEF Left
    <3>6. QED
      BY <3>5
  <2>2. ASSUME NEW t \in Appending(p), AppendBreaks(t) PROVE \E s : Left(s)
    <3>1. t \in Threads /\ My(t) = p /\ thread[t].at = "append"
      BY DEF Appending
    <3>2. /\ NewRow(t) \in Rows /\ NewRow(t).body = thread[t].body /\ NewRow(t).writer = p
          /\ thread[t].body \in 1 .. pushed
          /\ Blend(file', <<NewRow(t)>>, file) /\ tail' \in {"whole", "bare", "cut"}
      BY <2>2, <3>1, AppendIs
    <3>3. /\ <<NewRow(t)>> \in Seq(Rows) /\ BodiesIn(<<NewRow(t)>>) = {thread[t].body}
          /\ \A b : Single(<<NewRow(t)>>, b)
          /\ \A i \in DOMAIN <<NewRow(t)>> : <<NewRow(t)>>[i].writer = p
      BY <3>2, SiemParts, BlendAppend
    <3>4. Left(<<NewRow(t)>>)
      BY <3>1, <3>2, <3>3
    <3> HIDE DEF Left
    <3>5. QED
      BY <3>4
  <2>3. ASSUME UNCHANGED <<file, tail>> PROVE \E s : Left(s)
    <3>1. Blend(file', <<>>, file) /\ tail' \in {"whole", "bare", "cut"}
      BY <2>3, SiemParts, BlendSame
    <3>2. Left(<<>>)
      BY <3>1, NoBodies
    <3> HIDE DEF Left
    <3>3. QED
      BY <3>2
  <2>4. QED
    <3> HIDE DEF Left
    <3>1. QED
      BY <1>2, <2>1, <2>2, <2>3 DEF WriteBreaks
<1>12. PICK s : Left(s)
  BY <1>11
<1>13. CrashEnds(p, s)
  BY <1>1, <1>7, <1>8, <1>9, <1>10, <1>12 DEF CrashEnds
<1>14. QED
  BY <1>13

LEMMA BaseCrash ==
  ASSUME Configured, SiemBase, NEW p \in Processes, NEW s, CrashEnds(p, s)
  PROVE  SiemBase'
<1>1. /\ Blend(file', s, file) /\ tail' \in {"whole", "bare", "cut"}
      /\ BodiesIn(s) \subseteq 1 .. pushed
      /\ thread' = [t \in Threads |-> IF My(t) = p THEN FreeThread ELSE thread[t]]
      /\ lock' = [lock EXCEPT ![p] = NoThread]
      /\ UNCHANGED <<pushed, flushes, posts, givenUp>>
      /\ gone' \subseteq Bodies /\ unsure' \subseteq Bodies /\ faults' \in 0 .. MaxFaults
  BY DEF CrashEnds
<1>2. \A t \in Threads : SiemThreadOK(thread'[t], My(t), pushed')
  BY <1>1, FreeThreadIs DEF SiemBase
<1>3. thread' \in [Threads -> SiemThread]
  BY <1>1, <1>2 DEF SiemThreadOK
<1>4. ASSUME NEW t \in Threads, thread'[t].at \in {"flush", "save"} PROVE lock'[My(t)] = t
  <2>1. My(t) # p /\ thread'[t] = thread[t]
    BY <1>1, <1>4, FreeThreadIs
  <2>2. lock[My(t)] = t /\ My(t) \in Processes
    BY <1>4, <2>1 DEF SiemBase, Flushing, Configured, My
  <2>3. QED
    BY <1>1, <2>1, <2>2, SiemParts
<1>5. BodiesIn(file') \subseteq 1 .. pushed' /\ file' \in Seq(Rows)
  <2>1. BodiesIn(file') \subseteq BodiesIn(s) \cup BodiesIn(file)
    BY <1>1, BlendBodies
  <2>2. QED
    BY <1>1, <2>1, SiemParts DEF Blend
<1>6. lock' \in [Processes -> Threads \cup {NoThread}]
  BY <1>1, SiemParts
<1>7. QueueTypeOK'
  BY <1>1, <1>5, <1>6, SiemParts DEF QueueTypeOK
<1>8. QED
  BY <1>1, <1>2, <1>3, <1>4, <1>5, <1>7, SiemParts DEF SiemBase, Flushing, My

LEMMA SiemInitBase == ASSUME Configured, QueueInit PROVE SiemBase
<1>1. \A t \in Threads : thread[t] = FreeThread /\ SiemThreadOK(FreeThread, My(t), pushed)
  BY FreeThreadIs DEF QueueInit
<1>2. thread \in [Threads -> SiemThread]
  BY <1>1 DEF SiemThreadOK, QueueInit
<1>3. /\ file = <<>> /\ tail = "whole" /\ pushed = 0 /\ flushes = 0 /\ faults = 0 /\ givenUp = {} /\ gone = {} /\ unsure = {}
      /\ lock \in [Processes -> Threads \cup {NoThread}] /\ posts \in [Bodies -> 0 .. 2]
      /\ \A b \in Bodies : posts[b] = 0
  BY DEF QueueInit
<1>4. QueueTypeOK
  BY <1>3, NoBodies DEF QueueTypeOK, Configured
<1>5. \A t \in Threads : ~ Flushing(t)
  BY <1>1, FreeThreadIs DEF Flushing
<1>6. QED
  BY <1>1, <1>2, <1>3, <1>4, <1>5, NoBodies DEF SiemBase

LEMMA SiemNextBase == ASSUME Configured, SiemBase, [QueueNext]_queueVars PROVE SiemBase'
<1>1. ASSUME NEW t \in Threads,
             \/ Push(t) \/ Enqueue(t) \/ EnqueueFails(t) \/ Load(t) \/ Later(t)
             \/ Post(t) \/ PostFails(t) \/ Truncate(t) \/ TruncateFails(t)
             \/ Save(t) \/ SaveFails(t)
      PROVE  SiemBase'
  <2>1. CASE Later(t) \/ Post(t) \/ PostFails(t)
    BY <2>1, RowIsTaken, BaseRow
  <2>2. CASE Enqueue(t) \/ EnqueueFails(t) \/ Save(t) \/ SaveFails(t)
    BY <2>2, PutsIs, BasePuts
  <2>3. QED
    BY <1>1, <2>1, <2>2, BasePush, BaseLoad, BaseTruncate, BaseTruncateFails
<1>2. ASSUME NEW p \in Processes, EndProcess(p) PROVE SiemBase'
  BY <1>2, CrashIs, BaseCrash
<1>3. CASE UNCHANGED queueVars
  BY <1>3 DEF queueVars, SiemBase, QueueTypeOK, Flushing, My
<1>4. QED
  BY <1>1, <1>2, <1>3 DEF QueueNext

LEMMA SiemBaseInvariant == QueueSpec => []SiemBase
<1>1. QueueInit => SiemBase
  BY SiemInitBase, SiemAssumption
<1>2. SiemBase /\ [QueueNext]_queueVars => SiemBase'
  BY SiemNextBase, SiemAssumption
<1>3. QED
  BY <1>1, <1>2, PTL DEF QueueSpec

-----------------------------------------------------------------------------
\* Nothing is forgotten.

LEMMA AccountedStep ==
  ASSUME Configured, SiemBase, Accounted, NEW t \in Threads, NEW x, ThreadStep(t, x),
         \A b \in Bodies : posts[b] > 0 => posts'[b] > 0,
         givenUp \subseteq givenUp',
         x.at \in {"flush", "save"} =>
           /\ \A b \in x.loaded : posts'[b] > 0 \/ b \in givenUp' \/ b \in HeldBy(x)
           /\ \A i \in DOMAIN file' :
                file'[i].writer = My(t) => file'[i].body \in x.loaded,
         \A u \in Threads \ {t} : Flushing(u) =>
           \A i \in DOMAIN file' : file'[i].writer = My(u) =>
             \E j \in DOMAIN file : file[j] = file'[i]
  PROVE  Accounted'
<1>1. ASSUME NEW u \in Threads, thread'[u].at \in {"flush", "save"}
      PROVE  /\ \A b \in thread'[u].loaded :
                  posts'[b] > 0 \/ b \in givenUp' \/ b \in HeldBy(thread'[u])
             /\ \A i \in DOMAIN file' :
                  file'[i].writer = My(u) => file'[i].body \in thread'[u].loaded
  <2>1. CASE u = t
    <3>1. thread'[u] = x
      BY <2>1, ThreadIs
    <3>2. QED
      BY <1>1, <2>1, <3>1
  <2>2. CASE u # t
    <3>1. thread'[u] = thread[u] /\ Flushing(u)
      BY <1>1, <2>2, ThreadIs DEF Flushing
    <3>2. thread[u].loaded \subseteq Bodies
      BY <3>1, SiemParts DEF SiemThread
    <3>3. ASSUME NEW i \in DOMAIN file', file'[i].writer = My(u)
          PROVE  file'[i].body \in thread'[u].loaded
      BY <2>2, <3>1, <3>3 DEF Accounted
    <3>4. QED
      BY <3>1, <3>2, <3>3 DEF Accounted
  <2>3. QED
    BY <2>1, <2>2
<1>2. QED
  BY <1>1 DEF Accounted, Flushing, HeldBy, BodiesIn, My

\* Where one body is safe.
Safe(b) ==
  \/ posts[b] > 0
  \/ b \in BodiesIn(file) \cup givenUp \cup gone
  \/ \E t \in Threads : Carries(thread[t], b)

LEMMA SafeStep ==
  ASSUME Configured, SiemBase, NEW b \in Bodies, Safe(b),
         NEW t \in Threads, NEW x, ThreadStep(t, x),
         posts[b] > 0 => posts'[b] > 0,
         givenUp \subseteq givenUp', gone \subseteq gone',
         b \in BodiesIn(file) \/ Carries(thread[t], b) =>
           posts'[b] > 0 \/ b \in BodiesIn(file') \cup givenUp' \cup gone' \/ Carries(x, b)
  PROVE  Safe(b)'
<1>1. CASE posts[b] > 0 \/ b \in BodiesIn(file) \cup givenUp \cup gone
  <2>1. \/ posts'[b] > 0 \/ b \in BodiesIn(file') \cup givenUp' \cup gone'
        \/ Carries(thread'[t], b)
    BY <1>1, ThreadIs
  <2>2. QED
    BY <2>1 DEF Safe, BodiesIn, Carries
<1>2. ASSUME NEW u \in Threads, Carries(thread[u], b)
      PROVE  Safe(b)'
  <2>1. CASE u = t
    <3>1. \/ posts'[b] > 0 \/ b \in BodiesIn(file') \cup givenUp' \cup gone'
          \/ Carries(thread'[t], b)
      BY <1>2, <2>1, ThreadIs
    <3>2. QED
      BY <3>1 DEF Safe, BodiesIn, Carries
  <2>2. CASE u # t
    <3>1. Carries(thread'[u], b)
      BY <1>2, <2>2, ThreadIs
    <3>2. QED
      BY <3>1 DEF Safe, BodiesIn, Carries
  <2>3. QED
    BY <2>1, <2>2
<1>3. QED
  BY <1>1, <1>2 DEF Safe

SafeInv == SiemBase /\ Accounted /\ (\A b \in 1 .. pushed : Safe(b))

LEMMA SafePush ==
  ASSUME Configured, SafeInv, NEW t \in Threads, Push(t)
  PROVE  Accounted' /\ \A b \in 1 .. pushed' : Safe(b)'
<1>0. SiemBase /\ Accounted
  BY DEF SafeInv
<1>1. PICK x, c :
        /\ ThreadStep(t, x) /\ thread[t] = FreeThread
        /\ pushed' = c /\ c = pushed + 1 /\ c \in Bodies
        /\ UNCHANGED <<file, givenUp, gone>>
        /\ x.at \in {"idle", "append"}
        /\ posts' = posts \/ Took(c)
        /\ Took(c) \/ Carries(x, c)
  BY <1>0, PushIs, FreeThreadIs DEF Carries
<1>2. \A b \in Bodies : posts[b] > 0 => posts'[b] > 0
  BY <1>0, <1>1, TookParts
<1>3. Accounted'
  BY <1>0, <1>1, <1>2, AccountedStep
<1>4. ASSUME NEW b \in 1 .. pushed PROVE Safe(b)'
  <2>1. b \in Bodies /\ Safe(b) /\ ~ Carries(thread[t], b)
    BY <1>0, <1>1, SiemParts, FreeThreadIs DEF SafeInv, Carries
  <2>2. QED
    BY <1>0, <1>1, <1>2, <2>1, SafeStep
<1>5. Safe(c)'
  <2>1. posts'[c] > 0 \/ Carries(thread'[t], c)
    BY <1>0, <1>1, TookParts, ThreadIs
  <2>2. QED
    BY <1>1, <2>1 DEF Safe, Carries, BodiesIn
<1>6. \A b \in 1 .. pushed' : b \in 1 .. pushed \/ b = c
  BY <1>0, <1>1, SiemParts
<1>7. QED
  BY <1>3, <1>4, <1>5, <1>6

LEMMA SafePuts ==
  ASSUME Configured, SafeInv, NEW t \in Threads, NEW s, Puts(t, s)
  PROVE  Accounted' /\ \A b \in 1 .. pushed' : Safe(b)'
<1>0. SiemBase /\ Accounted
  BY DEF SafeInv
<1>1. /\ ThreadStep(t, FreeThread)
      /\ \A i \in DOMAIN s : s[i].writer = My(t)
      /\ Blend(file', s, file)
      /\ BodiesIn(file) \subseteq BodiesIn(file') \cup gone'
      /\ \A b : Carries(thread[t], b) => b \in BodiesIn(file') \cup gone'
      /\ gone \subseteq gone'
      /\ \A u \in Threads \ {t} : My(u) = My(t) => ~ Flushing(u)
      /\ UNCHANGED <<pushed, posts, givenUp>>
  BY DEF Puts
<1>2. ASSUME NEW u \in Threads \ {t}, Flushing(u), NEW i \in DOMAIN file',
             file'[i].writer = My(u)
      PROVE  \E j \in DOMAIN file : file[j] = file'[i]
  <2>1. My(u) # My(t)
    BY <1>1, <1>2
  <2>2. \/ \E j \in DOMAIN s : file'[i] = s[j]
        \/ \E j \in DOMAIN file : file'[i] = file[j]
    BY <1>1, <1>2 DEF Blend
  <2>3. QED
    BY <1>1, <1>2, <2>1, <2>2
<1>3. Accounted'
  BY <1>0, <1>1, <1>2, FreeThreadIs, AccountedStep
<1>4. ASSUME NEW b \in 1 .. pushed PROVE Safe(b)'
  <2>1. b \in Bodies /\ Safe(b)
    BY <1>0, SiemParts DEF SafeInv
  <2>2. b \in BodiesIn(file) \/ Carries(thread[t], b) => b \in BodiesIn(file') \cup gone'
    BY <1>1
  <2>3. QED
    BY <1>0, <1>1, <2>1, <2>2, SafeStep
<1>5. QED
  BY <1>1, <1>3, <1>4

LEMMA SafeTruncateFails ==
  ASSUME Configured, SafeInv, NEW t \in Threads, TruncateFails(t)
  PROVE  Accounted' /\ \A b \in 1 .. pushed' : Safe(b)'
<1>0. SiemBase /\ Accounted
  BY DEF SafeInv
<1>1. /\ ThreadStep(t, FreeThread) /\ thread[t].at = "flush"
      /\ UNCHANGED <<file, pushed, posts, givenUp, gone>>
  BY <1>0, TruncateFailsIs
<1>2. Accounted'
  BY <1>0, <1>1, FreeThreadIs, AccountedStep
<1>3. ASSUME NEW b \in 1 .. pushed PROVE Safe(b)'
  <2>1. b \in Bodies /\ Safe(b) /\ ~ Carries(thread[t], b)
    BY <1>0, <1>1, SiemParts DEF SafeInv, Carries
  <2>2. QED
    BY <1>0, <1>1, <2>1, SafeStep
<1>4. QED
  BY <1>1, <1>2, <1>3

LEMMA SafeLoad ==
  ASSUME Configured, SafeInv, NEW t \in Threads, Load(t)
  PROVE  Accounted' /\ \A b \in 1 .. pushed' : Safe(b)'
<1>0. SiemBase /\ Accounted
  BY DEF SafeInv
<1>1. PICK x :
        /\ ThreadStep(t, x) /\ thread[t] = FreeThread
        /\ x.rows = file /\ x.loaded = BodiesIn(file)
        /\ UNCHANGED <<file, pushed, posts, givenUp, gone>>
  BY <1>0, LoadIs
<1>2. /\ \A b \in x.loaded : b \in HeldBy(x)
      /\ \A i \in DOMAIN file' : file'[i].body \in x.loaded
  BY <1>1 DEF HeldBy, BodiesIn
<1>3. Accounted'
  BY <1>0, <1>1, <1>2, AccountedStep
<1>4. ASSUME NEW b \in 1 .. pushed PROVE Safe(b)'
  <2>1. b \in Bodies /\ Safe(b) /\ ~ Carries(thread[t], b)
    BY <1>0, <1>1, SiemParts, FreeThreadIs DEF SafeInv, Carries
  <2>2. QED
    BY <1>0, <1>1, <2>1, SafeStep
<1>5. QED
  BY <1>1, <1>3, <1>4

LEMMA SafeRow ==
  ASSUME Configured, SafeInv, NEW t \in Threads, NEW x, NEW r, RowTaken(t, x, r)
  PROVE  Accounted' /\ \A b \in 1 .. pushed' : Safe(b)'
<1>0. SiemBase /\ Accounted
  BY DEF SafeInv
<1>1. /\ ThreadStep(t, x) /\ SiemThreadOK(x, My(t), pushed)
      /\ thread[t].at = "flush" /\ x.at = "flush" /\ x.loaded = thread[t].loaded
      /\ thread[t].rows # <<>> /\ x.rows = Tail(thread[t].rows)
      /\ r \in Rows /\ r.body = Head(thread[t].rows).body
      /\ \/ x.kept = Append(thread[t].kept, r)
         \/ x.kept = thread[t].kept /\ (posts'[r.body] > 0 \/ r.body \in givenUp')
      /\ posts' = posts \/ Took(r.body)
      /\ givenUp \subseteq givenUp'
      /\ UNCHANGED <<file, pushed, gone>>
  BY DEF RowTaken
<1>2. /\ thread[t].rows \in Seq(Rows) /\ thread[t].kept \in Seq(Rows)
      /\ r.body \in Bodies /\ thread[t].loaded \subseteq Bodies
  BY <1>0, <1>1, SiemParts DEF SiemThread, Rows
<1>3. \A b \in Bodies : posts[b] > 0 => posts'[b] > 0
  BY <1>0, <1>1, <1>2, TookParts
<1>4. ASSUME NEW b \in x.loaded
      PROVE  posts'[b] > 0 \/ b \in givenUp' \/ b \in HeldBy(x)
  <2>1. posts[b] > 0 \/ b \in givenUp \/ b \in HeldBy(thread[t])
    BY <1>0, <1>1, <1>4 DEF Accounted, Flushing
  <2>2. BodiesIn(thread[t].rows) = {r.body} \cup BodiesIn(x.rows)
    BY <1>1, <1>2, BodiesOfTail
  <2>3. \/ BodiesIn(x.kept) = BodiesIn(thread[t].kept) \cup {r.body}
        \/ x.kept = thread[t].kept /\ (posts'[r.body] > 0 \/ r.body \in givenUp')
    BY <1>1, <1>2, BodiesOfAppend
  <2>4. b \in HeldBy(thread[t]) => b \in {r.body} \cup BodiesIn(x.rows) \cup BodiesIn(thread[t].kept)
    BY <1>1, <2>2 DEF HeldBy
  <2>5. QED
    BY <1>1, <1>2, <1>3, <1>4, <2>1, <2>3, <2>4 DEF HeldBy
<1>5. \A i \in DOMAIN file' : file'[i].writer = My(t) => file'[i].body \in x.loaded
  BY <1>0, <1>1 DEF Accounted, Flushing
<1>6. Accounted'
  BY <1>0, <1>1, <1>3, <1>4, <1>5, AccountedStep
<1>7. ASSUME NEW b \in 1 .. pushed PROVE Safe(b)'
  <2>1. b \in Bodies /\ Safe(b) /\ ~ Carries(thread[t], b)
    BY <1>0, <1>1, SiemParts DEF SafeInv, Carries
  <2>2. QED
    BY <1>0, <1>1, <1>3, <2>1, SafeStep
<1>8. QED
  BY <1>1, <1>6, <1>7

\* What the rewrite of t does to the rows that are in the file: those of
\* other processes are noted as gone, those of its own it has answered for.
LEMMA RewriteLoses ==
  ASSUME Configured, SiemBase, Accounted, NEW t \in Threads, Flushing(t),
         thread[t].rows = <<>>, NEW b \in BodiesIn(file)
  PROVE  \/ b \in Foreign(t) \/ posts[b] > 0 \/ b \in givenUp
         \/ b \in BodiesIn(thread[t].kept)
<1>1. PICK i \in DOMAIN file : file[i].body = b
  BY DEF BodiesIn
<1>2. CASE file[i].writer # My(t)
  BY <1>1, <1>2 DEF Foreign
<1>3. CASE file[i].writer = My(t)
  <2>1. b \in thread[t].loaded
    BY <1>1, <1>3 DEF Accounted
  <2>2. posts[b] > 0 \/ b \in givenUp \/ b \in HeldBy(thread[t])
    BY <2>1 DEF Accounted
  <2>3. thread[t].at # "append"
    BY DEF Flushing
  <2>4. QED
    BY <2>2, <2>3, NoBodies DEF HeldBy
<1>4. QED
  BY <1>2, <1>3

LEMMA SafeTruncate ==
  ASSUME Configured, SafeInv, NEW t \in Threads, Truncate(t)
  PROVE  Accounted' /\ \A b \in 1 .. pushed' : Safe(b)'
<1>0. SiemBase /\ Accounted
  BY DEF SafeInv
<1>1. PICK x :
        /\ ThreadStep(t, x) /\ thread[t].at = "flush" /\ thread[t].rows = <<>>
        /\ x.at = "save" /\ x.loaded = thread[t].loaded
        /\ x.rows = <<>> /\ x.kept = thread[t].kept
        /\ file' = <<>> /\ tail' = "whole" /\ gone' = gone \cup Foreign(t)
        /\ UNCHANGED <<pushed, posts, givenUp>>
  BY <1>0, TruncateIs
<1>2. Flushing(t) /\ HeldBy(x) = HeldBy(thread[t]) /\ DOMAIN file' = {}
  BY <1>1, NoBodies DEF Flushing, HeldBy
<1>3. \A b \in x.loaded : posts'[b] > 0 \/ b \in givenUp' \/ b \in HeldBy(x)
  BY <1>0, <1>1, <1>2 DEF Accounted
<1>4. Accounted'
  BY <1>0, <1>1, <1>2, <1>3, AccountedStep
<1>5. ASSUME NEW b \in 1 .. pushed PROVE Safe(b)'
  <2>1. b \in Bodies /\ Safe(b) /\ ~ Carries(thread[t], b)
    BY <1>0, <1>1, SiemParts DEF SafeInv, Carries
  <2>2. b \in BodiesIn(file) =>
          posts[b] > 0 \/ b \in givenUp \/ b \in Foreign(t) \/ Carries(x, b)
    BY <1>0, <1>1, <1>2, RewriteLoses DEF Carries
  <2>3. QED
    BY <1>0, <1>1, <2>1, <2>2, SafeStep
<1>6. QED
  BY <1>1, <1>4, <1>5

LEMMA SafeCrash ==
  ASSUME Configured, SafeInv, NEW p \in Processes, NEW s, CrashEnds(p, s)
  PROVE  Accounted' /\ \A b \in 1 .. pushed' : Safe(b)'
<1>0. SiemBase /\ Accounted
  BY DEF SafeInv
<1>1. /\ thread' = [t \in Threads |-> IF My(t) = p THEN FreeThread ELSE thread[t]]
      /\ UNCHANGED <<pushed, posts, givenUp>>
      /\ gone \subseteq gone' /\ Blend(file', s, file)
      /\ \A i \in DOMAIN s : s[i].writer = p
  BY DEF CrashEnds
<1>2. ASSUME NEW u \in Threads, thread'[u].at \in {"flush", "save"}
      PROVE  /\ \A b \in thread'[u].loaded :
                  posts'[b] > 0 \/ b \in givenUp' \/ b \in HeldBy(thread'[u])
             /\ \A i \in DOMAIN file' :
                  file'[i].writer = My(u) => file'[i].body \in thread'[u].loaded
  <2>1. My(u) # p /\ thread'[u] = thread[u] /\ Flushing(u)
    BY <1>1, <1>2, FreeThreadIs DEF Flushing
  <2>2. ASSUME NEW i \in DOMAIN file', file'[i].writer = My(u)
        PROVE  file'[i].body \in thread'[u].loaded
    <3>1. \/ \E j \in DOMAIN s : file'[i] = s[j]
          \/ \E j \in DOMAIN file : file'[i] = file[j]
      BY <1>1, <2>2 DEF Blend
    <3>2. \E j \in DOMAIN file : file'[i] = file[j]
      BY <1>1, <2>1, <2>2, <3>1
    <3>3. QED
      BY <1>0, <2>1, <2>2, <3>2 DEF Accounted
  <2>3. QED
    BY <1>0, <1>1, <2>1, <2>2 DEF Accounted
<1>3. Accounted'
  BY <1>2 DEF Accounted, Flushing, HeldBy, BodiesIn, My
<1>4. ASSUME NEW b \in 1 .. pushed PROVE Safe(b)'
  <2>1. Safe(b) /\ BodiesIn(file) \subseteq BodiesIn(file') \cup gone'
    BY DEF SafeInv, CrashEnds
  <2>2. CASE posts[b] > 0 \/ b \in BodiesIn(file) \cup givenUp \cup gone
    <3>1. posts'[b] > 0 \/ b \in BodiesIn(file') \cup givenUp' \cup gone'
      BY <1>1, <2>1, <2>2
    <3>2. QED
      BY <3>1 DEF Safe, BodiesIn
  <2>3. ASSUME NEW u \in Threads, Carries(thread[u], b) PROVE Safe(b)'
    <3>1. CASE My(u) = p
      <4>1. b \in BodiesIn(file') \cup gone'
        BY <2>3, <3>1 DEF CrashEnds
      <4>2. QED
        BY <4>1 DEF Safe, BodiesIn
    <3>2. CASE My(u) # p
      <4>1. Carries(thread'[u], b)
        BY <1>1, <2>3, <3>2
      <4>2. QED
        BY <4>1 DEF Safe, BodiesIn, Carries
    <3>3. QED
      BY <3>1, <3>2
  <2>4. QED
    BY <2>1, <2>2, <2>3 DEF Safe
<1>5. QED
  BY <1>1, <1>3, <1>4

LEMMA SafeInit == ASSUME Configured, QueueInit PROVE SafeInv
<1>1. SiemBase /\ pushed = 0 /\ \A t \in Threads : thread[t] = FreeThread
  BY SiemInitBase DEF QueueInit
<1>2. Accounted
  BY <1>1, FreeThreadIs DEF Accounted, Flushing
<1>3. QED
  BY <1>1, <1>2 DEF SafeInv

LEMMA SafeNext == ASSUME Configured, SafeInv, [QueueNext]_queueVars PROVE SafeInv'
<1>0. SiemBase /\ SiemBase'
  BY SiemNextBase DEF SafeInv
<1>1. ASSUME NEW t \in Threads,
             \/ Push(t) \/ Enqueue(t) \/ EnqueueFails(t) \/ Load(t) \/ Later(t)
             \/ Post(t) \/ PostFails(t) \/ Truncate(t) \/ TruncateFails(t)
             \/ Save(t) \/ SaveFails(t)
      PROVE  Accounted' /\ \A b \in 1 .. pushed' : Safe(b)'
  <2>1. CASE Later(t) \/ Post(t) \/ PostFails(t)
    BY <1>0, <2>1, RowIsTaken, SafeRow
  <2>2. CASE Enqueue(t) \/ EnqueueFails(t) \/ Save(t) \/ SaveFails(t)
    BY <1>0, <2>2, PutsIs, SafePuts
  <2>3. QED
    BY <1>1, <2>1, <2>2, SafePush, SafeLoad, SafeTruncate, SafeTruncateFails
<1>2. ASSUME NEW p \in Processes, EndProcess(p)
      PROVE  Accounted' /\ \A b \in 1 .. pushed' : Safe(b)'
  BY <1>0, <1>2, CrashIs, SafeCrash
<1>3. ASSUME UNCHANGED queueVars PROVE Accounted' /\ \A b \in 1 .. pushed' : Safe(b)'
  <2>1. Accounted'
    BY <1>3 DEF queueVars, SafeInv, Accounted, Flushing, My, BodiesIn, HeldBy
  <2>2. ASSUME NEW b \in 1 .. pushed PROVE Safe(b)'
    <3>1. Safe(b)
      BY DEF SafeInv
    <3>2. QED
      BY <1>3, <3>1 DEF queueVars, Safe, BodiesIn, Carries
  <2>3. pushed' = pushed
    BY <1>3 DEF queueVars
  <2>4. QED
    BY <2>1, <2>2, <2>3
<1>4. Accounted' /\ \A b \in 1 .. pushed' : Safe(b)'
  <2> DEFINE Still == Accounted' /\ \A b \in 1 .. pushed' : Safe(b)'
  <2>1. ASSUME NEW t \in Threads,
               \/ Push(t) \/ Enqueue(t) \/ EnqueueFails(t) \/ Load(t) \/ Later(t)
               \/ Post(t) \/ PostFails(t) \/ Truncate(t) \/ TruncateFails(t)
               \/ Save(t) \/ SaveFails(t)
        PROVE  Still
    BY <1>1, <2>1
  <2>2. ASSUME NEW p \in Processes, EndProcess(p) PROVE Still
    BY <1>2, <2>2
  <2>3. UNCHANGED queueVars => Still
    BY <1>3
  <2> HIDE DEF Still
  <2>4. Still
    BY <2>1, <2>2, <2>3 DEF QueueNext
  <2>5. QED
    BY <2>4 DEF Still
<1>5. QED
  BY <1>0, <1>4 DEF SafeInv

\* siem_queue.py: what a push could not deliver is queued, held by a flush,
\* delivered, given up, or counted as gone: a fault or another process lost it.
THEOREM NothingForgottenHolds == QueueSpec => []NothingForgotten
<1>1. QueueInit => SafeInv
  BY SafeInit, SiemAssumption
<1>2. SafeInv /\ [QueueNext]_queueVars => SafeInv'
  BY SafeNext, SiemAssumption
<1>3. SafeInv => NothingForgotten
  <2>1. ASSUME NEW t \in Threads, NEW b, Carries(thread[t], b) PROVE b \in Held(t)
    BY <2>1 DEF Carries, Held
  <2>2. QED
    BY <2>1 DEF SafeInv, Safe, NothingForgotten
<1>4. QED
  BY <1>1, <1>2, <1>3, PTL DEF QueueSpec

-----------------------------------------------------------------------------
\* Delivered twice only when unsure.

\* As long as nothing made a body unsure there is one copy of it: one thread
\* has it, one row is it, and once it was delivered nobody holds it - its
\* row is in the file only until the flush that delivered it saves.
Sure(b) ==
  /\ \A t, u \in Threads : HasIt(thread[t], b) /\ HasIt(thread[u], b) => t = u
  /\ Single(file, b)
  /\ \A t \in Threads : SureThread(thread[t], b)
  /\ \A t \in Threads :
       thread[t].at = "append" /\ thread[t].body = b => b \notin BodiesIn(file)
  /\ \A t \in Threads :
       thread[t].at = "save" /\ b \in thread[t].loaded => b \notin BodiesIn(file)
  /\ posts[b] > 0 =>
       /\ posts[b] = 1
       /\ \A t \in Threads : b \notin HeldBy(thread[t])
       /\ b \in BodiesIn(file) =>
            \E t \in Threads : thread[t].at = "flush" /\ b \in thread[t].loaded

SureInv == SiemBase /\ \A b \in Bodies : b \notin unsure => Sure(b)

\* What a thread holds it was asked to append, or has loaded.
LEMMA HeldIsHad ==
  ASSUME Configured, SiemBase, NEW t \in Threads, NEW b, b \in HeldBy(thread[t])
  PROVE  HasIt(thread[t], b)
<1>1. SiemThreadOK(thread[t], My(t), pushed) /\ thread[t] \in SiemThread
  BY SiemParts DEF SiemBase
<1>2. thread[t].at \in {"idle", "append", "flush", "save"}
  BY <1>1 DEF SiemThread
<1>3. thread[t].at # "idle"
  BY <1>1, FreeThreadIs DEF SiemThreadOK
<1>4. CASE thread[t].at = "append"
  BY <1>1, <1>4, NoBodies DEF SiemThreadOK, HeldBy, HasIt
<1>5. CASE thread[t].at \in {"flush", "save"}
  BY <1>1, <1>5 DEF SiemThreadOK, HeldBy, HasIt
<1>6. QED
  BY <1>2, <1>3, <1>4, <1>5

LEMMA FreeSure ==
  ASSUME Configured
  PROVE  \A b : ~ HasIt(FreeThread, b) /\ SureThread(FreeThread, b) /\ b \notin HeldBy(FreeThread)
BY FreeThreadIs, NoBodies, SingleEmpty DEF HasIt, SureThread

LEMMA SureStep ==
  ASSUME Configured, SiemBase, NEW b \in Bodies, Sure(b),
         NEW t \in Threads, NEW x, ThreadStep(t, x),
         HasIt(x, b) => \A u \in Threads \ {t} : ~ HasIt(thread[u], b),
         Single(file', b), SureThread(x, b),
         x.at = "append" /\ x.body = b => b \notin BodiesIn(file'),
         x.at = "save" /\ b \in x.loaded => b \notin BodiesIn(file'),
         \A u \in Threads \ {t} :
           thread[u].at = "save" /\ b \in thread[u].loaded => b \notin BodiesIn(file'),
         \A u \in Threads \ {t} :
           thread[u].at = "append" /\ thread[u].body = b => b \notin BodiesIn(file'),
         posts'[b] > 0 =>
           /\ posts'[b] = 1 /\ b \notin HeldBy(x)
           /\ \A u \in Threads \ {t} : b \notin HeldBy(thread[u])
           /\ b \in BodiesIn(file') =>
                \/ x.at = "flush" /\ b \in x.loaded
                \/ \E u \in Threads \ {t} :
                     thread[u].at = "flush" /\ b \in thread[u].loaded
  PROVE  Sure(b)'
<1>1. /\ thread'[t] = x
      /\ \A u \in Threads : u # t => thread'[u] = thread[u]
  BY ThreadIs
<1>2. ASSUME NEW u \in Threads, NEW v \in Threads,
             HasIt(thread'[u], b), HasIt(thread'[v], b)
      PROVE  u = v
  <2>1. CASE u # t /\ v # t
    BY <1>1, <1>2, <2>1 DEF Sure
  <2>2. QED
    BY <1>1, <1>2, <2>1
<1>3. \A u \in Threads : SureThread(thread'[u], b)
  BY <1>1 DEF Sure
<1>4. \A u \in Threads :
        thread'[u].at = "append" /\ thread'[u].body = b => b \notin BodiesIn(file')
  BY <1>1
<1>7. \A u \in Threads :
        thread'[u].at = "save" /\ b \in thread'[u].loaded => b \notin BodiesIn(file')
  BY <1>1
<1>5. ASSUME posts'[b] > 0
      PROVE  /\ posts'[b] = 1
             /\ \A u \in Threads : b \notin HeldBy(thread'[u])
             /\ b \in BodiesIn(file') =>
                  \E u \in Threads : thread'[u].at = "flush" /\ b \in thread'[u].loaded
  BY <1>1, <1>5
<1>6. QED
  BY <1>2, <1>3, <1>4, <1>5, <1>7 DEF Sure, HasIt, SureThread, Single, HeldBy, BodiesIn

LEMMA SurePush ==
  ASSUME Configured, SureInv, NEW t \in Threads, Push(t),
         NEW b \in Bodies, b \notin unsure'
  PROVE  Sure(b)'
<1>0. SiemBase
  BY DEF SureInv
<1>1. PICK x, c :
        /\ ThreadStep(t, x) /\ thread[t] = FreeThread
        /\ pushed' = c /\ c = pushed + 1 /\ c \in Bodies
        /\ UNCHANGED <<file, givenUp, gone>>
        /\ \/ x = FreeThread /\ Took(c) /\ unsure' = unsure
           \/ /\ x.at = "append" /\ x.body = c
              /\ x.rows = <<>> /\ x.kept = <<>>
              /\ \/ posts' = posts /\ unsure' = unsure
                 \/ Took(c) /\ unsure' = unsure \cup {c}
  BY <1>0, PushIs
<1>2. Sure(b)
  BY <1>1 DEF SureInv
<1>3. SureThread(x, b) /\ Single(file', b)
  BY <1>1, <1>2, FreeSure, NoBodies, SingleEmpty DEF SureThread, Sure
<1>4. c \notin 1 .. pushed /\ c > pushed
  BY <1>0, <1>1, SiemParts
<1>5. CASE b = c
  <2>1. /\ posts[c] = 0 /\ c \notin BodiesIn(file)
        /\ \A u \in Threads : ~ HasIt(thread[u], c)
    BY <1>0, <1>1, <1>4, SiemParts DEF SiemBase, SiemThreadOK, HasIt
  <2>2. \A u \in Threads : c \notin HeldBy(thread[u])
    BY <1>0, <2>1, HeldIsHad
  <2>3. posts'[c] > 0 => posts'[c] = 1 /\ x = FreeThread
    BY <1>0, <1>1, <1>5, <2>1, TookParts
  <2>4. QED
    BY <1>0, <1>1, <1>2, <1>3, <1>5, <2>1, <2>2, <2>3, FreeSure, SureStep
<1>6. CASE b # c
  <2>1. /\ posts'[b] = posts[b] /\ ~ HasIt(x, b) /\ b \notin HeldBy(x)
        /\ ~ (x.at = "append" /\ x.body = b)
    BY <1>0, <1>1, <1>6, TookParts, FreeSure, NoBodies DEF HasIt, HeldBy
  <2>2. thread[t].at # "flush"
    BY <1>1, FreeThreadIs
  <2>3. QED
    BY <1>0, <1>1, <1>2, <1>3, <2>1, <2>2, SureStep DEF Sure
<1>7. QED
  BY <1>5, <1>6

LEMMA SurePuts ==
  ASSUME Configured, SureInv, NEW t \in Threads, NEW s, Puts(t, s),
         NEW b \in Bodies, b \notin unsure'
  PROVE  Sure(b)'
<1>0. SiemBase
  BY DEF SureInv
<1>1. /\ ThreadStep(t, FreeThread) /\ thread[t].at \in {"append", "save"}
      /\ \A c \in BodiesIn(s) : HasIt(thread[t], c) /\ c \in HeldBy(thread[t])
      /\ \A c : SureThread(thread[t], c) => Single(s, c)
      /\ Blend(file', s, file)
      /\ UNCHANGED <<posts, unsure>>
  BY DEF Puts
<1>2. Sure(b)
  BY <1>1 DEF SureInv
<1>3. b \in BodiesIn(file') => b \in BodiesIn(s) \/ b \in BodiesIn(file)
  BY <1>1, BlendBodies
<1>4. b \in BodiesIn(s) => b \notin BodiesIn(file)
  <2>1. ASSUME b \in BodiesIn(s) PROVE b \notin BodiesIn(file)
    <3>1. HasIt(thread[t], b)
      BY <1>1, <2>1
    <3>2. CASE thread[t].at = "append"
      BY <1>2, <3>1, <3>2 DEF HasIt, Sure
    <3>3. CASE thread[t].at = "save"
      BY <1>2, <3>1, <3>3 DEF HasIt, Sure
    <3>4. QED
      BY <1>1, <3>2, <3>3
  <2>2. QED
    BY <2>1
<1>5. Single(file', b)
  <2>1. Single(s, b) /\ Single(file, b)
    BY <1>1, <1>2 DEF Sure
  <2>2. QED
    BY <1>1, <1>4, <2>1 DEF Blend
<1>6. ASSUME NEW u \in Threads \ {t},
             \/ thread[u].at = "append" /\ thread[u].body = b
             \/ thread[u].at = "save" /\ b \in thread[u].loaded
      PROVE  b \notin BodiesIn(file')
  <2>1. HasIt(thread[u], b)
    BY <1>6 DEF HasIt
  <2>2. b \notin BodiesIn(s)
    BY <1>1, <1>2, <2>1 DEF Sure
  <2>3. b \notin BodiesIn(file)
    BY <1>2, <1>6 DEF Sure
  <2>4. QED
    BY <1>3, <2>2, <2>3
<1>7. ASSUME posts'[b] > 0
      PROVE  /\ posts'[b] = 1 /\ b \notin HeldBy(FreeThread)
             /\ \A u \in Threads \ {t} : b \notin HeldBy(thread[u])
             /\ b \in BodiesIn(file') =>
                  \E u \in Threads \ {t} : thread[u].at = "flush" /\ b \in thread[u].loaded
  <2>1. posts'[b] = 1 /\ (\A u \in Threads : b \notin HeldBy(thread[u])) /\ b \notin HeldBy(FreeThread)
    BY <1>1, <1>2, <1>7, FreeSure DEF Sure
  <2>2. b \in BodiesIn(file') => b \in BodiesIn(file)
    BY <1>1, <1>3, <2>1
  <2>3. b \in BodiesIn(file) =>
          \E u \in Threads \ {t} : thread[u].at = "flush" /\ b \in thread[u].loaded
    BY <1>1, <1>2, <1>7 DEF Sure
  <2>4. QED
    BY <2>1, <2>2, <2>3
<1>8. QED
  BY <1>0, <1>1, <1>2, <1>5, <1>6, <1>7, FreeThreadIs, FreeSure, SureStep

LEMMA SureTruncateFails ==
  ASSUME Configured, SureInv, NEW t \in Threads, TruncateFails(t),
         NEW b \in Bodies, b \notin unsure'
  PROVE  Sure(b)'
<1>0. SiemBase
  BY DEF SureInv
<1>1. /\ ThreadStep(t, FreeThread) /\ thread[t].at = "flush"
      /\ unsure' = unsure \cup (thread[t].loaded \ BodiesIn(thread[t].kept))
      /\ UNCHANGED <<file, pushed, posts>>
  BY <1>0, TruncateFailsIs
<1>2. Sure(b) /\ (b \in thread[t].loaded => b \in BodiesIn(thread[t].kept))
  BY <1>1 DEF SureInv
<1>3. /\ Single(file', b)
      /\ \A u \in Threads \ {t} :
           /\ thread[u].at = "append" /\ thread[u].body = b => b \notin BodiesIn(file')
           /\ thread[u].at = "save" /\ b \in thread[u].loaded => b \notin BodiesIn(file')
  BY <1>1, <1>2 DEF Sure
<1>4. ASSUME posts'[b] > 0
      PROVE  /\ posts'[b] = 1 /\ b \notin HeldBy(FreeThread)
             /\ \A u \in Threads \ {t} : b \notin HeldBy(thread[u])
             /\ b \in BodiesIn(file') =>
                  \E u \in Threads \ {t} : thread[u].at = "flush" /\ b \in thread[u].loaded
  <2>1. posts'[b] = 1 /\ (\A u \in Threads : b \notin HeldBy(thread[u])) /\ b \notin HeldBy(FreeThread)
    BY <1>1, <1>2, <1>4, FreeSure DEF Sure
  <2>2. b \notin thread[t].loaded
    BY <1>2, <2>1 DEF HeldBy
  <2>3. QED
    BY <1>1, <1>2, <1>4, <2>1, <2>2 DEF Sure
<1>5. QED
  BY <1>0, <1>1, <1>2, <1>3, <1>4, FreeThreadIs, FreeSure, SureStep

LEMMA SureLoad ==
  ASSUME Configured, SureInv, NEW t \in Threads, Load(t),
         NEW b \in Bodies, b \notin unsure'
  PROVE  Sure(b)'
<1>0. SiemBase
  BY DEF SureInv
<1>1. PICK x :
        /\ ThreadStep(t, x) /\ thread[t] = FreeThread
        /\ x.at = "flush" /\ x.rows = file /\ x.kept = <<>> /\ x.loaded = BodiesIn(file)
        /\ unsure' = unsure \cup
             {c \in BodiesIn(file) :
                \E u \in Threads \ {t} : Flushing(u) /\ c \in thread[u].loaded}
        /\ UNCHANGED <<file, pushed, posts>>
  BY <1>0, LoadIs
<1>2. Sure(b)
  BY <1>1 DEF SureInv
<1>3. SureThread(x, b) /\ Single(file', b)
  BY <1>1, <1>2, SingleEmpty, NoBodies DEF Sure, SureThread
<1>4. CASE b \in BodiesIn(file)
  <2>1. \A u \in Threads \ {t} : ~ (Flushing(u) /\ b \in thread[u].loaded)
    BY <1>1, <1>4
  <2>2. \A u \in Threads \ {t} : ~ HasIt(thread[u], b)
    BY <1>2, <1>4, <2>1 DEF Sure, HasIt, Flushing
  <2>3. thread[t].at # "flush"
    BY <1>1, FreeThreadIs
  <2>4. ~ posts'[b] > 0
    BY <1>1, <1>2, <1>4, <2>1, <2>3 DEF Sure, Flushing
  <2>5. QED
    BY <1>0, <1>1, <1>2, <1>3, <2>2, <2>4, SureStep DEF Sure
<1>5. CASE b \notin BodiesIn(file)
  <2>1. ~ HasIt(x, b) /\ b \notin HeldBy(x)
    BY <1>1, <1>5, NoBodies DEF HasIt, HeldBy
  <2>2. QED
    BY <1>0, <1>1, <1>2, <1>3, <1>5, <2>1, SureStep DEF Sure
<1>6. QED
  BY <1>4, <1>5

LEMMA SureRow ==
  ASSUME Configured, SureInv, NEW t \in Threads, NEW x, NEW r, RowTaken(t, x, r),
         NEW b \in Bodies, b \notin unsure'
  PROVE  Sure(b)'
<1>0. SiemBase
  BY DEF SureInv
<1>1. /\ ThreadStep(t, x) /\ SiemThreadOK(x, My(t), pushed)
      /\ thread[t].at = "flush" /\ x.at = "flush" /\ x.loaded = thread[t].loaded
      /\ thread[t].rows # <<>> /\ x.rows = Tail(thread[t].rows)
      /\ r \in Rows /\ r.body = Head(thread[t].rows).body /\ r.body \in thread[t].loaded
      /\ x.kept = Append(thread[t].kept, r) \/ x.kept = thread[t].kept
      /\ \/ posts' = posts /\ unsure' = unsure
         \/ Took(r.body) /\ unsure' = unsure \cup {r.body}
         \/ Took(r.body) /\ unsure' = unsure /\ x.kept = thread[t].kept
      /\ file' = file
  BY DEF RowTaken
<1>2. Sure(b) /\ thread[t].rows \in Seq(Rows) /\ thread[t].kept \in Seq(Rows)
  BY <1>0, <1>1, SiemParts DEF SureInv, SiemThread
<1>3. /\ BodiesIn(thread[t].rows) = {r.body} \cup BodiesIn(x.rows)
      /\ Single(x.rows, b) /\ (r.body = b => b \notin BodiesIn(x.rows))
  <2>1. Single(thread[t].rows, b)
    BY <1>2 DEF Sure, SureThread
  <2>2. QED
    BY <1>1, <1>2, <2>1, BodiesOfTail, SingleTail
<1>4. r.body = b => b \in BodiesIn(thread[t].rows) /\ b \notin BodiesIn(thread[t].kept)
  BY <1>2, <1>3 DEF Sure, SureThread
<1>5. Single(x.kept, b)
  <2>1. Single(thread[t].kept, b)
    BY <1>2 DEF Sure, SureThread
  <2>2. QED
    BY <1>1, <1>2, <1>4, <2>1, SingleAppend
<1>6. \/ BodiesIn(x.kept) = BodiesIn(thread[t].kept) \cup {r.body}
      \/ x.kept = thread[t].kept
  BY <1>1, <1>2, BodiesOfAppend
<1>7. SureThread(x, b)
  <2>1. ~ (b \in BodiesIn(thread[t].rows) /\ b \in BodiesIn(thread[t].kept))
    BY <1>2 DEF Sure, SureThread
  <2>2. QED
    BY <1>3, <1>5, <1>6, <2>1 DEF SureThread
<1>8. HasIt(x, b) => HasIt(thread[t], b)
  BY <1>1 DEF HasIt
<1>9. HasIt(x, b) => \A u \in Threads \ {t} : ~ HasIt(thread[u], b)
  BY <1>2, <1>8 DEF Sure
<1>10. CASE posts' = posts
  <2>1. posts[b] > 0 => b \notin HeldBy(x)
    <3>1. posts[b] > 0 => b \notin HeldBy(thread[t])
      BY <1>2 DEF Sure
    <3>2. b \in HeldBy(x) => b \in HeldBy(thread[t])
      BY <1>1, <1>3, <1>6 DEF HeldBy
    <3>3. QED
      BY <3>1, <3>2
  <2>2. posts'[b] > 0 =>
           /\ posts'[b] = 1
           /\ \A u \in Threads \ {t} : b \notin HeldBy(thread[u])
           /\ b \in BodiesIn(file') =>
                \/ x.at = "flush" /\ b \in x.loaded
                \/ \E u \in Threads \ {t} :
                     thread[u].at = "flush" /\ b \in thread[u].loaded
    BY <1>1, <1>2, <1>10 DEF Sure
  <2>3. /\ Single(file', b)
        /\ \A u \in Threads \ {t} :
             /\ thread[u].at = "append" /\ thread[u].body = b => b \notin BodiesIn(file')
             /\ thread[u].at = "save" /\ b \in thread[u].loaded => b \notin BodiesIn(file')
    BY <1>1, <1>2 DEF Sure
  <2>4. QED
    BY <1>0, <1>1, <1>2, <1>7, <1>9, <1>10, <2>1, <2>2, <2>3, SureStep
<1>11. CASE posts' # posts
  <2>1. Took(r.body) /\ r.body \in Bodies
    BY <1>1, <1>11 DEF Rows
  <2>2. /\ Single(file', b)
        /\ \A u \in Threads \ {t} :
             /\ thread[u].at = "append" /\ thread[u].body = b => b \notin BodiesIn(file')
             /\ thread[u].at = "save" /\ b \in thread[u].loaded => b \notin BodiesIn(file')
    BY <1>1, <1>2 DEF Sure
  <2>3. CASE r.body = b
    <3>1. x.kept = thread[t].kept
      BY <1>1, <1>11, <2>3
    <3>2. b \in HeldBy(thread[t]) /\ HasIt(thread[t], b)
      BY <1>1, <1>4, <2>3 DEF HeldBy, HasIt
    <3>3. posts[b] = 0
      <4>1. posts[b] \in 0 .. 2 /\ ~ posts[b] > 0
        BY <1>0, <1>2, <3>2, SiemParts DEF Sure
      <4>2. QED
        BY <4>1
    <3>4. posts'[b] = 1
      BY <1>0, <2>1, <2>3, <3>3, TookParts
    <3>5. b \notin HeldBy(x)
      BY <1>1, <1>3, <1>4, <2>3, <3>1 DEF HeldBy
    <3>6. \A u \in Threads \ {t} : b \notin HeldBy(thread[u])
      BY <1>0, <1>2, <3>2, HeldIsHad DEF Sure
    <3>7. x.at = "flush" /\ b \in x.loaded
      BY <1>1, <2>3
    <3>8. QED
      BY <1>0, <1>1, <1>2, <1>7, <1>9, <2>2, <3>4, <3>5, <3>6, <3>7, SureStep
  <2>4. CASE r.body # b
    <3>1. posts'[b] = posts[b]
      BY <1>0, <2>1, <2>4, TookParts
    <3>2. b \in HeldBy(x) => b \in HeldBy(thread[t])
      BY <1>1, <1>3, <1>6, <2>4 DEF HeldBy
    <3>3. posts'[b] > 0 =>
             /\ posts'[b] = 1 /\ b \notin HeldBy(x)
             /\ \A u \in Threads \ {t} : b \notin HeldBy(thread[u])
             /\ b \in BodiesIn(file') =>
                  \/ x.at = "flush" /\ b \in x.loaded
                  \/ \E u \in Threads \ {t} :
                       thread[u].at = "flush" /\ b \in thread[u].loaded
      BY <1>1, <1>2, <3>1, <3>2 DEF Sure
    <3>4. QED
      BY <1>0, <1>1, <1>2, <1>7, <1>9, <2>2, <3>3, SureStep
  <2>5. QED
    BY <2>3, <2>4
<1>12. QED
  BY <1>10, <1>11

LEMMA SureTruncate ==
  ASSUME Configured, SureInv, NEW t \in Threads, Truncate(t),
         NEW b \in Bodies, b \notin unsure'
  PROVE  Sure(b)'
<1>0. SiemBase
  BY DEF SureInv
<1>1. PICK x :
        /\ ThreadStep(t, x) /\ thread[t].at = "flush" /\ thread[t].rows = <<>>
        /\ x.at = "save" /\ x.loaded = thread[t].loaded
        /\ x.rows = <<>> /\ x.kept = thread[t].kept
        /\ file' = <<>> /\ UNCHANGED <<pushed, posts, unsure>>
  BY <1>0, TruncateIs
<1>2. Sure(b)
  BY <1>1 DEF SureInv
<1>3. SureThread(x, b) /\ Single(file', b) /\ b \notin BodiesIn(file')
  BY <1>1, <1>2, SingleEmpty, NoBodies DEF Sure, SureThread
<1>4. /\ HasIt(x, b) <=> HasIt(thread[t], b)
      /\ HeldBy(x) = HeldBy(thread[t])
  BY <1>1 DEF HasIt, HeldBy
<1>5. HasIt(x, b) => \A u \in Threads \ {t} : ~ HasIt(thread[u], b)
  BY <1>2, <1>4 DEF Sure
<1>6. QED
  BY <1>0, <1>1, <1>2, <1>3, <1>4, <1>5, SureStep DEF Sure

LEMMA SureCrash ==
  ASSUME Configured, SureInv, NEW p \in Processes, NEW s, CrashEnds(p, s),
         NEW b \in Bodies, b \notin unsure'
  PROVE  Sure(b)'
<1>0. SiemBase
  BY DEF SureInv
<1>1. /\ thread' = [t \in Threads |-> IF My(t) = p THEN FreeThread ELSE thread[t]]
      /\ posts' = posts /\ unsure \subseteq unsure' /\ Blend(file', s, file)
      /\ \A t \in Threads : My(t) = p /\ Flushing(t) => thread[t].loaded \subseteq unsure'
  BY DEF CrashEnds
<1>2. Sure(b)
  BY <1>1 DEF SureInv
<1>3. \A t \in Threads : thread'[t] = FreeThread \/ (thread'[t] = thread[t] /\ My(t) # p)
  BY <1>1
\* The only row of the body that the end can add is one a thread was appending.
<1>4. ASSUME b \in BodiesIn(s)
      PROVE  /\ Single(s, b) /\ b \notin BodiesIn(file) /\ ~ posts[b] > 0
             /\ \A u \in Threads : ~ HasIt(thread'[u], b)
  <2>1. Single(s, b)
    BY <1>4 DEF CrashEnds
  <2>2. PICK t \in Threads : My(t) = p /\ thread[t].at = "append" /\ thread[t].body = b
    BY <1>4 DEF CrashEnds
  <2>3. HasIt(thread[t], b) /\ b \in HeldBy(thread[t]) /\ b \notin BodiesIn(file)
    BY <1>2, <2>2 DEF HasIt, HeldBy, Sure
  <2>4. ~ posts[b] > 0
    BY <1>2, <2>3 DEF Sure
  <2>5. ASSUME NEW u \in Threads, HasIt(thread'[u], b) PROVE FALSE
    <3>1. thread'[u] = thread[u] /\ My(u) # p
      BY <1>3, <2>5, FreeSure
    <3>2. u = t
      BY <1>2, <2>3, <2>5, <3>1 DEF Sure
    <3>3. QED
      BY <2>2, <3>1, <3>2
  <2>6. QED
    BY <2>1, <2>3, <2>4, <2>5
<1>5. Single(file', b)
  <2>1. Single(file, b) /\ Single(s, b)
    BY <1>2, <1>4 DEF Sure, Single, BodiesIn
  <2>2. QED
    BY <1>1, <1>4, <2>1 DEF Blend
<1>6. b \in BodiesIn(file') => b \in BodiesIn(s) \/ b \in BodiesIn(file)
  BY <1>1, BlendBodies
<1>7. ASSUME NEW u \in Threads, NEW v \in Threads,
             HasIt(thread'[u], b), HasIt(thread'[v], b)
      PROVE  u = v
  BY <1>2, <1>3, <1>7, FreeSure DEF Sure
<1>8. \A u \in Threads : SureThread(thread'[u], b)
  BY <1>2, <1>3, FreeSure DEF Sure
<1>9. ASSUME NEW u \in Threads,
             \/ thread'[u].at = "append" /\ thread'[u].body = b
             \/ thread'[u].at = "save" /\ b \in thread'[u].loaded
      PROVE  b \notin BodiesIn(file')
  <2>1. HasIt(thread'[u], b)
    BY <1>9 DEF HasIt
  <2>2. thread'[u] = thread[u] /\ b \notin BodiesIn(s)
    BY <1>3, <1>4, <2>1, FreeSure
  <2>3. b \notin BodiesIn(file)
    BY <1>2, <1>9, <2>2 DEF Sure
  <2>4. QED
    BY <1>6, <2>2, <2>3
<1>10. ASSUME posts'[b] > 0
       PROVE  /\ posts'[b] = 1
              /\ \A u \in Threads : b \notin HeldBy(thread'[u])
              /\ b \in BodiesIn(file') =>
                   \E u \in Threads : thread'[u].at = "flush" /\ b \in thread'[u].loaded
  <2>1. posts'[b] = 1 /\ \A u \in Threads : b \notin HeldBy(thread'[u])
    BY <1>1, <1>2, <1>3, <1>10, FreeSure DEF Sure
  <2>2. ASSUME b \in BodiesIn(file')
        PROVE  \E u \in Threads : thread'[u].at = "flush" /\ b \in thread'[u].loaded
    <3>1. b \in BodiesIn(file)
      BY <1>1, <1>4, <1>6, <1>10, <2>2
    <3>2. PICK u \in Threads : thread[u].at = "flush" /\ b \in thread[u].loaded
      BY <1>1, <1>2, <1>10, <3>1 DEF Sure
    <3>3. My(u) # p
      BY <1>1, <3>2 DEF Flushing
    <3>4. QED
      BY <1>1, <3>2, <3>3
  <2>3. QED
    BY <2>1, <2>2
<1>11. QED
  BY <1>5, <1>7, <1>8, <1>9, <1>10
     DEF Sure, HasIt, SureThread, Single, HeldBy, BodiesIn

LEMMA SureInit == ASSUME Configured, QueueInit PROVE SureInv
<1>1. /\ SiemBase /\ file = <<>> /\ posts = [b \in Bodies |-> 0]
      /\ \A t \in Threads : thread[t] = FreeThread
  BY SiemInitBase DEF QueueInit
<1>2. \A b \in Bodies : Sure(b)
  BY <1>1, FreeThreadIs, FreeSure, NoBodies, SingleEmpty DEF Sure
<1>3. QED
  BY <1>1, <1>2 DEF SureInv

LEMMA SureNext == ASSUME Configured, SureInv, [QueueNext]_queueVars PROVE SureInv'
<1>0. SiemBase /\ SiemBase'
  BY SiemNextBase DEF SureInv
<1>1. ASSUME NEW b \in Bodies, b \notin unsure' PROVE Sure(b)'
  <2>1. ASSUME NEW t \in Threads,
               \/ Push(t) \/ Enqueue(t) \/ EnqueueFails(t) \/ Load(t) \/ Later(t)
               \/ Post(t) \/ PostFails(t) \/ Truncate(t) \/ TruncateFails(t)
               \/ Save(t) \/ SaveFails(t)
        PROVE  Sure(b)'
    <3>1. CASE Later(t) \/ Post(t) \/ PostFails(t)
      BY <1>0, <1>1, <3>1, RowIsTaken, SureRow
    <3>2. CASE Enqueue(t) \/ EnqueueFails(t) \/ Save(t) \/ SaveFails(t)
      BY <1>0, <1>1, <3>2, PutsIs, SurePuts
    <3>3. QED
      BY <1>1, <2>1, <3>1, <3>2, SurePush, SureLoad, SureTruncate, SureTruncateFails
  <2>2. ASSUME NEW p \in Processes, EndProcess(p) PROVE Sure(b)'
    BY <1>0, <1>1, <2>2, CrashIs, SureCrash
  <2>3. ASSUME UNCHANGED queueVars PROVE Sure(b)'
    <3>1. Sure(b)
      BY <1>1, <2>3 DEF SureInv, queueVars
    <3>2. QED
      BY <2>3, <3>1 DEF queueVars, Sure, HasIt, SureThread, Single, HeldBy, BodiesIn
  <2>4. QED
    BY <2>1, <2>2, <2>3 DEF QueueNext
<1>2. QED
  BY <1>0, <1>1 DEF SureInv

\* siem_queue.py, siem_push.py: the SIEM gets a body twice only when an answer
\* was lost, a process ended in a flush or could not open the file to save, or two
\* processes flushed it.
THEOREM TwiceOnlyUnsureHolds == QueueSpec => []TwiceOnlyUnsure
<1>1. QueueInit => SureInv
  BY SureInit, SiemAssumption
<1>2. SureInv /\ [QueueNext]_queueVars => SureInv'
  BY SureNext, SiemAssumption
<1>3. SureInv => TwiceOnlyUnsure
  <2>1. ASSUME SureInv, NEW b \in Bodies, posts[b] > 1 PROVE b \in unsure
    <3>1. posts[b] \in 0 .. 2
      BY <2>1, SiemAssumption, SiemParts DEF SureInv
    <3>2. posts[b] > 0 /\ posts[b] # 1
      BY <2>1, <3>1
    <3>3. QED
      BY <2>1, <3>2 DEF SureInv, Sure
  <2>2. QED
    BY <2>1 DEF TwiceOnlyUnsure
<1>4. QED
  BY <1>1, <1>2, <1>3, PTL DEF QueueSpec

\* The queue, the locks and the histories keep their types (siem_queue.py:20-22).
THEOREM SiemTypeCorrect == QueueSpec => []QueueTypeOK
<1>1. SiemBase => QueueTypeOK
  BY DEF SiemBase
<1>2. QED
  BY <1>1, SiemBaseInvariant, PTL
=============================================================================
