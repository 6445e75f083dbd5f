------------------------- MODULE AuditArchiveProofs -------------------------
(***************************************************************************)
(* Proofs about AuditArchive, for every number of rows, segments, faults   *)
(* and, where no hypothesis says otherwise, archivers.                     *)
(*                                                                         *)
(* LogInv, for any archivers: the hot table is a suffix of the ids ever    *)
(* issued (appends go at the end, deletes take a prefix), neighbours in it *)
(* are linked, and what a retention run is about to delete is aged.        *)
(*                                                                         *)
(* ArchiveInv, for one archiver at a time (OneArchiver): from the read of  *)
(* the rows to the delete, what the archiver holds in memory is exactly    *)
(* the hot prefix it will delete, and its segment is unlisted until the    *)
(* rows are in it.                                                         *)
(*                                                                         *)
(* EvidenceInv, for one archiver as well: from the read of the rows to the *)
(* delete, the rows in memory are the hot prefix it will delete; they are  *)
(* in the .tmp file, then in the jsonl; and the segment it writes is not   *)
(* listed before its manifest is.  So no evidence is lost, segments stay   *)
(* verifiable, and AuditArchive implements EvidenceTrail.  With two        *)
(* archivers the last two fail, and so does the theorem                    *)
(* (MCAuditTwoLoss.cfg).                                                   *)
(***************************************************************************)
EXTENDS AuditArchive, SequenceTheorems, TLAPS

\* apply_retention is run by one process at a time.
OneArchiver == \E a : Archivers = {a}

HotIsSuffix == \A i \in hot : \A j \in i..Len(journal) : j \in hot

HotIsLinked == \A i \in hot : (i - 1) \in hot => journal[i].prev = i - 1

\* What an archiver in state a is about to delete was aged at its cutoff.
Aged(a) ==
  /\ a.pc \in {"purge_check", "purge"} => a.job = "purge"
  /\ a.pc = "delete" => a.job = "archive"
  /\ a.pc # "idle" /\ a.job # "seal" =>
       /\ a.through \in 1..Len(journal)
       /\ \A i \in hot : i <= a.through => journal[i].ts < a.cutoff

RetentionIsAged == \A p \in Archivers : Aged(arch[p])

LogInv == TypeOK /\ HotIsSuffix /\ HotIsLinked /\ RetentionIsAged

-----------------------------------------------------------------------------
(* The part of TypeOK that concerns the table.                             *)
LEMMA LogTypes ==
  ASSUME TypeOK
  PROVE  /\ journal \in Seq([ts : Nat, prev : Nat])
         /\ Len(journal) \in Nat
         /\ hot \in SUBSET (1..Len(journal))
<1>1. journal \in Seq([ts : Nat, prev : Nat]) /\ hot \in SUBSET (1..Len(journal))
  BY DEF TypeOK
<1>2. QED
  BY <1>1

(* The last hot row is the last row issued.                                *)

LEMMA TipIsLast ==
  ASSUME TypeOK, HotIsSuffix
  PROVE  /\ Tip \in Nat
         /\ hot # {} => Tip = Len(journal) /\ Tip \in hot
<1>1. CASE hot = {}
  BY <1>1 DEF Tip, Genesis
<1>2. CASE hot # {}
  <2>1. PICK h \in hot : TRUE
    BY <1>2
  <2>2. h \in 1..Len(journal) /\ Len(journal) \in h..Len(journal)
    BY <2>1, LogTypes
  <2>3. Len(journal) \in hot
    BY <2>1, <2>2 DEF HotIsSuffix
  <2>4. \A i \in hot : i <= Len(journal)
    BY LogTypes
  <2>5. Tip \in hot /\ \A i \in hot : i <= Tip
    BY <1>2, <2>3, <2>4 DEF Tip
  <2>6. Tip = Len(journal)
    BY <2>3, <2>4, <2>5, LogTypes
  <2>7. QED
    BY <2>3, <2>6, LogTypes
<1>3. QED
  BY <1>1, <1>2

(* What an insert does to the table and to the rows already there.         *)
LEMMA InsertFacts ==
  ASSUME TypeOK, HotIsSuffix, NEW ts \in Nat, Insert(ts)
  PROVE  /\ Len(journal) \in Nat
         /\ journal' \in Seq([ts : Nat, prev : Nat])
         /\ Len(journal') = Len(journal) + 1
         /\ \A i \in 1..Len(journal) : journal'[i] = journal[i]
         /\ journal'[Len(journal) + 1] = [ts |-> ts, prev |-> Tip]
         /\ hot' = hot \cup {Len(journal) + 1}
         /\ hot' \in SUBSET (1..Len(journal'))
<1>1. Len(journal) \in Nat /\ journal \in Seq([ts : Nat, prev : Nat])
  BY LogTypes
<1>2. [ts |-> ts, prev |-> Tip] \in [ts : Nat, prev : Nat]
  BY TipIsLast
<1>3. journal' = Append(journal, [ts |-> ts, prev |-> Tip])
      /\ hot' = hot \cup {Len(journal) + 1}
  BY DEF Insert
<1>4. hot \in SUBSET (1..Len(journal))
  BY LogTypes
<1>5. /\ journal' \in Seq([ts : Nat, prev : Nat])
      /\ Len(journal') = Len(journal) + 1
      /\ \A i \in 1..Len(journal) : journal'[i] = journal[i]
      /\ journal'[Len(journal) + 1] = [ts |-> ts, prev |-> Tip]
  BY <1>1, <1>2, <1>3, AppendProperties
<1>6. hot' \in SUBSET (1..Len(journal'))
  <2>1. Len(journal') = Len(journal) + 1
    BY <1>5
  <2>2. \A i \in hot \cup {Len(journal) + 1} : i \in 1..(Len(journal) + 1)
    BY <1>1, <1>4
  <2>3. QED
    BY <1>3, <2>1, <2>2
<1>7. QED
  BY <1>1, <1>3, <1>5, <1>6

LEMMA InsertKeepsLinks ==
  ASSUME TypeOK, HotIsSuffix, HotIsLinked, NEW ts \in Nat, Insert(ts)
  PROVE  HotIsSuffix' /\ HotIsLinked'
<1>. DEFINE n == Len(journal)
<1>1. /\ n \in Nat
      /\ Len(journal') = n + 1
      /\ \A i \in 1..n : journal'[i] = journal[i]
      /\ journal'[n + 1] = [ts |-> ts, prev |-> Tip]
      /\ hot' = hot \cup {n + 1}
      /\ hot \in SUBSET (1..n)
  BY InsertFacts, LogTypes
<1>2. HotIsSuffix'
  BY <1>1 DEF HotIsSuffix
<1>3. ASSUME NEW i \in hot', (i - 1) \in hot'
      PROVE  journal'[i].prev = i - 1
  <2>1. CASE i \in hot
    BY <1>1, <1>3, <2>1 DEF HotIsLinked
  <2>2. CASE i = n + 1
    <3>1. n \in hot
      BY <1>1, <1>3, <2>2
    <3>2. Tip = n
      BY <3>1, TipIsLast
    <3>3. QED
      BY <1>1, <2>2, <3>2
  <2>3. QED
    BY <1>1, <1>3, <2>1, <2>2
<1>4. QED
  BY <1>2, <1>3 DEF HotIsLinked

-----------------------------------------------------------------------------
(* Types.                                                                  *)

LEMMA ArchiverTypes ==
  ASSUME NEW s \in ArchiverState
  PROVE  /\ s.pc \in Steps /\ s.cutoff \in Nat /\ s.through \in Nat
         /\ s.rows \in SUBSET Nat /\ s.seg \in Nat
         /\ s.job \in {"archive", "purge", "seal"}
         /\ \A l \in Steps : [s EXCEPT !.pc = l] \in ArchiverState
         /\ \A R \in SUBSET Nat :
              [s EXCEPT !.pc = "number", !.rows = R] \in ArchiverState
         /\ \A n \in Nat : [s EXCEPT !.pc = "write", !.seg = n] \in ArchiverState
         /\ Idle \in ArchiverState
BY DEF ArchiverState, Steps, Idle

(* An action that only moves an archiver's program counter, or ends its    *)
(* run, keeps the archiver's type.                                         *)
LEMMA GotoTypes ==
  ASSUME arch \in [Archivers -> ArchiverState], NEW p \in Archivers,
         NEW l \in Steps, Goto(p, l) \/ Finish(p)
  PROVE  arch' \in [Archivers -> ArchiverState]
<1>1. [arch[p] EXCEPT !.pc = l] \in ArchiverState /\ Idle \in ArchiverState
  BY ArchiverTypes
<1>2. QED
  BY <1>1 DEF Goto, Finish

FileTypesOK ==
  /\ tmp \in [Segments -> File]
  /\ jsonl \in [Segments -> File]
  /\ manifest \in [Segments -> File]

LEMMA TypeParts ==
  TypeOK <=> /\ journal \in Seq([ts : Nat, prev : Nat])
             /\ hot \in SUBSET (1..Len(journal))
             /\ FileTypesOK
             /\ arch \in [Archivers -> ArchiverState]
             /\ purged \in SUBSET Nat
             /\ faults \in Nat
BY DEF TypeOK, FileTypesOK

LEMMA TypePartsNext ==
  TypeOK' <=> /\ journal' \in Seq([ts : Nat, prev : Nat])
              /\ hot' \in SUBSET (1..Len(journal'))
              /\ FileTypesOK'
              /\ arch' \in [Archivers -> ArchiverState]
              /\ purged' \in SUBSET Nat
              /\ faults' \in Nat
BY DEF TypeOK, FileTypesOK

\* The type invariant holds initially.
LEMMA InitTypeOK == Init => TypeOK
<1>. SUFFICES ASSUME Init PROVE TypeOK
  OBVIOUS
<1>1. journal \in Seq([ts : Nat, prev : Nat]) /\ hot \in SUBSET (1..Len(journal))
  BY DEF Init
<1>2. FileTypesOK
  BY DEF Init, FileTypesOK, Absent, File, Modes
<1>3. arch \in [Archivers -> ArchiverState]
  BY DEF Init, Idle, ArchiverState, Steps
<1>4. purged \in SUBSET Nat /\ faults \in Nat
  BY DEF Init
<1>5. QED
  BY <1>1, <1>2, <1>3, <1>4, TypeParts

(* Every action keeps the types; an insert needs the last hot row to be    *)
(* the last row issued.                                                    *)
LEMMA TypeStep ==
  ASSUME TypeOK, HotIsSuffix, [Next]_vars
  PROVE  TypeOK'
<1>. USE DEF fileVars
<1>0. /\ journal \in Seq([ts : Nat, prev : Nat])
      /\ hot \in SUBSET (1..Len(journal))
      /\ FileTypesOK
      /\ arch \in [Archivers -> ArchiverState]
      /\ purged \in SUBSET Nat
      /\ faults \in Nat
  BY TypeParts
<1>a. ASSUME UNCHANGED fileVars PROVE FileTypesOK'
  BY <1>a, <1>0 DEF FileTypesOK
<1>b. ASSUME UNCHANGED <<journal, hot>>
      PROVE  journal' \in Seq([ts : Nat, prev : Nat]) /\ hot' \in SUBSET (1..Len(journal'))
  BY <1>b, <1>0
<1>c. ASSUME NEW ts \in Nat, Insert(ts)
      PROVE  journal' \in Seq([ts : Nat, prev : Nat]) /\ hot' \in SUBSET (1..Len(journal'))
  BY <1>c, InsertFacts
<1>d. ASSUME UNCHANGED journal, NEW t, hot' = {i \in hot : i > t}
      PROVE  journal' \in Seq([ts : Nat, prev : Nat]) /\ hot' \in SUBSET (1..Len(journal'))
  BY <1>d, <1>0
<1>e. ASSUME NEW p \in Archivers, NEW l \in Steps, Goto(p, l) \/ Finish(p)
      PROVE  arch' \in [Archivers -> ArchiverState]
  BY <1>e, <1>0, GotoTypes
<1>f. ASSUME NEW p \in Archivers, Finish(p)
      PROVE  arch' \in [Archivers -> ArchiverState]
  BY <1>f, <1>e DEF Steps
<1>1. ASSUME NEW ts \in 0..MaxTime, Record(ts)
      PROVE  TypeOK'
  <2>1. ts \in Nat
    BY BoundsAssumption
  <2>2. FileTypesOK' /\ UNCHANGED <<arch, purged, faults>>
    BY <1>1, <1>a DEF Record
  <2>3. journal' \in Seq([ts : Nat, prev : Nat]) /\ hot' \in SUBSET (1..Len(journal'))
    BY <1>1, <2>1, <1>c DEF Record
  <2>4. QED
    BY <1>0, <2>2, <2>3, TypePartsNext
<1>2. ASSUME NEW p \in Archivers, NEW job \in Jobs, NEW c \in 1..(MaxTime + 1),
             StartRetention(p, job, c)
      PROVE  TypeOK'
  <2>1. PICK t \in hot :
          arch' = [arch EXCEPT ![p] =
            [Idle EXCEPT !.pc = IF job = "purge" THEN "purge_check" ELSE "read",
                         !.job = job, !.cutoff = c, !.through = t]]
    BY <1>2 DEF StartRetention
  <2>2. c \in Nat /\ t \in Nat /\ job \in {"archive", "purge", "seal"}
    BY BoundsAssumption, JobsAssumption, LogTypes
  <2>3. [Idle EXCEPT !.pc = IF job = "purge" THEN "purge_check" ELSE "read",
                     !.job = job, !.cutoff = c, !.through = t] \in ArchiverState
    BY <2>2 DEF Idle, ArchiverState, Steps
  <2>4. arch' \in [Archivers -> ArchiverState]
    BY <1>0, <2>1, <2>3
  <2>5. UNCHANGED <<journal, hot, fileVars, purged, faults>>
    BY <1>2 DEF StartRetention
  <2>6. QED
    BY <1>0, <1>a, <1>b, <2>4, <2>5, TypePartsNext
<1>3. ASSUME NEW p \in Archivers, NEW t \in 1..MaxRows, StartSeal(p, t)
      PROVE  TypeOK'
  <2>0. t \in Nat
    BY BoundsAssumption
  <2>1. [Idle EXCEPT !.pc = "read", !.through = t] \in ArchiverState
    BY <2>0 DEF Idle, ArchiverState, Steps
  <2>2. arch' \in [Archivers -> ArchiverState]
    BY <1>0, <1>3, <2>1 DEF StartSeal
  <2>3. UNCHANGED <<journal, hot, fileVars, purged, faults>>
    BY <1>3 DEF StartSeal
  <2>4. QED
    BY <1>0, <1>a, <1>b, <2>2, <2>3, TypePartsNext
<1>4. ASSUME NEW p \in Archivers, ReadRows(p) PROVE TypeOK'
  <2>1. {i \in hot : i <= arch[p].through} \in SUBSET Nat
    BY LogTypes
  <2>2. arch' \in [Archivers -> ArchiverState]
    <3>1. CASE Finish(p)
      BY <3>1, <1>f
    <3>2. CASE arch' = [arch EXCEPT ![p].pc = "number",
                          ![p].rows = {i \in hot : i <= arch[p].through}]
      BY <3>2, <2>1, <1>0, ArchiverTypes
    <3>3. QED
      BY <1>4, <3>1, <3>2 DEF ReadRows
  <2>3. UNCHANGED <<journal, hot, fileVars, purged, faults>>
    BY <1>4 DEF ReadRows
  <2>4. QED
    BY <1>0, <1>a, <1>b, <2>2, <2>3, TypePartsNext
<1>5. ASSUME NEW p \in Archivers, ChooseSegment(p) PROVE TypeOK'
  <2>1. arch' \in [Archivers -> ArchiverState]
    <3>1. PICK n \in Segments :
            Finish(p) \/ arch' = [arch EXCEPT ![p].pc = "write", ![p].seg = n]
      BY <1>5 DEF ChooseSegment
    <3>2. n \in Nat
      BY BoundsAssumption DEF Segments
    <3>3. CASE arch' = [arch EXCEPT ![p].pc = "write", ![p].seg = n]
      BY <3>2, <3>3, <1>0, ArchiverTypes
    <3>4. QED
      BY <3>1, <3>3, <1>f
  <2>2. UNCHANGED <<journal, hot, fileVars, purged, faults>>
    BY <1>5 DEF ChooseSegment
  <2>3. QED
    BY <1>0, <1>a, <1>b, <2>1, <2>2, TypePartsNext
<1>6. ASSUME NEW p \in Archivers, WriteTmp(p) PROVE TypeOK'
  <2>1. [mode |-> "writable", rows |-> arch[p].rows] \in File
    BY <1>0, ArchiverTypes DEF File, Modes
  <2>2. FileTypesOK'
    BY <1>6, <1>0, <2>1 DEF WriteTmp, FileTypesOK
  <2>3. arch' \in [Archivers -> ArchiverState]
    BY <1>6, <1>e DEF WriteTmp, Steps
  <2>4. UNCHANGED <<journal, hot, purged, faults>>
    BY <1>6 DEF WriteTmp
  <2>5. QED
    BY <1>0, <1>b, <2>2, <2>3, <2>4, TypePartsNext
<1>7. ASSUME NEW p \in Archivers, ReplaceJsonl(p) PROVE TypeOK'
  <2>0. Absent \in File
    BY DEF Absent, File, Modes
  <2>1. FileTypesOK'
    <3>1. CASE Exists(tmp[arch[p].seg])
      <4>1. /\ jsonl' = [jsonl EXCEPT ![arch[p].seg] = tmp[arch[p].seg]]
            /\ tmp' = [tmp EXCEPT ![arch[p].seg] = Absent]
            /\ manifest' = manifest
        BY <1>7, <3>1 DEF ReplaceJsonl
      <4>2. QED
        BY <1>0, <2>0, <4>1 DEF FileTypesOK
    <3>2. CASE ~Exists(tmp[arch[p].seg])
      BY <1>7, <3>2, <1>0 DEF ReplaceJsonl, FileTypesOK
    <3>3. QED
      BY <3>1, <3>2
  <2>2. arch' \in [Archivers -> ArchiverState]
    BY <1>7, <1>e, <1>f DEF ReplaceJsonl, Steps
  <2>3. UNCHANGED <<journal, hot, purged, faults>>
    BY <1>7 DEF ReplaceJsonl
  <2>4. QED
    BY <1>0, <1>b, <2>1, <2>2, <2>3, TypePartsNext
<1>8. ASSUME NEW p \in Archivers, ChmodJsonl(p) PROVE TypeOK'
  <2>0. \A f \in File : [f EXCEPT !.mode = "readonly"] \in File
    BY DEF File, Modes
  <2>1. FileTypesOK'
    BY <1>8, <1>0, <2>0 DEF ChmodJsonl, FileTypesOK
  <2>2. arch' \in [Archivers -> ArchiverState]
    BY <1>8, <1>e DEF ChmodJsonl, Steps
  <2>3. UNCHANGED <<journal, hot, purged, faults>>
    BY <1>8 DEF ChmodJsonl
  <2>4. QED
    BY <1>0, <1>b, <2>1, <2>2, <2>3, TypePartsNext

<1>9. ASSUME NEW p \in Archivers, OpenManifest(p) PROVE TypeOK'
  <2>1. FileTypesOK'
    BY <1>9, <1>0 DEF OpenManifest, FileTypesOK, File, Modes
  <2>2. arch' \in [Archivers -> ArchiverState]
    BY <1>9, <1>e, <1>f DEF OpenManifest, Steps
  <2>3. UNCHANGED <<journal, hot, purged, faults>>
    BY <1>9 DEF OpenManifest
  <2>4. QED
    BY <1>0, <1>b, <2>1, <2>2, <2>3, TypePartsNext
<1>10. ASSUME NEW p \in Archivers, WriteManifest(p) PROVE TypeOK'
  <2>1. [mode |-> "writable", rows |-> arch[p].rows] \in File
    BY <1>0, ArchiverTypes DEF File, Modes
  <2>2. FileTypesOK'
    BY <1>10, <1>0, <2>1 DEF WriteManifest, FileTypesOK
  <2>3. arch' \in [Archivers -> ArchiverState]
    BY <1>10, <1>e DEF WriteManifest, Steps
  <2>4. UNCHANGED <<journal, hot, purged, faults>>
    BY <1>10 DEF WriteManifest
  <2>5. QED
    BY <1>0, <1>b, <2>2, <2>3, <2>4, TypePartsNext
<1>11. ASSUME NEW p \in Archivers, ChmodManifest(p) PROVE TypeOK'
  <2>0. \A f \in File : [f EXCEPT !.mode = "readonly"] \in File
    BY DEF File, Modes
  <2>1. FileTypesOK'
    BY <1>11, <1>0, <2>0 DEF ChmodManifest, FileTypesOK
  <2>2. arch' \in [Archivers -> ArchiverState]
    BY <1>11, <1>e DEF ChmodManifest, Steps
  <2>3. UNCHANGED <<journal, hot, purged, faults>>
    BY <1>11 DEF ChmodManifest
  <2>4. QED
    BY <1>0, <1>b, <2>1, <2>2, <2>3, TypePartsNext
<1>12. ASSUME NEW p \in Archivers, VerifySegment(p) \/ MirrorSegment(p) \/ PurgeCheck(p)
       PROVE  TypeOK'
  <2>1. arch' \in [Archivers -> ArchiverState]
    BY <1>12, <1>e, <1>f DEF VerifySegment, MirrorSegment, PurgeCheck, Steps
  <2>2. UNCHANGED <<journal, hot, fileVars, purged, faults>>
    BY <1>12 DEF VerifySegment, MirrorSegment, PurgeCheck
  <2>3. QED
    BY <1>0, <1>a, <1>b, <2>1, <2>2, TypePartsNext
<1>13. ASSUME NEW p \in Archivers, DeleteThrough(p) \/ PurgeRows(p) PROVE TypeOK'
  <2>1. journal' \in Seq([ts : Nat, prev : Nat]) /\ hot' \in SUBSET (1..Len(journal'))
    BY <1>13, <1>d DEF DeleteThrough, PurgeRows
  <2>2. arch' \in [Archivers -> ArchiverState]
    BY <1>13, <1>e DEF DeleteThrough, PurgeRows, Steps
  <2>3. purged' \in SUBSET Nat
    <3>1. {i \in hot : i <= arch[p].through} \in SUBSET Nat
      BY LogTypes
    <3>2. QED
      BY <1>13, <1>0, <3>1 DEF DeleteThrough, PurgeRows
  <2>4. UNCHANGED <<fileVars, faults>>
    BY <1>13 DEF DeleteThrough, PurgeRows
  <2>5. QED
    BY <1>0, <1>a, <2>1, <2>2, <2>3, <2>4, TypePartsNext
<1>14. ASSUME NEW p \in Archivers, NEW ts \in 0..MaxTime, RecordRetention(p, ts)
       PROVE  TypeOK'
  <2>1. ts \in Nat
    BY BoundsAssumption
  <2>2. journal' \in Seq([ts : Nat, prev : Nat]) /\ hot' \in SUBSET (1..Len(journal'))
    BY <1>14, <2>1, <1>b, <1>c DEF RecordRetention
  <2>3. arch' \in [Archivers -> ArchiverState]
    BY <1>14, <1>f DEF RecordRetention
  <2>4. UNCHANGED <<fileVars, purged, faults>>
    BY <1>14 DEF RecordRetention
  <2>5. QED
    BY <1>0, <1>a, <2>2, <2>3, <2>4, TypePartsNext
<1>15. ASSUME NEW p \in Archivers, Crash(p) PROVE TypeOK'
  <2>1. arch' \in [Archivers -> ArchiverState] /\ faults' \in Nat
    BY <1>15, <1>0, <1>f DEF Crash
  <2>2. UNCHANGED <<journal, hot, fileVars, purged>>
    BY <1>15 DEF Crash
  <2>3. QED
    BY <1>0, <1>a, <1>b, <2>1, <2>2, TypePartsNext
<1>16. ASSUME NEW p \in Archivers, WriteFails(p) PROVE TypeOK'
  <2>1. FileTypesOK'
    BY <1>16, <1>0 DEF WriteFails, FileTypesOK, Absent, File, Modes
  <2>2. arch' \in [Archivers -> ArchiverState] /\ faults' \in Nat
    BY <1>16, <1>0, <1>f DEF WriteFails
  <2>3. UNCHANGED <<journal, hot, purged>>
    BY <1>16 DEF WriteFails
  <2>4. QED
    BY <1>0, <1>b, <2>1, <2>2, <2>3, TypePartsNext
<1>17. CASE UNCHANGED vars
  BY <1>17, <1>0, <1>a, <1>b, TypePartsNext DEF vars
<1>18. QED
  BY <1>1, <1>2, <1>3, <1>4, <1>5, <1>6, <1>7, <1>8, <1>9, <1>10, <1>11,
     <1>12, <1>13, <1>14, <1>15, <1>16, <1>17 DEF Next, Proceed

-----------------------------------------------------------------------------
(* The log invariant, for any set of archivers.                            *)

(* Aged survives an insert (the new row is above through), a deletion, and  *)
(* holds of an idle archiver.                                              *)
LEMMA AgedStable ==
  ASSUME TypeOK, HotIsSuffix, NEW a \in ArchiverState, Aged(a),
         \/ \E ts \in Nat : Insert(ts)
         \/ UNCHANGED journal /\ hot' \in SUBSET hot
  PROVE  Aged(a)'
<1>1. CASE \E ts \in Nat : Insert(ts)
  <2>1. PICK ts \in Nat : Insert(ts)
    BY <1>1
  <2>2. /\ Len(journal) \in Nat
        /\ Len(journal') = Len(journal) + 1
        /\ \A i \in 1..Len(journal) : journal'[i] = journal[i]
        /\ hot' = hot \cup {Len(journal) + 1}
        /\ hot \in SUBSET (1..Len(journal))
    BY <2>1, InsertFacts, LogTypes
  <2>3. a.through \in Nat
    BY ArchiverTypes
  <2>4. ASSUME a.pc # "idle", a.job # "seal"
        PROVE  /\ a.through \in 1..Len(journal')
               /\ \A i \in hot' : i <= a.through => journal'[i].ts < a.cutoff
    <3>1. /\ a.through \in 1..Len(journal)
          /\ \A i \in hot : i <= a.through => journal[i].ts < a.cutoff
      BY <2>4 DEF Aged
    <3>2. a.through \in 1..Len(journal')
      BY <3>1, <2>2
    <3>3. SUFFICES ASSUME NEW i \in hot', i <= a.through
                   PROVE  journal'[i].ts < a.cutoff
      BY <3>2
    <3>4. i \in hot /\ journal'[i] = journal[i]
      BY <3>1, <3>3, <2>2
    <3>5. QED
      BY <3>1, <3>3, <3>4
  <2>5. QED
    BY <2>4 DEF Aged
<1>2. CASE UNCHANGED journal /\ hot' \in SUBSET hot
  BY <1>2 DEF Aged
<1>3. QED
  BY <1>1, <1>2

LEMMA AgedIdle == ASSUME NEW a, a.pc = "idle" PROVE Aged(a) /\ Aged(a)'
BY DEF Aged

(* Moving on within the same run keeps the job, cutoff and through id.     *)
LEMMA AgedGoto ==
  ASSUME NEW a \in ArchiverState, Aged(a), a.pc # "idle", NEW b \in ArchiverState,
         b.job = a.job, b.cutoff = a.cutoff, b.through = a.through,
         b.pc \in {"purge_check", "purge"} => a.job = "purge",
         b.pc = "delete" => a.job = "archive"
  PROVE  Aged(b)
BY DEF Aged

LEMMA InitLogInv == Init => LogInv
<1>1. Init => HotIsSuffix /\ HotIsLinked
  BY DEF Init, HotIsSuffix, HotIsLinked
<1>2. Init => RetentionIsAged
  <2>1. Idle.pc = "idle"
    BY DEF Idle
  <2>2. QED
    BY <2>1, AgedIdle DEF Init, RetentionIsAged
<1>3. QED
  BY <1>1, <1>2, InitTypeOK DEF LogInv

(* A deletion of a prefix leaves a linked suffix.                          *)
LEMMA DeleteKeepsLinks ==
  ASSUME TypeOK, HotIsSuffix, HotIsLinked, NEW t \in Nat,
         UNCHANGED journal, hot' = {i \in hot : i > t}
  PROVE  HotIsSuffix' /\ HotIsLinked'
<1>1. /\ Len(journal) \in Nat
      /\ hot \in SUBSET (1..Len(journal))
  BY LogTypes
<1>2. HotIsSuffix'
  BY <1>1 DEF HotIsSuffix
<1>3. HotIsLinked'
  BY <1>1 DEF HotIsLinked
<1>4. QED
  BY <1>2, <1>3

(* One archiver moves to state b, for which Aged already holds.            *)
LEMMA AgedUpdate ==
  ASSUME LogInv, NEW p \in Archivers, NEW b \in ArchiverState, Aged(b),
         arch' = [arch EXCEPT ![p] = b],
         \/ \E ts \in Nat : Insert(ts)
         \/ UNCHANGED journal /\ hot' \in SUBSET hot
  PROVE  RetentionIsAged'
<1>1. arch \in [Archivers -> ArchiverState]
  BY TypeParts DEF LogInv
<1>2. ASSUME NEW q \in Archivers
      PROVE  Aged(arch[q])'
  <2>1. PICK c \in ArchiverState : c = arch'[q] /\ Aged(c)
    BY <1>1 DEF LogInv, RetentionIsAged
  <2>2. Aged(c)'
    BY <2>1, AgedStable DEF LogInv
  <2>3. QED
    BY <2>1, <2>2 DEF Aged
<1>3. QED
  BY <1>2 DEF RetentionIsAged

LEMMA LogStep ==
  ASSUME LogInv, [Next]_vars
  PROVE  LogInv'
<1>. USE DEF fileVars
<1>0. /\ TypeOK /\ HotIsSuffix /\ HotIsLinked /\ RetentionIsAged
      /\ arch \in [Archivers -> ArchiverState]
      /\ TypeOK'
  BY TypeParts, TypeStep DEF LogInv
<1>a. ASSUME UNCHANGED <<journal, hot>>
      PROVE  HotIsSuffix' /\ HotIsLinked'
  BY <1>a, <1>0 DEF HotIsSuffix, HotIsLinked
<1>b. ASSUME NEW p \in Archivers, Finish(p),
             \/ \E ts \in Nat : Insert(ts)
             \/ UNCHANGED journal /\ hot' \in SUBSET hot
      PROVE  RetentionIsAged'
  <2>1. Idle \in ArchiverState /\ Aged(Idle)
    BY AgedIdle DEF Idle, ArchiverState, Steps
  <2>2. QED
    BY <1>b, <2>1, AgedUpdate DEF Finish
<1>c. ASSUME NEW p \in Archivers, NEW l \in Steps, Goto(p, l),
             arch[p].pc # "idle",
             l \in {"purge_check", "purge"} => arch[p].job = "purge",
             l = "delete" => arch[p].job = "archive",
             UNCHANGED journal /\ hot' \in SUBSET hot
      PROVE  RetentionIsAged'
  <2>. DEFINE b == [arch[p] EXCEPT !.pc = l]
  <2>1. arch[p] \in ArchiverState /\ Aged(arch[p])
    BY <1>0 DEF RetentionIsAged
  <2>2. /\ b \in ArchiverState /\ b.pc = l /\ b.job = arch[p].job
        /\ b.cutoff = arch[p].cutoff /\ b.through = arch[p].through
    BY <2>1, ArchiverTypes DEF ArchiverState
  <2>3. Aged(b)
    BY <1>c, <2>1, <2>2, AgedGoto
  <2>4. arch' = [arch EXCEPT ![p] = b]
    BY <1>c DEF Goto
  <2>5. QED
    BY <1>c, <2>2, <2>3, <2>4, AgedUpdate
<1>d. ASSUME NEW p \in Archivers, NEW b \in ArchiverState, Aged(b),
             arch' = [arch EXCEPT ![p] = b], UNCHANGED <<journal, hot>>
      PROVE  RetentionIsAged'
  BY <1>d, AgedUpdate
<1>1. ASSUME NEW ts \in 0..MaxTime, Record(ts) PROVE LogInv'
  <2>1. ts \in Nat /\ Insert(ts) /\ arch' = arch
    BY <1>1, BoundsAssumption DEF Record
  <2>2. HotIsSuffix' /\ HotIsLinked'
    BY <1>0, <2>1, InsertKeepsLinks
  <2>3. ASSUME NEW q \in Archivers PROVE Aged(arch[q])'
    <3>1. PICK c \in ArchiverState : c = arch[q] /\ Aged(c)
      BY <1>0 DEF RetentionIsAged
    <3>2. Aged(c)'
      BY <1>0, <2>1, <3>1, AgedStable
    <3>3. QED
      BY <2>1, <3>1, <3>2 DEF Aged
  <2>4. QED
    BY <1>0, <2>2, <2>3 DEF LogInv, RetentionIsAged
<1>2. ASSUME NEW p \in Archivers, NEW job \in Jobs, NEW c \in 1..(MaxTime + 1),
             StartRetention(p, job, c)
      PROVE  LogInv'
  <2>1. PICK t \in hot :
          /\ IsCutoffId(t, c)
          /\ arch' = [arch EXCEPT ![p] =
               [Idle EXCEPT !.pc = IF job = "purge" THEN "purge_check" ELSE "read",
                            !.job = job, !.cutoff = c, !.through = t]]
    BY <1>2 DEF StartRetention
  <2>. DEFINE b == [Idle EXCEPT !.pc = IF job = "purge" THEN "purge_check" ELSE "read",
                                !.job = job, !.cutoff = c, !.through = t]
  <2>2. c \in Nat /\ t \in Nat /\ job \in {"archive", "purge", "seal"}
    BY BoundsAssumption, JobsAssumption, LogTypes, <1>0
  <2>3. /\ b \in ArchiverState
        /\ b.pc = (IF job = "purge" THEN "purge_check" ELSE "read")
        /\ b.job = job /\ b.cutoff = c /\ b.through = t
    BY <2>2 DEF Idle, ArchiverState, Steps
  <2>4. t \in 1..Len(journal) /\ \A i \in hot : i <= t => journal[i].ts < c
    BY <1>0, <2>1, LogTypes DEF IsCutoffId, AgedPrefix
  <2>5. Aged(b)
    BY <2>3, <2>4 DEF Aged
  <2>6. UNCHANGED <<journal, hot>>
    BY <1>2 DEF StartRetention
  <2>7. QED
    BY <1>0, <1>a, <1>d, <2>1, <2>3, <2>5, <2>6 DEF LogInv
<1>3. ASSUME NEW p \in Archivers, NEW t \in 1..MaxRows, StartSeal(p, t) PROVE LogInv'
  <2>. DEFINE b == [Idle EXCEPT !.pc = "read", !.through = t]
  <2>1. t \in Nat
    BY BoundsAssumption
  <2>2. b \in ArchiverState /\ b.pc = "read" /\ b.job = "seal"
    BY <2>1 DEF Idle, ArchiverState, Steps
  <2>3. Aged(b)
    BY <2>2 DEF Aged
  <2>4. arch' = [arch EXCEPT ![p] = b] /\ UNCHANGED <<journal, hot>>
    BY <1>3 DEF StartSeal
  <2>5. QED
    BY <1>0, <1>a, <1>d, <2>2, <2>3, <2>4 DEF LogInv

<1>4. ASSUME NEW p \in Archivers, ReadRows(p) PROVE LogInv'
  <2>. DEFINE R == {i \in hot : i <= arch[p].through}
              b == [arch[p] EXCEPT !.pc = "number", !.rows = R]
  <2>1. UNCHANGED <<journal, hot>> /\ arch[p].pc = "read"
    BY <1>4 DEF ReadRows, At
  <2>2. arch[p] \in ArchiverState /\ Aged(arch[p]) /\ R \in SUBSET Nat
    BY <1>0, LogTypes DEF RetentionIsAged
  <2>3. /\ b \in ArchiverState /\ b.pc = "number" /\ b.job = arch[p].job
        /\ b.cutoff = arch[p].cutoff /\ b.through = arch[p].through
    BY <2>2, ArchiverTypes DEF ArchiverState
  <2>4. Aged(b)
    BY <2>1, <2>2, <2>3, AgedGoto
  <2>5. Finish(p) \/ arch' = [arch EXCEPT ![p] = b]
    BY <1>4 DEF ReadRows
  <2>6. RetentionIsAged'
    BY <1>b, <1>d, <2>1, <2>3, <2>4, <2>5
  <2>7. QED
    BY <1>0, <1>a, <2>1, <2>6 DEF LogInv
<1>5. ASSUME NEW p \in Archivers, ChooseSegment(p) PROVE LogInv'
  <2>1. UNCHANGED <<journal, hot>> /\ arch[p].pc = "number"
    BY <1>5 DEF ChooseSegment, At
  <2>2. PICK n \in Segments :
          Finish(p) \/ arch' = [arch EXCEPT ![p].pc = "write", ![p].seg = n]
    BY <1>5 DEF ChooseSegment
  <2>. DEFINE b == [arch[p] EXCEPT !.pc = "write", !.seg = n]
  <2>3. arch[p] \in ArchiverState /\ Aged(arch[p]) /\ n \in Nat
    BY <1>0, BoundsAssumption DEF RetentionIsAged, Segments
  <2>4. /\ b \in ArchiverState /\ b.pc = "write" /\ b.job = arch[p].job
        /\ b.cutoff = arch[p].cutoff /\ b.through = arch[p].through
    BY <2>3, ArchiverTypes DEF ArchiverState
  <2>5. Aged(b)
    BY <2>1, <2>3, <2>4, AgedGoto
  <2>6. RetentionIsAged'
    BY <1>b, <1>d, <2>1, <2>2, <2>4, <2>5
  <2>7. QED
    BY <1>0, <1>a, <2>1, <2>6 DEF LogInv
<1>6. ASSUME NEW p \in Archivers,
             \/ WriteTmp(p) \/ ReplaceJsonl(p) \/ ChmodJsonl(p)
             \/ OpenManifest(p) \/ WriteManifest(p) \/ ChmodManifest(p)
             \/ VerifySegment(p)
      PROVE  LogInv'
  <2>1. UNCHANGED <<journal, hot>> /\ arch[p].pc # "idle"
    BY <1>6 DEF WriteTmp, ReplaceJsonl, ChmodJsonl, OpenManifest, WriteManifest,
                ChmodManifest, VerifySegment, At
  <2>2. Finish(p) \/ \E l \in Steps \ {"purge_check", "purge", "delete"} : Goto(p, l)
    BY <1>6 DEF WriteTmp, ReplaceJsonl, ChmodJsonl, OpenManifest, WriteManifest,
                ChmodManifest, VerifySegment, Steps
  <2>3. RetentionIsAged'
    BY <1>b, <1>c, <2>1, <2>2
  <2>4. QED
    BY <1>0, <1>a, <2>1, <2>3 DEF LogInv
<1>7. ASSUME NEW p \in Archivers, MirrorSegment(p) PROVE LogInv'
  <2>1. UNCHANGED <<journal, hot>> /\ arch[p].pc # "idle"
    BY <1>7 DEF MirrorSegment, At
  <2>2. Finish(p) \/ (arch[p].job = "archive" /\ Goto(p, "delete"))
    BY <1>7 DEF MirrorSegment
  <2>3. RetentionIsAged'
    BY <1>b, <1>c, <2>1, <2>2 DEF Steps
  <2>4. QED
    BY <1>0, <1>a, <2>1, <2>3 DEF LogInv
<1>8. ASSUME NEW p \in Archivers, PurgeCheck(p) PROVE LogInv'
  <2>1. UNCHANGED <<journal, hot>> /\ arch[p].pc = "purge_check"
    BY <1>8 DEF PurgeCheck, At
  <2>2. arch[p].job = "purge"
    BY <1>0, <2>1 DEF RetentionIsAged, Aged
  <2>3. Finish(p) \/ Goto(p, "purge")
    BY <1>8 DEF PurgeCheck
  <2>4. RetentionIsAged'
    BY <1>b, <1>c, <2>1, <2>2, <2>3 DEF Steps
  <2>5. QED
    BY <1>0, <1>a, <2>1, <2>4 DEF LogInv
<1>9. ASSUME NEW p \in Archivers, DeleteThrough(p) \/ PurgeRows(p) PROVE LogInv'
  <2>1. /\ UNCHANGED journal /\ arch[p].pc # "idle"
        /\ hot' = {i \in hot : i > arch[p].through}
        /\ Goto(p, "record")
    BY <1>9 DEF DeleteThrough, PurgeRows, At
  <2>2. arch[p].through \in Nat
    BY <1>0, ArchiverTypes
  <2>3. HotIsSuffix' /\ HotIsLinked'
    BY <1>0, <2>1, <2>2, DeleteKeepsLinks
  <2>4. hot' \in SUBSET hot
    BY <2>1
  <2>5. RetentionIsAged'
    BY <1>c, <2>1, <2>4 DEF Steps
  <2>6. QED
    BY <1>0, <2>3, <2>5 DEF LogInv
<1>10. ASSUME NEW p \in Archivers, NEW ts \in 0..MaxTime, RecordRetention(p, ts)
       PROVE  LogInv'
  <2>1. ts \in Nat /\ Finish(p) /\ (Insert(ts) \/ UNCHANGED <<journal, hot>>)
    BY <1>10, BoundsAssumption DEF RecordRetention
  <2>2. HotIsSuffix' /\ HotIsLinked'
    BY <1>0, <1>a, <2>1, InsertKeepsLinks
  <2>3. RetentionIsAged'
    BY <1>b, <2>1
  <2>4. QED
    BY <1>0, <2>2, <2>3 DEF LogInv
<1>11. ASSUME NEW p \in Archivers, Crash(p) \/ WriteFails(p) PROVE LogInv'
  <2>1. UNCHANGED <<journal, hot>> /\ Finish(p)
    BY <1>11 DEF Crash, WriteFails
  <2>2. RetentionIsAged'
    BY <1>b, <2>1
  <2>3. QED
    BY <1>0, <1>a, <2>1, <2>2 DEF LogInv
<1>12. CASE UNCHANGED vars
  <2>1. RetentionIsAged'
    BY <1>12, <1>0 DEF vars, RetentionIsAged, Aged
  <2>2. QED
    BY <1>12, <1>0, <1>a, <2>1 DEF LogInv, vars
<1>13. QED
  BY <1>1, <1>2, <1>3, <1>4, <1>5, <1>6, <1>7, <1>8, <1>9, <1>10, <1>11, <1>12
     DEF Next, Proceed

-----------------------------------------------------------------------------
(* Theorems for any set of archivers.                                      *)

\* The log invariant holds throughout, whoever archives concurrently.
THEOREM LogInvariant == Spec => []LogInv
<1>1. LogInv /\ [Next]_vars => LogInv'
  BY LogStep
<1>2. QED
  BY InitLogInv, <1>1, PTL DEF Spec

\* The types of the table, the files and the archivers.
THEOREM TypeCorrect == Spec => []TypeOK
<1>1. LogInv => TypeOK
  BY DEF LogInv
<1>2. QED
  BY LogInvariant, <1>1, PTL

\* The hot table passes verify_chain in every state, whatever appends, prefix
\* deletes and crashes of any number of processes came before.
THEOREM HotChainHolds == Spec => []HotChain
<1>1. ASSUME LogInv PROVE HotChain
  <2>1. SUFFICES ASSUME NEW i \in hot, NEW j \in hot, i < j,
                        ~ \E k \in hot : i < k /\ k < j
                 PROVE  journal[j].prev = i
    BY DEF HotChain, Chained
  <2>2. i \in 1..Len(journal) /\ j \in 1..Len(journal) /\ Len(journal) \in Nat
    BY <1>1, LogTypes DEF LogInv
  <2>3. j - 1 \in i..Len(journal) /\ j - 1 \in Int /\ j - 1 < j
    BY <2>1, <2>2
  <2>4. j - 1 \in hot
    BY <1>1, <2>3 DEF LogInv, HotIsSuffix
  <2>5. j - 1 = i
    BY <2>1, <2>2, <2>3, <2>4
  <2>6. QED
    BY <1>1, <2>4, <2>5 DEF LogInv, HotIsLinked
<1>2. QED
  BY LogInvariant, <1>1, PTL

\* No retention run deletes a row that was fresh at its cutoff, even when rows
\* are recorded and other runs delete between its read and its delete.
THEOREM FreshRowsAreKept == Spec => FreshRowsStay
<1>. DEFINE KeptFresh == \A i \in hot \ hot' :
              \E p \in Archivers :
                /\ arch[p].pc \in {"delete", "purge"}
                /\ journal[i].ts < arch[p].cutoff
<1>1. ASSUME LogInv, [Next]_vars
      PROVE  [KeptFresh]_vars
  <2>1. SUFFICES ASSUME NEW i \in hot, i \notin hot'
                 PROVE  \E p \in Archivers :
                          /\ arch[p].pc \in {"delete", "purge"}
                          /\ journal[i].ts < arch[p].cutoff
    OBVIOUS
  <2>2. PICK p \in Archivers : DeleteThrough(p) \/ PurgeRows(p)
    BY <1>1, <2>1 DEF Next, Proceed, vars, Record, Insert, StartRetention, StartSeal,
       ReadRows, ChooseSegment, WriteTmp, ReplaceJsonl, ChmodJsonl, OpenManifest,
       WriteManifest, ChmodManifest, VerifySegment, MirrorSegment, PurgeCheck,
       RecordRetention, Crash, WriteFails
  <2>3. arch[p].pc \in {"delete", "purge"} /\ hot' = {k \in hot : k > arch[p].through}
    BY <2>2 DEF DeleteThrough, PurgeRows, At
  <2>4. i \in Nat /\ arch[p].through \in Nat /\ Aged(arch[p])
    <3>1. hot \in SUBSET (1..Len(journal)) /\ Len(journal) \in Nat
      BY <1>1, LogTypes DEF LogInv
    <3>2. arch[p] \in ArchiverState
      BY <1>1, TypeParts DEF LogInv
    <3>3. i \in Nat
      BY <3>1
    <3>4. arch[p].through \in Nat
      BY <3>2, ArchiverTypes
    <3>5. Aged(arch[p])
      BY <1>1 DEF LogInv, RetentionIsAged
    <3>6. QED
      BY <3>3, <3>4, <3>5
  <2>5. i <= arch[p].through
    BY <2>1, <2>3, <2>4
  <2>6. QED
    BY <2>3, <2>4, <2>5 DEF Aged
<1>2. QED
  BY LogInvariant, <1>1, PTL DEF Spec, FreshRowsStay

-----------------------------------------------------------------------------
(* Evidence, with one archiver at a time.                                  *)

NumberedSteps == {"write", "replace", "chmod", "open_manifest", "write_manifest",
                  "chmod_manifest", "verify", "mirror", "delete"}

RowsHeld(a) ==
  a.pc \in NumberedSteps \cup {"number"} =>
    a.through \in 1..Len(journal) /\ a.rows = {i \in hot : i <= a.through}

FilesHeld(a) ==
  /\ a.pc \in NumberedSteps => a.seg \in Segments
  /\ a.pc = "replace" => tmp[a.seg].rows = a.rows
  /\ a.pc \in NumberedSteps \ {"write", "replace"} => jsonl[a.seg].rows = a.rows
  /\ a.pc \in NumberedSteps \ {"write", "replace", "chmod"} =>
       jsonl[a.seg].mode = "readonly"

ManifestHeld(a) ==
  /\ a.pc \in {"write", "replace", "chmod", "open_manifest", "write_manifest"} =>
       a.seg \notin Listed
  /\ a.pc \in {"chmod_manifest", "verify", "mirror", "delete"} => a.seg \in Listed
  /\ a.pc = "purge" => AllowPurge /\ Listed = {}

ListedSealed ==
  \A n \in Listed :
    /\ jsonl[n].mode = "readonly"
    /\ jsonl[n].rows = manifest[n].rows
    /\ jsonl[n].rows \subseteq 1..Len(journal)
    /\ Chained(jsonl[n].rows)

Held(a) == RowsHeld(a) /\ FilesHeld(a) /\ ManifestHeld(a)

AllHeld == ListedSealed /\ \A p \in Archivers : Held(arch[p])

EvidenceInv == LogInv /\ AllHeld /\ NoEvidenceLost

-----------------------------------------------------------------------------
(* A hot prefix is chained.                                                *)
LEMMA PrefixChained ==
  ASSUME LogInv, NEW t \in Nat
  PROVE  Chained({i \in hot : i <= t})
<1>1. SUFFICES ASSUME NEW i \in hot, NEW j \in hot, i < j, j <= t,
                      ~ \E k \in {h \in hot : h <= t} : i < k /\ k < j
               PROVE  journal[j].prev = i
  BY DEF Chained
<1>2. i \in 1..Len(journal) /\ j \in 1..Len(journal) /\ Len(journal) \in Nat
  BY LogTypes DEF LogInv
<1>3. j - 1 \in i..Len(journal) /\ j - 1 \in Int /\ j - 1 < j /\ j - 1 <= t
  BY <1>1, <1>2
<1>4. j - 1 \in hot
  BY <1>3 DEF LogInv, HotIsSuffix
<1>5. j - 1 = i
  BY <1>1, <1>2, <1>3, <1>4
<1>6. QED
  BY <1>4, <1>5 DEF LogInv, HotIsLinked

(* Rows already issued are never rewritten, and an insert leaves the hot   *)
(* rows up to an issued id alone.                                          *)
LEMMA JournalGrows ==
  ASSUME LogInv, (\E ts \in Nat : Insert(ts)) \/ UNCHANGED <<journal, hot>>
  PROVE  /\ Len(journal) \in Nat /\ Len(journal') \in Nat
         /\ Len(journal) <= Len(journal')
         /\ \A i \in 1..Len(journal) : journal'[i] = journal[i]
         /\ \A t \in 1..Len(journal) : {i \in hot' : i <= t} = {i \in hot : i <= t}
<1>1. Len(journal) \in Nat
  BY LogTypes DEF LogInv
<1>2. CASE UNCHANGED <<journal, hot>>
  BY <1>1, <1>2
<1>3. CASE \E ts \in Nat : Insert(ts)
  <2>1. PICK ts \in Nat : Insert(ts)
    BY <1>3
  <2>2. /\ Len(journal') = Len(journal) + 1
        /\ \A i \in 1..Len(journal) : journal'[i] = journal[i]
        /\ hot' = hot \cup {Len(journal) + 1}
    BY <2>1, InsertFacts DEF LogInv
  <2>3. \A t \in 1..Len(journal) : {i \in hot' : i <= t} = {i \in hot : i <= t}
    BY <1>1, <2>2
  <2>4. QED
    BY <1>1, <2>2, <2>3
<1>4. QED
  BY <1>2, <1>3

LEMMA RowsStable ==
  ASSUME LogInv, (\E ts \in Nat : Insert(ts)) \/ UNCHANGED <<journal, hot>>,
         NEW a, RowsHeld(a)
  PROVE  RowsHeld(a)'
BY JournalGrows DEF RowsHeld

(* Sealed rows stay sealed while the segment files are left alone.         *)
LEMMA SealedStable ==
  ASSUME LogInv, ListedSealed,
         Len(journal) <= Len(journal'), Len(journal') \in Nat,
         \A i \in 1..Len(journal) : journal'[i] = journal[i],
         NEW n \in Listed, jsonl'[n] = jsonl[n], manifest'[n].rows = manifest[n].rows
  PROVE  /\ jsonl'[n].mode = "readonly"
         /\ jsonl'[n].rows = manifest'[n].rows
         /\ jsonl'[n].rows \subseteq 1..Len(journal')
         /\ Chained(jsonl[n].rows)'
<1>. DEFINE S == jsonl[n].rows
<1>1. /\ jsonl[n].mode = "readonly" /\ S = manifest[n].rows
      /\ S \subseteq 1..Len(journal) /\ Chained(S)
  BY DEF ListedSealed
<1>2. Len(journal) \in Nat
  BY LogTypes DEF LogInv
<1>3. S \subseteq 1..Len(journal')
  BY <1>1, <1>2
<1>4. \A i, j \in S :
        (i < j /\ ~ \E k \in S : i < k /\ k < j) => journal'[j].prev = i
  BY <1>1 DEF Chained
<1>5. jsonl'[n].rows = S
  OBVIOUS
<1>6. Chained(jsonl[n].rows)'
  BY <1>4, <1>5 DEF Chained
<1>7. QED
  BY <1>1, <1>3, <1>5, <1>6

-----------------------------------------------------------------------------
(* Steps that leave the segment files alone.                               *)

LEMMA ColdSame ==
  ASSUME Listed' = Listed, \A n \in Listed : jsonl'[n].rows = jsonl[n].rows
  PROVE  ColdRows' = ColdRows
<1>1. \A x : x \in ColdRows <=> \E n \in Listed : x \in jsonl[n].rows
  BY DEF ColdRows
<1>2. \A x : x \in ColdRows' <=> \E n \in Listed : x \in jsonl'[n].rows
  BY DEF ColdRows
<1>3. QED
  BY <1>1, <1>2

LEMMA QuietFiles ==
  ASSUME LogInv, ListedSealed, UNCHANGED fileVars,
         (\E ts \in Nat : Insert(ts)) \/ UNCHANGED <<journal, hot>>
  PROVE  ListedSealed' /\ Listed' = Listed /\ ColdRows' = ColdRows
<1>1. Listed' = Listed /\ \A n \in Listed : jsonl'[n] = jsonl[n] /\ manifest'[n] = manifest[n]
  BY DEF Listed, fileVars
<1>2. ASSUME NEW n \in Listed
      PROVE  /\ jsonl'[n].mode = "readonly"
             /\ jsonl'[n].rows = manifest'[n].rows
             /\ jsonl'[n].rows \subseteq 1..Len(journal')
             /\ Chained(jsonl[n].rows)'
  BY <1>1, SealedStable, JournalGrows
<1>3. ListedSealed'
  BY <1>1, <1>2 DEF ListedSealed
<1>4. QED
  BY <1>1, <1>3, ColdSame

LEMMA QuietHeld ==
  ASSUME LogInv, UNCHANGED fileVars,
         (\E ts \in Nat : Insert(ts)) \/ UNCHANGED <<journal, hot>>,
         NEW a, Held(a)
  PROVE  Held(a)'
<1>1. RowsHeld(a)'
  BY RowsStable DEF Held
<1>2. FilesHeld(a)' /\ ManifestHeld(a)'
  BY DEF Held, FilesHeld, ManifestHeld, Listed, fileVars
<1>3. QED
  BY <1>1, <1>2 DEF Held

LEMMA IdleHeld == Held(Idle) /\ Held(Idle)'
BY DEF Held, RowsHeld, FilesHeld, ManifestHeld, Idle, NumberedSteps

(* A quiet step of the one archiver needs Held of its new state only.      *)
LEMMA QuietStep ==
  ASSUME EvidenceInv, UNCHANGED fileVars,
         (\E ts \in Nat : Insert(ts)) \/ UNCHANGED <<journal, hot>>,
         NEW p, Archivers = {p}, NEW b, Held(b), arch'[p] = b
  PROVE  AllHeld' /\ ColdRows' = ColdRows
<1>1. ListedSealed' /\ ColdRows' = ColdRows
  BY QuietFiles DEF EvidenceInv, AllHeld
<1>2. Held(b)'
  BY QuietHeld DEF EvidenceInv
<1>3. Held(arch[p])'
  BY <1>2 DEF Held, RowsHeld, FilesHeld, ManifestHeld
<1>4. QED
  BY <1>1, <1>3 DEF AllHeld

LEMMA QuietActions ==
  ASSUME EvidenceInv, NEW p, Archivers = {p},
         \/ \E ts \in 0..MaxTime : Record(ts) \/ RecordRetention(p, ts)
         \/ \E job \in Jobs, c \in 1..(MaxTime + 1) : StartRetention(p, job, c)
         \/ \E t \in 1..MaxRows : StartSeal(p, t)
         \/ ReadRows(p) \/ ChooseSegment(p) \/ VerifySegment(p)
         \/ MirrorSegment(p) \/ PurgeCheck(p) \/ Crash(p)
         \/ UNCHANGED vars
  PROVE  /\ AllHeld' /\ ColdRows' = ColdRows /\ purged' = purged
         /\ (\E ts \in Nat : Insert(ts)) \/ UNCHANGED <<journal, hot>>
<1>. DEFINE Grows == (\E ts \in Nat : Insert(ts)) \/ UNCHANGED <<journal, hot>>
<1>0. /\ LogInv /\ ListedSealed /\ Held(arch[p]) /\ p \in Archivers
      /\ arch \in [Archivers -> ArchiverState] /\ arch[p] \in ArchiverState
  BY TypeParts DEF EvidenceInv, AllHeld, LogInv
<1>f. ASSUME Finish(p) PROVE arch'[p] = Idle
  BY <1>f, <1>0 DEF Finish
<1>1. ASSUME NEW ts \in 0..MaxTime, Record(ts) \/ RecordRetention(p, ts)
      PROVE  AllHeld' /\ ColdRows' = ColdRows /\ purged' = purged /\ Grows
  <2>1. ts \in Nat /\ UNCHANGED fileVars /\ purged' = purged
    BY <1>1, BoundsAssumption DEF Record, RecordRetention, fileVars
  <2>2. Grows
    BY <1>1, <2>1 DEF Record, RecordRetention
  <2>3. arch'[p] = arch[p] \/ arch'[p] = Idle
    BY <1>1, <1>f DEF Record, RecordRetention
  <2>4. QED
    BY <1>0, <2>1, <2>2, <2>3, IdleHeld, QuietStep
<1>2. ASSUME NEW job \in Jobs, NEW c \in 1..(MaxTime + 1), StartRetention(p, job, c)
      PROVE  AllHeld' /\ ColdRows' = ColdRows /\ purged' = purged /\ Grows
  <2>1. UNCHANGED <<journal, hot>> /\ UNCHANGED fileVars /\ purged' = purged
    BY <1>2 DEF StartRetention, fileVars
  <2>2. PICK t \in hot :
          arch' = [arch EXCEPT ![p] =
            [Idle EXCEPT !.pc = IF job = "purge" THEN "purge_check" ELSE "read",
                         !.job = job, !.cutoff = c, !.through = t]]
    BY <1>2 DEF StartRetention
  <2>3. arch'[p].pc \in {"purge_check", "read"}
    BY <1>0, <2>2 DEF Idle
  <2>4. Held(arch'[p])
    BY <2>3 DEF Held, RowsHeld, FilesHeld, ManifestHeld, NumberedSteps
  <2>5. QED
    BY <2>1, <2>4, QuietStep
<1>3. ASSUME NEW t \in 1..MaxRows, StartSeal(p, t)
      PROVE  AllHeld' /\ ColdRows' = ColdRows /\ purged' = purged /\ Grows
  <2>1. UNCHANGED <<journal, hot>> /\ UNCHANGED fileVars /\ purged' = purged
    BY <1>3 DEF StartSeal, fileVars
  <2>2. arch'[p].pc = "read"
    BY <1>0, <1>3 DEF StartSeal, Idle
  <2>3. Held(arch'[p])
    BY <2>2 DEF Held, RowsHeld, FilesHeld, ManifestHeld, NumberedSteps
  <2>4. QED
    BY <2>1, <2>3, QuietStep
<1>4. ASSUME ReadRows(p)
      PROVE  AllHeld' /\ ColdRows' = ColdRows /\ purged' = purged /\ Grows
  <2>. DEFINE R == {i \in hot : i <= arch[p].through}
              b == [arch[p] EXCEPT !.pc = "number", !.rows = R]
  <2>1. UNCHANGED <<journal, hot>> /\ UNCHANGED fileVars /\ purged' = purged
    BY <1>4 DEF ReadRows, fileVars
  <2>2. \/ Finish(p)
        \/ arch[p].through \in hot /\ arch' = [arch EXCEPT ![p] = b]
    BY <1>4 DEF ReadRows
  <2>3. b.pc = "number" /\ b.through = arch[p].through /\ b.rows = R
    BY <1>0 DEF ArchiverState
  <2>4. ASSUME arch[p].through \in hot PROVE Held(b)
    <3>1. arch[p].through \in 1..Len(journal)
      BY <2>4, <1>0, LogTypes DEF LogInv
    <3>2. RowsHeld(b)
      BY <2>3, <3>1 DEF RowsHeld
    <3>3. FilesHeld(b) /\ ManifestHeld(b)
      BY <2>3 DEF FilesHeld, ManifestHeld, NumberedSteps
    <3>4. QED
      BY <3>2, <3>3 DEF Held
  <2>5. Held(arch'[p])
    BY <1>0, <1>f, <2>2, <2>4, IdleHeld
  <2>6. QED
    BY <2>1, <2>5, QuietStep
<1>5. ASSUME ChooseSegment(p)
      PROVE  AllHeld' /\ ColdRows' = ColdRows /\ purged' = purged /\ Grows
  <2>1. UNCHANGED <<journal, hot>> /\ UNCHANGED fileVars /\ purged' = purged
        /\ arch[p].pc = "number"
    BY <1>5 DEF ChooseSegment, fileVars, At
  <2>2. PICK n \in Segments :
          \/ Finish(p)
          \/ /\ ~Exists(manifest[n])
             /\ arch' = [arch EXCEPT ![p].pc = "write", ![p].seg = n]
    BY <1>5 DEF ChooseSegment
  <2>. DEFINE b == [arch[p] EXCEPT !.pc = "write", !.seg = n]
  <2>3. b.pc = "write" /\ b.seg = n /\ b.through = arch[p].through /\ b.rows = arch[p].rows
    BY <1>0 DEF ArchiverState
  <2>4. ASSUME ~Exists(manifest[n]) PROVE Held(b)
    <3>1. RowsHeld(b)
      BY <1>0, <2>1, <2>3 DEF Held, RowsHeld
    <3>2. n \notin Listed
      BY <2>4 DEF Exists, Listed, Readable
    <3>3. FilesHeld(b) /\ ManifestHeld(b)
      BY <2>3, <3>2 DEF FilesHeld, ManifestHeld, NumberedSteps
    <3>4. QED
      BY <3>1, <3>3 DEF Held
  <2>5. Held(arch'[p])
    BY <1>0, <1>f, <2>2, <2>4, IdleHeld
  <2>6. QED
    BY <2>1, <2>5, QuietStep
<1>6. ASSUME VerifySegment(p) \/ MirrorSegment(p)
      PROVE  AllHeld' /\ ColdRows' = ColdRows /\ purged' = purged /\ Grows
  <2>1. /\ UNCHANGED <<journal, hot>> /\ UNCHANGED fileVars /\ purged' = purged
        /\ arch[p].pc \in {"verify", "mirror"}
    BY <1>6 DEF VerifySegment, MirrorSegment, fileVars, At
  <2>2. PICK l \in {"mirror", "delete"} : Finish(p) \/ Goto(p, l)
    BY <1>6 DEF VerifySegment, MirrorSegment
  <2>. DEFINE b == [arch[p] EXCEPT !.pc = l]
  <2>3. /\ b.pc = l /\ b.seg = arch[p].seg /\ b.through = arch[p].through
        /\ b.rows = arch[p].rows
    BY <1>0 DEF ArchiverState
  <2>4. Held(b)
    BY <1>0, <2>1, <2>3 DEF Held, RowsHeld, FilesHeld, ManifestHeld, NumberedSteps
  <2>5. Held(arch'[p])
    BY <1>0, <1>f, <2>2, <2>4, IdleHeld DEF Goto
  <2>6. QED
    BY <2>1, <2>5, QuietStep
<1>7. ASSUME PurgeCheck(p)
      PROVE  AllHeld' /\ ColdRows' = ColdRows /\ purged' = purged /\ Grows
  <2>1. UNCHANGED <<journal, hot>> /\ UNCHANGED fileVars /\ purged' = purged
    BY <1>7 DEF PurgeCheck, fileVars
  <2>2. Finish(p) \/ (AllowPurge /\ Listed = {} /\ Goto(p, "purge"))
    BY <1>7 DEF PurgeCheck
  <2>. DEFINE b == [arch[p] EXCEPT !.pc = "purge"]
  <2>3. b.pc = "purge"
    BY <1>0 DEF ArchiverState
  <2>4. ASSUME AllowPurge, Listed = {} PROVE Held(b)
    BY <2>3, <2>4 DEF Held, RowsHeld, FilesHeld, ManifestHeld, NumberedSteps
  <2>5. Held(arch'[p])
    BY <1>0, <1>f, <2>2, <2>4, IdleHeld DEF Goto
  <2>6. QED
    BY <2>1, <2>5, QuietStep
<1>8. ASSUME Crash(p) \/ UNCHANGED vars
      PROVE  AllHeld' /\ ColdRows' = ColdRows /\ purged' = purged /\ Grows
  <2>1. /\ UNCHANGED <<journal, hot>> /\ UNCHANGED fileVars /\ purged' = purged
        /\ Finish(p) \/ arch' = arch
    BY <1>8 DEF Crash, fileVars, vars
  <2>2. Held(arch'[p])
    BY <1>0, <1>f, <2>1, IdleHeld
  <2>3. QED
    BY <2>1, <2>2, QuietStep
<1>9. QED
  BY <1>1, <1>2, <1>3, <1>4, <1>5, <1>6, <1>7, <1>8

-----------------------------------------------------------------------------
(* Steps that change the segment files, one archiver p at segment n.       *)

(* A step of p that moves it to state b and touches segment n only, which  *)
(* is unlisted before and after.                                           *)
LEMMA UnlistedStep ==
  ASSUME EvidenceInv, NEW p, Archivers = {p}, UNCHANGED <<journal, hot>>,
         NEW n \in Segments, n \notin Listed, ~Readable(manifest'[n]),
         \A m \in Segments \ {n} : jsonl'[m] = jsonl[m] /\ manifest'[m] = manifest[m]
  PROVE  ListedSealed' /\ Listed' = Listed /\ ColdRows' = ColdRows
<1>1. Listed' = Listed
  BY DEF Listed
<1>2. \A m \in Listed : jsonl'[m] = jsonl[m] /\ manifest'[m] = manifest[m]
  BY DEF Listed
<1>3. LogInv /\ ListedSealed
  BY DEF EvidenceInv, AllHeld
<1>4. ASSUME NEW m \in Listed
      PROVE  /\ jsonl'[m].mode = "readonly"
             /\ jsonl'[m].rows = manifest'[m].rows
             /\ jsonl'[m].rows \subseteq 1..Len(journal')
             /\ Chained(jsonl[m].rows)'
  BY <1>2, <1>3, SealedStable, JournalGrows
<1>5. ListedSealed'
  BY <1>1, <1>4 DEF ListedSealed
<1>6. QED
  BY <1>1, <1>2, <1>5, ColdSame

LEMMA FileActions ==
  ASSUME EvidenceInv, NEW p, Archivers = {p},
         \/ WriteTmp(p) \/ ReplaceJsonl(p) \/ ChmodJsonl(p)
         \/ OpenManifest(p) \/ ChmodManifest(p) \/ WriteFails(p)
  PROVE  /\ AllHeld' /\ ColdRows' = ColdRows
         /\ UNCHANGED <<journal, hot, purged>>
<1>. DEFINE n == arch[p].seg
            Done == /\ AllHeld' /\ ColdRows' = ColdRows
                    /\ UNCHANGED <<journal, hot, purged>>
<1>0. /\ LogInv /\ ListedSealed /\ Held(arch[p]) /\ p \in Archivers
      /\ arch \in [Archivers -> ArchiverState] /\ arch[p] \in ArchiverState
      /\ tmp \in [Segments -> File]
      /\ jsonl \in [Segments -> File]
      /\ manifest \in [Segments -> File]
  BY TypeParts DEF EvidenceInv, AllHeld, LogInv, FileTypesOK
<1>a. RowsHeld(arch[p]) /\ FilesHeld(arch[p]) /\ ManifestHeld(arch[p])
  BY <1>0 DEF Held
<1>b. ASSUME ListedSealed', Held(arch[p])' PROVE AllHeld'
  BY <1>b DEF AllHeld
<1>c. ASSUME Finish(p) PROVE Held(arch[p])'
  <2>1. arch'[p] = Idle
    BY <1>c, <1>0 DEF Finish
  <2>2. QED
    BY <2>1 DEF Held, RowsHeld, FilesHeld, ManifestHeld, Idle, NumberedSteps
<1>d. ASSUME NEW l \in Steps, Goto(p, l)
      PROVE  /\ arch'[p].pc = l /\ arch'[p].seg = n
             /\ arch'[p].rows = arch[p].rows /\ arch'[p].through = arch[p].through
  BY <1>d, <1>0 DEF Goto, ArchiverState
<1>1. ASSUME WriteTmp(p) PROVE Done
  <2>1. /\ arch[p].pc = "write" /\ Goto(p, "replace")
        /\ tmp' = [tmp EXCEPT ![n] = [mode |-> "writable", rows |-> arch[p].rows]]
        /\ UNCHANGED <<journal, hot, jsonl, manifest, purged>>
    BY <1>1 DEF WriteTmp, At
  <2>2. n \in Segments /\ n \notin Listed
    BY <1>a, <2>1 DEF FilesHeld, ManifestHeld, NumberedSteps
  <2>3. ListedSealed' /\ Listed' = Listed /\ ColdRows' = ColdRows
    BY <2>1, <2>2, UnlistedStep DEF Listed
  <2>4. arch'[p].pc = "replace" /\ arch'[p].seg = n
        /\ arch'[p].rows = arch[p].rows /\ arch'[p].through = arch[p].through
    BY <1>d, <2>1 DEF Steps
  <2>5. tmp'[n].rows = arch[p].rows
    BY <1>0, <2>1, <2>2
  <2>6. RowsHeld(arch[p])'
    BY <1>a, <2>1, <2>4 DEF RowsHeld, NumberedSteps
  <2>7. FilesHeld(arch[p])' /\ ManifestHeld(arch[p])'
    BY <2>2, <2>3, <2>4, <2>5 DEF FilesHeld, ManifestHeld, NumberedSteps
  <2>8. QED
    BY <1>b, <2>1, <2>3, <2>6, <2>7 DEF Held
<1>2. ASSUME ReplaceJsonl(p) PROVE Done
  <2>1. /\ arch[p].pc = "replace" /\ UNCHANGED <<journal, hot, manifest, purged>>
    BY <1>2 DEF ReplaceJsonl, At
  <2>2. n \in Segments /\ n \notin Listed /\ tmp[n].rows = arch[p].rows
    BY <1>a, <2>1 DEF FilesHeld, ManifestHeld, NumberedSteps
  <2>3. CASE Exists(tmp[n])
    <3>1. /\ jsonl' = [jsonl EXCEPT ![n] = tmp[n]] /\ Goto(p, "chmod")
      BY <1>2, <2>3 DEF ReplaceJsonl
    <3>2. ListedSealed' /\ Listed' = Listed /\ ColdRows' = ColdRows
      BY <1>0, <2>1, <2>2, <3>1, UnlistedStep DEF Listed
    <3>3. arch'[p].pc = "chmod" /\ arch'[p].seg = n
          /\ arch'[p].rows = arch[p].rows /\ arch'[p].through = arch[p].through
      BY <1>d, <3>1 DEF Steps
    <3>4. jsonl'[n].rows = arch[p].rows
      BY <1>0, <2>2, <3>1
    <3>5. RowsHeld(arch[p])'
      BY <1>a, <2>1, <3>3 DEF RowsHeld, NumberedSteps
    <3>6. FilesHeld(arch[p])' /\ ManifestHeld(arch[p])'
      BY <2>2, <3>2, <3>3, <3>4 DEF FilesHeld, ManifestHeld, NumberedSteps
    <3>7. QED
      BY <1>b, <2>1, <3>2, <3>5, <3>6 DEF Held
  <2>4. CASE ~Exists(tmp[n])
    <3>1. Finish(p) /\ UNCHANGED jsonl
      BY <1>2, <2>4 DEF ReplaceJsonl
    <3>2. ListedSealed' /\ Listed' = Listed /\ ColdRows' = ColdRows
      BY <2>1, <2>2, <3>1, UnlistedStep DEF Listed
    <3>3. QED
      BY <1>b, <1>c, <2>1, <3>1, <3>2
  <2>5. QED
    BY <2>3, <2>4
<1>3. ASSUME ChmodJsonl(p) PROVE Done
  <2>1. /\ arch[p].pc = "chmod" /\ Goto(p, "open_manifest")
        /\ jsonl' = [jsonl EXCEPT ![n].mode = "readonly"]
        /\ UNCHANGED <<journal, hot, manifest, purged>>
    BY <1>3 DEF ChmodJsonl, At
  <2>2. n \in Segments /\ n \notin Listed /\ jsonl[n].rows = arch[p].rows
    BY <1>a, <2>1 DEF FilesHeld, ManifestHeld, NumberedSteps
  <2>3. ListedSealed' /\ Listed' = Listed /\ ColdRows' = ColdRows
    BY <1>0, <2>1, <2>2, UnlistedStep DEF Listed
  <2>4. arch'[p].pc = "open_manifest" /\ arch'[p].seg = n
        /\ arch'[p].rows = arch[p].rows /\ arch'[p].through = arch[p].through
    BY <1>d, <2>1 DEF Steps
  <2>5. jsonl'[n].rows = arch[p].rows /\ jsonl'[n].mode = "readonly"
    BY <1>0, <2>1, <2>2 DEF File
  <2>6. RowsHeld(arch[p])'
    BY <1>a, <2>1, <2>4 DEF RowsHeld, NumberedSteps
  <2>7. FilesHeld(arch[p])' /\ ManifestHeld(arch[p])'
    BY <2>2, <2>3, <2>4, <2>5 DEF FilesHeld, ManifestHeld, NumberedSteps
  <2>8. QED
    BY <1>b, <2>1, <2>3, <2>6, <2>7 DEF Held

<1>4. ASSUME OpenManifest(p) PROVE Done
  <2>1. arch[p].pc = "open_manifest" /\ UNCHANGED <<journal, hot, jsonl, purged>>
    BY <1>4 DEF OpenManifest, At
  <2>2. /\ n \in Segments /\ n \notin Listed
        /\ jsonl[n].rows = arch[p].rows /\ jsonl[n].mode = "readonly"
    BY <1>a, <2>1 DEF FilesHeld, ManifestHeld, NumberedSteps
  <2>3. /\ manifest' = [manifest EXCEPT ![n] = [mode |-> "torn", rows |-> {}]]
        /\ Goto(p, "write_manifest")
    BY <1>4, <2>2 DEF OpenManifest, Listed, Readable
  <2>4. manifest'[n].mode = "torn" /\ \A m \in Segments \ {n} : manifest'[m] = manifest[m]
    BY <1>0, <2>2, <2>3
  <2>5. ListedSealed' /\ Listed' = Listed /\ ColdRows' = ColdRows
    BY <2>1, <2>2, <2>4, UnlistedStep DEF Readable
  <2>6. arch'[p].pc = "write_manifest" /\ arch'[p].seg = n
        /\ arch'[p].rows = arch[p].rows /\ arch'[p].through = arch[p].through
    BY <1>d, <2>3 DEF Steps
  <2>7. RowsHeld(arch[p])'
    BY <1>a, <2>1, <2>6 DEF RowsHeld, NumberedSteps
  <2>8. FilesHeld(arch[p])' /\ ManifestHeld(arch[p])'
    BY <2>1, <2>2, <2>5, <2>6 DEF FilesHeld, ManifestHeld, NumberedSteps
  <2>9. QED
    BY <1>b, <2>1, <2>5, <2>7, <2>8 DEF Held
<1>5. ASSUME ChmodManifest(p) PROVE Done
  <2>1. /\ arch[p].pc = "chmod_manifest" /\ Goto(p, "verify")
        /\ manifest' = [manifest EXCEPT ![n].mode = "readonly"]
        /\ UNCHANGED <<journal, hot, tmp, jsonl, purged>>
    BY <1>5 DEF ChmodManifest, At
  <2>2. /\ n \in Segments /\ n \in Listed
        /\ jsonl[n].rows = arch[p].rows /\ jsonl[n].mode = "readonly"
    BY <1>a, <2>1 DEF FilesHeld, ManifestHeld, NumberedSteps
  <2>3. /\ manifest'[n].mode = "readonly"
        /\ \A m \in Segments : manifest'[m].rows = manifest[m].rows
        /\ \A m \in Segments \ {n} : manifest'[m] = manifest[m]
    BY <1>0, <2>1, <2>2 DEF File
  <2>4. Listed' = Listed
    BY <2>2, <2>3 DEF Listed, Readable
  <2>5. ASSUME NEW m \in Listed
        PROVE  /\ jsonl'[m].mode = "readonly"
               /\ jsonl'[m].rows = manifest'[m].rows
               /\ jsonl'[m].rows \subseteq 1..Len(journal')
               /\ Chained(jsonl[m].rows)'
    <3>1. manifest'[m].rows = manifest[m].rows
      BY <2>3 DEF Listed
    <3>2. QED
      BY <1>0, <2>1, <3>1, SealedStable, JournalGrows
  <2>6. ListedSealed' /\ ColdRows' = ColdRows
    BY <2>1, <2>4, <2>5, ColdSame DEF ListedSealed
  <2>7. arch'[p].pc = "verify" /\ arch'[p].seg = n
        /\ arch'[p].rows = arch[p].rows /\ arch'[p].through = arch[p].through
    BY <1>d, <2>1 DEF Steps
  <2>8. RowsHeld(arch[p])'
    BY <1>a, <2>1, <2>7 DEF RowsHeld, NumberedSteps
  <2>9. FilesHeld(arch[p])' /\ ManifestHeld(arch[p])'
    BY <2>1, <2>2, <2>4, <2>7 DEF FilesHeld, ManifestHeld, NumberedSteps
  <2>10. QED
    BY <1>b, <2>1, <2>6, <2>8, <2>9 DEF Held
<1>6. ASSUME WriteFails(p) PROVE Done
  <2>1. /\ arch[p].pc \in {"write", "replace", "chmod"} /\ Finish(p)
        /\ UNCHANGED <<journal, hot, jsonl, manifest, purged>>
    BY <1>6 DEF WriteFails
  <2>2. n \in Segments /\ n \notin Listed
    BY <1>a, <2>1 DEF FilesHeld, ManifestHeld, NumberedSteps
  <2>3. ListedSealed' /\ Listed' = Listed /\ ColdRows' = ColdRows
    BY <2>1, <2>2, UnlistedStep DEF Listed
  <2>4. QED
    BY <1>b, <1>c, <2>1, <2>3
<1>7. QED
  BY <1>1, <1>2, <1>3, <1>4, <1>5, <1>6

(* The step that makes a segment listed: its rows, all hot, become cold.   *)
LEMMA WriteManifestStep ==
  ASSUME EvidenceInv, NEW p, Archivers = {p}, WriteManifest(p)
  PROVE  /\ AllHeld' /\ UNCHANGED <<journal, hot, purged>>
         /\ arch[p].rows \in SUBSET hot
         /\ ColdRows' = ColdRows \cup arch[p].rows
<1>. DEFINE n == arch[p].seg
            R == arch[p].rows
<1>0. /\ LogInv /\ ListedSealed /\ Held(arch[p]) /\ p \in Archivers
      /\ arch \in [Archivers -> ArchiverState] /\ arch[p] \in ArchiverState
      /\ manifest \in [Segments -> File]
  BY TypeParts DEF EvidenceInv, AllHeld, LogInv, FileTypesOK
<1>1. /\ arch[p].pc = "write_manifest" /\ Goto(p, "chmod_manifest")
      /\ manifest' = [manifest EXCEPT ![n] = [mode |-> "writable", rows |-> R]]
      /\ UNCHANGED <<journal, hot, tmp, jsonl, purged>>
  BY DEF WriteManifest, At
<1>2. /\ n \in Segments /\ n \notin Listed
      /\ jsonl[n].rows = R /\ jsonl[n].mode = "readonly"
      /\ arch[p].through \in 1..Len(journal)
      /\ R = {i \in hot : i <= arch[p].through}
  BY <1>0, <1>1 DEF Held, RowsHeld, FilesHeld, ManifestHeld, NumberedSteps
<1>3. /\ manifest'[n] = [mode |-> "writable", rows |-> R]
      /\ \A m \in Segments \ {n} : manifest'[m] = manifest[m]
  BY <1>0, <1>1, <1>2
<1>4. Listed' = Listed \cup {n}
  BY <1>2, <1>3 DEF Listed, Readable
<1>5. R \in SUBSET hot /\ R \subseteq 1..Len(journal)
  BY <1>0, <1>2, LogTypes DEF LogInv
<1>6. ColdRows' = ColdRows \cup R
  <2>1. \A x : x \in ColdRows <=> \E m \in Listed : x \in jsonl[m].rows
    BY DEF ColdRows
  <2>2. \A x : x \in ColdRows' <=> \E m \in Listed' : x \in jsonl'[m].rows
    BY DEF ColdRows
  <2>3. QED
    BY <1>1, <1>2, <1>4, <2>1, <2>2
<1>7. Chained(R)
  <2>1. arch[p].through \in Nat
    BY <1>0, ArchiverTypes
  <2>2. QED
    BY <1>0, <1>2, <2>1, PrefixChained
<1>8. ASSUME NEW m \in Listed'
      PROVE  /\ jsonl'[m].mode = "readonly"
             /\ jsonl'[m].rows = manifest'[m].rows
             /\ jsonl'[m].rows \subseteq 1..Len(journal')
             /\ Chained(jsonl[m].rows)'
  <2>1. CASE m = n
    <3>1. journal' = journal /\ jsonl'[m] = jsonl[n] /\ manifest'[m].rows = R
      BY <1>1, <1>3, <2>1
    <3>2. Chained(jsonl[m].rows)'
      BY <1>2, <1>7, <3>1 DEF Chained
    <3>3. QED
      BY <1>2, <1>5, <3>1, <3>2
  <2>2. CASE m \in Listed
    <3>1. manifest'[m] = manifest[m]
      BY <1>2, <1>3, <2>2 DEF Listed
    <3>2. QED
      BY <1>0, <1>1, <2>2, <3>1, SealedStable, JournalGrows
  <2>3. QED
    BY <1>4, <1>8, <2>1, <2>2
<1>9. ListedSealed'
  BY <1>8 DEF ListedSealed
<1>10. arch'[p].pc = "chmod_manifest" /\ arch'[p].seg = n
       /\ arch'[p].rows = R /\ arch'[p].through = arch[p].through
  BY <1>0, <1>1 DEF Goto, ArchiverState
<1>11. RowsHeld(arch[p])' /\ FilesHeld(arch[p])' /\ ManifestHeld(arch[p])'
  BY <1>1, <1>2, <1>4, <1>10 DEF RowsHeld, FilesHeld, ManifestHeld, NumberedSteps
<1>12. QED
  BY <1>1, <1>5, <1>6, <1>9, <1>11 DEF AllHeld, Held

-----------------------------------------------------------------------------
(* Steps that delete rows from the hot table.                              *)
LEMMA DeleteActions ==
  ASSUME EvidenceInv, NEW p, Archivers = {p}, DeleteThrough(p) \/ PurgeRows(p)
  PROVE  /\ AllHeld' /\ ColdRows' = ColdRows /\ UNCHANGED journal
         /\ arch[p].through \in 1..Len(journal)
         /\ hot' = hot \ (1..arch[p].through)
         /\ \/ purged' = purged /\ hot \cap (1..arch[p].through) \subseteq ColdRows
            \/ /\ AllowPurge /\ ColdRows = {}
               /\ purged' = purged \cup (hot \cap (1..arch[p].through))
<1>. DEFINE t == arch[p].through
<1>0. /\ LogInv /\ ListedSealed /\ Held(arch[p]) /\ p \in Archivers
      /\ arch \in [Archivers -> ArchiverState] /\ Aged(arch[p])
      /\ arch[p] \in ArchiverState
  BY TypeParts DEF EvidenceInv, AllHeld, LogInv, RetentionIsAged
<1>1. /\ arch[p].pc \in {"delete", "purge"} /\ Goto(p, "record")
      /\ hot' = {i \in hot : i > t}
      /\ UNCHANGED <<journal, fileVars>>
  BY DEF DeleteThrough, PurgeRows, At
<1>2. t \in 1..Len(journal)
  BY <1>0, <1>1 DEF Aged
<1>3. hot \in SUBSET (1..Len(journal)) /\ Len(journal) \in Nat
  BY <1>0, LogTypes DEF LogInv
<1>4. hot' = hot \ (1..t) /\ {i \in hot : i <= t} = hot \cap (1..t)
  <2>1. \A i \in hot : i \in 1..t <=> i <= t
    BY <1>2, <1>3
  <2>2. \A i \in hot : i > t <=> ~(i <= t)
    BY <1>2, <1>3
  <2>3. QED
    BY <1>1, <2>1, <2>2
<1>5. Listed' = Listed /\ ColdRows' = ColdRows
  BY <1>1 DEF Listed, ColdRows, fileVars
<1>6. ListedSealed'
  BY <1>0, <1>1, <1>5 DEF ListedSealed, Chained, fileVars
<1>7. arch'[p].pc = "record"
  BY <1>0, <1>1 DEF Goto, ArchiverState
<1>8. Held(arch[p])'
  BY <1>7 DEF Held, RowsHeld, FilesHeld, ManifestHeld, NumberedSteps
<1>9. CASE DeleteThrough(p)
  <2>1. arch[p].pc = "delete" /\ purged' = purged
    BY <1>9 DEF DeleteThrough, At
  <2>2. /\ arch[p].rows = {i \in hot : i <= t}
        /\ arch[p].seg \in Listed /\ jsonl[arch[p].seg].rows = arch[p].rows
    BY <1>0, <2>1 DEF Held, RowsHeld, FilesHeld, ManifestHeld, NumberedSteps
  <2>3. hot \cap (1..t) \subseteq ColdRows
    BY <1>4, <2>2 DEF ColdRows
  <2>4. QED
    BY <1>1, <1>2, <1>4, <1>5, <1>6, <1>8, <2>1, <2>3 DEF AllHeld
<1>10. CASE PurgeRows(p)
  <2>1. arch[p].pc = "purge" /\ purged' = purged \cup {i \in hot : i <= t}
    BY <1>10 DEF PurgeRows, At
  <2>2. AllowPurge /\ Listed = {}
    BY <1>0, <2>1 DEF Held, ManifestHeld
  <2>3. ColdRows = {}
    BY <2>2 DEF ColdRows
  <2>4. QED
    BY <1>1, <1>2, <1>4, <1>5, <1>6, <1>8, <2>1, <2>2, <2>3 DEF AllHeld
<1>11. QED
  BY <1>9, <1>10

-----------------------------------------------------------------------------
(* Every step is one of the abstract trail, and evidence only moves.       *)

LEMMA InitEvidenceInv == Init => EvidenceInv /\ Evidence!Init
<1>. SUFFICES ASSUME Init PROVE EvidenceInv /\ Evidence!Init
  OBVIOUS
<1>1. LogInv
  BY InitLogInv
<1>2. Listed = {}
  BY DEF Init, Listed, Readable, Absent
<1>3. ColdRows = {}
  BY <1>2 DEF ColdRows
<1>4. AllHeld
  BY <1>2, IdleHeld DEF AllHeld, ListedSealed, Init
<1>5. Len(journal) = 0 /\ hot = {}
  BY DEF Init
<1>6. NoEvidenceLost
  BY <1>5 DEF NoEvidenceLost
<1>7. QED
  BY <1>1, <1>3, <1>4, <1>5, <1>6 DEF EvidenceInv, Evidence!Init

LEMMA EvidenceStep ==
  ASSUME OneArchiver, EvidenceInv, [Next]_vars
  PROVE  EvidenceInv' /\ [Evidence!Next]_(Evidence!trailVars)
<1>0. PICK p : Archivers = {p}
  BY DEF OneArchiver
<1>1. LogInv /\ LogInv' /\ NoEvidenceLost /\ Len(journal) \in Nat
  BY LogStep, LogTypes DEF EvidenceInv, LogInv
<1>2. CASE \/ \E ts \in 0..MaxTime : Record(ts) \/ RecordRetention(p, ts)
           \/ \E job \in Jobs, c \in 1..(MaxTime + 1) : StartRetention(p, job, c)
           \/ \E t \in 1..MaxRows : StartSeal(p, t)
           \/ ReadRows(p) \/ ChooseSegment(p) \/ VerifySegment(p)
           \/ MirrorSegment(p) \/ PurgeCheck(p) \/ Crash(p)
           \/ UNCHANGED vars
  <2>1. /\ AllHeld' /\ ColdRows' = ColdRows /\ purged' = purged
        /\ (\E ts \in Nat : Insert(ts)) \/ UNCHANGED <<journal, hot>>
    BY <1>0, <1>2, QuietActions
  <2>2. CASE UNCHANGED <<journal, hot>>
    <3>1. NoEvidenceLost'
      BY <1>1, <2>1, <2>2 DEF NoEvidenceLost
    <3>2. QED
      BY <1>1, <2>1, <2>2, <3>1 DEF EvidenceInv, Evidence!trailVars
  <2>3. CASE \E ts \in Nat : Insert(ts)
    <3>1. Len(journal') = Len(journal) + 1 /\ hot' = hot \cup {Len(journal) + 1}
      BY <1>1, <2>3, InsertFacts DEF LogInv
    <3>2. NoEvidenceLost'
      BY <1>1, <2>1, <3>1 DEF NoEvidenceLost
    <3>3. Evidence!Append
      BY <2>1, <3>1 DEF Evidence!Append
    <3>4. QED
      BY <1>1, <2>1, <3>2, <3>3 DEF EvidenceInv, Evidence!Next
  <2>4. QED
    BY <2>1, <2>2, <2>3
<1>3. CASE \/ WriteTmp(p) \/ ReplaceJsonl(p) \/ ChmodJsonl(p)
           \/ OpenManifest(p) \/ ChmodManifest(p) \/ WriteFails(p)
  <2>1. AllHeld' /\ ColdRows' = ColdRows /\ UNCHANGED <<journal, hot, purged>>
    BY <1>0, <1>3, FileActions
  <2>2. NoEvidenceLost'
    BY <1>1, <2>1 DEF NoEvidenceLost
  <2>3. QED
    BY <1>1, <2>1, <2>2 DEF EvidenceInv, Evidence!trailVars
<1>4. CASE WriteManifest(p)
  <2>1. /\ AllHeld' /\ UNCHANGED <<journal, hot, purged>>
        /\ arch[p].rows \in SUBSET hot
        /\ ColdRows' = ColdRows \cup arch[p].rows
    BY <1>0, <1>4, WriteManifestStep
  <2>2. NoEvidenceLost'
    BY <1>1, <2>1 DEF NoEvidenceLost
  <2>3. Evidence!Seal
    BY <2>1 DEF Evidence!Seal
  <2>4. QED
    BY <1>1, <2>1, <2>2, <2>3 DEF EvidenceInv, Evidence!Next
<1>5. CASE DeleteThrough(p) \/ PurgeRows(p)
  <2>. DEFINE t == arch[p].through
  <2>1. /\ AllHeld' /\ ColdRows' = ColdRows /\ UNCHANGED journal
        /\ t \in 1..Len(journal)
        /\ hot' = hot \ (1..t)
        /\ \/ purged' = purged /\ hot \cap (1..t) \subseteq ColdRows
           \/ /\ AllowPurge /\ ColdRows = {}
              /\ purged' = purged \cup (hot \cap (1..t))
    BY <1>0, <1>5, DeleteActions
  <2>2. NoEvidenceLost'
    BY <1>1, <2>1 DEF NoEvidenceLost
  <2>3. Evidence!Release \/ Evidence!Purge
    BY <2>1 DEF Evidence!Release, Evidence!Purge
  <2>4. QED
    BY <1>1, <2>1, <2>2, <2>3 DEF EvidenceInv, Evidence!Next
<1>6. QED
  BY <1>0, <1>2, <1>3, <1>4, <1>5 DEF Next, Proceed

-----------------------------------------------------------------------------
(* Theorems for one archiver at a time.                                    *)

\* The evidence invariant holds throughout.
THEOREM EvidenceInvariant ==
  ASSUME OneArchiver
  PROVE  Spec => []EvidenceInv
<1>1. EvidenceInv /\ [Next]_vars => EvidenceInv'
  BY EvidenceStep
<1>2. Init => EvidenceInv
  BY InitEvidenceInv
<1>3. QED
  BY <1>1, <1>2, PTL DEF Spec

\* A row that was recorded is in the hot table or in a listed segment until a
\* purge deletes it, wherever crashes and writers fall between seal and delete.
THEOREM EvidenceIsKept ==
  ASSUME OneArchiver
  PROVE  Spec => []NoEvidenceLost
<1>1. EvidenceInv => NoEvidenceLost
  BY DEF EvidenceInv
<1>2. QED
  BY EvidenceInvariant, <1>1, PTL

\* A segment whose manifest is closed verifies in every later state.
THEOREM SealedSegmentsVerify ==
  ASSUME OneArchiver
  PROVE  Spec => []SegmentsIntact
<1>1. EvidenceInv => SegmentsIntact
  BY DEF EvidenceInv, AllHeld, ListedSealed, SegmentsIntact, SegmentVerifies,
         Listed, Readable
<1>2. QED
  BY EvidenceInvariant, <1>1, PTL

\* The archive implements the trail: rows become cold before they leave the
\* hot table, cold rows stay, a purge happens only while nothing is sealed.
THEOREM ArchiveImplementsTrail ==
  ASSUME OneArchiver
  PROVE  Spec => ImplementsEvidenceTrail
<1>1. Init => Evidence!Init
  BY InitEvidenceInv
<1>2. EvidenceInv /\ [Next]_vars => [Evidence!Next]_(Evidence!trailVars)
  BY EvidenceStep
<1>3. QED
  BY EvidenceInvariant, <1>1, <1>2, PTL
     DEF Spec, ImplementsEvidenceTrail, Evidence!Spec
=============================================================================
