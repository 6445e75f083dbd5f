---------------------------- MODULE AuditArchive ----------------------------
(***************************************************************************)
(* The tamper-evident decision log and its cold archive:                   *)
(*   kernel/decision_log.py       rows in SQLite, each chained to the last *)
(*   adapters/audit/worm_store.py sealed JSONL segments with manifests     *)
(*   adapters/audit/retention.py  archive (seal then prefix-delete), purge *)
(*                                                                         *)
(* Writers append rows at any moment.  An archiver is a process running    *)
(* apply_retention or an operator's `seal`; there can be several (cron,    *)
(* CLI, script).  Each step below is one SQLite transaction or one system  *)
(* call of an archiver, so that writers, other archivers and crashes       *)
(* interleave wherever the code lets them.                                 *)
(*                                                                         *)
(* Data abstraction: a row is its AUTOINCREMENT id; entry_hash is          *)
(* collision free, so a prev_hash is the id of the row it was taken from   *)
(* (Genesis for GENESIS_HASH); a file is its mode and the rows it holds;   *)
(* first_id, last_id, row_count and tip_hash of a manifest are the row set *)
(* they were computed from.                                                *)
(***************************************************************************)
EXTENDS Integers, Sequences

CONSTANTS
  Archivers,     \* processes that run apply_retention or a manual seal
  Jobs,          \* subset of {"archive", "purge", "seal"}: what they are run for
  AllowPurge,    \* audit_retention.allow_purge
  RunsAsRoot,    \* root may open a 0444 file for writing
  MaxTime,       \* bound: timestamps are 0..MaxTime
  MaxRows,       \* bound: rows ever recorded
  MaxSegments,   \* bound: segment numbers are 1..MaxSegments
  MaxFaults      \* bound: crashes, I/O errors and strict mirror failures

ASSUME JobsAssumption == Jobs \subseteq {"archive", "purge", "seal"}
ASSUME FlagsAssumption == AllowPurge \in BOOLEAN /\ RunsAsRoot \in BOOLEAN
ASSUME BoundsAssumption ==
  MaxTime \in Nat /\ MaxRows \in Nat /\ MaxSegments \in Nat /\ MaxFaults \in Nat

VARIABLES
  journal,       \* every row ever inserted, at its id: [ts, prev]
  hot,           \* ids of the rows now in table decisions
  tmp,           \* segment number -> NNNNNN.jsonl.tmp
  jsonl,         \* segment number -> NNNNNN.jsonl
  manifest,      \* segment number -> NNNNNN.manifest.json
  arch,          \* archiver -> its program counter and local variables
  purged,        \* history: ids deleted by action "purge"
  faults         \* faults so far

vars == <<journal, hot, tmp, jsonl, manifest, arch, purged, faults>>

Genesis == 0
Segments == 1..MaxSegments
Modes == {"absent", "torn", "writable", "readonly"}
File == [mode : Modes, rows : SUBSET Nat]
Absent == [mode |-> "absent", rows |-> {}]

Steps == {"idle", "read", "number", "write", "replace", "chmod",
          "open_manifest", "write_manifest", "chmod_manifest", "verify",
          "mirror", "delete", "purge_check", "purge", "record"}

Idle == [pc |-> "idle", job |-> "seal", cutoff |-> 0, through |-> 0,
         rows |-> {}, seg |-> 0]

ArchiverState == [pc : Steps, job : {"archive", "purge", "seal"},
                  cutoff : Nat, through : Nat, rows : SUBSET Nat, seg : Nat]

TypeOK ==
  /\ journal \in Seq([ts : Nat, prev : Nat])
  /\ hot \in SUBSET (1..Len(journal))
  /\ tmp \in [Segments -> File]
  /\ jsonl \in [Segments -> File]
  /\ manifest \in [Segments -> File]
  /\ arch \in [Archivers -> ArchiverState]
  /\ purged \in SUBSET Nat
  /\ faults \in Nat

Exists(f) == f.mode # "absent"
Readable(f) == f.mode \in {"writable", "readonly"}   \* a manifest that parses

\* A slip: the last row looked up without DESC: the oldest row's hash.
SlipOldestTip ==
  IF hot = {} THEN Genesis ELSE CHOOSE m \in hot : \A i \in hot : m <= i

\* The hash the next row is chained to: the last hot row's, or GENESIS.
Tip == IF hot = {} THEN Genesis ELSE CHOOSE m \in hot : \A i \in hot : i <= m

Goto(p, label) == arch' = [arch EXCEPT ![p].pc = label]
Finish(p) == arch' = [arch EXCEPT ![p] = Idle]
At(p, label) == arch[p].pc = label
fileVars == <<tmp, jsonl, manifest>>

-----------------------------------------------------------------------------
(* Slips a maintainer could make in the definitions that follow; no action  *)
(* uses them.  PROJECT.json pairs each with the property that catches it.   *)

\* retention_cutoff_id without the `else: break`.
SlipAgedAnywhere(c) == {i \in hot : journal[i].ts < c}

\* next_segment_number without the + 1.
SlipLastSegment(n) ==
  /\ n \in Nat \ {0}
  /\ \A m \in Segments : Readable(manifest[m]) => m <= n
  /\ n = 1 \/ Readable(manifest[n])

\* The row is counted from zero.
SlipInsert(ts) ==
  /\ journal' = Append(journal, [ts |-> ts, prev |-> Tip])
  /\ hot' = hot \cup {Len(journal)}

\* delete_through one row too far.
SlipDeleteOneMore(p) ==
  /\ At(p, "delete")
  /\ hot' = {i \in hot : i > arch[p].through + 1}
  /\ Goto(p, "record")
  /\ UNCHANGED <<journal, fileVars, purged, faults>>

\* The jsonl file is never made read-only.
SlipNoChmod(p) ==
  /\ At(p, "chmod")
  /\ Goto(p, "open_manifest")
  /\ UNCHANGED <<journal, hot, fileVars, purged, faults>>

\* purge without the look at the sealed segments.
SlipPurgeUnchecked(p) ==
  /\ At(p, "purge_check")
  /\ IF AllowPurge THEN Goto(p, "purge") ELSE Finish(p)
  /\ UNCHANGED <<journal, hot, fileVars, purged, faults>>

-----------------------------------------------------------------------------
(* Reads of the hot log and of the segment directory.                      *)

\* Within S, taken in id order, every row but the first carries its
\* predecessor's hash: the loop of verify_chain and of verify_segment.
Chained(S) ==
  \A i, j \in S :
    (i < j /\ ~ \E k \in S : i < k /\ k < j) => journal[j].prev = i

\* The oldest contiguous prefix of hot rows older than the cutoff.
AgedPrefix(c) ==
  {i \in hot : \A j \in hot : j <= i => journal[j].ts < c}

\* t is retention_cutoff_id(c).
IsCutoffId(t, c) == t \in AgedPrefix(c) /\ \A j \in AgedPrefix(c) : j <= t

Listed == {n \in Segments : Readable(manifest[n])}   \* list_segments

\* n is next_segment_number(): one more than the largest listed, 1 if none.
IsNextSegment(n) ==
  /\ n \in Nat
  /\ \A m \in Listed : m < n
  /\ n = 1 \/ (n - 1) \in Listed

\* verify_segment(n): rows match the manifest, are chained, file is read-only.
SegmentVerifies(n) ==
  /\ jsonl[n].mode = "readonly"
  /\ Readable(manifest[n])
  /\ jsonl[n].rows = manifest[n].rows
  /\ Chained(jsonl[n].rows)

-----------------------------------------------------------------------------
(* Actions.                                                                *)

SegmentBound == MaxSegments \notin Listed   \* bound on the segments sealed

Insert(ts) ==
  /\ journal' = Append(journal, [ts |-> ts, prev |-> Tip])
  /\ hot' = hot \cup {Len(journal) + 1}

\* DecisionLog.record from any component: BEGIN IMMEDIATE makes the read of
\* the tip and the insert one step.  Clocks may step back and callers may
\* pass a timestamp, so ts is any time.
Record(ts) ==
  /\ Len(journal) < MaxRows
  /\ Insert(ts)
  /\ UNCHANGED <<fileVars, arch, purged, faults>>

\* apply_retention: the cutoff id is read; nothing aged is a no-op.
StartRetention(p, job, c) ==
  /\ At(p, "idle")
  /\ job \in Jobs \ {"seal"}
  /\ SegmentBound
  /\ \E t \in hot :
       /\ IsCutoffId(t, c)
       /\ arch' = [arch EXCEPT ![p] =
            [Idle EXCEPT !.pc = IF job = "purge" THEN "purge_check" ELSE "read",
                         !.job = job, !.cutoff = c, !.through = t]]
  /\ UNCHANGED <<journal, hot, fileVars, purged, faults>>

\* `/decisions seal N` or scripts/seal_decision_log.py: any id the operator
\* names, nothing is deleted afterwards.
StartSeal(p, t) ==
  /\ At(p, "idle")
  /\ "seal" \in Jobs
  /\ SegmentBound
  /\ arch' = [arch EXCEPT ![p] = [Idle EXCEPT !.pc = "read", !.through = t]]
  /\ UNCHANGED <<journal, hot, fileVars, purged, faults>>

\* seal_from_log: verify_chain, then iter_through; refused on a broken chain
\* or when through_id is not (or no longer) the last row read.
ReadRows(p) ==
  LET rows == {i \in hot : i <= arch[p].through} IN
  /\ At(p, "read")
  /\ IF Chained(hot) /\ arch[p].through \in rows
       THEN arch' = [arch EXCEPT ![p].pc = "number", ![p].rows = rows]
       ELSE Finish(p)
  /\ UNCHANGED <<journal, hot, fileVars, purged, faults>>

\* next_segment_number comes from the manifests; existing files are refused.
ChooseSegment(p) ==
  /\ At(p, "number")
  /\ \E n \in Segments :
       /\ IsNextSegment(n)
       /\ IF Exists(jsonl[n]) \/ Exists(manifest[n])
            THEN Finish(p)
            ELSE arch' = [arch EXCEPT ![p].pc = "write", ![p].seg = n]
  /\ UNCHANGED <<journal, hot, fileVars, purged, faults>>

\* The rows go to the .tmp file (its name is shared by every archiver).
WriteTmp(p) ==
  /\ At(p, "write")
  /\ tmp' = [tmp EXCEPT ![arch[p].seg] =
               [mode |-> "writable", rows |-> arch[p].rows]]
  /\ Goto(p, "replace")
  /\ UNCHANGED <<journal, hot, jsonl, manifest, purged, faults>>

\* os.replace(tmp, jsonl): overwrites whatever is there; raises when another
\* archiver has already moved the .tmp file away.
ReplaceJsonl(p) ==
  LET n == arch[p].seg IN
  /\ At(p, "replace")
  /\ IF Exists(tmp[n])
       THEN /\ jsonl' = [jsonl EXCEPT ![n] = tmp[n]]
            /\ tmp' = [tmp EXCEPT ![n] = Absent]
            /\ Goto(p, "chmod")
       ELSE /\ Finish(p)
            /\ UNCHANGED <<tmp, jsonl>>
  /\ UNCHANGED <<journal, hot, manifest, purged, faults>>

ChmodJsonl(p) ==
  /\ At(p, "chmod")
  /\ jsonl' = [jsonl EXCEPT ![arch[p].seg].mode = "readonly"]
  /\ Goto(p, "open_manifest")
  /\ UNCHANGED <<journal, hot, tmp, manifest, purged, faults>>

\* Path.write_text opens with truncation first: PermissionError on a 0444 file.
OpenManifest(p) ==
  LET n == arch[p].seg IN
  /\ At(p, "open_manifest")
  /\ IF manifest[n].mode = "readonly" /\ ~RunsAsRoot
       THEN Finish(p) /\ UNCHANGED manifest
       ELSE /\ manifest' = [manifest EXCEPT ![n] = [mode |-> "torn", rows |-> {}]]
            /\ Goto(p, "write_manifest")
  /\ UNCHANGED <<journal, hot, tmp, jsonl, purged, faults>>

WriteManifest(p) ==
  /\ At(p, "write_manifest")
  /\ manifest' = [manifest EXCEPT ![arch[p].seg] =
                    [mode |-> "writable", rows |-> arch[p].rows]]
  /\ Goto(p, "chmod_manifest")
  /\ UNCHANGED <<journal, hot, tmp, jsonl, purged, faults>>

ChmodManifest(p) ==
  /\ At(p, "chmod_manifest")
  /\ manifest' = [manifest EXCEPT ![arch[p].seg].mode = "readonly"]
  /\ Goto(p, "verify")
  /\ UNCHANGED <<journal, hot, tmp, jsonl, purged, faults>>

\* The sealed segment is read back; a mismatch is a WormStoreError.
VerifySegment(p) ==
  /\ At(p, "verify")
  /\ IF SegmentVerifies(arch[p].seg) THEN Goto(p, "mirror") ELSE Finish(p)
  /\ UNCHANGED <<journal, hot, fileVars, purged, faults>>

\* SIEM forward and object-lock mirror are best effort; the archive job goes
\* on to the delete, a manual seal is done.
MirrorSegment(p) ==
  /\ At(p, "mirror")
  /\ IF arch[p].job = "archive" THEN Goto(p, "delete") ELSE Finish(p)
  /\ UNCHANGED <<journal, hot, fileVars, purged, faults>>

\* delete_through(through_id), then a read-only verify_chain.
DeleteThrough(p) ==
  /\ At(p, "delete")
  /\ hot' = {i \in hot : i > arch[p].through}
  /\ Goto(p, "record")
  /\ UNCHANGED <<journal, fileVars, purged, faults>>

\* action "purge": refused without allow_purge and once segments are listed.
PurgeCheck(p) ==
  /\ At(p, "purge_check")
  /\ IF AllowPurge /\ Listed = {} THEN Goto(p, "purge") ELSE Finish(p)
  /\ UNCHANGED <<journal, hot, fileVars, purged, faults>>

PurgeRows(p) ==
  /\ At(p, "purge")
  /\ hot' = {i \in hot : i > arch[p].through}
  /\ purged' = purged \cup {i \in hot : i <= arch[p].through}
  /\ Goto(p, "record")
  /\ UNCHANGED <<journal, fileVars, faults>>

\* The retention run records itself; a failing record is swallowed.
RecordRetention(p, ts) ==
  /\ At(p, "record")
  /\ Finish(p)
  /\ \/ Len(journal) < MaxRows /\ Insert(ts)
     \/ UNCHANGED <<journal, hot>>
  /\ UNCHANGED <<fileVars, purged, faults>>

\* The process dies, or an OSError outside the .tmp block ends the run, or the
\* strict mirror raises after the seal: files and table stay as they are.
Crash(p) ==
  /\ ~At(p, "idle")
  /\ faults < MaxFaults
  /\ faults' = faults + 1
  /\ Finish(p)
  /\ UNCHANGED <<journal, hot, fileVars, purged>>

\* An exception while writing, replacing or chmodding unlinks the .tmp file.
WriteFails(p) ==
  /\ arch[p].pc \in {"write", "replace", "chmod"}
  /\ faults < MaxFaults
  /\ faults' = faults + 1
  /\ tmp' = [tmp EXCEPT ![arch[p].seg] = Absent]
  /\ Finish(p)
  /\ UNCHANGED <<journal, hot, jsonl, manifest, purged>>

-----------------------------------------------------------------------------
Init ==
  /\ journal = <<>>
  /\ hot = {}
  /\ tmp = [n \in Segments |-> Absent]
  /\ jsonl = [n \in Segments |-> Absent]
  /\ manifest = [n \in Segments |-> Absent]
  /\ arch = [p \in Archivers |-> Idle]
  /\ purged = {}
  /\ faults = 0

\* What a running archiver does next, were nothing to go wrong.
Proceed(p) ==
  \/ ReadRows(p)
  \/ ChooseSegment(p)
  \/ WriteTmp(p)
  \/ ReplaceJsonl(p)
  \/ ChmodJsonl(p)
  \/ OpenManifest(p)
  \/ WriteManifest(p)
  \/ ChmodManifest(p)
  \/ VerifySegment(p)
  \/ MirrorSegment(p)
  \/ DeleteThrough(p)
  \/ PurgeCheck(p)
  \/ PurgeRows(p)
  \/ \E ts \in 0..MaxTime : RecordRetention(p, ts)

Next ==
  \/ \E ts \in 0..MaxTime : Record(ts)
  \/ \E p \in Archivers :
       \/ \E job \in Jobs, c \in 1..(MaxTime + 1) : StartRetention(p, job, c)
       \/ \E t \in 1..MaxRows : StartSeal(p, t)
       \/ Proceed(p)
       \/ Crash(p)
       \/ WriteFails(p)

Spec == Init /\ [][Next]_vars

\* cron runs retention again and again, with a clock that ends up past every
\* row, and a process that is running keeps running.  Writers, operators and
\* faults owe nothing.
FairSpec ==
  /\ Spec
  /\ \A p \in Archivers :
       /\ WF_vars(Proceed(p))
       /\ WF_vars(StartRetention(p, "archive", MaxTime + 1))

-----------------------------------------------------------------------------
(* Properties.                                                             *)

ColdRows == UNION {jsonl[n].rows : n \in Listed}

\* The hot table passes verify_chain in every state: appends from any process,
\* prefix deletes and crashes never leave a gap or a stale prev_hash
\* (DecisionLog.record, delete_through).
HotChain == Chained(hot)

\* With one archiver at a time a row is in the hot table or in a listed
\* segment until an allowed purge deletes it, whatever the instant of a crash
\* between seal and delete (apply_retention).
NoEvidenceLost == 1..Len(journal) \subseteq hot \cup ColdRows \cup purged

\* A listed segment always verifies, in every state after its manifest is
\* closed: no later run disturbs it (seal_from_log refuses existing files).
SegmentsIntact ==
  \A n \in Segments : manifest[n].mode = "readonly" => SegmentVerifies(n)

\* A row leaves the hot table only in a retention run for whose cutoff it was
\* aged; rows written or read in between are never swept along
\* (retention_cutoff_id stops at the first fresh row).
FreshRowsStay ==
  [][\A i \in hot \ hot' :
       \E p \in Archivers :
         /\ arch[p].pc \in {"delete", "purge"}
         /\ journal[i].ts < arch[p].cutoff]_vars

\* The promise of the trail: live rows become cold before they leave, cold rows
\* never leave, and a purge only happens while nothing is sealed.
Evidence == INSTANCE EvidenceTrail WITH
  issued <- Len(journal), live <- hot, cold <- ColdRows
ImplementsEvidenceTrail == Evidence!Spec

\* ADR-019 Consequences: "chain integrity remains verifiable across hot + cold".
\* Stated, checked by no run: it fails once retention has archived every row,
\* because the next row is chained to GENESIS (Tip).
ChainSpansHotAndCold == Chained(hot \cup ColdRows)

\* ADR-019 Consequences: "Aged audit rows can leave the hot DB into sealed
\* segments": under a cron that keeps applying retention every row does.
AgedRowsLeave == \A i \in 1..MaxRows : (i \in hot) ~> (i \notin hot)
=============================================================================
