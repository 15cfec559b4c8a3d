---------------------------- MODULE DurableOutbox ----------------------------
(***************************************************************************)
(* The durable outbox (tina-runtime/src/durable_outbox.rs), the journal it *)
(* is kept in (persistence.rs and the JournalAppendJob of driver/          *)
(* storage.rs) and the service that crashes and recovers it.               *)
(*                                                                         *)
(* An append runs in phases on the storage lane, one job of a path at a    *)
(* time: validate its index (repairing a torn tail), write and sync the    *)
(* record, store the index sidecar.  Each may fail, and a crash may come   *)
(* between any two; a crash during the write leaves nothing, a torn tail   *)
(* or the whole record.  A record written behind a torn tail is not read   *)
(* back as itself: its bytes complete the torn header or payload.         *)
(* Payloads are the identities of the works; lengths are kept in units in  *)
(* which records of one kind have one size.                                *)
(***************************************************************************)
EXTENDS Integers, Sequences, FiniteSets, SequencesExt

CONSTANTS Capacity,    \* outstanding works the outbox accepts
          MaxWorks,    \* bound: works the service asks for in a behaviour
          MaxIndex,    \* bound: journal indices given out by one outbox
          MaxCrashes,  \* bound: crashes in a behaviour
          MaxErrors    \* bound: I/O errors in a behaviour

\* What the code asks of the constants.
OutboxAssumption == /\ Capacity \in Nat \ {0}
                    /\ MaxWorks \in Nat /\ MaxIndex \in Nat
                    /\ MaxCrashes \in Nat /\ MaxErrors \in Nat

VARIABLES journal,    \* complete records on disk, in order
          torn,       \* length of what follows them and is no record; 0 for nothing
          garbled,    \* it fails a replay, rather than passing for a truncated tail
          sidecar,    \* last index and length as the last append stored them
          outbox,     \* the DurableOutbox of the running service
          mode,       \* "up", "down", or why recovery was refused
          token,      \* the DurableWork the service has not appended yet, if any
          jobs,       \* appends at the storage lane and results not yet handled
          recorded,   \* RecordedWork tokens not yet applied
          crashes, errors,
          asked,      \* works asked for so far
          acked, committed, durablyDone, landed, given, refusedIndex, misled,  \* ghosts
          hidden      \* ghost: works with a record written behind a torn tail

disk == <<journal, torn, garbled, sidecar>>
ghosts == <<acked, committed, durablyDone, landed, given, refusedIndex, misled, hidden>>
vars == <<disk, outbox, mode, token, jobs, recorded, crashes, errors, asked, ghosts>>

Works == 1..MaxWorks
NoToken == [id |-> 0]
NoSidecar == [last |-> 0, len |-> -1]
Record == [tag : {"Enqueue", "Complete"}, index : Nat, id : Nat, work : Works]

Size(r) == IF r.tag = "Enqueue" THEN 3 ELSE 2
Length == FoldSeq(LAMBDA r, n : n + Size(r), 0, journal) + torn
LastIndex == IF journal = <<>> THEN 0 ELSE Last(journal).index

TypeOK ==
    /\ journal \in Seq(Record) /\ torn \in Nat /\ garbled \in BOOLEAN
    /\ sidecar \in [last : Nat, len : Int]
    /\ outbox.nextId \in Nat \ {0} /\ outbox.nextIndex \in Nat \ {0}
    /\ outbox.staged \subseteq 1..(outbox.nextId - 1)
    /\ outbox.pending \subseteq 1..(outbox.nextId - 1)
    /\ outbox.watermark \in 0..(outbox.nextId - 1)
    /\ outbox.completed \subseteq (outbox.watermark + 1)..(outbox.nextId - 1)
    /\ mode \in {"up", "down", "CorruptTail", "OverCapacity"}
    /\ \A k \in DOMAIN jobs :
          jobs[k].rec \in Record /\ jobs[k].phase \in {"queued", "valid", "written", "ok", "err"}
    /\ Cardinality(outbox.staged \cup outbox.pending) <= Capacity

\* DurableOutbox::new.
New == [nextId |-> 1, nextIndex |-> 1, staged |-> {}, pending |-> {},
        completed |-> {}, watermark |-> 0]

Init ==
    /\ journal = <<>> /\ torn = 0 /\ garbled = FALSE /\ sidecar = NoSidecar
    /\ outbox = New /\ mode = "up"
    /\ token = NoToken /\ jobs = <<>> /\ recorded = {}
    /\ crashes = 0 /\ errors = 0 /\ asked = 0
    /\ acked = {} /\ committed = {} /\ durablyDone = {} /\ landed = {}
    /\ given = {} /\ refusedIndex = FALSE /\ misled = FALSE /\ hidden = {}

-----------------------------------------------------------------------------
(* The outbox itself, as functions of its fields o.                        *)

\* advance_watermark: below the lowest outstanding id all is accounted for.
AdvanceWatermark(o) ==
    LET lowest == Min(o.staged \cup o.pending \cup {o.nextId})
        mark == Max({o.watermark, lowest - 1})
    IN  [o EXCEPT !.watermark = mark, !.completed = {i \in @ : i > mark}]

IsCompleted(o, id) == id <= o.watermark \/ id \in o.completed

\* mark_completed, after the id has left pending.
MarkCompleted(o, id) ==
    AdvanceWatermark([o EXCEPT !.pending = @ \ {id},
                               !.completed = IF id > o.watermark THEN @ \cup {id} ELSE @])

Job(rec) == [rec |-> rec, phase |-> "queued"]

\* enqueue: reserve an id and an index; OutboxFull at capacity.
Enqueue ==
    /\ mode = "up" /\ token = NoToken
    /\ asked < MaxWorks /\ outbox.nextIndex <= MaxIndex
    /\ Cardinality(outbox.staged) + Cardinality(outbox.pending) < Capacity
    /\ asked' = asked + 1
    /\ token' = [id |-> outbox.nextId, index |-> outbox.nextIndex, work |-> asked + 1]
    /\ given' = given \cup {[id |-> outbox.nextId, work |-> asked + 1]}
    /\ outbox' = [outbox EXCEPT !.nextId = @ + 1, !.nextIndex = @ + 1,
                                !.staged = @ \cup {outbox.nextId}]
    /\ UNCHANGED <<disk, mode, jobs, recorded, crashes, errors,
                   acked, committed, durablyDone, landed, refusedIndex, misled, hidden>>

\* The service issues journal_append for the staged work.
IssueAppend ==
    /\ mode = "up" /\ token # NoToken
    /\ jobs' = Append(jobs, Job([tag |-> "Enqueue", index |-> token.index,
                                 id |-> token.id, work |-> token.work]))
    /\ token' = NoToken
    /\ UNCHANGED <<disk, outbox, mode, recorded, crashes, errors, asked, ghosts>>

\* abandon: the staged work is given up and its place freed.
Abandon ==
    /\ mode = "up" /\ token # NoToken
    /\ outbox' = AdvanceWatermark([outbox EXCEPT !.staged = @ \ {token.id}])
    /\ token' = NoToken
    /\ UNCHANGED <<disk, mode, jobs, recorded, crashes, errors, asked, ghosts>>

\* The job at position k has its result, which the service handles now.
Result(k, tag) ==
    /\ mode = "up" /\ k \in DOMAIN jobs
    /\ jobs[k].rec.tag = tag /\ jobs[k].phase \in {"ok", "err"}
    /\ jobs' = RemoveAt(jobs, k)

OnDisk(rec) == rec \in ToSet(journal)

\* record: only a successful append makes the work pending.
RecordOk(k) ==
    LET r == jobs[k].rec IN
    /\ Result(k, "Enqueue") /\ jobs[k].phase = "ok"
    /\ outbox' = [outbox EXCEPT !.staged = @ \ {r.id}, !.pending = @ \cup {r.id}]
    /\ recorded' = recorded \cup {[id |-> r.id, work |-> r.work]}
    /\ acked' = acked \cup {r.work}
    /\ UNCHANGED <<disk, mode, token, crashes, errors, asked,
                   committed, durablyDone, landed, given, refusedIndex, misled, hidden>>

\* record with an error: the place is freed and the work given back.
RecordErr(k) ==
    LET r == jobs[k].rec IN
    /\ Result(k, "Enqueue") /\ jobs[k].phase = "err"
    /\ outbox' = AdvanceWatermark([outbox EXCEPT !.staged = @ \ {r.id}])
    /\ landed' = IF OnDisk(r) THEN landed \cup {r.work} ELSE landed
    /\ UNCHANGED <<disk, mode, token, recorded, crashes, errors, asked,
                   acked, committed, durablyDone, given, refusedIndex, misled, hidden>>

\* apply: the token is spent; a completed id is a duplicate and does nothing.
Apply(t) ==
    /\ mode = "up" /\ t \in recorded
    /\ recorded' = recorded \ {t}
    /\ UNCHANGED <<disk, outbox, mode, token, jobs, crashes, errors, asked, ghosts>>

\* The work an id stands for: of those it was given to, the last.
WorkOf(id) == Max({g.work : g \in {x \in given : x.id = id}})

\* begin_complete and the append it is for.
BeginComplete(id) ==
    /\ mode = "up" /\ token = NoToken
    /\ outbox.nextIndex <= MaxIndex
    /\ id \in outbox.pending /\ ~IsCompleted(outbox, id)
    /\ jobs' = Append(jobs, Job([tag |-> "Complete", index |-> outbox.nextIndex,
                                 id |-> id, work |-> WorkOf(id)]))
    /\ outbox' = [outbox EXCEPT !.nextIndex = @ + 1]
    /\ UNCHANGED <<disk, mode, token, recorded, crashes, errors, asked, ghosts>>

\* finish_complete: an error leaves the work pending.
FinishOk(k) ==
    LET r == jobs[k].rec IN
    /\ Result(k, "Complete") /\ jobs[k].phase = "ok"
    /\ outbox' = IF r.id \in outbox.pending THEN MarkCompleted(outbox, r.id) ELSE outbox
    /\ committed' = committed \cup {r.work}
    /\ UNCHANGED <<disk, mode, token, recorded, crashes, errors, asked,
                   acked, durablyDone, landed, given, refusedIndex, misled, hidden>>

\* Mutant: the caller is told its completion committed whatever the append returned.
FinishErrMut(k) ==
    /\ Result(k, "Complete") /\ jobs[k].phase = "err"
    /\ committed' = committed \cup {jobs[k].rec.work}
    /\ UNCHANGED <<disk, outbox, mode, token, recorded, crashes, errors, asked,
                   acked, durablyDone, landed, given, refusedIndex, misled, hidden>>

FinishErr(k) ==
    /\ Result(k, "Complete") /\ jobs[k].phase = "err"
    /\ UNCHANGED <<disk, outbox, mode, token, recorded, crashes, errors, asked, ghosts>>

-----------------------------------------------------------------------------
(* The storage lane.  Only the first job without a result is at work.      *)

AtWork(k, phase) ==
    /\ mode = "up" /\ k \in DOMAIN jobs /\ jobs[k].phase = phase
    /\ \A j \in 1..(k - 1) : jobs[j].phase \in {"ok", "err"}

Phase(k, phase) == jobs' = [jobs EXCEPT ![k].phase = phase]
IoError == errors < MaxErrors /\ errors' = errors + 1
laneUnchanged == <<outbox, mode, token, recorded, crashes, asked, acked, committed, landed, given>>

\* replay_journal_bytes succeeds: the indices grow, and what follows the last
\* record is nothing or passes for a truncated tail.
Readable == /\ ~garbled
            /\ \A k \in 2..Len(journal) : journal[k - 1].index < journal[k].index

\* ValidateIndex: trust the sidecar if it agrees with the file's length, else
\* replay the journal and cut a truncated tail, whatever is in it; an index
\* already used is refused.
Validate(k) ==
    LET trusted == sidecar.len = Length
        last == IF trusted THEN sidecar.last ELSE LastIndex
        fresh == jobs[k].rec.index > last
    IN  /\ AtWork(k, "queued")
        /\ torn' = IF ~trusted /\ Readable THEN 0 ELSE torn
        /\ Phase(k, IF fresh /\ (trusted \/ Readable) THEN "valid" ELSE "err")
        /\ refusedIndex' = (refusedIndex \/ (~fresh /\ (trusted \/ Readable)))
        /\ misled' = (misled \/ (trusted /\ (torn > 0 \/ sidecar.last # LastIndex)))
        /\ UNCHANGED <<journal, garbled, sidecar, errors, durablyDone, hidden>>
        /\ UNCHANGED laneUnchanged

\* The directory, the sidecar, the journal or the repair fails.
ValidateErr(k) ==
    /\ AtWork(k, "queued") /\ IoError
    /\ Phase(k, "err")
    /\ UNCHANGED <<disk, refusedIndex, misled, durablyDone, hidden>> /\ UNCHANGED laneUnchanged

Done(rec) == IF rec.tag = "Complete" THEN durablyDone \cup {rec.work} ELSE durablyDone

\* What bytes behind a torn tail make of it.  They complete its header or its
\* payload: if the length in the header still runs past the end of the file the
\* whole is a truncated tail, else its magic or its checksum fails, for good.
Behind == garbled' \in {garbled, TRUE}

\* A whole record reaches the end of the file.
Lands(rec) ==
    \/ /\ torn = 0
       /\ journal' = Append(journal, rec)
       /\ durablyDone' = Done(rec)
       /\ UNCHANGED <<torn, garbled, hidden>>
    \/ /\ torn > 0
       /\ torn' = torn + Size(rec)
       /\ Behind
       /\ hidden' = hidden \cup {rec.work}
       /\ UNCHANGED <<journal, durablyDone>>

\* A part of a record reaches it.
LandsInPart ==
    /\ torn' = torn + 1
    /\ IF torn = 0 THEN UNCHANGED garbled ELSE Behind
    /\ UNCHANGED <<journal, durablyDone, hidden>>

\* AppendData: write at the end and sync.
Write(k) ==
    /\ AtWork(k, "valid")
    /\ Lands(jobs[k].rec)
    /\ Phase(k, "written")
    /\ UNCHANGED <<sidecar, errors, refusedIndex, misled>> /\ UNCHANGED laneUnchanged

\* The write fails with nothing, a part or all of the record in the file.
WriteErr(k) ==
    /\ AtWork(k, "valid") /\ IoError
    /\ \/ UNCHANGED <<journal, torn, garbled, durablyDone, hidden>>
       \/ LandsInPart
       \/ Lands(jobs[k].rec)
    /\ Phase(k, "err")
    /\ UNCHANGED <<sidecar, refusedIndex, misled>> /\ UNCHANGED laneUnchanged

\* StoreIndexJob: the sidecar is replaced by a rename; the last step is to
\* sync the directory, whose failure is CommitUncertain.
StoreSidecar(k) ==
    /\ AtWork(k, "written")
    /\ sidecar' = [last |-> jobs[k].rec.index, len |-> Length]
    /\ \/ Phase(k, "ok") /\ UNCHANGED errors
       \/ Phase(k, "err") /\ IoError
    /\ UNCHANGED <<journal, torn, garbled, refusedIndex, misled, durablyDone, hidden>>
    /\ UNCHANGED laneUnchanged

StoreSidecarErr(k) ==
    /\ AtWork(k, "written") /\ IoError
    /\ Phase(k, "err")
    /\ UNCHANGED <<disk, refusedIndex, misled, durablyDone, hidden>> /\ UNCHANGED laneUnchanged

-----------------------------------------------------------------------------
(* Crash and recovery.                                                     *)

\* The process dies.  A record being written may be there, in part or whole.
Crash ==
    /\ mode = "up" /\ crashes < MaxCrashes
    /\ crashes' = crashes + 1
    /\ mode' = "down"
    /\ \/ UNCHANGED <<journal, torn, garbled, durablyDone, hidden>>
       \/ \E k \in DOMAIN jobs :
             AtWork(k, "valid") /\ (LandsInPart \/ Lands(jobs[k].rec))
    /\ outbox' = New /\ token' = NoToken /\ jobs' = <<>> /\ recorded' = {}
    /\ UNCHANGED <<sidecar, errors, asked, acked, committed, landed, given, refusedIndex, misled>>

\* replay_journal and fold: the open works in order, the completed ids, or
\* the reason to refuse.  Recovery stops at the record that would exceed the
\* capacity.  A truncated tail is passed over.
FoldStep(r, f) ==
    LET ids == {e.id : e \in ToSet(f.pending)}
        seen == [f EXCEPT !.maxIndex = Max({@, r.index}), !.maxId = Max({@, r.id})]
    IN  IF f.error # "none" THEN f
        ELSE IF r.index <= f.maxIndex THEN [f EXCEPT !.error = "CorruptTail"]
        ELSE IF r.tag = "Enqueue"
        THEN IF r.id \in ids \cup f.completed THEN [f EXCEPT !.error = "CorruptTail"]
             ELSE IF Cardinality(ids) >= Capacity THEN [f EXCEPT !.error = "OverCapacity"]
             ELSE [seen EXCEPT !.pending = Append(@, [id |-> r.id, work |-> r.work])]
        ELSE IF r.id \notin ids \cup f.completed THEN [f EXCEPT !.error = "CorruptTail"]
             ELSE [seen EXCEPT !.pending = SelectSeq(@, LAMBDA e : e.id # r.id),
                               !.completed = @ \cup {r.id}]

Folded == FoldLeft(LAMBDA f, r : FoldStep(r, f),
                   [pending |-> <<>>, completed |-> {}, maxIndex |-> 0, maxId |-> 0,
                    error |-> IF garbled THEN "CorruptTail" ELSE "none"],
                   journal)

\* The outbox built from what was folded, with the next index as given.
Rebuilt(nextIndex) ==
    AdvanceWatermark([nextId |-> Folded.maxId + 1, nextIndex |-> nextIndex,
                      staged |-> {}, pending |-> {e.id : e \in ToSet(Folded.pending)},
                      completed |-> Folded.completed, watermark |-> 0])

recoveryUnchanged == <<token, jobs, crashes, errors, asked,
                       acked, committed, durablyDone, given, refusedIndex, misled, hidden>>

\* recover: the report's pending works are ready to apply again.
Recover ==
    /\ mode = "down" /\ Folded.error = "none"
    /\ mode' = "up"
    /\ outbox' = Rebuilt(Folded.maxIndex + 1)
    /\ recorded' = ToSet(Folded.pending)
    /\ landed' = {}
    /\ UNCHANGED disk /\ UNCHANGED recoveryUnchanged

\* recover_compacted, with its image installed by commit_file_atomic: only the
\* open works, indexed from 1.  The sidecar is not part of the image.
RecoverCompacted ==
    /\ mode = "down" /\ Folded.error = "none"
    /\ mode' = "up"
    /\ outbox' = Rebuilt(Len(Folded.pending) + 1)
    /\ recorded' = ToSet(Folded.pending)
    /\ journal' = [k \in DOMAIN Folded.pending |->
                     [tag |-> "Enqueue", index |-> k, id |-> Folded.pending[k].id,
                      work |-> Folded.pending[k].work]]
    /\ torn' = 0
    /\ landed' = {}
    /\ UNCHANGED <<garbled, sidecar>> /\ UNCHANGED recoveryUnchanged

\* A RecoveryError: the service does not come up.
RecoveryRefused ==
    /\ mode = "down" /\ Folded.error # "none"
    /\ mode' = Folded.error
    /\ UNCHANGED <<disk, outbox, recorded, landed>> /\ UNCHANGED recoveryUnchanged

Service == \/ Enqueue \/ IssueAppend \/ Abandon
           \/ \E k \in DOMAIN jobs : RecordOk(k) \/ RecordErr(k) \/ FinishOk(k) \/ FinishErr(k)
           \/ \E t \in recorded : Apply(t)
           \/ \E id \in outbox.pending : BeginComplete(id)

Lane == \E k \in DOMAIN jobs : \/ Validate(k) \/ ValidateErr(k) \/ Write(k) \/ WriteErr(k)
                               \/ StoreSidecar(k) \/ StoreSidecarErr(k)

Next == Service \/ Lane \/ Crash \/ Recover \/ RecoverCompacted \/ RecoveryRefused

Spec == Init /\ [][Next]_vars

-----------------------------------------------------------------------------
(* Properties.                                                             *)

OpenOnDisk == {e.work : e \in ToSet(Folded.pending)}

\* At least once: a work whose record() succeeded and whose completion never
\* reached the disk is open in the journal at every moment, through crashes,
\* torn tails, repairs, failed appends and compaction; while the service is up
\* it is also pending in memory.  Excepted are works with a record behind a torn
\* tail, which only an append that trusted a sidecar of another journal writes.
NothingLost ==
    Folded.error = "none" =>
        /\ acked \ (durablyDone \cup hidden) \subseteq OpenOnDisk
        /\ hidden # {} => misled
        /\ mode = "up" => \A e \in ToSet(Folded.pending) :
              e.work \in acked \ durablyDone => e.id \in outbox.pending

\* A work whose finish_complete succeeded is over, unless its record is behind a
\* torn tail: it is not open on disk, not pending and no authorization to apply
\* it survives that apply would honour.
NoResurrection ==
    /\ Folded.error = "none" => committed \cap OpenOnDisk \subseteq hidden
    /\ \A t \in recorded : t.work \in committed \ hidden => IsCompleted(outbox, t.id)

\* RecoveryReport's pending work: all "that was durably recorded but not durably
\* completed", whatever the record was written behind.
AckedSurvives == Folded.error = "none" => acked \ durablyDone \subseteq OpenOnDisk

\* Recovery calls the outbox's own journal corrupt only if an append trusted
\* a sidecar that is not this journal's, and refuses it for its backlog only if
\* an append was reported as failed whose record had reached the disk.
RefusalExplained ==
    /\ Folded.error = "CorruptTail" => misled
    /\ Folded.error = "OverCapacity" => landed # {}

\* The watermark never passes work that is outstanding: what is staged or
\* pending is never answered AlreadyCompleted or DuplicateWork.
WatermarkSound ==
    \A i \in outbox.staged \cup outbox.pending : ~IsCompleted(outbox, i)

\* A staged work occupies a place of the capacity only while its token, its
\* append or its result exists: errors and abandons free it.
NoLeakedPlace ==
    outbox.staged = {j.rec.id : j \in {x \in ToSet(jobs) : x.rec.tag = "Enqueue"}}
                       \cup (IF token = NoToken THEN {} ELSE {token.id})

\* "Ids are strictly increasing and never reused, even across recovery", of
\* the ids of works that were recorded.
RecordedIdsNeverReused ==
    \A g, k \in given : g.id = k.id /\ {g.work, k.work} \subseteq acked => g = k

\* The index counter of an outbox "is aligned to the compacted journal": its
\* appends are not refused as out of order.
AppendsAccepted == ~refusedIndex

\* What recovery finds is what was recorded and not completed, whatever failed
\* or crashed before, and the places of the capacity are those of live works.
RecoverySound ==
    TypeOK /\ NothingLost /\ NoResurrection /\ RefusalExplained /\ WatermarkSound /\ NoLeakedPlace
=============================================================================
