------------------------------ MODULE Capture ------------------------------
(***************************************************************************)
(* Raw-turn capture: the Stop hook of a session delivers what was written  *)
(* to the session's transcript since its watermark.  It registers the      *)
(* transcript first, so that a later Stop of another session can replay    *)
(* what a failed one left, and forgets it once all of it was taken.        *)
(*                                                                         *)
(* Hooks are processes of their own; each store call is one SQLite         *)
(* transaction, and the file and the server are read and called between    *)
(* them.  The stat and the read of a file are one step.  Records are two   *)
(* bytes long, so that one byte is a record still being written, and every *)
(* record is an operator turn.                                             *)
(*                                                                         *)
(* A definition D_<Slip> is D with one plausible slip in the code; no      *)
(* action uses it.  It serves to see that a property notices the slip.     *)
(***************************************************************************)
EXTENDS Integers, Sequences, FiniteSets, SequencesExt

CONSTANTS
    Sessions,
    Hooks,       \* Stop hooks that can run at once
    Batch,       \* SERVER_BATCH
    Changes,     \* what can happen to a transcript: "replace", "remove", "truncate"
    MaxSize,     \* bound: bytes of a transcript
    MaxWritten,  \* bound: bytes of a transcript that the host appends to
    MaxStops,    \* bound: Stop hooks started
    MaxChanges   \* bound: changes of transcripts

ASSUME CaptureAssumption ==
    /\ Batch \in Nat \ {0}
    /\ Changes \subseteq {"replace", "remove", "truncate"}
    /\ MaxSize \in Nat /\ MaxWritten \in 0 .. MaxSize /\ MaxStops \in Nat /\ MaxChanges \in Nat

VARIABLES
    file,     \* the transcript of each session
    mark,     \* the watermark of each session
    pending,  \* pending_capture, in rowid order
    hook,     \* what each hook is doing
    sent,     \* the records of each transcript that the server has
    noted,    \* history: the records that were there when the session last stopped
    count     \* history: Stops, changes, the locators inserted per session, and
              \* the sessions whose transcript was ever emptied in place

cvars == <<file, mark, pending, hook, sent, noted, count>>

Nobody == "nobody"
Missing == 0              \* the inode of no file, and of an unbound locator
Bytes == 0 .. MaxSize
Inodes == 0 .. MaxChanges + 1

\* A new text at the same inode is a transcript that was emptied in place.
File == [inode: Inodes, text: 1 .. MaxChanges + 1, size: Bytes]

Position == [offset: Bytes, inode: Inodes]
Beginning == [offset |-> 0, inode |-> Missing]   \* also: no row

Locator == [session: Sessions, inode: Inodes, size: Bytes,
            state: {"pending", "source_changed"}, gen: 1 .. 2 * MaxStops]

\* own: the session that stopped; src: the one being delivered; row: its
\* locator as registered; pos: its watermark as read; text, inode, from, to
\* and whole: the bytes read and whether they end the file.
Idle == [pc |-> "idle", own |-> Nobody, src |-> Nobody, gen |-> 0,
         inode |-> Missing, size |-> 0, pos |-> Beginning,
         text |-> 0, read |-> Missing, from |-> 0, to |-> 0, whole |-> FALSE]

Init ==
    /\ file = [s \in Sessions |-> [inode |-> 1, text |-> 1, size |-> 0]]
    /\ mark = [s \in Sessions |-> Beginning]
    /\ pending = <<>>
    /\ hook = [h \in Hooks |-> Idle]
    /\ sent = [s \in Sessions |-> {}]
    /\ noted = [s \in Sessions |-> {}]
    /\ count = [stops |-> 0, changes |-> 0, rows |-> [s \in Sessions |-> 0], cut |-> {}]

Records(bytes) == 1 .. bytes \div 2

Update(h, k) == hook' = [hook EXCEPT ![h] = k]
At(h, pc) == hook[h].pc = pc

-----------------------------------------------------------------------------
(* The transcripts *)

\* The host appends a record, or the first half of one.
WriteTurn(s) ==
    /\ file[s].inode # Missing
    /\ \E n \in {1, 2} :
         /\ file[s].size + n <= MaxWritten
         /\ file' = [file EXCEPT ![s].size = @ + n]
    /\ UNCHANGED <<mark, pending, hook, sent, noted, count>>

\* Rotation puts another file at the path, copytruncate empties the file in
\* place, and a file can go.  What was in it is gone with it.
Changed(s, kind) ==
    LET text == file[s].text + 1
    IN  \/ /\ kind = "replace"
           /\ \E n \in Bytes :
                file' = [file EXCEPT ![s] = [inode |-> text, text |-> text, size |-> n]]
        \/ /\ kind = "truncate" /\ file[s].inode # Missing
           /\ file' = [file EXCEPT ![s].text = text, ![s].size = 0]
        \/ /\ kind = "remove" /\ file[s].inode # Missing
           /\ file' = [file EXCEPT ![s] = [inode |-> Missing, text |-> text, size |-> 0]]

Change(s) ==
    /\ count.changes < MaxChanges
    /\ \E kind \in Changes :
         /\ Changed(s, kind)
         /\ count' = [count EXCEPT !.changes = @ + 1,
                                   !.cut = IF kind = "truncate" THEN @ \cup {s} ELSE @]
    /\ sent' = [sent EXCEPT ![s] = {}]
    /\ noted' = [noted EXCEPT ![s] = {}]
    /\ UNCHANGED <<mark, pending, hook>>

-----------------------------------------------------------------------------
(* register_pending *)

RowOf(s) == SelectInSeq(pending, LAMBDA r : r.session = s)

\* The registration rebinds a locator whose source is not the one it was
\* bound to, or is shorter.
Rebound(s) ==
    LET row == pending[RowOf(s)]
    IN  /\ RowOf(s) # 0
        /\ \/ row.inode # file[s].inode
           \/ row.size > file[s].size
           \/ row.state # "pending"

Registered(s, gen) ==
    [session |-> s, inode |-> file[s].inode, size |-> file[s].size,
     state |-> "pending", gen |-> gen]

Upserted(s) ==
    Registered(s, IF RowOf(s) = 0 THEN 1 ELSE pending[RowOf(s)].gen + 1)

Delivering(s, row) ==
    [Idle EXCEPT !.pc = "lane", !.own = s, !.src = s,
                 !.gen = row.gen, !.inode = row.inode, !.size = row.size]

\* A host runs the Stop hooks of one session one after the other.
Stopping(h, s) ==
    /\ At(h, "idle") /\ \A k \in Hooks : hook[k].own # s
    /\ count.stops < MaxStops
    /\ count' = [count EXCEPT !.stops = @ + 1,
                              !.rows[s] = IF RowOf(s) = 0 THEN @ + 1 ELSE @]

Register(h, s) ==
    /\ Stopping(h, s)
    /\ file[s].inode # Missing \/ RowOf(s) = 0
    /\ pending' = IF RowOf(s) = 0 THEN Append(pending, Upserted(s))
                  ELSE [pending EXCEPT ![RowOf(s)] = Upserted(s)]
    /\ mark' = IF Rebound(s) THEN [mark EXCEPT ![s] = Beginning] ELSE mark
    /\ noted' = [noted EXCEPT ![s] = Records(file[s].size)]
    /\ Update(h, Delivering(s, Upserted(s)))
    /\ UNCHANGED <<file, sent>>

\* With no file there is nothing to rebind to: a bound locator ends the hook.
RegisterMissing(h, s) ==
    /\ Stopping(h, s)
    /\ file[s].inode = Missing /\ RowOf(s) # 0
    /\ IF pending[RowOf(s)].inode = Missing
       THEN Update(h, Delivering(s, pending[RowOf(s)]))
       ELSE UNCHANGED hook
    /\ UNCHANGED <<file, mark, pending, sent, noted>>

-----------------------------------------------------------------------------
(* deliver_new_turns *)

ReadPosition(h) ==
    /\ At(h, "lane")
    /\ Update(h, [hook[h] EXCEPT !.pc = "read", !.pos = mark[hook[h].src]])
    /\ UNCHANGED <<file, mark, pending, sent, noted, count>>

\* _start_position: a replaced file and a shortened one are read from the start.
StartPosition_SizeOnly(pos, f) == IF pos.offset > f.size THEN 0 ELSE pos.offset
StartPosition(pos, f) ==
    IF (pos.inode # Missing /\ pos.inode # f.inode) \/ pos.offset > f.size
    THEN 0 ELSE pos.offset

\* _complete_records: without the record that is still being written.
Consumed(f) == 2 * (f.size \div 2)

\* The source is not the one that was registered, or shorter.
SourceChanged(k) ==
    /\ k.inode # Missing
    /\ file[k.src].inode # k.inode \/ file[k.src].size < k.size

ReadSource(h) ==
    LET k == hook[h]
        f == file[k.src]
    IN  /\ At(h, "read")
        /\ f.inode # Missing
        /\ ~SourceChanged(k)
        /\ Update(h, [k EXCEPT
             !.pc = IF StartPosition(k.pos, f) < Consumed(f) THEN "send" ELSE "advance",
             !.pos = Beginning, !.text = f.text, !.read = f.inode,
             !.from = StartPosition(k.pos, f), !.to = Consumed(f),
             !.whole = Consumed(f) >= f.size])
        /\ UNCHANGED <<file, mark, pending, sent, noted, count>>

\* An unbound locator whose file is still missing: nothing to send.
ReadNothing(h) ==
    LET k == hook[h]
    IN  /\ At(h, "read")
        /\ file[k.src].inode = Missing
        /\ ~SourceChanged(k)
        /\ Update(h, [k EXCEPT !.pc = "complete"])
        /\ UNCHANGED <<file, mark, pending, sent, noted, count>>

Guarded(s, gen) == SelectInSeq(pending, LAMBDA r : r.session = s /\ r.gen = gen)

\* CaptureSourceChangedError: the own delivery fails; a replay parks the
\* locator.
ParkChanged(h) ==
    LET k == hook[h]
    IN  /\ At(h, "read")
        /\ SourceChanged(k)
        /\ pending' = IF k.own = k.src \/ Guarded(k.src, k.gen) = 0 THEN pending
                      ELSE [pending EXCEPT ![Guarded(k.src, k.gen)].state = "source_changed"]
        /\ Update(h, Idle)
        /\ UNCHANGED <<file, mark, sent, noted, count>>

ChunkEnd(k) == IF k.from + 2 * Batch < k.to THEN k.from + 2 * Batch ELSE k.to

\* ingest_raw_turns; the server dedupes on the turn.
Taken(k) ==
    IF k.text # file[k.src].text THEN sent
    ELSE [sent EXCEPT ![k.src] = @ \cup {n \in Records(ChunkEnd(k)) : 2 * (n - 1) >= k.from}]

SendChunk(h) ==
    /\ At(h, "send")
    /\ sent' = Taken(hook[h])
    /\ Update(h, [hook[h] EXCEPT !.pc = "advance", !.from = ChunkEnd(hook[h])])
    /\ UNCHANGED <<file, mark, pending, noted, count>>

\* The call fails, or took effect with its answer lost: the hook ends.
SendFails(h) ==
    /\ At(h, "send")
    /\ sent' \in {sent, Taken(hook[h])}
    /\ Update(h, Idle)
    /\ UNCHANGED <<file, mark, pending, noted, count>>

\* WatermarkRegressionError; positions of two files are not compared.
Regression(k) ==
    /\ mark[k.src].inode \in {Missing, k.read}
    /\ k.from < mark[k.src].offset

\* After each batch; the advance at the end repeats the last one, and is the
\* only one when there was nothing to send.
Advance(h) ==
    LET k == hook[h]
    IN  /\ At(h, "advance")
        /\ IF Regression(k) THEN Update(h, Idle) /\ UNCHANGED mark
           ELSE /\ mark' = [mark EXCEPT ![k.src] = [offset |-> k.from, inode |-> k.read]]
                /\ Update(h, [k EXCEPT !.pc = IF k.from < k.to THEN "send" ELSE "complete"])
        /\ UNCHANGED <<file, pending, sent, noted, count>>

-----------------------------------------------------------------------------
(* complete_pending and _replay_one_pending *)

Without(i) == IF i = 0 THEN pending ELSE RemoveAt(pending, i)

\* A locator is forgotten whoever registered it last.
Forgotten_AnyGeneration(k) == Without(RowOf(k.src))
Forgotten(k) == Without(Guarded(k.src, k.gen))

\* Then an own delivery goes on with one replay.
Complete(h) ==
    LET k == hook[h]
    IN  /\ At(h, "complete")
        /\ pending' = IF k.whole THEN Forgotten(k) ELSE pending
        /\ Update(h, IF k.own = k.src THEN [Idle EXCEPT !.pc = "replay", !.own = k.own]
                     ELSE Idle)
        /\ UNCHANGED <<file, mark, sent, noted, count>>

Oldest(own) ==
    SelectInSeq(pending, LAMBDA r : r.session # own /\ r.state = "pending")

Replaying(own, row, pc) == [Delivering(row.session, row) EXCEPT !.pc = pc, !.own = own]

OldestPending(h) ==
    LET own == hook[h].own
        row == pending[Oldest(own)]
    IN  /\ At(h, "replay")
        /\ Update(h, IF Oldest(own) = 0 THEN Idle
                     ELSE Replaying(own, row, IF row.inode = Missing THEN "bind" ELSE "lane"))
        /\ UNCHANGED <<file, mark, pending, sent, noted, count>>

\* bind_missing_pending, guarded on the generation and on an unbound row.
BindMissing(h) ==
    LET k == hook[h]
        i == Guarded(k.src, k.gen)
        bound == Registered(k.src, k.gen + 1)
    IN  /\ At(h, "bind")
        /\ IF file[k.src].inode # Missing /\ i # 0 /\ pending[i].inode = Missing
              /\ pending[i].state = "pending"
           THEN pending' = [pending EXCEPT ![i] = bound] /\ Update(h, Replaying(k.own, bound, "lane"))
           ELSE Update(h, Idle) /\ UNCHANGED pending
        /\ UNCHANGED <<file, mark, sent, noted, count>>

\* The lane does not start, the deadline has passed, or the process dies.
Ends(h) ==
    /\ ~At(h, "idle")
    /\ Update(h, Idle)
    /\ UNCHANGED <<file, mark, pending, sent, noted, count>>

Next ==
    \/ \E s \in Sessions : WriteTurn(s) \/ Change(s)
    \/ \E h \in Hooks :
         \/ \E s \in Sessions : Register(h, s) \/ RegisterMissing(h, s)
         \/ ReadPosition(h) \/ ReadSource(h) \/ ReadNothing(h) \/ ParkChanged(h)
         \/ SendChunk(h) \/ SendFails(h) \/ Advance(h)
         \/ Complete(h) \/ OldestPending(h) \/ BindMissing(h) \/ Ends(h)

Spec == Init /\ [][Next]_cvars

-----------------------------------------------------------------------------
(* Properties *)

\* Reading resumes behind nothing that the server does not have: every record
\* before the watermark of the file that is there was taken, whichever hooks
\* delivered it, died or were overtaken in between.  A file that was emptied in
\* place and grew past its old position again is excepted: nothing tells it
\* from the one that was read.
NothingSkipped ==
    \A s \in Sessions \ count.cut :
        mark[s].inode = file[s].inode /\ file[s].inode # Missing
            => Records(mark[s].offset) \subseteq sent[s]

\* "Forget a locator only after its delivery has acknowledged": a record that
\* was there when its session stopped has been taken, or its locator is there
\* for the session's own hook, or a later one, to deliver.
Kept(s) == RowOf(s) # 0 \/ noted[s] \subseteq sent[s]

\* While the row of a session lives, its generation tells the deliveries of it
\* apart and the locator is kept for what was not acknowledged.  Excepted are
\* a transcript emptied in place, and a session whose row was deleted and
\* inserted again from generation 1: a slow delivery of the old row matches it.
OnlyReuseForgets == \A s \in Sessions \ count.cut : count.rows[s] <= 1 => Kept(s)
=============================================================================
