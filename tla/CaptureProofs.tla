--------------------------- MODULE CaptureProofs ---------------------------
(***************************************************************************)
(* Proofs about Capture for any sessions, any number of overlapping hooks  *)
(* and any batch size: resuming at a watermark skips nothing, and, while   *)
(* the row of a session lives, a locator is forgotten only when what was   *)
(* there at the last Stop has been taken.                                  *)
(*                                                                         *)
(* For the first the queue of locators stays opaque: a hook may replay     *)
(* whatever row it finds.  The second is about the queue.                  *)
(***************************************************************************)
EXTENDS Capture, NaturalsInduction, SequenceTheorems, WellFoundedInduction, TLAPS

\* Records are two bytes long.
Even == {2 * n : n \in Nat}

Fields == DOMAIN Idle

FileType == [inode: Nat, text: Nat \ {0}, size: Nat]
CountType == [stops: Nat, changes: Nat, rows: [Sessions -> Nat], cut: SUBSET Sessions]

Shapes ==
    /\ file \in [Sessions -> FileType]
    /\ DOMAIN mark = Sessions
    /\ DOMAIN hook = Hooks /\ \A h \in Hooks : DOMAIN hook[h] = Fields
    /\ sent \in [Sessions -> SUBSET Nat]
    /\ count \in CountType

Uncut == Sessions \ count.cut

\* A text that was never emptied in place has an inode of its own.
InodeNamesText == \A s \in Uncut : file[s].inode \in {Missing, file[s].text}

\* What holds of a position that was read or written for the transcript f, of
\* which the server took some records: it is of no later text, and what lies
\* before it was taken if it is of this one.
Vouched(f, taken, pos) ==
    /\ pos \in [offset: Even, inode: Nat]
    /\ pos.inode = Missing => pos.offset = 0
    /\ pos.inode <= f.text
    /\ pos.inode = f.inode /\ pos.inode # Missing => Records(pos.offset) \subseteq taken

MarksVouched == \A s \in Uncut : Vouched(file[s], sent[s], mark[s])

\* A hook that is delivering has delivered up to "from" of the text it opened.
Delivered(f, taken, k) ==
    /\ k.from \in Even /\ k.to \in Even
    /\ k.text \in Nat \ {0} /\ k.read = k.text /\ k.text <= f.text
    /\ k.text = f.text => Records(k.from) \subseteq taken

HookVouched(h) ==
    LET k == hook[h]
        s == k.src
    IN  s \in Uncut =>
          /\ k.pc = "read" => Vouched(file[s], sent[s], k.pos)
          /\ k.pc \in {"send", "advance"} => Delivered(file[s], sent[s], k)

HooksVouched == \A h \in Hooks : HookVouched(h)

IInv == Shapes /\ InodeNamesText /\ MarksVouched /\ HooksVouched

LEMMA NoRecords == Records(0) = {} BY DEF Records

LEMMA EvenFacts ==
  /\ 0 \in Even
  /\ \A x \in Even : x \in Nat
  /\ \A x \in Nat : 2 * (x \div 2) \in Even
  /\ \A x \in Even, n \in Nat : x + 2 * n \in Even
<1>1. ASSUME NEW x \in Nat PROVE 2 * (x \div 2) \in Even
  <2>1. x \div 2 \in Nat OBVIOUS
  <2> QED BY <2>1 DEF Even
<1>2. ASSUME NEW x \in Even, NEW n \in Nat PROVE x + 2 * n \in Even
  <2>1. PICK m \in Nat : x = 2 * m BY DEF Even
  <2>2. x + 2 * n = 2 * (m + n) /\ m + n \in Nat BY <2>1
  <2> QED BY <2>2 DEF Even
<1>3. 0 \in Even
  <2>1. 0 = 2 * 0 OBVIOUS
  <2> QED BY <2>1 DEF Even
<1>4. \A x \in Even : x \in Nat BY DEF Even
<1> QED BY <1>1, <1>2, <1>3, <1>4

\* The records of a chunk follow those before it.
LEMMA ChunkFollows ==
  ASSUME NEW from \in Even, NEW end \in Even
  PROVE  \A n \in Records(end) : n \in Records(from) \/ 2 * (n - 1) >= from
<1>1. PICK m \in Nat : from = 2 * m BY DEF Even
<1>2. PICK e \in Nat : end = 2 * e BY DEF Even
<1>3. from \div 2 = m /\ end \div 2 = e BY <1>1, <1>2
<1> QED BY <1>1, <1>3 DEF Records

LEMMA IdleShape ==
  /\ DOMAIN Idle = Fields
  /\ Idle.pc = "idle" /\ Idle.src = Nobody
BY DEF Idle, Fields

LEMMA CountFacts ==
  ASSUME NEW c \in CountType, NEW cut \in SUBSET Sessions, NEW rows \in [Sessions -> Nat]
  PROVE  /\ [c EXCEPT !.changes = @ + 1, !.cut = cut] \in CountType
         /\ [c EXCEPT !.changes = @ + 1, !.cut = cut].cut = cut
         /\ [c EXCEPT !.stops = @ + 1, !.rows = rows] \in CountType
         /\ [c EXCEPT !.stops = @ + 1, !.rows = rows].cut = c.cut
<1>1. /\ DOMAIN c = {"stops", "changes", "rows", "cut"}
      /\ c = [x \in DOMAIN c |-> c[x]]
      /\ c.stops \in Nat /\ c.changes \in Nat /\ c.rows \in [Sessions -> Nat]
      /\ c.cut \in SUBSET Sessions
  BY DEF CountType
<1>2. ASSUME NEW n \in Nat
      PROVE  /\ [c EXCEPT !.changes = n, !.cut = cut] \in CountType
             /\ [c EXCEPT !.changes = n, !.cut = cut].cut = cut
             /\ [c EXCEPT !.stops = n, !.rows = rows] \in CountType
             /\ [c EXCEPT !.stops = n, !.rows = rows].cut = c.cut
  BY <1>1 DEF CountType
<1>3. c.changes + 1 \in Nat /\ c.stops + 1 \in Nat BY <1>1
<1> QED BY <1>2, <1>3

LEMMA BeginningVouched ==
  ASSUME NEW f \in FileType, NEW taken
  PROVE  Vouched(f, taken, Beginning)
BY EvenFacts DEF Vouched, Beginning, Missing, FileType

\* A transcript and what was taken of it, a step later: more was written or
\* taken, or another text with another inode took its place.
Follows(f, taken, g, more) ==
    \/ g.inode = f.inode /\ g.text = f.text /\ taken \subseteq more
    \/ g.text = f.text + 1 /\ g.inode \in {Missing, g.text}

LEMMA StaysVouched ==
  ASSUME NEW f \in FileType, NEW g \in FileType, NEW taken, NEW more,
         Follows(f, taken, g, more), NEW pos, Vouched(f, taken, pos)
  PROVE  Vouched(g, more, pos)
BY DEF Vouched, Follows, FileType, Missing

LEMMA StaysDelivered ==
  ASSUME NEW f \in FileType, NEW g \in FileType, NEW taken, NEW more,
         Follows(f, taken, g, more), NEW k, Delivered(f, taken, k)
  PROVE  Delivered(g, more, k)
BY DEF Delivered, Follows, FileType

LEMMA InitIInv == Init => IInv
<1> SUFFICES ASSUME Init PROVE IInv OBVIOUS
<1>1. Shapes BY EvenFacts, IdleShape DEF Init, Shapes, FileType, CountType, Beginning, Missing
<1>2. InodeNamesText BY DEF Init, InodeNamesText, Uncut
<1>3. MarksVouched
  BY <1>1, BeginningVouched DEF Init, MarksVouched, Uncut, Shapes
<1>4. HooksVouched BY IdleShape DEF Init, HooksVouched, HookVouched
<1> QED BY <1>1, <1>2, <1>3, <1>4 DEF IInv

(***************************************************************************)
(* Steps that leave the hooks and the watermarks alone, and steps of one   *)
(* hook.                                                                   *)
(***************************************************************************)
LEMMA WorldStep ==
  ASSUME IInv, Shapes', Uncut' \subseteq Uncut, UNCHANGED <<mark, hook>>,
         \A s \in Uncut' : Follows(file[s], sent[s], file'[s], sent'[s])
  PROVE  MarksVouched' /\ HooksVouched'
<1>0. Shapes /\ MarksVouched /\ HooksVouched BY DEF IInv
<1>1. \A s \in Uncut' : s \in Uncut /\ file[s] \in FileType /\ file'[s] \in FileType
  BY <1>0 DEF Shapes, Uncut
<1>2. MarksVouched' BY <1>0, <1>1, StaysVouched DEF MarksVouched
<1>3. ASSUME NEW h \in Hooks, hook[h].src \in Uncut'
      PROVE  /\ hook[h].pc = "read" =>
                   Vouched(file'[hook[h].src], sent'[hook[h].src], hook[h].pos)
             /\ hook[h].pc \in {"send", "advance"} =>
                   Delivered(file'[hook[h].src], sent'[hook[h].src], hook[h])
  BY <1>0, <1>1, <1>3, StaysVouched, StaysDelivered DEF HooksVouched, HookVouched
<1>4. HooksVouched' BY <1>3 DEF HooksVouched, HookVouched
<1> QED BY <1>2, <1>4

LEMMA OthersStay ==
  ASSUME IInv, Shapes', UNCHANGED file, count'.cut = count.cut,
         \A s \in Sessions : sent[s] \subseteq sent'[s],
         NEW h \in Hooks, \A g \in Hooks \ {h} : hook'[g] = hook[g]
  PROVE  /\ \A g \in Hooks \ {h} : HookVouched(g)'
         /\ \A s \in Uncut' : Vouched(file'[s], sent'[s], mark[s])
         /\ InodeNamesText'
<1>0. Shapes /\ MarksVouched /\ HooksVouched /\ InodeNamesText BY DEF IInv
<1>1. \A s \in Uncut' : /\ s \in Uncut /\ file[s] \in FileType /\ file'[s] \in FileType
                       /\ Follows(file[s], sent[s], file'[s], sent'[s])
  BY <1>0 DEF Shapes, Uncut, Follows
<1>2. ASSUME NEW g \in Hooks \ {h}, hook[g].src \in Uncut'
      PROVE  /\ hook[g].pc = "read" =>
                   Vouched(file'[hook[g].src], sent'[hook[g].src], hook[g].pos)
             /\ hook[g].pc \in {"send", "advance"} =>
                   Delivered(file'[hook[g].src], sent'[hook[g].src], hook[g])
  BY <1>0, <1>1, <1>2, StaysVouched, StaysDelivered DEF HooksVouched, HookVouched
<1>3. \A g \in Hooks \ {h} : HookVouched(g)' BY <1>2 DEF HookVouched
<1>4. \A s \in Uncut' : Vouched(file'[s], sent'[s], mark[s])
  BY <1>0, <1>1, StaysVouched DEF MarksVouched
<1>5. InodeNamesText' BY <1>0, <1>1 DEF InodeNamesText
<1> QED BY <1>3, <1>4, <1>5

(***************************************************************************)
(* The transcripts.                                                        *)
(***************************************************************************)
LEMMA WriteStep ==
  ASSUME IInv, NEW s \in Sessions, WriteTurn(s)
  PROVE  IInv'
<1>0. Shapes /\ InodeNamesText BY DEF IInv
<1>1. PICK n \in {1, 2} : file' = [file EXCEPT ![s].size = @ + n] BY DEF WriteTurn
<1>2. UNCHANGED <<mark, hook, sent, count>> BY DEF WriteTurn
<1>3. file' \in [Sessions -> FileType] BY <1>0, <1>1 DEF Shapes, FileType
<1>4. \A t \in Sessions : file'[t].inode = file[t].inode /\ file'[t].text = file[t].text
  BY <1>0, <1>1 DEF Shapes, FileType
<1>5. Shapes' BY <1>0, <1>2, <1>3 DEF Shapes
<1>6. InodeNamesText' BY <1>0, <1>2, <1>4 DEF InodeNamesText, Uncut
<1>7. Uncut' \subseteq Uncut /\ \A t \in Uncut' : Follows(file[t], sent[t], file'[t], sent'[t])
  BY <1>2, <1>4 DEF Uncut, Follows
<1>8. MarksVouched' /\ HooksVouched' BY <1>2, <1>5, <1>7, WorldStep
<1> QED BY <1>5, <1>6, <1>8 DEF IInv

LEMMA ChangeStep ==
  ASSUME IInv, NEW s \in Sessions, Change(s)
  PROVE  IInv'
<1>0. Shapes /\ InodeNamesText BY DEF IInv
<1>1. PICK kind \in Changes :
        /\ Changed(s, kind)
        /\ count' = [count EXCEPT !.changes = @ + 1,
                                  !.cut = IF kind = "truncate" THEN @ \cup {s} ELSE @]
  BY DEF Change
<1>2. sent' = [sent EXCEPT ![s] = {}] /\ UNCHANGED <<mark, hook>> BY DEF Change
<1>3. /\ file' \in [Sessions -> FileType]
      /\ \A t \in Sessions \ {s} : file'[t] = file[t]
      /\ file'[s].text = file[s].text + 1
      /\ kind # "truncate" => file'[s].inode \in {Missing, file'[s].text}
  <2> DEFINE text == file[s].text + 1
  <2>0. text \in Nat \ {0} /\ file[s] \in FileType BY <1>0 DEF Shapes, FileType
  <2>1. CASE kind = "replace"
    <3>1. PICK n \in Bytes :
            file' = [file EXCEPT ![s] = [inode |-> text, text |-> text, size |-> n]]
      BY <1>1, <2>1 DEF Changed
    <3>2. n \in Nat BY CaptureAssumption DEF Bytes
    <3> QED BY <1>0, <2>0, <3>1, <3>2 DEF Shapes, FileType
  <2>2. CASE kind = "remove"
    <3>1. file' = [file EXCEPT ![s] = [inode |-> Missing, text |-> text, size |-> 0]]
      BY <1>1, <2>2 DEF Changed
    <3> QED BY <1>0, <2>0, <3>1 DEF Shapes, FileType, Missing
  <2>3. CASE kind = "truncate"
    <3>1. file' = [file EXCEPT ![s].text = text, ![s].size = 0] BY <1>1, <2>3 DEF Changed
    <3> QED BY <1>0, <2>0, <2>3, <3>1 DEF Shapes, FileType
  <2> QED BY <1>1, <2>1, <2>2, <2>3, CaptureAssumption
<1>4. /\ count' \in CountType
      /\ count'.cut = IF kind = "truncate" THEN count.cut \cup {s} ELSE count.cut
  <2> DEFINE cut == IF kind = "truncate" THEN count.cut \cup {s} ELSE count.cut
  <2>1. count \in CountType BY <1>0 DEF Shapes
  <2>2. cut \in SUBSET Sessions BY <2>1 DEF CountType
  <2>3. count' = [count EXCEPT !.changes = @ + 1, !.cut = cut] BY <1>1
  <2> HIDE DEF cut
  <2>4. count' \in CountType /\ count'.cut = cut
    <3>1. count.rows \in [Sessions -> Nat] BY <2>1 DEF CountType
    <3> QED BY <2>1, <2>2, <2>3, <3>1, CountFacts
  <2> QED BY <2>4 DEF cut
<1>5. Shapes' BY <1>0, <1>2, <1>3, <1>4 DEF Shapes
<1>6. Uncut' \subseteq Uncut /\ (s \in Uncut' => kind # "truncate") BY <1>4 DEF Uncut
<1>7. \A t \in Sessions \ {s} : sent'[t] = sent[t] BY <1>0, <1>2 DEF Shapes
<1>8. InodeNamesText' BY <1>0, <1>3, <1>6 DEF InodeNamesText, Uncut
<1>9. \A t \in Uncut' : Follows(file[t], sent[t], file'[t], sent'[t])
  BY <1>3, <1>6, <1>7 DEF Follows, Uncut
<1>10. MarksVouched' /\ HooksVouched' BY <1>2, <1>5, <1>6, <1>9, WorldStep
<1> QED BY <1>5, <1>8, <1>10 DEF IInv

(***************************************************************************)
(* The hooks.                                                              *)
(***************************************************************************)
\* Steps of a hook that leave transcripts, server and watermarks alone.
HookOnly(h) ==
    /\ UNCHANGED <<file, mark, sent>> /\ count'.cut = count.cut /\ count' \in CountType
    /\ DOMAIN hook' = Hooks /\ DOMAIN hook'[h] = Fields
    /\ \A g \in Hooks \ {h} : hook'[g] = hook[g]

LEMMA HookOnlyStep ==
  ASSUME IInv, NEW h \in Hooks, HookOnly(h), HookVouched(h)'
  PROVE  IInv'
<1>1. Shapes' BY DEF IInv, Shapes, HookOnly
<1>2. /\ \A g \in Hooks \ {h} : HookVouched(g)'
      /\ \A s \in Uncut' : Vouched(file'[s], sent'[s], mark[s])
      /\ InodeNamesText'
  BY <1>1, OthersStay DEF HookOnly
<1>3. HooksVouched' /\ MarksVouched' BY <1>2 DEF HooksVouched, MarksVouched, HookOnly
<1> QED BY <1>1, <1>2, <1>3 DEF IInv

\* What Update leaves.
LEMMA Updated ==
  ASSUME Shapes, NEW h \in Hooks, NEW k, hook' = [hook EXCEPT ![h] = k]
  PROVE  /\ DOMAIN hook' = Hooks /\ hook'[h] = k
         /\ \A g \in Hooks \ {h} : hook'[g] = hook[g]
BY DEF Shapes

LEMMA StoppingCounts ==
  ASSUME count \in CountType, NEW h \in Hooks, NEW s \in Sessions, Stopping(h, s)
  PROVE  count' \in CountType /\ count'.cut = count.cut
<1> DEFINE n == IF RowOf(s) = 0 THEN count.rows[s] + 1 ELSE count.rows[s]
           rows == [count.rows EXCEPT ![s] = n]
<1>1. count.rows \in [Sessions -> Nat] BY DEF CountType
<1>2. n \in Nat BY <1>1
<1>3. count' = [count EXCEPT !.stops = @ + 1, !.rows[s] = n] BY DEF Stopping
<1> HIDE DEF n
<1>4. rows \in [Sessions -> Nat] BY <1>1, <1>2
<1>5. count' = [count EXCEPT !.stops = @ + 1, !.rows = rows] BY <1>3
<1>6. count.cut \in SUBSET Sessions BY DEF CountType
<1> HIDE DEF rows
<1> QED BY <1>4, <1>5, <1>6, CountFacts

\* A registration may set the watermark back to the beginning.
LEMMA RegisterStep ==
  ASSUME IInv, NEW h \in Hooks, NEW s \in Sessions, Register(h, s)
  PROVE  IInv'
<1>0. Shapes /\ MarksVouched BY DEF IInv
<1> DEFINE k == Delivering(s, Upserted(s))
<1>1. hook' = [hook EXCEPT ![h] = k] /\ UNCHANGED <<file, sent>> BY DEF Register, Update
<1>2. DOMAIN k = Fields /\ k.pc = "lane" BY DEF Delivering, Idle, Fields
<1> HIDE DEF k
<1>3. count' \in CountType /\ count'.cut = count.cut BY <1>0, StoppingCounts DEF Register, Shapes
<1>4. mark' \in {mark, [mark EXCEPT ![s] = Beginning]} BY DEF Register
<1>6. Shapes' BY <1>0, <1>1, <1>2, <1>3, <1>4, Updated DEF Shapes
<1>7. \A g \in Hooks \ {h} : hook'[g] = hook[g] BY <1>0, <1>1, Updated
<1>8. /\ \A g \in Hooks \ {h} : HookVouched(g)'
      /\ \A t \in Uncut' : Vouched(file'[t], sent'[t], mark[t])
      /\ InodeNamesText'
  BY <1>1, <1>3, <1>6, <1>7, OthersStay
<1>9. MarksVouched'
  <2>1. \A t \in Uncut' : file'[t] \in FileType BY <1>6 DEF Shapes, Uncut
  <2>2. \A t \in Sessions : mark'[t] \in {mark[t], Beginning} BY <1>0, <1>4 DEF Shapes
  <2> QED BY <1>8, <2>1, <2>2, BeginningVouched DEF MarksVouched, Uncut
<1>10. HookVouched(h)' BY <1>0, <1>1, <1>2, Updated DEF HookVouched
<1> QED BY <1>6, <1>8, <1>9, <1>10 DEF IInv, HooksVouched

\* A hook that reads the watermark reads what is vouched for.
LEMMA ReadPositionStep ==
  ASSUME IInv, NEW h \in Hooks, ReadPosition(h)
  PROVE  IInv'
<1>0. Shapes /\ MarksVouched BY DEF IInv
<1> DEFINE k == [hook[h] EXCEPT !.pc = "read", !.pos = mark[hook[h].src]]
<1>1. hook' = [hook EXCEPT ![h] = k] /\ UNCHANGED <<file, mark, sent, count>>
  BY DEF ReadPosition, Update
<1>2. /\ DOMAIN k = Fields /\ k.pc = "read" /\ k.src = hook[h].src
      /\ k.pos = mark[hook[h].src]
  BY <1>0 DEF Shapes, Fields, Idle
<1> HIDE DEF k
<1>3. HookOnly(h) BY <1>0, <1>1, <1>2, Updated DEF HookOnly, Shapes
<1>4. hook'[h] = k BY <1>0, <1>1, Updated
<1>5. HookVouched(h)' BY <1>0, <1>1, <1>2, <1>4 DEF HookVouched, MarksVouched, Uncut
<1> QED BY <1>3, <1>5, HookOnlyStep

\* Where reading starts, everything before was taken: the watermark is of this
\* text, or the start is its beginning.
LEMMA StartIsVouched ==
  ASSUME NEW f \in FileType, f.inode # Missing, NEW taken, NEW pos, Vouched(f, taken, pos)
  PROVE  /\ StartPosition(pos, f) \in Even
         /\ Records(StartPosition(pos, f)) \subseteq taken
<1>1. CASE (pos.inode # Missing /\ pos.inode # f.inode) \/ pos.offset > f.size
  <2>1. StartPosition(pos, f) = 0 BY <1>1 DEF StartPosition
  <2> QED BY <2>1, NoRecords, EvenFacts
<1>2. CASE ~((pos.inode # Missing /\ pos.inode # f.inode) \/ pos.offset > f.size)
  <2>1. StartPosition(pos, f) = pos.offset BY <1>2 DEF StartPosition
  <2>2. CASE pos.inode = Missing BY <2>1, <2>2, NoRecords, EvenFacts DEF Vouched
  <2>3. CASE pos.inode # Missing BY <1>2, <2>1, <2>3 DEF Vouched
  <2> QED BY <2>2, <2>3
<1> QED BY <1>1, <1>2

LEMMA ReadSourceStep ==
  ASSUME IInv, NEW h \in Hooks, ReadSource(h)
  PROVE  IInv'
<1>0. Shapes /\ InodeNamesText /\ HooksVouched BY DEF IInv
<1> DEFINE old == hook[h]
           f == file[old.src]
           start == StartPosition(old.pos, f)
           k == [old EXCEPT
                   !.pc = IF start < Consumed(f) THEN "send" ELSE "advance",
                   !.pos = Beginning, !.text = f.text, !.read = f.inode,
                   !.from = start, !.to = Consumed(f), !.whole = Consumed(f) >= f.size]
<1>1. hook' = [hook EXCEPT ![h] = k] /\ UNCHANGED <<file, mark, sent, count>>
  BY DEF ReadSource, Update
<1>2. old.pc = "read" /\ f.inode # Missing BY DEF ReadSource, At
<1>3. /\ DOMAIN k = Fields /\ k.src = old.src
      /\ k.text = f.text /\ k.read = f.inode /\ k.from = start /\ k.to = Consumed(f)
      /\ k.pc # "read"
  <2> HIDE DEF start, f
  <2> QED BY <1>0 DEF Shapes, Fields, Idle
<1> HIDE DEF k
<1>4. HookOnly(h) BY <1>0, <1>1, <1>3, Updated DEF HookOnly, Shapes
<1>5. hook'[h] = k BY <1>0, <1>1, Updated
<1>6. ASSUME old.src \in Uncut PROVE Delivered(f, sent[old.src], k)
  <2>1. f \in FileType BY <1>0, <1>6 DEF Shapes, Uncut
  <2>2. f.inode = f.text /\ f.text \in Nat \ {0} /\ f.size \in Nat
    BY <1>0, <1>2, <1>6, <2>1 DEF InodeNamesText, FileType
  <2>3. Vouched(f, sent[old.src], old.pos) BY <1>0, <1>2, <1>6 DEF HooksVouched, HookVouched
  <2>4. start \in Even /\ Records(start) \subseteq sent[old.src]
    BY <1>2, <2>1, <2>3, StartIsVouched
  <2>5. Consumed(f) \in Even BY <2>2, EvenFacts DEF Consumed
  <2> HIDE DEF f, start
  <2> QED BY <1>3, <2>2, <2>4, <2>5 DEF Delivered
<1>7. HookVouched(h)' BY <1>1, <1>3, <1>5, <1>6 DEF HookVouched, Uncut
<1> QED BY <1>4, <1>7, HookOnlyStep

\* Between two deliveries a hook remembers nothing that must be vouched for.
LEMMA QuietStep ==
  ASSUME IInv, NEW h \in Hooks, NEW k, DOMAIN k = Fields, k.pc \notin {"read", "send", "advance"},
         hook' = [hook EXCEPT ![h] = k], UNCHANGED <<file, mark, sent, count>>
  PROVE  IInv'
<1>0. Shapes BY DEF IInv
<1>1. HookOnly(h) /\ hook'[h] = k BY <1>0, Updated DEF HookOnly, Shapes
<1>2. HookVouched(h)' BY <1>1 DEF HookVouched
<1> QED BY <1>1, <1>2, HookOnlyStep

LEMMA RegisterMissingStep ==
  ASSUME IInv, NEW h \in Hooks, NEW s \in Sessions, RegisterMissing(h, s)
  PROVE  IInv'
<1>0. Shapes BY DEF IInv
<1> DEFINE k == Delivering(s, pending[RowOf(s)])
<1>1. UNCHANGED <<file, mark, sent>> /\ (UNCHANGED hook \/ hook' = [hook EXCEPT ![h] = k])
  BY DEF RegisterMissing, Update
<1>2. DOMAIN k = Fields /\ k.pc = "lane" BY DEF Delivering, Idle, Fields
<1> HIDE DEF k
<1>3. count' \in CountType /\ count'.cut = count.cut
  BY <1>0, StoppingCounts DEF RegisterMissing, Shapes
<1>4. HookOnly(h) BY <1>0, <1>1, <1>2, <1>3, Updated DEF HookOnly, Shapes
<1>5. HookVouched(h)'
  <2>1. CASE UNCHANGED hook
    BY <1>1, <1>3, <2>1 DEF IInv, HooksVouched, HookVouched, Uncut
  <2>2. CASE hook' = [hook EXCEPT ![h] = k] BY <1>0, <1>2, <2>2, Updated DEF HookVouched
  <2> QED BY <1>1, <2>1, <2>2
<1> QED BY <1>4, <1>5, HookOnlyStep

LEMMA LocatorSteps ==
  ASSUME IInv, NEW h \in Hooks,
         \/ ReadNothing(h) \/ ParkChanged(h) \/ Complete(h)
         \/ OldestPending(h) \/ BindMissing(h) \/ Ends(h)
  PROVE  IInv'
<1>0. Shapes BY DEF IInv
<1>1. UNCHANGED <<file, mark, sent, count>>
  BY DEF ReadNothing, ParkChanged, Complete, OldestPending, BindMissing, Ends
<1>2. \A own, row, pc : /\ DOMAIN Replaying(own, row, pc) = Fields
                        /\ Replaying(own, row, pc).pc = pc
  BY DEF Replaying, Delivering, Idle, Fields
<1>3. \E k : /\ hook' = [hook EXCEPT ![h] = k] /\ DOMAIN k = Fields
             /\ k.pc \notin {"read", "send", "advance"}
  <2>1. CASE ReadNothing(h)
    <3> DEFINE k == [hook[h] EXCEPT !.pc = "complete"]
    <3>1. hook' = [hook EXCEPT ![h] = k] BY <2>1 DEF ReadNothing, Update
    <3>2. DOMAIN k = Fields /\ k.pc = "complete" BY <1>0 DEF Shapes, Fields, Idle
    <3> HIDE DEF k
    <3> QED BY <3>1, <3>2
  <2>2. CASE ParkChanged(h) \/ Ends(h)
    BY <2>2, IdleShape DEF ParkChanged, Ends, Update
  <2>3. CASE Complete(h)
    <3> DEFINE k == [Idle EXCEPT !.pc = "replay", !.own = hook[h].own]
    <3>1. hook' = [hook EXCEPT ![h] = k] \/ hook' = [hook EXCEPT ![h] = Idle]
      BY <2>3 DEF Complete, Update
    <3>2. DOMAIN k = Fields /\ k.pc = "replay" BY DEF Fields, Idle
    <3> HIDE DEF k
    <3> QED BY <3>1, <3>2, IdleShape
  <2>4. CASE OldestPending(h)
    <3>1. \/ hook' = [hook EXCEPT ![h] = Idle]
          \/ \E own, row : \E pc \in {"bind", "lane"} :
                hook' = [hook EXCEPT ![h] = Replaying(own, row, pc)]
      BY <2>4 DEF OldestPending, Update
    <3> QED BY <1>2, <3>1, IdleShape
  <2>5. CASE BindMissing(h)
    <3>1. \/ hook' = [hook EXCEPT ![h] = Idle]
          \/ \E own, row : hook' = [hook EXCEPT ![h] = Replaying(own, row, "lane")]
      BY <2>5 DEF BindMissing, Update
    <3> QED BY <1>2, <3>1, IdleShape
  <2> QED BY <2>1, <2>2, <2>3, <2>4, <2>5
<1> QED BY <1>1, <1>3, QuietStep

\* A chunk extends what was delivered to its end.
LEMMA ChunkTaken ==
  ASSUME Shapes, NEW k, k.src \in Uncut => Delivered(file[k.src], sent[k.src], k)
  PROVE  /\ Taken(k) \in [Sessions -> SUBSET Nat]
         /\ \A s \in Sessions : sent[s] \subseteq Taken(k)[s]
         /\ k.src \in Uncut =>
              /\ ChunkEnd(k) \in Even
              /\ k.text = file[k.src].text => Records(ChunkEnd(k)) \subseteq Taken(k)[k.src]
<1> DEFINE new == {n \in Records(ChunkEnd(k)) : 2 * (n - 1) >= k.from}
<1>1. new \subseteq Nat BY DEF Records
<1>2. sent \in [Sessions -> SUBSET Nat] BY DEF Shapes
<1>3. Taken(k) = IF k.text # file[k.src].text THEN sent
                 ELSE [sent EXCEPT ![k.src] = @ \cup new]
  BY DEF Taken
<1> HIDE DEF new
<1>4. /\ Taken(k) \in [Sessions -> SUBSET Nat]
      /\ \A s \in Sessions : sent[s] \subseteq Taken(k)[s]
  BY <1>1, <1>2, <1>3
<1>5. ASSUME k.src \in Uncut PROVE ChunkEnd(k) \in Even
  <2>1. k.from \in Even /\ k.to \in Even BY <1>5 DEF Delivered
  <2>2. k.from + 2 * Batch \in Even BY <2>1, EvenFacts, CaptureAssumption
  <2> QED BY <2>1, <2>2 DEF ChunkEnd
<1>6. ASSUME k.src \in Uncut, k.text = file[k.src].text
      PROVE  Records(ChunkEnd(k)) \subseteq Taken(k)[k.src]
  <2>1. k.from \in Even /\ Records(k.from) \subseteq sent[k.src] BY <1>6 DEF Delivered
  <2>2. \A n \in Records(ChunkEnd(k)) : n \in Records(k.from) \/ n \in new
    BY <1>5, <1>6, <2>1, ChunkFollows DEF new
  <2>3. Taken(k)[k.src] = sent[k.src] \cup new BY <1>2, <1>3, <1>6 DEF Uncut
  <2> QED BY <2>1, <2>2, <2>3
<1> QED BY <1>4, <1>5, <1>6

LEMMA SendStep ==
  ASSUME IInv, NEW h \in Hooks, SendChunk(h) \/ SendFails(h)
  PROVE  IInv'
<1>0. Shapes /\ HooksVouched BY DEF IInv
<1> DEFINE old == hook[h]
           k == [old EXCEPT !.pc = "advance", !.from = ChunkEnd(old)]
<1>1. UNCHANGED <<file, mark, count>> /\ old.pc = "send"
  BY DEF SendChunk, SendFails, At
<1>2. old.src \in Uncut => Delivered(file[old.src], sent[old.src], old)
  BY <1>0, <1>1 DEF HooksVouched, HookVouched
<1>3. /\ Taken(old) \in [Sessions -> SUBSET Nat]
      /\ \A s \in Sessions : sent[s] \subseteq Taken(old)[s]
      /\ old.src \in Uncut =>
           /\ ChunkEnd(old) \in Even
           /\ old.text = file[old.src].text
                => Records(ChunkEnd(old)) \subseteq Taken(old)[old.src]
  BY <1>0, <1>2, ChunkTaken
<1>4. sent' \in [Sessions -> SUBSET Nat] /\ \A s \in Sessions : sent[s] \subseteq sent'[s]
  BY <1>0, <1>3 DEF SendChunk, SendFails, Shapes
<1>5. /\ DOMAIN k = Fields /\ k.pc = "advance" /\ k.from = ChunkEnd(old)
      /\ k.src = old.src /\ k.to = old.to /\ k.text = old.text /\ k.read = old.read
  BY <1>0 DEF Shapes, Fields, Idle
<1>6. \/ hook' = [hook EXCEPT ![h] = Idle]
      \/ hook' = [hook EXCEPT ![h] = k] /\ sent' = Taken(old)
  BY DEF SendChunk, SendFails, Update
<1> HIDE DEF k
<1>7. Shapes' BY <1>0, <1>1, <1>4, <1>5, <1>6, IdleShape, Updated DEF Shapes
<1>8. \A g \in Hooks \ {h} : hook'[g] = hook[g] BY <1>0, <1>6, Updated
<1>9. /\ \A g \in Hooks \ {h} : HookVouched(g)'
      /\ \A t \in Uncut' : Vouched(file'[t], sent'[t], mark[t])
      /\ InodeNamesText'
  BY <1>1, <1>4, <1>7, <1>8, OthersStay
<1>10. HookVouched(h)'
  <2>1. CASE hook' = [hook EXCEPT ![h] = Idle]
    BY <1>0, <2>1, IdleShape, Updated DEF HookVouched
  <2>2. CASE hook' = [hook EXCEPT ![h] = k] /\ sent' = Taken(old)
    <3>1. hook'[h] = k BY <1>0, <2>2, Updated
    <3>2. old.src \in Uncut => Delivered(file[old.src], Taken(old)[old.src], k)
      BY <1>2, <1>3, <1>5 DEF Delivered
    <3> QED BY <1>1, <1>5, <2>2, <3>1, <3>2 DEF HookVouched, Uncut
  <2> QED BY <1>6, <2>1, <2>2
<1> QED BY <1>1, <1>7, <1>9, <1>10 DEF IInv, HooksVouched, MarksVouched

\* The watermark moves to the end of what was delivered.
LEMMA AdvanceStep ==
  ASSUME IInv, NEW h \in Hooks, Advance(h)
  PROVE  IInv'
<1>0. Shapes /\ HooksVouched /\ MarksVouched /\ InodeNamesText BY DEF IInv
<1> DEFINE old == hook[h]
           pc == IF old.from < old.to THEN "send" ELSE "complete"
           k == [old EXCEPT !.pc = pc]
           pos == [offset |-> old.from, inode |-> old.read]
<1>1. UNCHANGED <<file, sent, count>> /\ old.pc = "advance" BY DEF Advance, At
<1>2. \/ hook' = [hook EXCEPT ![h] = Idle] /\ UNCHANGED mark
      \/ hook' = [hook EXCEPT ![h] = k] /\ mark' = [mark EXCEPT ![old.src] = pos]
  BY DEF Advance, Update
<1>3. CASE hook' = [hook EXCEPT ![h] = Idle] /\ UNCHANGED mark
  BY <1>1, <1>3, IdleShape, QuietStep
<1>4. CASE hook' = [hook EXCEPT ![h] = k] /\ mark' = [mark EXCEPT ![old.src] = pos]
  <2>1. old.src \in Uncut => Delivered(file[old.src], sent[old.src], old)
    BY <1>0, <1>1 DEF HooksVouched, HookVouched
  <2>2. /\ DOMAIN k = Fields /\ k.pc # "read" /\ k.from = old.from /\ k.src = old.src
        /\ k.to = old.to /\ k.text = old.text /\ k.read = old.read
    BY <1>0 DEF Shapes, Fields, Idle
  <2>3. HookVouched(h)'
    <3>1. hook'[h] = k BY <1>0, <1>4, Updated
    <3>2. old.src \in Uncut => Delivered(file[old.src], sent[old.src], k)
      BY <2>1, <2>2 DEF Delivered
    <3> HIDE DEF k
    <3> QED BY <1>1, <2>2, <3>1, <3>2 DEF HookVouched, Uncut
  <2>4. old.src \in Uncut => Vouched(file[old.src], sent[old.src], pos)
    <3> SUFFICES ASSUME old.src \in Uncut PROVE Vouched(file[old.src], sent[old.src], pos)
      OBVIOUS
    <3>1. Delivered(file[old.src], sent[old.src], old) BY <2>1
    <3>2. file[old.src].inode \in {0, file[old.src].text} BY <1>0 DEF InodeNamesText, Missing
    <3>3. /\ pos \in [offset: Even, inode: Nat] /\ pos.inode # 0
          /\ pos.inode = old.text /\ pos.offset = old.from
      BY <3>1 DEF Delivered
    <3> HIDE DEF pos
    <3> QED BY <3>1, <3>2, <3>3 DEF Delivered, Vouched, Missing
  <2>5. MarksVouched'
    <3>1. \A s \in Sessions \ {old.src} : mark'[s] = mark[s] BY <1>0, <1>4 DEF Shapes
    <3>2. old.src \in Sessions => mark'[old.src] = pos BY <1>0, <1>4 DEF Shapes
    <3> HIDE DEF pos
    <3> QED BY <1>0, <1>1, <2>4, <3>1, <3>2 DEF MarksVouched, Uncut
  <2>6. Shapes' BY <1>0, <1>1, <1>4, <2>2, Updated DEF Shapes
  <2>7. \A g \in Hooks \ {h} : hook'[g] = hook[g] BY <1>0, <1>4, Updated
  <2>8. (\A g \in Hooks \ {h} : HookVouched(g)') /\ InodeNamesText'
    BY <1>1, <2>6, <2>7, OthersStay
  <2> QED BY <2>3, <2>5, <2>6, <2>8 DEF IInv, HooksVouched
<1> QED BY <1>2, <1>3, <1>4

LEMMA Inductive == Spec => []IInv
<1>1. Init => IInv BY InitIInv
<1>2. IInv /\ [Next]_cvars => IInv'
  <2> SUFFICES ASSUME IInv, [Next]_cvars PROVE IInv' OBVIOUS
  <2>1. ASSUME NEW s \in Sessions, WriteTurn(s) \/ Change(s) PROVE IInv'
    BY <2>1, WriteStep, ChangeStep
  <2>2. ASSUME NEW h \in Hooks, NEW s \in Sessions, Register(h, s) \/ RegisterMissing(h, s)
        PROVE  IInv'
    BY <2>2, RegisterStep, RegisterMissingStep
  <2>3. ASSUME NEW h \in Hooks, ReadPosition(h) \/ ReadSource(h) PROVE IInv'
    BY <2>3, ReadPositionStep, ReadSourceStep
  <2>4. ASSUME NEW h \in Hooks, SendChunk(h) \/ SendFails(h) \/ Advance(h) PROVE IInv'
    BY <2>4, SendStep, AdvanceStep
  <2>5. ASSUME NEW h \in Hooks,
               \/ ReadNothing(h) \/ ParkChanged(h) \/ Complete(h)
               \/ OldestPending(h) \/ BindMissing(h) \/ Ends(h)
        PROVE  IInv'
    BY <2>5, LocatorSteps
  <2>6. CASE UNCHANGED cvars
    BY <2>6 DEF cvars, IInv, Shapes, InodeNamesText, MarksVouched, HooksVouched, HookVouched,
                Uncut
  <2> QED BY <2>1, <2>2, <2>3, <2>4, <2>5, <2>6 DEF Next
<1> QED BY <1>1, <1>2, PTL DEF Spec

\* Whichever hooks delivered a transcript, died or were overtaken in between,
\* every record before the watermark of the file that is there was taken.
THEOREM ResumesBehindTaken == Spec => []NothingSkipped
<1>1. IInv => NothingSkipped
  BY DEF IInv, MarksVouched, Vouched, NothingSkipped, Uncut
<1> QED BY <1>1, Inductive, PTL

(***************************************************************************)
(* The queue of locators.                                                  *)
(***************************************************************************)
Row == [session: Sessions, inode: Nat, size: Nat, state: {"pending", "source_changed"}, gen: Nat]

RowsUnique(p) == \A i, j \in DOMAIN p : p[i].session = p[j].session => i = j

\* The locator of s is there; it is there with this generation.
Has(p, s) == \E i \in DOMAIN p : p[i].session = s
Holds(p, s, gen) == \E i \in DOMAIN p : p[i].session = s /\ p[i].gen = gen

LEMMA MinIsMember ==
  ASSUME NEW S \in SUBSET Nat, S # {}
  PROVE  Min(S) \in S
<1> DEFINE R == OpToRel(<, Nat)
<1>1. IsWellFoundedOn(R, Nat) BY NatLessThanWellFounded
<1>2. \A x, y \in Nat : x < y => <<x, y>> \in R BY DEF OpToRel
<1> HIDE DEF R
<1>3. PICK m \in S : \A k \in S : <<k, m>> \notin R BY <1>1, WFMin
<1>4. \A k \in S : m <= k
  <2>1. m \in Nat /\ \A k \in S : k \in Nat OBVIOUS
  <2>2. \A k \in S : ~(k < m) BY <1>2, <1>3, <2>1
  <2> QED BY <2>1, <2>2
<1> QED BY <1>4 DEF Min

LEMMA FirstOf ==
  ASSUME NEW n \in Nat, NEW I \in SUBSET (1 .. n), NEW i, i = IF I # {} THEN Min(I) ELSE 0
  PROVE  (i = 0 <=> I = {}) /\ (i # 0 => i \in I)
<1>1. CASE I = {} BY <1>1
<1>2. CASE I # {}
  <2>1. I \in SUBSET Nat /\ 0 \notin I OBVIOUS
  <2>2. Min(I) \in I BY <1>2, <2>1, MinIsMember
  <2> QED BY <1>2, <2>1, <2>2
<1> QED BY <1>1, <1>2

LEMMA RowFound ==
  ASSUME pending \in Seq(Row), NEW s
  PROVE  /\ RowOf(s) = 0 <=> ~Has(pending, s)
         /\ RowOf(s) # 0 => RowOf(s) \in DOMAIN pending /\ pending[RowOf(s)].session = s
<1> DEFINE I == {i \in 1 .. Len(pending) : pending[i].session = s}
<1>1. Len(pending) \in Nat /\ DOMAIN pending = 1 .. Len(pending) OBVIOUS
<1>2. RowOf(s) = IF I # {} THEN Min(I) ELSE 0 BY DEF RowOf, SelectInSeq
<1>3. (RowOf(s) = 0 <=> I = {}) /\ (RowOf(s) # 0 => RowOf(s) \in I)
  <2> HIDE DEF I
  <2>1. I \in SUBSET (1 .. Len(pending)) BY DEF I
  <2> QED BY <1>1, <1>2, <2>1, FirstOf
<1> QED BY <1>1, <1>3 DEF Has

LEMMA GuardedFound ==
  ASSUME pending \in Seq(Row), NEW s, NEW gen
  PROVE  /\ Guarded(s, gen) = 0 <=> ~Holds(pending, s, gen)
         /\ Guarded(s, gen) # 0 => /\ Guarded(s, gen) \in DOMAIN pending
                                   /\ pending[Guarded(s, gen)].session = s
                                   /\ pending[Guarded(s, gen)].gen = gen
<1> DEFINE I == {i \in 1 .. Len(pending) : pending[i].session = s /\ pending[i].gen = gen}
<1>1. Len(pending) \in Nat /\ DOMAIN pending = 1 .. Len(pending) OBVIOUS
<1>2. Guarded(s, gen) = IF I # {} THEN Min(I) ELSE 0 BY DEF Guarded, SelectInSeq
<1>3. /\ Guarded(s, gen) = 0 <=> I = {}
      /\ Guarded(s, gen) # 0 => Guarded(s, gen) \in I
  <2> HIDE DEF I
  <2>1. I \in SUBSET (1 .. Len(pending)) BY DEF I
  <2> QED BY <1>1, <1>2, <2>1, FirstOf
<1> QED BY <1>1, <1>3 DEF Holds

LEMMA OldestFound ==
  ASSUME pending \in Seq(Row), NEW own, Oldest(own) # 0
  PROVE  Oldest(own) \in DOMAIN pending
<1> DEFINE I == {i \in 1 .. Len(pending) :
                   pending[i].session # own /\ pending[i].state = "pending"}
<1>1. Len(pending) \in Nat /\ DOMAIN pending = 1 .. Len(pending) OBVIOUS
<1>2. Oldest(own) = IF I # {} THEN Min(I) ELSE 0 BY DEF Oldest, SelectInSeq
<1>3. Oldest(own) \in I
  <2> HIDE DEF I
  <2>1. I \in SUBSET (1 .. Len(pending)) BY DEF I
  <2> QED BY <1>1, <1>2, <2>1, FirstOf
<1> QED BY <1>1, <1>3

\* A row written over another of its session.
LEMMA RowReplaced ==
  ASSUME NEW p \in Seq(Row), RowsUnique(p), NEW i \in DOMAIN p,
         NEW r \in Row, r.session = p[i].session
  PROVE  LET q == [p EXCEPT ![i] = r]
         IN  /\ q \in Seq(Row) /\ RowsUnique(q)
             /\ \A t : Has(q, t) <=> Has(p, t)
             /\ \A t, gen : Holds(q, t, gen) <=>
                   IF t = r.session THEN gen = r.gen ELSE Holds(p, t, gen)
<1> DEFINE q == [p EXCEPT ![i] = r]
<1>1. q \in Seq(Row) /\ DOMAIN q = DOMAIN p /\ q[i] = r /\ \A j \in DOMAIN p \ {i} : q[j] = p[j]
  OBVIOUS
<1>2. \A j \in DOMAIN p : q[j].session = p[j].session BY <1>1
<1>3. RowsUnique(q) BY <1>1, <1>2 DEF RowsUnique
<1> HIDE DEF q
<1>4. \A t : Has(q, t) <=> Has(p, t) BY <1>1, <1>2 DEF Has
<1>5. \A t, gen : Holds(q, t, gen) <=> IF t = r.session THEN gen = r.gen ELSE Holds(p, t, gen)
  BY <1>1, <1>2, <1>3 DEF Holds, RowsUnique
<1> QED BY <1>1, <1>3, <1>4, <1>5 DEF q

LEMMA RowAppended ==
  ASSUME NEW p \in Seq(Row), RowsUnique(p), NEW r \in Row, ~Has(p, r.session)
  PROVE  LET q == Append(p, r)
         IN  /\ q \in Seq(Row) /\ RowsUnique(q)
             /\ \A t : Has(q, t) <=> Has(p, t) \/ t = r.session
             /\ \A t, gen : Holds(q, t, gen) <=>
                   IF t = r.session THEN gen = r.gen ELSE Holds(p, t, gen)
<1> DEFINE q == Append(p, r)
<1>1. /\ q \in Seq(Row) /\ DOMAIN q = DOMAIN p \cup {Len(p) + 1} /\ Len(p) + 1 \notin DOMAIN p
      /\ q[Len(p) + 1] = r /\ \A j \in DOMAIN p : q[j] = p[j]
  OBVIOUS
<1> HIDE DEF q
<1>2. \A j \in DOMAIN p : p[j].session # r.session BY DEF Has
<1>3. RowsUnique(q) BY <1>1, <1>2 DEF RowsUnique
<1>4. \A t : Has(q, t) <=> Has(p, t) \/ t = r.session BY <1>1 DEF Has
<1>5. \A t, gen : Holds(q, t, gen) <=> IF t = r.session THEN gen = r.gen ELSE Holds(p, t, gen)
  BY <1>1, <1>2 DEF Holds
<1> QED BY <1>1, <1>3, <1>4, <1>5 DEF q

LEMMA RowRemoved ==
  ASSUME NEW p \in Seq(Row), RowsUnique(p), NEW i \in DOMAIN p
  PROVE  LET q == RemoveAt(p, i)
         IN  /\ q \in Seq(Row) /\ RowsUnique(q)
             /\ \A t : Has(q, t) <=> Has(p, t) /\ t # p[i].session
             /\ \A t, gen : Holds(q, t, gen) <=> Holds(p, t, gen) /\ t # p[i].session
<1> DEFINE q == RemoveAt(p, i)
           At2(j) == IF j < i THEN j ELSE j + 1
<1>1. /\ q \in Seq(Row) /\ Len(q) = Len(p) - 1
      /\ \A j \in 1 .. Len(p) - 1 : q[j] = IF j < i THEN p[j] ELSE p[j + 1]
  <2> DEFINE a == SubSeq(p, 1, i - 1)
             b == SubSeq(p, i + 1, Len(p))
  <2>1. i \in 1 .. Len(p) /\ Len(p) \in Nat OBVIOUS
  <2>2. a \in Seq(Row) /\ Len(a) = i - 1 /\ \A j \in 1 .. i - 1 : a[j] = p[j] BY <2>1
  <2>3. b \in Seq(Row) /\ Len(b) = Len(p) - i /\ \A j \in 1 .. Len(p) - i : b[j] = p[j + i]
    BY <2>1
  <2>4. q = a \o b BY DEF RemoveAt
  <2> HIDE DEF a, b, q
  <2>5. q \in Seq(Row) /\ Len(q) = Len(p) - 1 BY <2>1, <2>2, <2>3, <2>4
  <2>6. \A j \in 1 .. Len(a) + Len(b) : q[j] = IF j <= Len(a) THEN a[j] ELSE b[j - Len(a)]
    <3>1. a \in Seq(Row) /\ b \in Seq(Row) BY <2>2, <2>3
    <3> QED BY <2>4, <3>1, ConcatProperties
  <2>7. ASSUME NEW j \in 1 .. Len(p) - 1 PROVE q[j] = IF j < i THEN p[j] ELSE p[j + 1]
    <3>1. j \in 1 .. Len(a) + Len(b) BY <2>1, <2>2, <2>3
    <3>2. CASE j < i
      <4>1. j <= Len(a) /\ j \in 1 .. i - 1 BY <2>1, <2>2, <3>2
      <4> QED BY <2>2, <2>6, <3>1, <3>2, <4>1
    <3>3. CASE ~(j < i)
      <4>1. ~(j <= Len(a)) /\ j - Len(a) \in 1 .. Len(p) - i /\ (j - Len(a)) + i = j + 1
        BY <2>1, <2>2, <3>3
      <4> QED BY <2>3, <2>6, <3>1, <3>3, <4>1
    <3> QED BY <3>2, <3>3
  <2> QED BY <2>5, <2>7
<1>2. DOMAIN q = 1 .. Len(p) - 1 /\ DOMAIN p = 1 .. Len(p) BY <1>1
<1> HIDE DEF q
<1>3. \A j \in DOMAIN q : At2(j) \in DOMAIN p \ {i} /\ q[j] = p[At2(j)] BY <1>1, <1>2
<1>4. \A j, k \in DOMAIN q : At2(j) = At2(k) => j = k BY <1>2
<1>5. \A k \in DOMAIN p \ {i} : \E j \in DOMAIN q : At2(j) = k
  <2> SUFFICES ASSUME NEW k \in DOMAIN p \ {i} PROVE \E j \in DOMAIN q : At2(j) = k OBVIOUS
  <2>1. CASE k < i
    <3>1. k \in DOMAIN q /\ At2(k) = k BY <1>2, <2>1
    <3> QED BY <3>1
  <2>2. CASE k > i
    <3>1. k - 1 \in DOMAIN q /\ At2(k - 1) = k BY <1>2, <2>2
    <3> QED BY <3>1
  <2> QED BY <1>2, <2>1, <2>2
<1> HIDE DEF At2
<1>6. RowsUnique(q) BY <1>3, <1>4 DEF RowsUnique
<1>7. \A k \in DOMAIN p : p[k].session = p[i].session <=> k = i BY DEF RowsUnique
<1>8. \A t : Has(q, t) <=> Has(p, t) /\ t # p[i].session BY <1>3, <1>5, <1>7 DEF Has
<1>9. \A t, gen : Holds(q, t, gen) <=> Holds(p, t, gen) /\ t # p[i].session
  BY <1>3, <1>5, <1>7 DEF Holds
<1> QED BY <1>1, <1>6, <1>8, <1>9 DEF q

(***************************************************************************)
(* What a delivery takes before it forgets its locator.                    *)
(***************************************************************************)
\* A hook that has a locator in hand.
Delivers(k) == k.pc \in {"lane", "read", "bind", "send", "advance", "complete"}

RowsOK ==
    /\ pending \in Seq(Row) /\ RowsUnique(pending)
    /\ \A s \in Sessions : Has(pending, s) => count.rows[s] >= 1

NotedOK ==
    /\ noted \in [Sessions -> SUBSET Nat]
    /\ \A s \in Sessions : noted[s] \subseteq Records(file[s].size)

\* The generation a hook was given is no later than that of the row, which
\* grows as long as the row lives.
GenOK(h) ==
    LET k == hook[h]
    IN  Delivers(k) =>
          /\ k.src \in Sessions /\ k.gen \in Nat /\ count.rows[k.src] >= 1
          /\ count.rows[k.src] = 1 =>
                \A gen \in Nat : Holds(pending, k.src, gen) => k.gen <= gen

\* While its locator is not registered again, a delivery takes what was noted,
\* and only one that read the file to its end may forget the locator.
TakesNoted(h) ==
    LET k == hook[h]
        s == k.src
    IN  Delivers(k) =>
          /\ k.pc \in {"lane", "read", "bind"} => ~k.whole
          /\ s \in Uncut /\ count.rows[s] = 1 /\ Holds(pending, s, k.gen) =>
               /\ k.pc \in {"send", "advance"} =>
                     /\ noted[s] \subseteq Records(k.to)
                     /\ k.text # file[s].text => noted[s] = {}
               /\ k.pc = "complete" /\ k.whole => noted[s] \subseteq sent[s]

HandOK(h) == GenOK(h) /\ TakesNoted(h)

KeptOK == \A s \in Uncut : count.rows[s] <= 1 => Has(pending, s) \/ noted[s] \subseteq sent[s]

LInv == RowsOK /\ NotedOK /\ KeptOK /\ \A h \in Hooks : HandOK(h)

\* What was noted of s is still what it was, or nothing is.
Same(s) ==
    \/ noted'[s] = {}
    \/ noted'[s] = noted[s] /\ sent[s] \subseteq sent'[s] /\ file'[s].text = file[s].text

\* A row that lives on keeps its generation, or gets a later one.
QueueMoves ==
    \A s \in Sessions :
        /\ count'.rows[s] >= count.rows[s]
        /\ \A gen \in Nat :
              count.rows[s] = 1 /\ count'.rows[s] = 1 /\ Holds(pending', s, gen) =>
                  \E old \in Nat :
                      /\ old <= gen /\ Holds(pending, s, old)
                      /\ old = gen => Same(s)

LEMMA RowCounts == ASSUME Shapes PROVE \A s \in Sessions : count.rows[s] \in Nat
BY DEF Shapes, CountType

LEMMA OthersHand ==
  ASSUME IInv, IInv', LInv, Uncut' \subseteq Uncut, QueueMoves,
         NEW g \in Hooks, hook'[g] = hook[g]
  PROVE  HandOK(g)'
<1> DEFINE k == hook[g]
           s == k.src
<1> SUFFICES ASSUME Delivers(k) PROVE HandOK(g)' BY DEF HandOK, GenOK, TakesNoted
<1>1. HandOK(g) BY DEF LInv
<1>2. s \in Sessions /\ k.gen \in Nat /\ count.rows[s] >= 1 BY <1>1 DEF HandOK, GenOK
<1>3. count.rows[s] \in Nat /\ count'.rows[s] \in Nat /\ count'.rows[s] >= count.rows[s]
  BY <1>2, RowCounts DEF IInv, Shapes, CountType, QueueMoves
<1>4. count'.rows[s] = 1 => count.rows[s] = 1 BY <1>2, <1>3
<1>5. ASSUME count'.rows[s] = 1, NEW gen \in Nat, Holds(pending', s, gen)
      PROVE  k.gen <= gen /\ (k.gen = gen => Holds(pending, s, gen) /\ Same(s))
  <2>1. PICK old \in Nat : /\ old <= gen /\ Holds(pending, s, old)
                           /\ old = gen => Same(s)
    BY <1>2, <1>4, <1>5 DEF QueueMoves
  <2>2. k.gen <= old BY <1>1, <1>4, <1>5, <2>1 DEF HandOK, GenOK
  <2> QED BY <1>2, <2>1, <2>2
<1>6. GenOK(g)' BY <1>2, <1>3, <1>5 DEF GenOK
<1>7. TakesNoted(g)'
  <2>1. k.pc \in {"lane", "read", "bind"} => ~k.whole BY <1>1 DEF HandOK, TakesNoted
  <2>2. ASSUME s \in Uncut', count'.rows[s] = 1, Holds(pending', s, k.gen)
        PROVE  /\ k.pc \in {"send", "advance"} =>
                     /\ noted'[s] \subseteq Records(k.to)
                     /\ k.text # file'[s].text => noted'[s] = {}
               /\ k.pc = "complete" /\ k.whole => noted'[s] \subseteq sent'[s]
    <3>1. Holds(pending, s, k.gen) /\ Same(s) BY <1>2, <1>5, <2>2
    <3>2. /\ k.pc \in {"send", "advance"} =>
                /\ noted[s] \subseteq Records(k.to)
                /\ k.text # file[s].text => noted[s] = {}
          /\ k.pc = "complete" /\ k.whole => noted[s] \subseteq sent[s]
      BY <1>1, <1>4, <2>2, <3>1 DEF HandOK, TakesNoted
    <3> QED BY <3>1, <3>2 DEF Same
  <2> QED BY <2>1, <2>2 DEF TakesNoted
<1> QED BY <1>6, <1>7 DEF HandOK

LEMMA KeptSame ==
  ASSUME IInv, IInv', LInv, Uncut' \subseteq Uncut, QueueMoves,
         \A s \in Uncut' : count'.rows[s] <= 1 =>
            \/ Has(pending', s)
            \/ Same(s) /\ ~Has(pending, s)
            \/ noted'[s] \subseteq sent'[s]
  PROVE  KeptOK'
<1> SUFFICES ASSUME NEW s \in Uncut', count'.rows[s] <= 1, ~Has(pending', s),
                    Same(s), ~Has(pending, s)
             PROVE  noted'[s] \subseteq sent'[s]
  BY DEF KeptOK
<1>1. s \in Uncut /\ s \in Sessions BY DEF Uncut
<1>2. count.rows[s] <= 1 BY <1>1, RowCounts DEF QueueMoves, IInv, Shapes, CountType
<1>3. noted[s] \subseteq sent[s] BY <1>1, <1>2 DEF LInv, KeptOK
<1> QED BY <1>3 DEF Same

\* Steps of a hook that leave the queue, the notes and the files alone.
LEMMA QueueStays ==
  ASSUME IInv, IInv', LInv, UNCHANGED <<file, pending, noted, count>>,
         \A s \in Sessions : sent[s] \subseteq sent'[s],
         NEW h \in Hooks, \A g \in Hooks \ {h} : hook'[g] = hook[g], HandOK(h)'
  PROVE  LInv'
<1>1. Uncut' = Uncut BY DEF Uncut
<1>2. \A s \in Sessions : Same(s) BY DEF Same
<1>3. QueueMoves BY <1>2, RowCounts DEF QueueMoves, IInv
<1>4. RowsOK' /\ NotedOK' BY DEF LInv, RowsOK, NotedOK
<1>5. KeptOK' BY <1>1, <1>2, <1>3, KeptSame DEF Uncut
<1>6. \A g \in Hooks \ {h} : HandOK(g)' BY <1>1, <1>3, OthersHand
<1> QED BY <1>4, <1>5, <1>6 DEF LInv

LEMMA EmptyHand ==
  ASSUME NEW h \in Hooks, ~Delivers(hook'[h])
  PROVE  HandOK(h)'
BY DEF HandOK, GenOK, TakesNoted

LEMMA InitLInv == ASSUME Init PROVE LInv
<1>1. pending = <<>> /\ DOMAIN pending = {} BY DEF Init
<1>2. RowsOK BY <1>1 DEF RowsOK, RowsUnique, Has
<1>3. NotedOK /\ KeptOK BY DEF Init, NotedOK, KeptOK, Uncut
<1>4. \A h \in Hooks : HandOK(h)
  BY IdleShape DEF Init, HandOK, GenOK, TakesNoted, Delivers
<1> QED BY <1>2, <1>3, <1>4 DEF LInv

LEMMA RecordsGrow ==
  ASSUME NEW m \in Nat, NEW n \in Nat, m <= n
  PROVE  Records(m) \subseteq Records(n)
BY DEF Records

LEMMA WorldLocators ==
  ASSUME IInv, IInv', LInv, NEW s \in Sessions, WriteTurn(s) \/ Change(s)
  PROVE  LInv'
<1>0. Shapes /\ Shapes' /\ NotedOK BY DEF IInv, LInv
<1>1. UNCHANGED <<pending, hook>> /\ count'.rows = count.rows /\ count.cut \subseteq count'.cut
  <2>1. count \in CountType BY <1>0 DEF Shapes
  <2>2. CASE WriteTurn(s) BY <2>2 DEF WriteTurn
  <2>3. CASE Change(s)
    <3>1. PICK cut : count' = [count EXCEPT !.changes = @ + 1, !.cut = cut]
                     /\ count.cut \subseteq cut
      BY <2>3 DEF Change
    <3>2. count'.rows = count.rows /\ count'.cut = cut BY <2>1, <3>1 DEF CountType
    <3> QED BY <2>3, <3>1, <3>2 DEF Change
  <2> QED BY <2>2, <2>3
<1>2. Uncut' \subseteq Uncut BY <1>1 DEF Uncut
<1>3. /\ \A t \in Sessions : Same(t)
      /\ NotedOK'
  <2>1. CASE WriteTurn(s)
    <3>1. PICK n \in {1, 2} : file' = [file EXCEPT ![s].size = @ + n] BY <2>1 DEF WriteTurn
    <3>2. /\ \A t \in Sessions : file'[t].text = file[t].text
          /\ \A t \in Sessions : file[t].size \in Nat /\ file'[t].size \in Nat
          /\ \A t \in Sessions : file[t].size <= file'[t].size
      BY <1>0, <3>1 DEF Shapes, FileType
    <3>3. UNCHANGED <<noted, sent>> BY <2>1 DEF WriteTurn
    <3>4. \A t \in Sessions : noted'[t] \subseteq Records(file'[t].size)
      BY <1>0, <3>2, <3>3, RecordsGrow DEF NotedOK
    <3> QED BY <1>0, <3>2, <3>3, <3>4 DEF Same, NotedOK
  <2>2. CASE Change(s)
    <3>1. noted' = [noted EXCEPT ![s] = {}] /\ sent' = [sent EXCEPT ![s] = {}]
      BY <2>2 DEF Change
    <3>2. \A t \in Sessions \ {s} : file'[t] = file[t]
      BY <1>0, <2>2 DEF Change, Changed, Shapes
    <3>3. /\ noted' \in [Sessions -> SUBSET Nat] /\ noted'[s] = {}
          /\ \A t \in Sessions \ {s} : noted'[t] = noted[t] /\ sent'[t] = sent[t]
      BY <1>0, <3>1 DEF NotedOK, Shapes
    <3> QED BY <1>0, <3>2, <3>3 DEF Same, NotedOK
  <2> QED BY <2>1, <2>2
<1>4. QueueMoves BY <1>0, <1>1, <1>3, RowCounts DEF QueueMoves
<1>5. RowsOK' BY <1>1 DEF LInv, RowsOK
<1>6. KeptOK'
  <2>1. \A t \in Uncut' : Same(t) BY <1>3 DEF Uncut
  <2> QED BY <1>1, <1>2, <1>4, <2>1, KeptSame
<1>7. \A g \in Hooks : HandOK(g)' BY <1>1, <1>2, <1>4, OthersHand
<1> QED BY <1>3, <1>5, <1>6, <1>7 DEF LInv

\* A delivery that goes on with the locator it has.
LEMMA HandGoesOn ==
  ASSUME LInv, UNCHANGED <<pending, count>>, NEW h \in Hooks, Delivers(hook[h]),
         hook'[h].src = hook[h].src, hook'[h].gen = hook[h].gen, TakesNoted(h)'
  PROVE  HandOK(h)'
<1>1. GenOK(h) BY DEF LInv, HandOK
<1>2. GenOK(h)' BY <1>1 DEF GenOK
<1> QED BY <1>2 DEF HandOK

LEMMA ReadPositionLocators ==
  ASSUME IInv, IInv', LInv, NEW h \in Hooks, ReadPosition(h)
  PROVE  LInv'
<1>0. Shapes BY DEF IInv
<1> DEFINE k == [hook[h] EXCEPT !.pc = "read", !.pos = mark[hook[h].src]]
<1>1. hook' = [hook EXCEPT ![h] = k] /\ UNCHANGED <<file, pending, sent, noted, count>>
  BY DEF ReadPosition, Update
<1>2. hook[h].pc = "lane" BY DEF ReadPosition, At
<1>3. k.pc = "read" /\ k.src = hook[h].src /\ k.gen = hook[h].gen /\ k.whole = hook[h].whole
  BY <1>0 DEF Shapes, Fields, Idle
<1> HIDE DEF k
<1>4. hook'[h] = k /\ \A g \in Hooks \ {h} : hook'[g] = hook[g] BY <1>0, <1>1, Updated
<1>5. Delivers(hook[h]) /\ TakesNoted(h) BY <1>2 DEF LInv, HandOK, Delivers
<1>6. TakesNoted(h)' BY <1>2, <1>3, <1>4, <1>5 DEF TakesNoted
<1>7. HandOK(h)' BY <1>1, <1>3, <1>4, <1>5, <1>6, HandGoesOn
<1> QED BY <1>1, <1>4, <1>7, QueueStays

\* What was noted is in the file that is read, to its end.
LEMMA ReadSourceLocators ==
  ASSUME IInv, IInv', LInv, NEW h \in Hooks, ReadSource(h)
  PROVE  LInv'
<1>0. Shapes /\ NotedOK BY DEF IInv, LInv
<1> DEFINE old == hook[h]
           s == old.src
           f == file[s]
           start == StartPosition(old.pos, f)
           k == [old EXCEPT
                   !.pc = IF start < Consumed(f) THEN "send" ELSE "advance",
                   !.pos = Beginning, !.text = f.text, !.read = f.inode,
                   !.from = start, !.to = Consumed(f), !.whole = Consumed(f) >= f.size]
<1>1. hook' = [hook EXCEPT ![h] = k] /\ UNCHANGED <<file, pending, sent, noted, count>>
  BY DEF ReadSource, Update
<1>2. old.pc = "read" BY DEF ReadSource, At
<1>3. /\ k.pc \in {"send", "advance"} /\ k.src = s /\ k.gen = old.gen
      /\ k.text = f.text /\ k.to = Consumed(f)
  <2> HIDE DEF start, f
  <2> QED BY <1>0 DEF Shapes, Fields, Idle
<1> HIDE DEF k
<1>4. hook'[h] = k /\ \A g \in Hooks \ {h} : hook'[g] = hook[g] BY <1>0, <1>1, Updated
<1>5. Delivers(old) BY <1>2 DEF Delivers
<1>6. s \in Sessions => Records(f.size) = Records(Consumed(f))
  <2> SUFFICES ASSUME s \in Sessions PROVE Records(f.size) = Records(Consumed(f)) OBVIOUS
  <2>1. f.size \in Nat BY <1>0 DEF Shapes, FileType
  <2>2. (2 * (f.size \div 2)) \div 2 = f.size \div 2 BY <2>1
  <2> QED BY <2>2 DEF Records, Consumed
<1>7. TakesNoted(h)'
  <2>1. k.pc \notin {"lane", "read", "bind", "complete"} BY <1>3
  <2>2. s \in Sessions => noted[s] \subseteq Records(k.to) BY <1>0, <1>3, <1>6 DEF NotedOK
  <2> HIDE DEF f, s
  <2>3. file'[k.src].text = k.text BY <1>1, <1>3 DEF f, s
  <2> QED BY <1>1, <1>3, <1>4, <2>1, <2>2, <2>3 DEF TakesNoted, Uncut
<1>8. HandOK(h)' BY <1>1, <1>3, <1>4, <1>5, <1>7, HandGoesOn
<1> QED BY <1>1, <1>4, <1>8, QueueStays

LEMMA ReadNothingLocators ==
  ASSUME IInv, IInv', LInv, NEW h \in Hooks, ReadNothing(h)
  PROVE  LInv'
<1>0. Shapes BY DEF IInv
<1> DEFINE k == [hook[h] EXCEPT !.pc = "complete"]
<1>1. hook' = [hook EXCEPT ![h] = k] /\ UNCHANGED <<file, pending, sent, noted, count>>
  BY DEF ReadNothing, Update
<1>2. hook[h].pc = "read" BY DEF ReadNothing, At
<1>3. k.pc = "complete" /\ k.src = hook[h].src /\ k.gen = hook[h].gen /\ k.whole = hook[h].whole
  BY <1>0 DEF Shapes, Fields, Idle
<1> HIDE DEF k
<1>4. hook'[h] = k /\ \A g \in Hooks \ {h} : hook'[g] = hook[g] BY <1>0, <1>1, Updated
<1>5. Delivers(hook[h]) /\ TakesNoted(h) BY <1>2 DEF LInv, HandOK, Delivers
<1>6. TakesNoted(h)' BY <1>2, <1>3, <1>4, <1>5 DEF TakesNoted
<1>7. HandOK(h)' BY <1>1, <1>3, <1>4, <1>5, <1>6, HandGoesOn
<1> QED BY <1>1, <1>4, <1>7, QueueStays

LEMMA SendLocators ==
  ASSUME IInv, IInv', LInv, NEW h \in Hooks, SendChunk(h) \/ SendFails(h)
  PROVE  LInv'
<1>0. Shapes /\ HooksVouched BY DEF IInv
<1> DEFINE old == hook[h]
           k == [old EXCEPT !.pc = "advance", !.from = ChunkEnd(old)]
<1>1. UNCHANGED <<file, pending, noted, count>> /\ old.pc = "send"
  BY DEF SendChunk, SendFails, At
<1>2. old.src \in Uncut => Delivered(file[old.src], sent[old.src], old)
  BY <1>0, <1>1 DEF HooksVouched, HookVouched
<1>3. \A s \in Sessions : sent[s] \subseteq sent'[s]
  BY <1>0, <1>2, ChunkTaken DEF SendChunk, SendFails
<1>4. /\ k.pc = "advance" /\ k.src = old.src /\ k.gen = old.gen
      /\ k.to = old.to /\ k.text = old.text /\ k.whole = old.whole
  BY <1>0 DEF Shapes, Fields, Idle
<1>5. hook' = [hook EXCEPT ![h] = Idle] \/ hook' = [hook EXCEPT ![h] = k]
  BY DEF SendChunk, SendFails, Update
<1> HIDE DEF k
<1>6. \A g \in Hooks \ {h} : hook'[g] = hook[g] BY <1>0, <1>5, Updated
<1>7. HandOK(h)'
  <2>1. CASE hook' = [hook EXCEPT ![h] = Idle]
    BY <1>0, <2>1, IdleShape, Updated, EmptyHand DEF Delivers
  <2>2. CASE hook' = [hook EXCEPT ![h] = k]
    <3>1. hook'[h] = k BY <1>0, <2>2, Updated
    <3>2. Delivers(old) /\ TakesNoted(h) BY <1>1 DEF LInv, HandOK, Delivers
    <3>3. TakesNoted(h)'
      BY <1>1, <1>4, <3>1, <3>2 DEF TakesNoted, Delivers, Uncut
    <3> QED BY <1>1, <1>4, <3>1, <3>2, <3>3, HandGoesOn
  <2> QED BY <1>5, <2>1, <2>2
<1> QED BY <1>1, <1>3, <1>6, <1>7, QueueStays

\* A delivery completes when it has delivered up to the end of what it read.
LEMMA AdvanceLocators ==
  ASSUME IInv, IInv', LInv, NEW h \in Hooks, Advance(h)
  PROVE  LInv'
<1>0. Shapes /\ HooksVouched BY DEF IInv
<1> DEFINE old == hook[h]
           s == old.src
           pc == IF old.from < old.to THEN "send" ELSE "complete"
           k == [old EXCEPT !.pc = pc]
<1>1. UNCHANGED <<file, pending, sent, noted, count>> /\ old.pc = "advance"
  BY DEF Advance, At
<1>2. hook' = [hook EXCEPT ![h] = Idle] \/ hook' = [hook EXCEPT ![h] = k]
  BY DEF Advance, Update
<1>3. /\ k.pc = pc /\ k.src = s /\ k.gen = old.gen
      /\ k.to = old.to /\ k.text = old.text /\ k.whole = old.whole
  BY <1>0 DEF Shapes, Fields, Idle
<1> HIDE DEF k
<1>4. \A g \in Hooks \ {h} : hook'[g] = hook[g] BY <1>0, <1>2, Updated
<1>5. HandOK(h)'
  <2>1. CASE hook' = [hook EXCEPT ![h] = Idle]
    BY <1>0, <2>1, IdleShape, Updated, EmptyHand DEF Delivers
  <2>2. CASE hook' = [hook EXCEPT ![h] = k]
    <3>1. hook'[h] = k BY <1>0, <2>2, Updated
    <3>2. Delivers(old) /\ TakesNoted(h) BY <1>1 DEF LInv, HandOK, Delivers
    <3>3. ASSUME s \in Uncut, noted[s] \subseteq Records(old.to),
                 old.text # file[s].text => noted[s] = {}, ~(old.from < old.to)
          PROVE  noted[s] \subseteq sent[s]
      <4>1. Delivered(file[s], sent[s], old) BY <1>0, <1>1, <3>3 DEF HooksVouched, HookVouched
      <4>2. old.from \in Nat /\ old.to \in Nat BY <4>1, EvenFacts DEF Delivered
      <4>3. Records(old.to) \subseteq Records(old.from) BY <3>3, <4>2, RecordsGrow
      <4> QED BY <3>3, <4>1, <4>3 DEF Delivered
    <3>4. s \in Uncut /\ count.rows[s] = 1 /\ Holds(pending, s, old.gen) =>
            noted[s] \subseteq Records(old.to) /\ (old.text # file[s].text => noted[s] = {})
      BY <1>1, <3>2 DEF TakesNoted
    <3>5. TakesNoted(h)'
      <4> HIDE DEF s
      <4>1. pc \in {"send", "complete"} /\ (pc = "complete" => ~(old.from < old.to)) OBVIOUS
      <4> HIDE DEF pc
      <4> QED BY <1>1, <1>3, <3>1, <3>3, <3>4, <4>1 DEF TakesNoted, Uncut
    <3> QED BY <1>1, <1>3, <3>1, <3>2, <3>5, HandGoesOn
  <2> QED BY <1>2, <2>1, <2>2
<1> QED BY <1>1, <1>4, <1>5, QueueStays

\* A hook takes up the locator that is there.
LEMMA RowTaken ==
  ASSUME RowsOK', NEW i \in DOMAIN pending', NEW h \in Hooks,
         hook'[h].src = pending'[i].session, hook'[h].gen = pending'[i].gen,
         hook'[h].pc \in {"lane", "bind"}, ~hook'[h].whole
  PROVE  HandOK(h)'
<1> DEFINE k == hook'[h]
<1>1. pending'[i] \in Row BY DEF RowsOK
<1>2. k.src \in Sessions /\ k.gen \in Nat BY <1>1 DEF Row
<1>3. Has(pending', k.src) BY DEF Has
<1>4. \A gen : Holds(pending', k.src, gen) => gen = k.gen BY DEF Holds, RowsOK, RowsUnique
<1>5. GenOK(h)' BY <1>2, <1>3, <1>4 DEF GenOK, RowsOK
<1>6. TakesNoted(h)' BY DEF TakesNoted
<1> QED BY <1>5, <1>6 DEF HandOK

\* The row of another session, or the same row again, as a hook takes it up.
LEMMA InHand ==
  ASSUME NEW own, NEW row, NEW pc
  PROVE  LET k == Replaying(own, row, pc)
         IN  k.src = row.session /\ k.gen = row.gen /\ k.pc = pc /\ ~k.whole
BY DEF Replaying, Delivering, Idle

LEMMA DeliveringInHand ==
  ASSUME NEW s, NEW row
  PROVE  LET k == Delivering(s, row)
         IN  k.src = s /\ k.gen = row.gen /\ k.pc = "lane" /\ ~k.whole
BY DEF Delivering, Idle

LEMMA OldestLocators ==
  ASSUME IInv, IInv', LInv, NEW h \in Hooks, OldestPending(h) \/ Ends(h)
  PROVE  LInv'
<1>0. Shapes /\ RowsOK BY DEF IInv, LInv
<1> DEFINE own == hook[h].own
           row == pending[Oldest(own)]
<1>1. UNCHANGED <<file, pending, sent, noted, count>> BY DEF OldestPending, Ends
<1>2. \/ hook' = [hook EXCEPT ![h] = Idle]
      \/ /\ Oldest(own) # 0
         /\ \E pc \in {"lane", "bind"} : hook' = [hook EXCEPT ![h] = Replaying(own, row, pc)]
  BY DEF OldestPending, Ends, Update
<1>3. \A g \in Hooks \ {h} : hook'[g] = hook[g] BY <1>0, <1>2, Updated
<1>4. HandOK(h)'
  <2>1. CASE hook' = [hook EXCEPT ![h] = Idle]
    BY <1>0, <2>1, IdleShape, Updated, EmptyHand DEF Delivers
  <2>2. ASSUME Oldest(own) # 0, NEW pc \in {"lane", "bind"},
               hook' = [hook EXCEPT ![h] = Replaying(own, row, pc)]
        PROVE  HandOK(h)'
    <3>1. hook'[h] = Replaying(own, row, pc) BY <1>0, <2>2, Updated
    <3>2. Oldest(own) \in DOMAIN pending BY <1>0, <2>2, OldestFound DEF RowsOK
    <3>3. RowsOK' BY <1>0, <1>1 DEF RowsOK
    <3>4. /\ hook'[h].src = row.session /\ hook'[h].gen = row.gen
          /\ hook'[h].pc \in {"lane", "bind"} /\ ~hook'[h].whole
      BY <2>2, <3>1, InHand
    <3> QED BY <1>1, <3>2, <3>3, <3>4, RowTaken
  <2> QED BY <1>2, <2>1, <2>2
<1> QED BY <1>1, <1>3, <1>4, QueueStays

(***************************************************************************)
(* Steps that change the queue.                                            *)
(***************************************************************************)
LEMMA QueueChanges ==
  ASSUME IInv, IInv', LInv, count'.cut = count.cut, QueueMoves, RowsOK', NotedOK',
         \A s \in Uncut' : count'.rows[s] <= 1 =>
            \/ Has(pending', s)
            \/ Same(s) /\ ~Has(pending, s)
            \/ noted'[s] \subseteq sent'[s],
         NEW h \in Hooks, \A g \in Hooks \ {h} : hook'[g] = hook[g], HandOK(h)'
  PROVE  LInv'
<1>1. Uncut' \subseteq Uncut BY DEF Uncut
<1>2. KeptOK' BY <1>1, KeptSame
<1>3. \A g \in Hooks \ {h} : HandOK(g)' BY <1>1, OthersHand
<1> QED BY <1>2, <1>3 DEF LInv

LEMMA StoppingRows ==
  ASSUME count \in CountType, NEW h \in Hooks, NEW s \in Sessions, Stopping(h, s)
  PROVE  /\ count'.cut = count.cut
         /\ \A t \in Sessions : count'.rows[t] = IF t = s /\ RowOf(s) = 0 THEN count.rows[t] + 1
                                                 ELSE count.rows[t]
<1> DEFINE n == IF RowOf(s) = 0 THEN count.rows[s] + 1 ELSE count.rows[s]
<1>1. /\ DOMAIN count = {"stops", "changes", "rows", "cut"}
      /\ count.rows \in [Sessions -> Nat]
  BY DEF CountType
<1>2. count' = [count EXCEPT !.stops = @ + 1, !.rows[s] = n] BY DEF Stopping
<1> HIDE DEF n
<1>3. count'.rows = [count.rows EXCEPT ![s] = n] BY <1>1, <1>2
<1>4. \A t \in Sessions : count'.rows[t] = IF t = s THEN n ELSE count.rows[t] BY <1>1, <1>3
<1> QED BY <1>4, StoppingCounts DEF n

LEMMA RegisteredRow ==
  ASSUME Shapes, NEW s \in Sessions, NEW gen \in Nat
  PROVE  /\ Registered(s, gen) \in Row
         /\ Registered(s, gen).session = s /\ Registered(s, gen).gen = gen
BY DEF Registered, Row, Shapes, FileType

\* A registration appends a locator of generation 1, or writes the next
\* generation over the one that is there.
LEMMA RegisterLocators ==
  ASSUME IInv, IInv', LInv, NEW h \in Hooks, NEW s \in Sessions, Register(h, s)
  PROVE  LInv'
<1>0. Shapes /\ RowsOK /\ NotedOK BY DEF IInv, LInv
<1> DEFINE i == RowOf(s)
           r == Upserted(s)
<1>1. /\ UNCHANGED <<file, sent>>
      /\ hook' = [hook EXCEPT ![h] = Delivering(s, r)]
      /\ pending' = IF i = 0 THEN Append(pending, r) ELSE [pending EXCEPT ![i] = r]
      /\ noted' = [noted EXCEPT ![s] = Records(file[s].size)]
  BY DEF Register, Update
<1>2. /\ count'.cut = count.cut
      /\ \A t \in Sessions : count'.rows[t] = IF t = s /\ i = 0 THEN count.rows[t] + 1
                                              ELSE count.rows[t]
  BY <1>0, StoppingRows DEF Register, Shapes
<1>3. /\ i = 0 <=> ~Has(pending, s)
      /\ i # 0 => i \in DOMAIN pending /\ pending[i].session = s
  BY <1>0, RowFound DEF RowsOK
<1>4. i # 0 => pending[i].gen \in Nat
  <2> HIDE DEF i, r
  <2>1. i # 0 => pending[i] \in Row BY <1>0, <1>3 DEF RowsOK
  <2> QED BY <2>1 DEF Row
<1>5. /\ r \in Row /\ r.session = s
      /\ r.gen = IF i = 0 THEN 1 ELSE pending[i].gen + 1
  BY <1>0, <1>4, RegisteredRow DEF Upserted
<1> HIDE DEF i, r
<1>6. /\ pending' \in Seq(Row) /\ RowsUnique(pending')
      /\ \A t : Has(pending', t) <=> Has(pending, t) \/ t = s
      /\ \A t, gen : Holds(pending', t, gen) <=>
            IF t = s THEN gen = r.gen ELSE Holds(pending, t, gen)
  <2>1. CASE i = 0
    <3>1. ~Has(pending, r.session) BY <1>3, <1>5, <2>1
    <3> QED BY <1>0, <1>1, <1>5, <2>1, <3>1, RowAppended DEF RowsOK
  <2>2. CASE i # 0
    <3>1. i \in DOMAIN pending /\ r.session = pending[i].session BY <1>3, <1>5, <2>2
    <3>2. Has(pending, s) BY <1>3, <2>2
    <3> QED BY <1>0, <1>1, <1>5, <2>2, <3>1, <3>2, RowReplaced DEF RowsOK
  <2> QED BY <2>1, <2>2
<1>7. \A t \in Sessions : count.rows[t] \in Nat BY <1>0, RowCounts
<1>8. RowsOK'
  <2>1. ASSUME NEW t \in Sessions, Has(pending', t) PROVE count'.rows[t] >= 1
    BY <1>0, <1>2, <1>3, <1>6, <1>7, <2>1 DEF RowsOK
  <2> QED BY <1>6, <2>1 DEF RowsOK
<1>9. NotedOK' /\ \A t \in Sessions \ {s} : noted'[t] = noted[t]
  <2>1. Records(file[s].size) \in SUBSET Nat BY DEF Records
  <2> QED BY <1>0, <1>1, <2>1 DEF NotedOK
<1>10. \A t \in Sessions \ {s} : Same(t) BY <1>1, <1>9 DEF Same
<1>11. QueueMoves
  <2>1. ASSUME NEW t \in Sessions, NEW gen \in Nat,
               count.rows[t] = 1, count'.rows[t] = 1, Holds(pending', t, gen)
        PROVE  \E old \in Nat : /\ old <= gen /\ Holds(pending, t, old)
                                /\ old = gen => Same(t)
    <3>1. CASE t # s
      <4>1. Holds(pending, t, gen) BY <1>6, <2>1, <3>1
      <4> QED BY <1>10, <3>1, <4>1
    <3>2. CASE t = s
      <4>1. i # 0 BY <1>2, <2>1, <3>2
      <4>2. gen = pending[i].gen + 1 BY <1>5, <1>6, <2>1, <3>2, <4>1
      <4>3. Holds(pending, s, pending[i].gen) BY <1>3, <4>1 DEF Holds
      <4> QED BY <1>4, <3>2, <4>1, <4>2, <4>3
    <3> QED BY <3>1, <3>2
  <2>2. \A t \in Sessions : count'.rows[t] >= count.rows[t] BY <1>2, <1>7
  <2> QED BY <2>1, <2>2 DEF QueueMoves
<1>12. \A g \in Hooks \ {h} : hook'[g] = hook[g] BY <1>0, <1>1, Updated
<1>13. HandOK(h)'
  <2>1. hook'[h] = Delivering(s, r) BY <1>0, <1>1, Updated
  <2>2. /\ hook'[h].src = s /\ hook'[h].gen = r.gen
        /\ hook'[h].pc \in {"lane", "bind"} /\ ~hook'[h].whole
    BY <2>1, DeliveringInHand
  <2>3. Holds(pending', s, r.gen) BY <1>6
  <2>4. PICK j \in DOMAIN pending' : pending'[j].session = s /\ pending'[j].gen = r.gen
    BY <2>3 DEF Holds
  <2> QED BY <1>8, <2>2, <2>4, RowTaken
<1> QED BY <1>2, <1>6, <1>8, <1>9, <1>10, <1>11, <1>12, <1>13, QueueChanges DEF Uncut

LEMMA RegisterMissingLocators ==
  ASSUME IInv, IInv', LInv, NEW h \in Hooks, NEW s \in Sessions, RegisterMissing(h, s)
  PROVE  LInv'
<1>0. Shapes /\ RowsOK /\ NotedOK BY DEF IInv, LInv
<1>1. /\ UNCHANGED <<file, pending, sent, noted>> /\ RowOf(s) # 0
      /\ \/ UNCHANGED hook
         \/ hook' = [hook EXCEPT ![h] = Delivering(s, pending[RowOf(s)])]
  BY DEF RegisterMissing, Update
<1>2. count'.cut = count.cut /\ \A t \in Sessions : count'.rows[t] = count.rows[t]
  BY <1>0, <1>1, StoppingRows DEF RegisterMissing, Shapes
<1>3. RowsOK' /\ NotedOK' BY <1>0, <1>1, <1>2 DEF RowsOK, NotedOK
<1>4. \A t \in Sessions : Same(t) BY <1>1 DEF Same
<1>5. QueueMoves BY <1>0, <1>1, <1>2, <1>4, RowCounts DEF QueueMoves
<1>6. \A g \in Hooks \ {h} : hook'[g] = hook[g] BY <1>0, <1>1, Updated
<1>7. HandOK(h)'
  <2>1. CASE UNCHANGED hook
    <3>1. Uncut' \subseteq Uncut BY <1>2 DEF Uncut
    <3> QED BY <1>5, <2>1, <3>1, OthersHand
  <2>2. CASE hook' = [hook EXCEPT ![h] = Delivering(s, pending[RowOf(s)])]
    <3>1. hook'[h] = Delivering(s, pending[RowOf(s)]) BY <1>0, <2>2, Updated
    <3>2. RowOf(s) \in DOMAIN pending /\ pending[RowOf(s)].session = s
      BY <1>0, <1>1, RowFound DEF RowsOK
    <3>3. /\ hook'[h].src = s /\ hook'[h].gen = pending[RowOf(s)].gen
          /\ hook'[h].pc \in {"lane", "bind"} /\ ~hook'[h].whole
      BY <3>1, DeliveringInHand
    <3> QED BY <1>1, <1>3, <3>2, <3>3, RowTaken
  <2> QED BY <1>1, <2>1, <2>2
<1> QED BY <1>1, <1>2, <1>3, <1>4, <1>5, <1>6, <1>7, QueueChanges DEF Uncut

\* A parked locator keeps its generation.
LEMMA ParkLocators ==
  ASSUME IInv, IInv', LInv, NEW h \in Hooks, ParkChanged(h)
  PROVE  LInv'
<1>0. Shapes /\ RowsOK /\ NotedOK BY DEF IInv, LInv
<1> DEFINE i == Guarded(hook[h].src, hook[h].gen)
           q == [pending EXCEPT ![i].state = "source_changed"]
<1>1. /\ UNCHANGED <<file, mark, sent, noted, count>> /\ hook' = [hook EXCEPT ![h] = Idle]
      /\ pending' = pending \/ (i # 0 /\ pending' = q)
  BY DEF ParkChanged, Update
<1>2. i # 0 => i \in DOMAIN pending BY <1>0, GuardedFound DEF RowsOK
<1>3. /\ pending' \in Seq(Row) /\ RowsUnique(pending')
      /\ \A t : Has(pending', t) <=> Has(pending, t)
      /\ \A t, gen : Holds(pending', t, gen) <=> Holds(pending, t, gen)
  <2>1. CASE pending' = pending BY <1>0, <2>1 DEF RowsOK
  <2>2. CASE i # 0 /\ pending' = q
    <3> DEFINE r == [pending[i] EXCEPT !.state = "source_changed"]
    <3> HIDE DEF i
    <3>1. pending[i] \in Row BY <1>0, <1>2, <2>2 DEF RowsOK
    <3>2. r \in Row /\ r.session = pending[i].session /\ r.gen = pending[i].gen BY <3>1 DEF Row
    <3>3. pending' = [pending EXCEPT ![i] = r] BY <2>2
    <3> HIDE DEF r, q
    <3>4. /\ pending \in Seq(Row) /\ RowsUnique(pending) /\ i \in DOMAIN pending
          /\ r \in Row /\ r.session = pending[i].session
      BY <1>0, <1>2, <2>2, <3>2 DEF RowsOK
    <3>5. /\ pending' \in Seq(Row) /\ RowsUnique(pending')
          /\ \A t : Has(pending', t) <=> Has(pending, t)
          /\ \A t, gen : Holds(pending', t, gen) <=>
                IF t = r.session THEN gen = r.gen ELSE Holds(pending, t, gen)
      BY <3>3, <3>4, RowReplaced
    <3>6. \A gen : Holds(pending, r.session, gen) <=> gen = r.gen
      BY <1>0, <1>2, <2>2, <3>2 DEF Holds, RowsOK, RowsUnique
    <3> QED BY <3>5, <3>6
  <2> QED BY <1>1, <2>1, <2>2
<1>4. RowsOK' /\ NotedOK' BY <1>0, <1>1, <1>3 DEF RowsOK, NotedOK
<1>5. \A t \in Sessions : Same(t) BY <1>1 DEF Same
<1>6. QueueMoves BY <1>0, <1>1, <1>3, <1>5, RowCounts DEF QueueMoves
<1>7. \A g \in Hooks \ {h} : hook'[g] = hook[g] BY <1>0, <1>1, Updated
<1>8. HandOK(h)' BY <1>0, <1>1, IdleShape, Updated, EmptyHand DEF Delivers
<1> QED BY <1>1, <1>3, <1>4, <1>5, <1>6, <1>7, <1>8, QueueChanges DEF Uncut

\* Only a delivery that took what was noted forgets the locator it has: the row
\* it matches is the one it was given.
LEMMA CompleteLocators ==
  ASSUME IInv, IInv', LInv, NEW h \in Hooks, Complete(h)
  PROVE  LInv'
<1>0. Shapes /\ RowsOK /\ NotedOK BY DEF IInv, LInv
<1> DEFINE k == hook[h]
           s == k.src
           i == Guarded(s, k.gen)
<1>1. /\ UNCHANGED <<file, mark, sent, noted, count>> /\ k.pc = "complete"
      /\ pending' = pending \/ (k.whole /\ i # 0 /\ pending' = RemoveAt(pending, i))
  BY DEF Complete, At, Forgotten, Without
<1>2. \A g \in Hooks \ {h} : hook'[g] = hook[g] BY <1>0, Updated DEF Complete, Update
<1>3. HandOK(h)'
  <2> DEFINE new == [Idle EXCEPT !.pc = "replay", !.own = k.own]
  <2>1. hook'[h] = Idle \/ hook'[h] = new BY <1>0, Updated DEF Complete, Update
  <2>2. new.pc = "replay" BY DEF Idle
  <2> HIDE DEF new
  <2>3. hook'[h].pc \in {"idle", "replay"} BY <2>1, <2>2, IdleShape
  <2> QED BY <2>3, EmptyHand DEF Delivers
<1>4. s \in Sessions /\ TakesNoted(h) BY <1>1 DEF LInv, HandOK, GenOK, Delivers
<1>5. CASE pending' = pending
  <2>1. UNCHANGED <<file, pending, noted, count>> /\ UNCHANGED sent BY <1>1, <1>5
  <2> QED BY <1>2, <1>3, <2>1, QueueStays
<1>6. CASE k.whole /\ i # 0 /\ pending' = RemoveAt(pending, i)
  <2>1. i \in DOMAIN pending /\ pending[i].session = s /\ pending[i].gen = k.gen
    BY <1>0, <1>6, GuardedFound DEF RowsOK
  <2>2. /\ pending' \in Seq(Row) /\ RowsUnique(pending')
        /\ \A t : Has(pending', t) <=> Has(pending, t) /\ t # s
        /\ \A t, gen : Holds(pending', t, gen) <=> Holds(pending, t, gen) /\ t # s
    <3> HIDE DEF i, s
    <3> QED BY <1>0, <1>6, <2>1, RowRemoved DEF RowsOK
  <2>3. RowsOK' /\ NotedOK' BY <1>0, <1>1, <2>2 DEF RowsOK, NotedOK
  <2>4. \A t \in Sessions : Same(t) BY <1>1 DEF Same
  <2>5. QueueMoves BY <1>0, <1>1, <2>2, <2>4, RowCounts DEF QueueMoves
  <2>6. ASSUME s \in Uncut, count.rows[s] <= 1 PROVE noted[s] \subseteq sent[s]
    <3>1. Has(pending, s) /\ Holds(pending, s, k.gen) BY <2>1 DEF Has, Holds
    <3>2. count.rows[s] = 1 BY <1>0, <1>4, <2>6, <3>1, RowCounts DEF RowsOK
    <3> QED BY <1>1, <1>4, <1>6, <2>6, <3>1, <3>2 DEF TakesNoted, Delivers
  <2>7. \A t \in Uncut' : count'.rows[t] <= 1 =>
            \/ Has(pending', t)
            \/ Same(t) /\ ~Has(pending, t)
            \/ noted'[t] \subseteq sent'[t]
    BY <1>1, <2>2, <2>4, <2>6 DEF Uncut
  <2> HIDE DEF s, i, k
  <2> QED BY <1>1, <1>2, <1>3, <2>3, <2>5, <2>7, QueueChanges
<1> QED BY <1>1, <1>5, <1>6

\* A locator that is bound gets the next generation.
LEMMA BindLocators ==
  ASSUME IInv, IInv', LInv, NEW h \in Hooks, BindMissing(h)
  PROVE  LInv'
<1>0. Shapes /\ RowsOK /\ NotedOK BY DEF IInv, LInv
<1> DEFINE k == hook[h]
           s == k.src
           i == Guarded(s, k.gen)
           r == Registered(s, k.gen + 1)
<1>1. /\ UNCHANGED <<file, mark, sent, noted, count>> /\ k.pc = "bind"
      /\ \/ pending' = pending /\ hook' = [hook EXCEPT ![h] = Idle]
         \/ /\ i # 0 /\ pending' = [pending EXCEPT ![i] = r]
            /\ hook' = [hook EXCEPT ![h] = Replaying(k.own, r, "lane")]
  BY DEF BindMissing, At, Update
<1>2. s \in Sessions /\ k.gen \in Nat BY <1>1 DEF LInv, HandOK, GenOK, Delivers
<1>3. \A g \in Hooks \ {h} : hook'[g] = hook[g] BY <1>0, <1>1, Updated
<1>4. CASE pending' = pending /\ hook' = [hook EXCEPT ![h] = Idle]
  <2>1. UNCHANGED <<file, pending, noted, count>> /\ UNCHANGED sent BY <1>1, <1>4
  <2>2. HandOK(h)' BY <1>0, <1>4, IdleShape, Updated, EmptyHand DEF Delivers
  <2> QED BY <1>3, <2>1, <2>2, QueueStays
<1>5. CASE /\ i # 0 /\ pending' = [pending EXCEPT ![i] = r]
           /\ hook' = [hook EXCEPT ![h] = Replaying(k.own, r, "lane")]
  <2>1. i \in DOMAIN pending /\ pending[i].session = s /\ pending[i].gen = k.gen
    BY <1>0, <1>5, GuardedFound DEF RowsOK
  <2>2. r \in Row /\ r.session = s /\ r.gen = k.gen + 1 BY <1>0, <1>2, RegisteredRow
  <2> HIDE DEF r, i, s
  <2>3. /\ pending' \in Seq(Row) /\ RowsUnique(pending')
        /\ \A t : Has(pending', t) <=> Has(pending, t)
        /\ \A t, gen : Holds(pending', t, gen) <=>
              IF t = r.session THEN gen = r.gen ELSE Holds(pending, t, gen)
    BY <1>0, <1>5, <2>1, <2>2, RowReplaced DEF RowsOK
  <2>4. RowsOK' /\ NotedOK' BY <1>0, <1>1, <2>3 DEF RowsOK, NotedOK
  <2>5. \A t \in Sessions : Same(t) BY <1>1 DEF Same
  <2>6. QueueMoves
    <3>1. ASSUME NEW t \in Sessions, NEW gen \in Nat, Holds(pending', t, gen)
          PROVE  \E old \in Nat : /\ old <= gen /\ Holds(pending, t, old)
                                  /\ old = gen => Same(t)
      <4>1. CASE t # s
        <5>1. Holds(pending, t, gen) BY <2>2, <2>3, <3>1, <4>1
        <5> QED BY <2>5, <5>1
      <4>2. CASE t = s
        <5>1. gen = k.gen + 1 BY <2>2, <2>3, <3>1, <4>2
        <5>2. Holds(pending, s, k.gen) BY <2>1 DEF Holds
        <5> QED BY <1>2, <4>2, <5>1, <5>2
      <4> QED BY <4>1, <4>2
    <3>2. \A t \in Sessions : count'.rows[t] >= count.rows[t] BY <1>0, <1>1, RowCounts
    <3> QED BY <3>1, <3>2 DEF QueueMoves
  <2>7. HandOK(h)'
    <3>1. hook'[h] = Replaying(k.own, r, "lane") BY <1>0, <1>5, Updated
    <3>2. /\ hook'[h].src = r.session /\ hook'[h].gen = r.gen
          /\ hook'[h].pc \in {"lane", "bind"} /\ ~hook'[h].whole
      BY <3>1, InHand
    <3>3. i \in DOMAIN pending' /\ pending'[i] = r BY <1>0, <1>5, <2>1 DEF RowsOK
    <3> QED BY <2>4, <3>2, <3>3, RowTaken
  <2>8. \A t \in Uncut' : Has(pending', t) \/ (Same(t) /\ ~Has(pending, t))
    BY <1>1, <2>3, <2>5 DEF Uncut
  <2> HIDE DEF k
  <2> QED BY <1>1, <1>3, <2>4, <2>6, <2>7, <2>8, QueueChanges
<1> QED BY <1>1, <1>4, <1>5

LEMMA LocatorsInductive == Spec => []LInv
<1>1. Init => LInv BY InitLInv
<1>2. LInv /\ IInv /\ IInv' /\ [Next]_cvars => LInv'
  <2> SUFFICES ASSUME LInv, IInv, IInv', [Next]_cvars PROVE LInv' OBVIOUS
  <2>1. ASSUME NEW s \in Sessions, WriteTurn(s) \/ Change(s) PROVE LInv'
    BY <2>1, WorldLocators
  <2>2. ASSUME NEW h \in Hooks, NEW s \in Sessions, Register(h, s) \/ RegisterMissing(h, s)
        PROVE  LInv'
    BY <2>2, RegisterLocators, RegisterMissingLocators
  <2>3. ASSUME NEW h \in Hooks, ReadPosition(h) \/ ReadSource(h) \/ ReadNothing(h) PROVE LInv'
    BY <2>3, ReadPositionLocators, ReadSourceLocators, ReadNothingLocators
  <2>4. ASSUME NEW h \in Hooks, SendChunk(h) \/ SendFails(h) \/ Advance(h) PROVE LInv'
    BY <2>4, SendLocators, AdvanceLocators
  <2>5. ASSUME NEW h \in Hooks, ParkChanged(h) \/ Complete(h) \/ BindMissing(h) PROVE LInv'
    BY <2>5, ParkLocators, CompleteLocators, BindLocators
  <2>6. ASSUME NEW h \in Hooks, OldestPending(h) \/ Ends(h) PROVE LInv'
    BY <2>6, OldestLocators
  <2>7. CASE UNCHANGED cvars
    BY <2>7 DEF cvars, LInv, RowsOK, NotedOK, KeptOK, HandOK, GenOK, TakesNoted, Uncut
  <2> QED BY <2>1, <2>2, <2>3, <2>4, <2>5, <2>6, <2>7 DEF Next
<1> QED BY <1>1, <1>2, Inductive, PTL DEF Spec

\* Whichever hooks registered, replayed, bound, parked or forgot a locator in
\* between: while the row of a session lives, what was there when it stopped
\* has been taken or its locator is still there.
THEOREM ForgetsOnlyTaken == Spec => []OnlyReuseForgets
<1>1. LInv => OnlyReuseForgets
  <2> SUFFICES ASSUME LInv, NEW s \in Sessions \ count.cut, count.rows[s] <= 1 PROVE Kept(s)
    BY DEF OnlyReuseForgets
  <2>1. Has(pending, s) \/ noted[s] \subseteq sent[s] BY DEF LInv, KeptOK, Uncut
  <2>2. RowOf(s) = 0 <=> ~Has(pending, s) BY RowFound DEF LInv, RowsOK
  <2> QED BY <2>1, <2>2 DEF Kept
<1> QED BY <1>1, LocatorsInductive, PTL
=============================================================================
