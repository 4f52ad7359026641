----------------------------- MODULE SpoolLock -----------------------------
(***************************************************************************)
(* The lock file of the TypeScript spool: taken by hard-linking a finished *)
(* owner record to the lock path, given back by unlinking it, and taken    *)
(* from an owner that is dead by renaming it away.  One step is one system *)
(* call on the lock path, so what a process saw may be stale when it acts. *)
(*                                                                         *)
(* A process does one thing at a time: its life stands for its pid and for *)
(* the token of the lock it takes.  A pid is not used twice.               *)
(*                                                                         *)
(* "Lock" in a name tells it from its namesake in Spool.                   *)
(*                                                                         *)
(* Recoverable_AnyAge and Recoverable_OldOnly are Recoverable with a       *)
(* plausible slip in the code; no action uses them.                        *)
(***************************************************************************)
EXTENDS Integers

CONSTANTS
    Contenders,
    MaxExits,   \* bound: processes that end, at any point
    MaxAges     \* bound: lock files that get older than lockStaleMs

ASSUME LockAssumption == MaxExits \in Nat /\ MaxAges \in Nat

VARIABLES
    lockFile,   \* the file at lockPath, or NoFile
    pc,         \* where each process is
    saw,        \* what a contender saw of the lock file
    life,       \* the life each process is in
    past        \* history: exits, ages, and whether a live lock was taken away

lvars == <<lockFile, pc, saw, life, past>>

NoFile == [owner |-> "none"]
File == [owner: Contenders, life: 0 .. MaxExits, old: BOOLEAN]

Points == {"idle", "link", "stat", "read", "kill", "rename", "wait", "in", "unlink"}

\* stale, and the owner read from the file: NoFile where that failed.
Nothing == [old |-> FALSE, file |-> NoFile]

LockInit ==
    /\ lockFile = NoFile
    /\ pc = [p \in Contenders |-> "idle"]
    /\ saw = [p \in Contenders |-> Nothing]
    /\ life = [p \in Contenders |-> 0]
    /\ past = [exits |-> 0, ages |-> 0, stolen |-> FALSE]

Go(p, from, to) == pc[p] = from /\ pc' = [pc EXCEPT ![p] = to]

Mine(p) == lockFile # NoFile /\ lockFile.owner = p /\ lockFile.life = life[p]

\* ownerIsDead
Dead(file) == file # NoFile /\ file.life # life[file.owner]

-----------------------------------------------------------------------------
(* acquireLock *)

Acquire(p) ==
    /\ Go(p, "idle", "link")
    /\ UNCHANGED <<lockFile, saw, life, past>>

\* linkSync: one candidate wins.
LinkWins(p) ==
    /\ Go(p, "link", "in")
    /\ lockFile = NoFile
    /\ lockFile' = [owner |-> p, life |-> life[p], old |-> FALSE]
    /\ UNCHANGED <<saw, life, past>>

LinkCollides(p) ==
    /\ Go(p, "link", "stat")
    /\ lockFile # NoFile
    /\ UNCHANGED <<lockFile, saw, life, past>>

\* recoverDeadOrStaleLock: no file is as good as a recovered one.
StatMissing(p) ==
    /\ Go(p, "stat", "link")
    /\ lockFile = NoFile
    /\ UNCHANGED <<lockFile, saw, life, past>>

StatFound(p) ==
    /\ Go(p, "stat", "read")
    /\ lockFile # NoFile
    /\ saw' = [saw EXCEPT ![p] = [old |-> lockFile.old, file |-> NoFile]]
    /\ UNCHANGED <<lockFile, life, past>>

ReadOwner(p) ==
    /\ Go(p, "read", "kill")
    /\ saw' = [saw EXCEPT ![p] = [old |-> saw[p].old, file |-> lockFile]]
    /\ UNCHANGED <<lockFile, life, past>>

\* A record that could not be read is taken for a dead owner's.
Recoverable_AnyAge(s) == Dead(s.file) \/ s.file = NoFile

\* A dead owner's lock, too, must have got old.
Recoverable_OldOnly(s) == s.old /\ (Dead(s.file) \/ s.file = NoFile)

\* A dead owner; or, of a record that could not be read, its age.
Recoverable(s) == Dead(s.file) \/ (s.old /\ s.file = NoFile)

\* kill(pid, 0)
JudgeOwner(p) ==
    /\ pc[p] = "kill"
    /\ pc' = [pc EXCEPT ![p] = IF Recoverable(saw[p]) THEN "rename" ELSE "wait"]
    /\ UNCHANGED <<lockFile, saw, life, past>>

\* renameSync moves whatever is at the path now.
RenameFile(p) ==
    /\ Go(p, "rename", "link")
    /\ lockFile # NoFile
    /\ lockFile' = NoFile
    /\ past' = [past EXCEPT !.stolen = @ \/ ~Dead(lockFile)]
    /\ UNCHANGED <<saw, life>>

RenameFails(p) ==
    /\ Go(p, "rename", "wait")
    /\ lockFile = NoFile
    /\ UNCHANGED <<lockFile, saw, life, past>>

Retry(p) ==
    /\ Go(p, "wait", "link")
    /\ UNCHANGED <<lockFile, saw, life, past>>

\* "timed out acquiring spool lock"
Timeout(p) ==
    /\ Go(p, "wait", "idle")
    /\ UNCHANGED <<lockFile, saw, life, past>>

-----------------------------------------------------------------------------
(* releaseLock *)

ReleaseReads(p) ==
    /\ pc[p] = "in"
    /\ pc' = [pc EXCEPT ![p] = IF Mine(p) THEN "unlink" ELSE "idle"]
    /\ UNCHANGED <<lockFile, saw, life, past>>

ReleaseUnlinks(p) ==
    /\ Go(p, "unlink", "idle")
    /\ lockFile' = NoFile
    /\ UNCHANGED <<saw, life, past>>

-----------------------------------------------------------------------------

\* A process ends, after its work or in the middle of it; another begins.
Exit(p) ==
    /\ past.exits < MaxExits
    /\ past' = [past EXCEPT !.exits = @ + 1]
    /\ life' = [life EXCEPT ![p] = @ + 1]
    /\ pc' = [pc EXCEPT ![p] = "idle"]
    /\ saw' = [saw EXCEPT ![p] = Nothing]
    /\ UNCHANGED lockFile

Age ==
    /\ lockFile # NoFile /\ ~lockFile.old
    /\ past.ages < MaxAges
    /\ past' = [past EXCEPT !.ages = @ + 1]
    /\ lockFile' = [lockFile EXCEPT !.old = TRUE]
    /\ UNCHANGED <<pc, saw, life>>

LockStep(p) ==
    \/ LinkWins(p) \/ LinkCollides(p)
    \/ StatMissing(p) \/ StatFound(p) \/ ReadOwner(p) \/ JudgeOwner(p)
    \/ RenameFile(p) \/ RenameFails(p)
    \/ ReleaseReads(p) \/ ReleaseUnlinks(p)

LockNext ==
    \/ \E p \in Contenders :
         \/ Acquire(p) \/ Retry(p) \/ Timeout(p) \/ Exit(p)
         \/ LinkWins(p) \/ LinkCollides(p)
         \/ StatMissing(p) \/ StatFound(p) \/ ReadOwner(p) \/ JudgeOwner(p)
         \/ RenameFile(p) \/ RenameFails(p)
         \/ ReleaseReads(p) \/ ReleaseUnlinks(p)
    \/ Age

LockSpec == LockInit /\ [][LockNext]_lvars

\* Processes go on; each comes back for the lock and, told to wait, tries
\* again or gives up.
LockFairness ==
    \A p \in Contenders :
        /\ WF_lvars(LockStep(p)) /\ WF_lvars(Acquire(p))
        /\ WF_lvars(Retry(p) \/ Timeout(p))

LockFairSpec == LockSpec /\ LockFairness

-----------------------------------------------------------------------------
(* Properties *)

\* Every variable keeps its type; a contender about to rename has evidence:
\* the record it read is a dead owner's, or an old one it could not read.
LockTypeOK ==
    /\ lockFile \in File \cup {NoFile}
    /\ pc \in [Contenders -> Points]
    /\ saw \in [Contenders -> [old: BOOLEAN, file: File \cup {NoFile}]]
    /\ life \in [Contenders -> 0 .. MaxExits]
    /\ past \in [exits: 0 .. MaxExits, ages: 0 .. MaxAges, stolen: BOOLEAN]
    /\ \A p \in Contenders : pc[p] = "rename" => Recoverable(saw[p])

Holding(p) == pc[p] \in {"in", "unlink"}

AtMostOne == \A p, q \in Contenders : Holding(p) /\ Holding(q) => p = q

\* No two processes are in their transactions while none ends and no lock is
\* held past lockStaleMs; and whatever ends or gets old, not before a recovery
\* renamed a live owner's lock away: link and unlink alone never let it happen.
Exclusive == (past.exits = 0 /\ past.ages = 0) \/ ~past.stolen => AtMostOne

\* Under LockFairSpec the lock of a process that died does not stay.
DeadLockGoes == Dead(lockFile) ~> ~Dead(lockFile)
=============================================================================
