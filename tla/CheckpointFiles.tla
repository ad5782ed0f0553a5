-------------------------- MODULE CheckpointFiles --------------------------
(***************************************************************************)
(* The files of a server's directory: `db', which the server loads, the    *)
(* numbered checkpoints it writes in place under their final names         *)
(* (checkpoint_now), the process that removes old ones                     *)
(* (tricks/checkpoint-cleanup), and the operator's scripts (db/run,        *)
(* db/stop, db/cycle).  Server, cleaner and scripts are separate           *)
(* processes; each may be anywhere when the server dies.                   *)
(*                                                                         *)
(* What the world contains is a version number; a file is whole or, from   *)
(* fopen to fclose, a part that no server can load.                        *)
(***************************************************************************)
EXTENDS Integers, Sequences, FiniteSets

CONSTANTS
    MaxNumber,      \* bound: checkpoints are numbered 0..MaxNumber
    KeepNum,        \* checkpoint-cleanup's argument (6 in db/run)
    MaxVersion,     \* bound: versions of the world
    MaxFailures     \* how often fopen may fail between two runs of db/cycle

ASSUME FilesAssumption ==
    MaxNumber \in Nat /\ MaxVersion \in Nat /\ KeepNum \in Nat /\ KeepNum >= 2
    /\ MaxFailures \in 0..(KeepNum - 1)

VARIABLES
    file,           \* move.checkpoint.NNN by number
    db, dbOld,
    up,             \* is the server running
    open,           \* number of the checkpoint being written, or -1
    suffix,         \* checkpoint_suffix
    world, newest,  \* version in the server's memory; newest there ever was
    cleaning,       \* is checkpoint-cleanup running
    doomed,         \* what it has yet to remove of its list
    script,         \* where db/cycle is, and its argument
    failures,       \* calls of fopen that failed since then
    saved           \* version in the last checkpoint that was completed

fvars == <<file, db, dbOld, up, open, suffix, world, newest, cleaning, doomed, script, failures, saved>>

Numbers == 0..MaxNumber
NoFile == [state |-> "none", version |-> 0]
Whole(v) == [state |-> "whole", version |-> v]
Part(v) == [state |-> "part", version |-> v]

Existing == {n \in Numbers : file[n] # NoFile}
WholeOnes == {n \in Numbers : file[n].state = "whole"}

NoScript == [at |-> "none", arg |-> 0]

FilesInit ==
    /\ file = [n \in Numbers |-> NoFile] /\ db = Whole(0) /\ dbOld = NoFile
    /\ up = FALSE /\ open = -1 /\ suffix = 0 /\ world = 0 /\ newest = 0
    /\ cleaning = FALSE /\ doomed = << >> /\ script = NoScript /\ failures = 0
    /\ saved = 0

-----------------------------------------------------------------------------
(* The server.                                                             *)

\* init_vm_global
FirstSuffix == 0

\* db/run, after db/stop and with no whole checkpoint beside db (otherwise the
\* operator cycles first).  A missing db is an empty world; a truncated one ends the process
\* in checked_fread, so that the server stays down.
Boot ==
    /\ ~up /\ ~cleaning /\ script = NoScript /\ WholeOnes = {}
    /\ db.state # "part"
    /\ up' = TRUE /\ world' = db.version /\ suffix' = FirstSuffix /\ cleaning' = TRUE
    /\ UNCHANGED <<file, db, dbOld, open, newest, doomed, script, failures, saved>>

Change ==
    /\ up /\ open = -1 /\ newest < MaxVersion
    /\ newest' = newest + 1 /\ world' = newest + 1
    /\ UNCHANGED <<file, db, dbOld, up, open, suffix, cleaning, doomed, script, failures, saved>>

\* Mutant: every checkpoint goes to the same file.
NextSuffix_same == suffix

\* checkpoint_suffix++
NextSuffix == suffix + 1

\* checkpoint_now up to fopen(buf, "w"), which truncates what was there; if
\* it fails, the number is used up all the same.
OpenCheckpoint ==
    /\ up /\ open = -1 /\ suffix \in Numbers
    /\ suffix' = NextSuffix
    /\ \/ /\ open' = suffix /\ file' = [file EXCEPT ![suffix] = Part(world)]
          /\ UNCHANGED failures
       \/ /\ failures < MaxFailures /\ failures' = failures + 1
          /\ UNCHANGED <<open, file>>
    /\ UNCHANGED <<db, dbOld, up, world, newest, cleaning, doomed, script, saved>>

\* fclose; if the file was removed under the writer it stays removed.
CloseCheckpoint ==
    /\ open # -1 /\ open' = -1
    /\ file' = IF file[open] = NoFile THEN file ELSE [file EXCEPT ![open] = Whole(world)]
    /\ saved' = world
    /\ UNCHANGED <<db, dbOld, up, suffix, world, newest, cleaning, doomed, script, failures>>

Crash ==
    /\ up /\ up' = FALSE /\ open' = -1
    /\ UNCHANGED <<file, db, dbOld, suffix, world, newest, cleaning, doomed, script, failures, saved>>

-----------------------------------------------------------------------------
(* checkpoint-cleanup.                                                     *)

Rank(n) == Cardinality({m \in Existing : m <= n})

\* Mutant: the newest files are at the head of the list.
Listed_descending ==
    [i \in 1..Cardinality(Existing) |->
        CHOOSE n \in Existing : Rank(n) = Cardinality(Existing) + 1 - i]

\* scandir with selector and sorter: the i-th entry has the i-th lowest number.
Listed ==
    [i \in 1..Cardinality(Existing) |-> CHOOSE n \in Existing : Rank(n) = i]

\* cleanup(): all but the last KeepNum entries of the list are removed.
Scan ==
    /\ cleaning /\ doomed = << >> /\ Cardinality(Existing) > KeepNum
    /\ doomed' = SubSeq(Listed, 1, Len(Listed) - KeepNum)
    /\ UNCHANGED <<file, db, dbOld, up, open, suffix, world, newest, cleaning, script, failures, saved>>

RemoveOne ==
    /\ cleaning /\ doomed # << >> /\ doomed' = Tail(doomed)
    /\ file' = [file EXCEPT ![Head(doomed)] = NoFile]
    /\ UNCHANGED <<db, dbOld, up, open, suffix, world, newest, cleaning, script, failures, saved>>

-----------------------------------------------------------------------------
(* The operator's scripts.                                                 *)

\* db/stop kills the server and the cleaner.
Stop ==
    /\ script = NoScript /\ up' = FALSE /\ open' = -1
    /\ cleaning' = FALSE /\ doomed' = << >>
    /\ UNCHANGED <<file, db, dbOld, suffix, world, newest, script, failures, saved>>

\* db/cycle NNN, after db/stop, with the highest number whose file is whole.
CycleDb ==
    /\ ~up /\ ~cleaning /\ script = NoScript
    /\ \E n \in WholeOnes :
        /\ \A m \in WholeOnes : m <= n
        /\ script' = [at |-> "db moved", arg |-> n]
    /\ dbOld' = db /\ db' = NoFile
    /\ UNCHANGED <<file, up, open, suffix, world, newest, cleaning, doomed, failures, saved>>

CycleCheckpoint ==
    /\ script.at = "db moved"
    /\ db' = file[script.arg] /\ file' = [file EXCEPT ![script.arg] = NoFile]
    /\ script' = [script EXCEPT !.at = "checkpoint moved"]
    /\ UNCHANGED <<dbOld, up, open, suffix, world, newest, cleaning, doomed, failures, saved>>

\* Mutant: the other checkpoints are left where they are.
Leftover_all == file

\* rm move.*
Leftover == [n \in Numbers |-> NoFile]

CycleRemove ==
    /\ script.at = "checkpoint moved" /\ script' = NoScript /\ failures' = 0
    /\ file' = Leftover
    /\ UNCHANGED <<db, dbOld, up, open, suffix, world, newest, cleaning, doomed, saved>>

FilesNext ==
    \/ Boot \/ Change \/ OpenCheckpoint \/ CloseCheckpoint \/ Crash
    \/ Scan \/ RemoveOne \/ Stop \/ CycleDb \/ CycleCheckpoint \/ CycleRemove

FilesSpec == FilesInit /\ [][FilesNext]_fvars

-----------------------------------------------------------------------------
\* Whatever dies in the middle of whatever, some whole file holds the world
\* of the last completed checkpoint or a later one.
ProgressKept ==
    \E f \in {db} \cup {file[n] : n \in Numbers} : f.state = "whole" /\ f.version >= saved

\* A server is never started on a world older than the last checkpoint that
\* was completed, however many checkpoints, clean-ups and cycles came between.
NoRegress == [][~up /\ up' => world' >= saved]_fvars

\* The cleaner never takes the file a checkpoint is being written to.
WriterUndisturbed == open # -1 => file[open] = Part(world)

-----------------------------------------------------------------------------
(* The inductive invariant behind them.                                    *)

Files == {NoFile} \cup [state : {"whole", "part"}, version : Nat]

FilesTypeOK ==
    /\ file \in [Numbers -> Files] /\ db \in Files /\ dbOld \in Files
    /\ up \in BOOLEAN /\ cleaning \in BOOLEAN
    /\ open \in Numbers \cup {-1} /\ suffix \in Nat
    /\ world \in Nat /\ newest \in Nat /\ saved \in Nat
    /\ doomed \in Seq(Numbers)
    /\ script \in [at : {"none", "db moved", "checkpoint moved"}, arg : Numbers]
    /\ failures \in 0..MaxFailures

\* The operator runs one thing at a time; the server writes the file of the
\* number it took last, and it is still there.
ProcessesInv ==
    /\ script.at = "none" => script = NoScript
    /\ script # NoScript => ~up /\ ~cleaning
    /\ ~cleaning => doomed = << >>
    /\ open # -1 => up /\ suffix = open + 1 /\ file[open] = Part(world)

\* A part that is not the last one begun was left by an earlier server, and
\* low: to begin file n with nothing whole below it, fopen must have failed n times.
PartsInv ==
    script = NoScript =>
        /\ \A n \in WholeOnes : n < suffix
        /\ \A n \in Numbers : file[n].state = "part" =>
            \/ n + 1 = suffix /\ (open # -1 \/ ~up)
            \/ n < failures
            \/ suffix <= n /\ n <= failures
        /\ WholeOnes = {} =>
            /\ \A n \in Existing : n <= failures
            /\ up => suffix <= (IF open = -1 THEN failures ELSE failures + 1)

\* What the cleaner is about to remove is older than some whole checkpoint.
DoomedInv ==
    \A i \in 1..Len(doomed) :
        /\ doomed[i] < suffix /\ doomed[i] # open
        /\ \E w \in WholeOnes : doomed[i] < w

\* Where the world of the last completed checkpoint is: in the whole file of
\* the highest number, which db/cycle takes, or else in db.
NewestInv ==
    /\ script = NoScript =>
        IF WholeOnes = {} THEN db.state = "whole" /\ db.version >= saved
        ELSE \E w \in WholeOnes :
                file[w].version >= saved /\ \A m \in WholeOnes : m <= w
    /\ script.at = "db moved" =>
        script.arg \in WholeOnes /\ file[script.arg].version >= saved
    /\ script.at = "checkpoint moved" => db.state = "whole" /\ db.version >= saved

FilesInv == FilesTypeOK /\ ProcessesInv /\ PartsInv /\ DoomedInv /\ NewestInv
=============================================================================
