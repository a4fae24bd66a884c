----------------------------- MODULE Relocation -----------------------------
(***************************************************************************)
(* Moving the data directory from its old name to the new one              *)
(* (dir_migrate.rs), which every process tries before anything else, and   *)
(* the copy made by hand (cli/status.rs: cmd_migrate).  The old directory  *)
(* is renamed; where the two lie on different file systems it is copied    *)
(* file by file and then removed file by file.  A still older installation *)
(* has one file in a place of its own.  Nothing is moved once the new      *)
(* directory exists.  std::fs::copy opens its source, empties what is at   *)
(* its destination and then fills it; it does so also with a file that     *)
(* another process has put there already.  A copy may fail and a process   *)
(* may be cut short at any point; failures are reported and the process    *)
(* goes on.                                                                *)
(*                                                                         *)
(* Left out: the config directory, which is moved by the same function,    *)
(* the block in CLAUDE.md, and what happens between the opening of a       *)
(* copy's source and that of its destination.                              *)
(***************************************************************************)
EXTENDS Integers, FiniteSets

CONSTANTS
    Files,     \* what the old directory may hold
    Db,        \* of these, the database
    Movers,    \* processes that start
    MaxFaults, \* bound: copies that fail and processes cut short
    Gone       \* what a directory that does not exist holds

ASSUME FilesAssumption ==
    Db \in Files /\ (\A dir \in SUBSET Files : dir # Gone) /\ MaxFaults \in Nat

VARIABLES
    old,      \* the files of the old directory, or Gone
    single,   \* there is a database in the still older place
    new,      \* the files that are whole in the new directory, or Gone
    torn,     \* the files that are there in part
    fresh,    \* the new directory has a database a process made there
    split,    \* the old and the new places are on different file systems
    mover,    \* mover[p]: what p is doing
    list,     \* list[p]: what p has yet to copy of the old directory
    writing,  \* writing[p]: the file that p copies, unless another emptied it since
    faults,   \* failures so far
    found,    \* what there was to move: history
    met       \* two processes were moving it at the same time: history

moveVars == <<old, single, new, torn, fresh, split, mover, list, writing, faults, found, met>>

There(dir) == dir # Gone
Held(dir) == IF There(dir) THEN dir ELSE {}
Single == IF single THEN {Db} ELSE {}
\* Filling a file of the directory, the single file, the one copied by hand.
Fills == {"write", "writeDb", "writeHand"}
Moving == Fills \cup {"rename", "copy", "remove", "file", "unlink", "ask"}
MoverSteps == Moving \cup {"idle", "open"}

MoveTypeOK ==
    /\ old \in {Gone} \cup SUBSET Files /\ new \in {Gone} \cup SUBSET Files
    /\ torn \subseteq Files /\ found \subseteq Files
    /\ single \in BOOLEAN /\ fresh \in BOOLEAN /\ split \in BOOLEAN /\ met \in BOOLEAN
    /\ mover \in [Movers -> MoverSteps]
    /\ list \in [Movers -> SUBSET Files] /\ writing \in [Movers -> SUBSET Files]
    /\ faults \in 0..MaxFaults

MoveInit ==
    /\ \/ old = Files /\ single = FALSE /\ found = Files
       \/ old = Gone /\ single = TRUE /\ found = {Db}
    /\ new = Gone /\ torn = {} /\ fresh = FALSE
    /\ split \in BOOLEAN
    /\ mover = [p \in Movers |-> "idle"]
    /\ list = [p \in Movers |-> {}] /\ writing = [p \in Movers |-> {}]
    /\ faults = 0 /\ met = FALSE

Moves(p, step) ==
    /\ mover' = [mover EXCEPT ![p] = step]
    /\ met' = (met \/ (step \in Moving /\ \E q \in Movers \ {p} : mover[q] \in Moving))

-----------------------------------------------------------------------------
(* std::fs::copy                                                           *)

\* Opened and emptied, whoever else is filling it.
Empties(p, f) ==
    /\ new' = Held(new) \ {f} /\ torn' = torn \cup {f}
    /\ fresh' = (fresh /\ f # Db)
    /\ writing' = [q \in Movers |-> IF q = p THEN {f} ELSE writing[q] \ {f}]

\* The end of a copy: the file is whole if nobody emptied it in between.
Fill(p) ==
    /\ mover[p] \in Fills
    /\ new' = Held(new) \cup writing[p] /\ torn' = torn \ writing[p]
    /\ writing' = [writing EXCEPT ![p] = {}]
    /\ Moves(p, CASE mover[p] = "write" -> "copy" [] mover[p] = "writeDb" -> "unlink" [] OTHER -> "idle")
    /\ UNCHANGED <<old, single, fresh, split, list, faults, found>>

-----------------------------------------------------------------------------
\* relocate_dir up to the rename and, when it has nothing to do,
\* relocate_legacy_db_file up to its own.
Begin(p) ==
    /\ mover[p] = "idle"
    /\ \/ There(new) /\ Moves(p, "open") /\ UNCHANGED new
       \/ ~There(new) /\ There(old) /\ Moves(p, "rename") /\ UNCHANGED new
       \/ ~There(new) /\ ~There(old) /\ single /\ Moves(p, "file") /\ new' = {}
       \/ ~There(new) /\ ~There(old) /\ ~single /\ Moves(p, "open") /\ UNCHANGED new
    /\ UNCHANGED <<old, single, torn, fresh, split, list, writing, faults, found>>

\* The rename, over nothing or over an empty directory; else the new
\* directory is made and the old one listed.
Rename(p) ==
    /\ mover[p] = "rename"
    /\ IF There(old) /\ ~split /\ Held(new) = {} /\ torn = {} /\ ~fresh
       THEN new' = old /\ old' = Gone /\ Moves(p, "open") /\ UNCHANGED list
       ELSE /\ new' = Held(new) /\ old' = old
            /\ list' = [list EXCEPT ![p] = Held(old)]
            /\ Moves(p, IF There(old) THEN "copy" ELSE "open")
    /\ UNCHANGED <<single, torn, fresh, split, writing, faults, found>>

\* copy_dir_all: the next file, over whatever is there.  One that another
\* process has removed is not listed any more, or cannot be opened.
CopyNext(p) ==
    /\ mover[p] = "copy"
    /\ \/ \E f \in list[p] \cap Held(old) :
            Empties(p, f) /\ list' = [list EXCEPT ![p] = @ \ {f}] /\ Moves(p, "write")
       \/ \E f \in list[p] \ Held(old) :
            /\ list' = [list EXCEPT ![p] = @ \ {f}]
            /\ \E step \in {"copy", "open"} : Moves(p, step)
            /\ UNCHANGED <<new, torn, fresh, writing>>
       \/ list[p] = {} /\ Moves(p, "remove") /\ UNCHANGED <<new, torn, fresh, list, writing>>
    /\ UNCHANGED <<old, single, split, faults, found>>

\* Mutant: the error of a copy is reported and the old directory removed.
FailsAndRemoves(p) ==
    /\ mover[p] \in Fills \cup {"copy"} /\ faults < MaxFaults
    /\ faults' = faults + 1
    /\ writing' = [writing EXCEPT ![p] = {}]
    /\ Moves(p, CASE mover[p] = "writeHand" -> "idle" [] mover[p] = "writeDb" -> "open" [] OTHER -> "remove")
    /\ UNCHANGED <<old, single, new, torn, fresh, split, list, found>>

\* A file cannot be copied, or not to its end: the error is reported and the
\* process goes on; the command ends.
CopyFails(p) ==
    /\ mover[p] \in Fills \cup {"copy"} /\ faults < MaxFaults
    /\ faults' = faults + 1
    /\ writing' = [writing EXCEPT ![p] = {}]
    /\ Moves(p, IF mover[p] = "writeHand" THEN "idle" ELSE "open")
    /\ UNCHANGED <<old, single, new, torn, fresh, split, list, found>>

\* remove_dir_all, file by file.
RemoveOne(p) ==
    /\ mover[p] = "remove"
    /\ \/ \E f \in Held(old) : old' = old \ {f} /\ UNCHANGED <<mover, met>>
       \/ Held(old) = {} /\ old' = Gone /\ Moves(p, "open")
    /\ UNCHANGED <<single, new, torn, fresh, split, list, writing, faults, found>>

\* relocate_legacy_db_file: the rename, else the copy; either finds out when
\* another process has moved the file.
MoveFile(p) ==
    /\ mover[p] = "file"
    /\ \/ ~single /\ Moves(p, "open") /\ UNCHANGED <<single, new, torn, fresh, writing>>
       \/ /\ single /\ ~split /\ Moves(p, "open")
          /\ new' = Held(new) \cup {Db} /\ torn' = torn \ {Db} /\ fresh' = FALSE /\ single' = FALSE
          /\ writing' = [q \in Movers |-> writing[q] \ {Db}]
       \/ single /\ split /\ Empties(p, Db) /\ Moves(p, "writeDb") /\ UNCHANGED single
    /\ UNCHANGED <<old, split, list, faults, found>>

\* The copy has been made: the file is removed.
Unlink(p) ==
    /\ mover[p] = "unlink"
    /\ single' = FALSE /\ Moves(p, "open")
    /\ UNCHANGED <<old, new, torn, fresh, split, list, writing, faults, found>>

\* The process opens the database, making the directory and the file.
Use(p) ==
    /\ mover[p] = "open"
    /\ new' = Held(new) /\ fresh' = (fresh \/ Db \notin Held(new) \cup torn)
    /\ Moves(p, "idle")
    /\ UNCHANGED <<old, single, torn, split, list, writing, faults, found>>

\* `mynd migrate`, which finds the old file and no new one, and asks.
AskToCopy(p) ==
    /\ mover[p] = "open" /\ single /\ Db \notin Held(new) \cup torn /\ ~fresh
    /\ Moves(p, "ask")
    /\ UNCHANGED <<old, single, new, torn, fresh, split, list, writing, faults, found>>

\* Confirmed: the file is copied, over what is there by now.
CopyByHand(p) ==
    /\ mover[p] = "ask"
    /\ \/ single /\ Empties(p, Db) /\ Moves(p, "writeHand")
       \/ ~single /\ Moves(p, "idle") /\ UNCHANGED <<new, torn, fresh, writing>>
    /\ UNCHANGED <<old, single, split, list, faults, found>>

\* The process is cut short, or its user answers no.
StopMover(p) ==
    /\ mover[p] # "idle" /\ faults < MaxFaults
    /\ Moves(p, "idle") /\ faults' = faults + 1
    /\ writing' = [writing EXCEPT ![p] = {}]
    /\ UNCHANGED <<old, single, new, torn, fresh, split, list, found>>

MoveNext ==
    \E p \in Movers :
        \/ Begin(p) \/ Rename(p) \/ CopyNext(p) \/ CopyFails(p) \/ RemoveOne(p) \/ MoveFile(p) \/ Unlink(p)
        \/ Fill(p) \/ Use(p) \/ AskToCopy(p) \/ CopyByHand(p) \/ StopMover(p)

-----------------------------------------------------------------------------
(* What is checked                                                         *)

\* Nowhere whole: neither in the old places nor in the new one.
Lost == found \ (Held(old) \cup Single \cup Held(new))

\* A process that moves the files by itself loses none, whatever fails and
\* wherever it is cut short, and whoever comes after it: each is whole in
\* the old place or in the new one (relocate_dir removes only after it has
\* copied).  Two that move them at the same time may be without a whole
\* file, because the slower one empties and copies again what the faster one
\* has copied and removed (copy_dir_all); but only while somebody is filling
\* it, and for good only if one of them failed or was cut short.
NothingIsLost ==
    \A f \in Lost : met /\ f \in torn /\ (faults > 0 \/ \E p \in Movers : f \in writing[p])
=============================================================================
