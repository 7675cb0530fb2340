------------------------------ MODULE AtomicFile ------------------------------
(***************************************************************************)
(* atomic_write_file_bytes() (openmeta/metadata_transfer.cc, the POSIX     *)
(* branch) called by several threads and processes for the same path, one  *)
(* system call per action.                                                 *)
(*                                                                         *)
(* The file system is external: a directory that maps names to inodes, of  *)
(* which a prefix of its changes is on the disk, and inodes whose bytes    *)
(* are safe only once they were synced.  A call writes Size pieces.        *)
(***************************************************************************)
EXTENDS Naturals, FiniteSets

CONSTANTS Writers,      \* the calls; each is made at most once
          Processes,
          ProcessOf,    \* the process that makes a call
          Size,         \* pieces in every file written
          MaxAttempts,  \* 128: names tried for the temporary file
          Target,       \* the path
          Strangers,    \* inodes other programs put under the path
          KindOf,       \* their kinds: "regular", "symlink", "directory"
          Nothing,
          MaxCrashes,   \* bound: crashes of a process, and power failures
          MaxMeddling   \* bound: changes of the path by other programs

ASSUME FileAssumption ==
    /\ ProcessOf \in [Writers -> Processes]
    /\ Target \notin Processes \X Nat /\ Nothing \notin Processes \X Nat
    /\ Writers \cap Strangers = {} /\ Nothing \notin Writers \cup Strangers
    /\ KindOf \in [Strangers -> {"regular", "symlink", "directory"}]
    /\ Size \in Nat \ {0} /\ MaxAttempts \in Nat \ {0}
    /\ MaxCrashes \in Nat /\ MaxMeddling \in Nat

VARIABLES dir,          \* the names in use, and the inode of each
          disk,         \* the directory a power failure would bring back
          inode,        \* per writer: the pieces in its inode, and how many are on the disk
          nonce,        \* per process: next_nonce
          call,         \* per writer: where its call is, and its locals
          litter,       \* temporary names that nobody will remove any more
          budget        \* crashes and meddlings left

vars == <<dir, disk, inode, nonce, call, litter, budget>>

Modes == {"create", "overwrite"}
Answers == {"Ok", "Exists", "UnsafeTarget", "IoError"}
Gone == {"idle", "dead"} \cup Answers

Without(d, name) == [n \in DOMAIN d \ {name} |-> d[n]]
With(d, name, i) == [n \in DOMAIN d \cup {name} |-> IF n = name THEN i ELSE d[n]]
NoFiles == [n \in {} |-> Nothing]
Regular(i) == i \in Strangers => KindOf[i] = "regular"

Init ==
    /\ dir \in {NoFiles} \cup {With(NoFiles, Target, s) : s \in Strangers}
    /\ disk = dir
    /\ inode = [w \in Writers |-> [by |-> {}, len |-> 0, synced |-> 0]]
    /\ nonce = [p \in Processes |-> 1]
    /\ call = [w \in Writers |-> [at |-> "idle", mode |-> "create",
                                  temp |-> Nothing, tries |-> 0, fd |-> Nothing]]
    /\ litter = {}
    /\ budget = [crashes |-> MaxCrashes, meddling |-> MaxMeddling]

Go(w, at) == call' = [call EXCEPT ![w].at = at]
SameFiles == UNCHANGED <<dir, disk, inode, litter>>

Begin(w) ==
    /\ call[w].at = "idle"
    /\ \E mode \in Modes : call' = [call EXCEPT ![w].at = "open", ![w].mode = mode]
    /\ SameFiles /\ UNCHANGED <<nonce, budget>>

\* open(O_CREAT | O_EXCL): on EEXIST the next nonce is tried.
OpenTemp_SameNonce(w) ==                                         \* mutant
    LET p == ProcessOf[w]
        temp == <<p, nonce[p]>>
    IN  /\ call[w].at = "open"
        /\ IF temp \in DOMAIN dir
           THEN UNCHANGED vars
           ELSE /\ nonce' = [nonce EXCEPT ![p] = @ + 1]
                /\ dir' = With(dir, temp, w)
                /\ call' = [call EXCEPT ![w].at = "write", ![w].temp = temp, ![w].fd = w]
                /\ UNCHANGED <<disk, inode, litter, budget>>

OpenTemp(w) ==
    LET p == ProcessOf[w]
        temp == <<p, nonce[p]>>
        tries == call[w].tries + 1
    IN  /\ call[w].at = "open"
        /\ nonce' = [nonce EXCEPT ![p] = @ + 1]
        /\ IF temp \in DOMAIN dir
           THEN /\ call' = [call EXCEPT ![w].tries = tries,
                               ![w].at = IF tries >= MaxAttempts THEN "IoError" ELSE "open"]
                /\ UNCHANGED dir
           ELSE /\ dir' = With(dir, temp, w)
                /\ call' = [call EXCEPT ![w].at = "write", ![w].temp = temp, ![w].fd = w]
        /\ UNCHANGED <<disk, inode, litter, budget>>

\* fstat() and the loop of write(), one piece at a time.
WriteSome_Overruns(w) ==                                         \* mutant
    LET fd == call[w].fd
    IN  /\ call[w].at = "write" /\ inode[fd].len <= Size
        /\ inode' = [inode EXCEPT ![fd].len = @ + 1, ![fd].by = @ \cup {w}]
        /\ UNCHANGED <<dir, disk, nonce, call, litter, budget>>

WriteSome(w) ==
    LET fd == call[w].fd
    IN  /\ call[w].at = "write" /\ inode[fd].len < Size
        /\ inode' = [inode EXCEPT ![fd].len = @ + 1, ![fd].by = @ \cup {w}]
        /\ UNCHANGED <<dir, disk, nonce, call, litter, budget>>

Sync_Skipped(w) ==                                               \* mutant
    /\ call[w].at = "write" /\ inode[call[w].fd].len = Size
    /\ Go(w, "check")
    /\ SameFiles /\ UNCHANGED <<nonce, budget>>

Sync(w) ==
    /\ call[w].at = "write" /\ inode[call[w].fd].len = Size
    /\ inode' = [inode EXCEPT ![call[w].fd].synced = Size]
    /\ Go(w, "check")
    /\ UNCHANGED <<dir, disk, nonce, litter, budget>>

\* lstat() of the temporary name: still the inode that was opened.
CheckTemp(w) ==
    LET here == call[w].temp \in DOMAIN dir /\ dir[call[w].temp] = call[w].fd
    IN  /\ call[w].at = "check"
        /\ Go(w, IF here THEN "target" ELSE "undo IoError")
        /\ SameFiles /\ UNCHANGED <<nonce, budget>>

\* lstat() of the path.
CheckTarget(w) ==
    /\ call[w].at = "target"
    /\ Go(w, IF Target \notin DOMAIN dir THEN "publish"
             ELSE IF call[w].mode = "create" THEN "undo Exists"
             ELSE IF ~Regular(dir[Target]) THEN "undo UnsafeTarget"
             ELSE "publish")
    /\ SameFiles /\ UNCHANGED <<nonce, budget>>

\* rename(): fails on a directory, replaces anything else.
Rename(w) ==
    /\ call[w].at = "publish" /\ call[w].mode = "overwrite"
    /\ IF Target \in DOMAIN dir /\ dir[Target] \in Strangers
             /\ KindOf[dir[Target]] = "directory"
       THEN /\ Go(w, "undo IoError")
            /\ SameFiles
       ELSE /\ dir' = With(Without(dir, call[w].temp), Target, call[w].fd)
            /\ Go(w, "Ok")
            /\ UNCHANGED <<disk, inode, litter>>
    /\ UNCHANGED <<nonce, budget>>

\* link(): fails when the path exists by now.
Link_ByRename(w) ==                                              \* mutant
    /\ call[w].at = "publish" /\ call[w].mode = "create"
    /\ dir' = With(dir, Target, call[w].fd)
    /\ Go(w, "unlink")
    /\ UNCHANGED <<disk, inode, litter, nonce, budget>>

Link(w) ==
    /\ call[w].at = "publish" /\ call[w].mode = "create"
    /\ IF Target \in DOMAIN dir
       THEN /\ Go(w, "undo Exists")
            /\ SameFiles
       ELSE /\ dir' = With(dir, Target, call[w].fd)
            /\ Go(w, "unlink")
            /\ UNCHANGED <<disk, inode, litter>>
    /\ UNCHANGED <<nonce, budget>>

\* unlink() of the temporary name, whose result nobody looks at.
Unlink(w, answer) ==
    /\ \/ dir' = Without(dir, call[w].temp) /\ UNCHANGED litter
       \/ litter' = litter \cup {call[w].temp} /\ UNCHANGED dir
    /\ Go(w, answer)
    /\ UNCHANGED <<disk, inode, nonce, budget>>

UnlinkPublished(w) == call[w].at = "unlink" /\ Unlink(w, "Ok")

Undo_ExistsKeepsTemp(w) ==                                       \* mutant
    \/ call[w].at = "undo Exists" /\ Go(w, "Exists") /\ SameFiles
       /\ UNCHANGED <<nonce, budget>>
    \/ call[w].at = "undo UnsafeTarget" /\ Unlink(w, "UnsafeTarget")
    \/ call[w].at = "undo IoError" /\ Unlink(w, "IoError")

Undo(w) ==
    \/ call[w].at = "undo Exists" /\ Unlink(w, "Exists")
    \/ call[w].at = "undo UnsafeTarget" /\ Unlink(w, "UnsafeTarget")
    \/ call[w].at = "undo IoError" /\ Unlink(w, "IoError")

\* Any call to the system before the exchange may fail: no space, no
\* permission, a write of no bytes, an I/O error.
Fail(w) ==
    /\ \/ call[w].at = "open" /\ Go(w, "IoError")
       \/ call[w].at \in {"write", "check", "target", "publish"} /\ Go(w, "undo IoError")
    /\ SameFiles /\ UNCHANGED <<nonce, budget>>

Step(w) ==
    \/ OpenTemp(w) \/ WriteSome(w) \/ Sync(w) \/ CheckTemp(w) \/ CheckTarget(w)
    \/ Rename(w) \/ Link(w) \/ UnlinkPublished(w) \/ Undo(w)

-----------------------------------------------------------------------------
\* Changes of the directory reach the disk in their order, some time or never.
FlushDir == disk # dir /\ disk' = dir
            /\ UNCHANGED <<dir, inode, nonce, call, litter, budget>>

Running(W) == {w \in W : call[w].at \notin Gone}

\* The calls of W die.  Their temporary names stay, and so do those that
\* would come back from the disk.
Kill(W, names) ==
    /\ call' = [w \in Writers |-> IF w \in Running(W)
                                  THEN [call[w] EXCEPT !.at = "dead"] ELSE call[w]]
    /\ litter' = (litter \cup {call[w].temp : w \in Running(W)} \cup names) \ {Nothing}
    /\ budget' = [budget EXCEPT !.crashes = @ - 1]

\* A process dies; the next one with its number starts counting from 1.
Crash(p) ==
    /\ budget.crashes > 0
    /\ Kill({w \in Writers : ProcessOf[w] = p}, {})
    /\ nonce' = [nonce EXCEPT ![p] = 1]
    /\ UNCHANGED <<dir, disk, inode>>

\* All processes die, the directory falls back to what is on the disk, and of
\* each inode any number of pieces is left, but no fewer than were synced.
PowerFailure ==
    /\ budget.crashes > 0
    /\ Kill(Writers, DOMAIN disk \ {Target})
    /\ nonce' = [p \in Processes |-> 1]
    /\ dir' = disk /\ UNCHANGED disk
    /\ \E left \in [Writers -> 0..Size] :
          /\ \A w \in Writers : left[w] \in inode[w].synced..inode[w].len
          /\ inode' = [w \in Writers |-> [inode[w] EXCEPT !.len = left[w]]]

\* Another program removes or replaces what is under the path.
Meddle ==
    /\ budget.meddling > 0
    /\ budget' = [budget EXCEPT !.meddling = @ - 1]
    /\ dir' \in {Without(dir, Target)} \cup {With(dir, Target, s) : s \in Strangers}
    /\ UNCHANGED <<disk, inode, nonce, call, litter>>

Next ==
    \/ \E w \in Writers : Begin(w) \/ Step(w) \/ Fail(w)
    \/ FlushDir \/ PowerFailure \/ Meddle
    \/ \E p \in Processes : Crash(p)

\* A thread inside the call keeps running; the loop over EINTR is left out.
Fairness == \A w \in Writers : WF_vars(Step(w))

Spec == Init /\ [][Next]_vars /\ Fairness
-----------------------------------------------------------------------------
Phases == {"open", "write", "check", "target", "publish", "unlink",
           "undo Exists", "undo UnsafeTarget", "undo IoError"} \cup Gone
Temps == Processes \X (Nat \ {0})

Call == [at : Phases, mode : Modes, temp : Temps \cup {Nothing},
         tries : 0..MaxAttempts, fd : Writers \cup {Nothing}]

\* The state keeps its shape: names are the path or temporary ones, and no call
\* writes more than it was given or tries more names than it may.
TypeOK ==
    /\ DOMAIN dir \subseteq Temps \cup {Target}
    /\ \A n \in DOMAIN dir : dir[n] \in Writers \cup Strangers
    /\ DOMAIN disk \subseteq Temps \cup {Target}
    /\ \A n \in DOMAIN disk : disk[n] \in Writers \cup Strangers
    /\ inode \in [Writers -> [by : SUBSET Writers, len : 0..Size, synced : 0..Size]]
    /\ nonce \in [Processes -> Nat \ {0}]
    /\ call \in [Writers -> Call]
    /\ litter \subseteq Temps
    /\ budget \in [crashes : 0..MaxCrashes, meddling : 0..MaxMeddling]

\* What a reader finds under the path, now or after a power failure, is the
\* file of a stranger or the whole file of one writer: never a part of a file,
\* nor a mix of two (the temporary file, its O_EXCL and fsync before exchange).
Finished(i) == i \in Writers => inode[i].len = Size /\ inode[i].by = {i}
NeverTorn ==
    /\ Target \in DOMAIN dir => Finished(dir[Target])
    /\ Target \in DOMAIN disk => Finished(disk[Target])

\* Every temporary name in the directory belongs to a call that is still
\* running, or was left by a crash or a failed unlink: every way out of
\* atomic_write_file_bytes() removes its own.
CleansUp ==
    DOMAIN dir \ {Target} \subseteq litter \cup {call[w].temp : w \in Running(Writers)}

\* Every call comes to an answer, though names that dead processes left are in
\* its way (the next nonce, at most MaxAttempts times).
EveryCallEnds ==
    \A w \in Writers : (call[w].at # "idle") ~> (call[w].at \in Gone)

\* The calls implement FileSlot: one exchange of whole files, at rename() or
\* link(), and an answer that tells whether it happened; a call that may only
\* create never takes the place of a file.
Content(d) == IF Target \notin DOMAIN d THEN Nothing
              ELSE IF d[Target] \in Strangers THEN d[Target]
              ELSE [by |-> d[Target], whole |-> Finished(d[Target])]
Progress(w) == [mode |-> call[w].mode,
                at |-> IF call[w].at \in Gone THEN call[w].at
                       ELSE IF call[w].at = "unlink" THEN "placed" ELSE "waiting"]
Slot == INSTANCE FileSlot WITH content <- Content(dir), durable <- Content(disk),
                               call <- [w \in Writers |-> Progress(w)]
ImplementsSlot == Slot!Spec
=============================================================================
