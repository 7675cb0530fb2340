----------------------------- MODULE MCAtomicFile -----------------------------
(* Two calls for one path, by one process: at once by two threads, or one   *)
(* after a crash by the next process that has the number.                   *)
EXTENDS AtomicFile, TLC

CONSTANTS w1, w2, proc, old, dirent

MCProcessOf == (w1 :> proc) @@ (w2 :> proc)
MCKindOf == (old :> "regular") @@ (dirent :> "directory")
=============================================================================
