---------------------------- MODULE PersistTransfer ----------------------------
(***************************************************************************)
(* The end of a transfer: where the generated XMP goes                     *)
(* (execute_prepared_transfer_prepared_result) and what reaches the disk   *)
(* (persist_prepared_transfer_file_result), one file operation per action, *)
(* while other programs change the same files and the process may die.     *)
(*                                                                         *)
(* A file write is atomic and answers as FileSlot says; the edit of the    *)
(* image is external and gives edited bytes or none.                       *)
(***************************************************************************)
EXTENDS Naturals, Sequences, Functions

\* The output; the sidecars photo.xmp and photo.jpg.xmp of a base path (first,
\* second); and the first sidecar of the output, which is that of the base path
\* when the two paths agree (beside).
Files == {"output", "first", "second", "beside"}
NoPath == "no path"
\* "other" and "locked" are files of other programs; the locked one cannot be opened.
Contents == {"none", "other", "locked", "image", "image with xmp", "xmp"}
Lockable == {"first", "beside"}    \* bound: the paths under which "locked" files appear
TransferModes == {"EmbeddedOnly", "SidecarOnly", "EmbeddedAndSidecar"}
Statuses == {"Ok", "Unsupported"}

Request == [mode : TransferModes, stripEmbedded : BOOLEAN, stripSidecar : BOOLEAN,
            host : {"Unknown", "NotPresent", "Present"},
            base : {"first", "beside", NoPath},   \* the first candidate, if a path is known
            second : {"second", NoPath},
            streamed : BOOLEAN,      \* the caller has written the output itself
            overwriteOutput : BOOLEAN, overwriteSidecar : BOOLEAN, remove : BOOLEAN]

VARIABLES files,        \* what is under each path
          stage,        \* where the transfer is
          request,
          prepared,     \* ExecutePreparedTransferFileResult
          result,       \* PersistPreparedTransferFileResult
          effects,      \* what this transfer did to the disk, in order
          late          \* whether another program has put a file where the old sidecar
                        \* was, after the transfer looked there

transferVars == <<files, stage, request, prepared, result, effects, late>>

\* path_exists() opens the file, and takes one that it cannot open for missing.
Exists(path) == path # NoPath /\ files[path] \notin {"none", "locked"}
Taken(path) == files[path] # "none"

\* find_existing_xmp_sidecar_path(): the first that exists, or else the first.
FindExisting(r) == IF r.base = NoPath THEN NoPath
                   ELSE IF ~Exists(r.base) /\ Exists(r.second) THEN r.second ELSE r.base

\* How atomic_write_file_bytes() may answer.
MayAnswer(answer, path, overwrite) ==
    \/ answer = "IoError"
    \/ path # NoPath /\ \/ answer = "Ok" /\ (overwrite \/ ~Taken(path))
                        \/ answer = "Exists" /\ ~overwrite /\ Taken(path)
                        \/ answer = "UnsafeTarget" /\ overwrite
                               /\ files[path] \in {"other", "locked"}

-----------------------------------------------------------------------------
\* Which sidecar, if any, is asked to be removed after the transfer.
NoCleanup == [requested |-> FALSE, path |-> NoPath]
Cleanup_AnyMode(r) ==                                            \* mutant
    LET path == FindExisting(r)
    IN  IF r.stripSidecar THEN [requested |-> r.host # "NotPresent" /\ Exists(path), path |-> path]
        ELSE NoCleanup

Cleanup(r) ==
    LET path == IF r.mode = "EmbeddedOnly" /\ r.host = "NotPresent" THEN NoPath
                ELSE FindExisting(r)
        wanted == CASE r.host = "Present" -> TRUE
                    [] r.host = "NotPresent" -> FALSE
                    [] r.host = "Unknown" -> Exists(path)
    IN  IF ~r.stripSidecar THEN NoCleanup
        ELSE [requested |-> wanted /\ r.mode = "EmbeddedOnly", path |-> path]

\* The prepared blocks and the sidecar bytes; the edit and the stages before it
\* may fail for reasons of their own.
Prepared(r, xmp, ok, edited) ==
    LET sidecar == r.mode # "EmbeddedOnly"
        refused == r.stripEmbedded /\ r.mode # "SidecarOnly"
    IN  [requested |-> sidecar,
         sidecarPath |-> IF sidecar THEN r.base ELSE NoPath,
         sidecarStatus |-> IF sidecar /\ IF ok THEN refused ELSE ~xmp
                           THEN "Unsupported" ELSE "Ok",
         sidecarBytes |-> sidecar /\ xmp /\ ~(ok /\ refused),
         cleanup |-> IF ok THEN Cleanup(r) ELSE NoCleanup,
         edited |-> IF ~(ok /\ edited) \/ refused THEN "none"
                    ELSE IF xmp /\ r.mode # "SidecarOnly" THEN "image with xmp" ELSE "image",
         xmp |-> xmp]

NothingPrepared == Prepared([mode |-> "EmbeddedOnly", stripEmbedded |-> FALSE, base |-> NoPath,
                     second |-> NoPath,
                     stripSidecar |-> FALSE, host |-> "Unknown"], FALSE, FALSE, FALSE)
NoResult == [status |-> "Unsupported", output |-> "Unsupported", sidecar |-> "Unsupported",
             sidecarPath |-> NoPath, cleanup |-> "Unsupported", removed |-> FALSE]

TransferInit ==
    /\ files \in [Files -> {"none", "other", "locked"}]
    /\ \A f \in Files : files[f] = "locked" => f \in Lockable
    /\ stage = "execute"
    /\ request \in Request
    /\ prepared = NothingPrepared
    /\ result = NoResult
    /\ effects = <<>>
    /\ late = FALSE

\* execute_prepared_transfer_file(): a caller that streams has its output on the
\* disk when the edit succeeded, and otherwise does not persist.
Execute ==
    /\ stage = "execute"
    /\ \E xmp, ok, edited \in BOOLEAN :
          LET p == Prepared(request, xmp, ok, edited)
          IN  /\ prepared' = p
              /\ IF request.streamed /\ p.edited # "none"
                 THEN /\ files' = [files EXCEPT !["output"] = p.edited]
                      /\ effects' = <<"output">>
                      /\ stage' = "persist"
                 ELSE /\ UNCHANGED <<files, effects>>
                      /\ stage' = IF request.streamed THEN "done" ELSE "persist"
    /\ UNCHANGED <<request, result, late>>

FailOutput(answer) ==
    result' = [result EXCEPT !.output = answer, !.status = answer] /\ stage' = "done"

PersistOutput_GoesOn ==                                          \* mutant
    /\ stage = "persist" /\ ~request.streamed
    /\ \E answer \in {"Ok", "Exists", "UnsafeTarget", "IoError"} :
          /\ MayAnswer(answer, "output", request.overwriteOutput)
          /\ prepared.edited # "none"
          /\ IF answer = "Ok"
             THEN /\ files' = [files EXCEPT !["output"] = prepared.edited]
                  /\ effects' = Append(effects, "output")
             ELSE UNCHANGED <<files, effects>>
          /\ result' = [result EXCEPT !.output = IF answer = "Ok" THEN "Ok" ELSE "Unsupported"]
          /\ stage' = "sidecar"
    /\ UNCHANGED <<request, prepared, late>>

PersistOutput ==
    /\ stage = "persist" /\ ~request.streamed
    /\ IF prepared.edited = "none"
       THEN FailOutput("Unsupported") /\ UNCHANGED <<files, effects>>
       ELSE \E answer \in {"Ok", "Exists", "UnsafeTarget", "IoError"} :
               /\ MayAnswer(answer, "output", request.overwriteOutput)
               /\ IF answer # "Ok"
                  THEN FailOutput("Unsupported") /\ UNCHANGED <<files, effects>>
                  ELSE /\ files' = [files EXCEPT !["output"] = prepared.edited]
                       /\ effects' = Append(effects, "output")
                       /\ result' = [result EXCEPT !.output = "Ok"]
                       /\ stage' = "sidecar"
    /\ UNCHANGED <<request, prepared, late>>

OutputWasStreamed ==
    /\ stage = "persist" /\ request.streamed
    /\ result' = [result EXCEPT !.output = "Ok"]
    /\ stage' = "sidecar"
    /\ UNCHANGED <<files, request, prepared, effects, late>>

\* Without a path of its own the sidecar goes beside the output.
SidecarTarget_NoDefault == prepared.sidecarPath                  \* mutant
SidecarTarget == IF prepared.sidecarPath = NoPath THEN "beside" ELSE prepared.sidecarPath

PersistSidecar_AnswersOk ==                                      \* mutant
    /\ stage = "sidecar" /\ prepared.requested
    /\ \E answer \in {"Ok", "Exists", "UnsafeTarget", "IoError"} :
          /\ MayAnswer(answer, SidecarTarget, request.overwriteSidecar)
          /\ IF answer = "Ok" /\ prepared.sidecarBytes
             THEN /\ files' = [files EXCEPT ![SidecarTarget] = "xmp"]
                  /\ effects' = Append(effects, "sidecar")
             ELSE UNCHANGED <<files, effects>>
          /\ result' = [result EXCEPT !.sidecarPath = SidecarTarget, !.sidecar = "Ok"]
    /\ stage' = "cleanup"
    /\ UNCHANGED <<request, prepared, late>>

PersistSidecar ==
    /\ stage = "sidecar" /\ prepared.requested
    /\ IF prepared.sidecarStatus # "Ok" \/ ~prepared.sidecarBytes
       THEN /\ result' = [result EXCEPT !.sidecarPath = SidecarTarget,
                                        !.sidecar = prepared.sidecarStatus]
            /\ UNCHANGED <<files, effects>>
       ELSE \E answer \in {"Ok", "Exists", "UnsafeTarget", "IoError"} :
               /\ MayAnswer(answer, SidecarTarget, request.overwriteSidecar)
               /\ result' = [result EXCEPT !.sidecarPath = SidecarTarget,
                                !.sidecar = IF answer = "Ok" THEN "Ok" ELSE "Unsupported"]
               /\ IF answer = "Ok"
                  THEN /\ files' = [files EXCEPT ![SidecarTarget] = "xmp"]
                       /\ effects' = Append(effects, "sidecar")
                  ELSE UNCHANGED <<files, effects>>
    /\ stage' = "cleanup"
    /\ UNCHANGED <<request, prepared, late>>

NoSidecar ==
    /\ stage = "sidecar" /\ ~prepared.requested
    /\ stage' = "cleanup"
    /\ UNCHANGED <<files, request, prepared, result, effects, late>>

\* Whether the old sidecar has to go, and whether it is still there.
CheckCleanup ==
    LET path == prepared.cleanup.path
        persisted == path = result.sidecarPath /\ "sidecar" \in Range(effects)
    IN  /\ stage = "cleanup" /\ prepared.cleanup.requested
        /\ IF path # NoPath /\ ~persisted /\ request.remove /\ Exists(path)
           THEN stage' = "remove" /\ UNCHANGED result
           ELSE /\ result' = [result EXCEPT !.cleanup = IF path = NoPath THEN "Unsupported"
                                                        ELSE "Ok"]
                /\ stage' = "return"
        /\ UNCHANGED <<files, request, prepared, effects, late>>

NoCleanupAsked ==
    /\ stage = "cleanup" /\ ~prepared.cleanup.requested
    /\ stage' = "return"
    /\ UNCHANGED <<files, request, prepared, result, effects, late>>

\* std::remove(), which fails when somebody else was faster or the file may not go.
Remove_AnswersOk ==                                              \* mutant
    LET path == prepared.cleanup.path
    IN  /\ stage = "remove"
        /\ \/ /\ Taken(path)
              /\ files' = [files EXCEPT ![path] = "none"]
              /\ effects' = Append(effects, "removed")
              /\ result' = [result EXCEPT !.cleanup = "Ok", !.removed = TRUE]
           \/ /\ result' = [result EXCEPT !.cleanup = "Ok"]
              /\ UNCHANGED <<files, effects>>
        /\ stage' = "return"
        /\ UNCHANGED <<request, prepared, late>>

Remove ==
    LET path == prepared.cleanup.path
    IN  /\ stage = "remove"
        /\ \/ /\ Taken(path)
              /\ files' = [files EXCEPT ![path] = "none"]
              /\ effects' = Append(effects, "removed")
              /\ result' = [result EXCEPT !.cleanup = "Ok", !.removed = TRUE]
           \/ /\ result' = [result EXCEPT !.cleanup = "Unsupported"]
              /\ UNCHANGED <<files, effects>>
        /\ stage' = "return"
        /\ UNCHANGED <<request, prepared, late>>

Return ==
    /\ stage = "return"
    /\ result' = [result EXCEPT !.status =
                     IF prepared.requested /\ result.sidecar # "Ok" THEN result.sidecar
                     ELSE IF prepared.cleanup.requested THEN result.cleanup ELSE "Ok"]
    /\ stage' = "done"
    /\ UNCHANGED <<files, request, prepared, effects, late>>

\* The process dies; another program writes or removes a file.
Die ==
    /\ stage # "done"
    /\ stage' = "dead"
    /\ UNCHANGED <<files, request, prepared, result, effects, late>>
OthersWrite ==
    /\ stage \notin {"done", "dead"}
    /\ \E f \in Files, c \in {"none", "other", "locked"} :
          /\ c = "locked" => f \in Lockable
          /\ files' = [files EXCEPT ![f] = c]
          /\ late' = (late \/ (stage = "return" /\ f = prepared.cleanup.path /\ c # "none"))
    /\ UNCHANGED <<stage, request, prepared, result, effects>>

Persist == \/ PersistOutput \/ OutputWasStreamed \/ PersistSidecar \/ NoSidecar
           \/ CheckCleanup \/ NoCleanupAsked \/ Remove \/ Return

TransferNext == Execute \/ Persist \/ Die \/ OthersWrite

TransferSpec == TransferInit /\ [][TransferNext]_transferVars

-----------------------------------------------------------------------------
Did(effect) == effect \in Range(effects)

\* The state keeps its shape; a sidecar is never written to no path.
TransferTypeOK ==
    /\ files \in [Files -> Contents]
    /\ stage \in {"execute", "persist", "sidecar", "cleanup", "remove", "return", "done", "dead"}
    /\ request \in Request
    /\ prepared.sidecarPath \in Files \cup {NoPath}
    /\ prepared.cleanup.path \in Files \cup {NoPath}
    /\ result \in [status : Statuses, output : Statuses, sidecar : Statuses,
                   sidecarPath : Files \cup {NoPath}, cleanup : Statuses, removed : BOOLEAN]
    /\ stage = "cleanup" /\ prepared.requested => result.sidecarPath # NoPath
    /\ late \in BOOLEAN /\ Len(effects) <= 3 /\ Range(effects) \subseteq {"output", "sidecar", "removed"}

\* The sidecars are not touched before the new output is in place: a refused or
\* failed output leaves everything as it was, and a crash never leaves a sidecar
\* that goes with an output which was not written.
OutputFirst == effects # <<>> => effects[1] = "output"

\* What the caller is told is what happened.  An output that is not Ok means that
\* nothing was done.  Ok means that the output is in place, that a sidecar made for
\* it is beside it, and that the old sidecar, if it was to be removed, is gone.  It
\* stays with Ok only if it cannot be opened, for then it is taken for missing, or if
\* another program put it there after the transfer had looked.
AnswersAreTrue ==
    stage = "done" =>
        /\ result.output # "Ok" => effects = <<>>
        /\ result.removed <=> Did("removed")
        /\ result.status = "Ok" => /\ Did("output")
                                   /\ prepared.sidecarBytes => Did("sidecar")
                                   /\ prepared.cleanup.requested =>
                                         /\ prepared.cleanup.path # NoPath
                                         /\ request.remove =>
                                                late \/ ~Exists(prepared.cleanup.path)

\* A packet that was made is on the disk when the answer is Ok: in the image, or
\* beside it when its blocks were taken out of the image.
XmpLandsSomewhere ==
    stage = "done" /\ result.status = "Ok" /\ prepared.xmp =>
        \/ Did("output") /\ prepared.edited = "image with xmp"
        \/ Did("sidecar")

\* An old sidecar goes only for an image that carries the packet itself, and a
\* transfer never removes a sidecar it has just written.
OldSidecarYields ==
    Did("removed") => /\ ~Did("sidecar")
                      /\ prepared.xmp => Did("output") /\ prepared.edited = "image with xmp"
=============================================================================
