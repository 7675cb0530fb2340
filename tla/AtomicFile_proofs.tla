--------------------------- MODULE AtomicFile_proofs ---------------------------
(***************************************************************************)
(* For any number of calls, processes, crashes and strangers: what is      *)
(* under the path is one whole file, no temporary file is forgotten, and   *)
(* the calls implement FileSlot.  And for every transfer that makes such   *)
(* calls: what is done first, what is answered and what is removed.        *)
(*                                                                         *)
(* The argument: a call writes only the inode it created, and it reaches   *)
(* the exchange only after that inode is complete and synced; an inode     *)
(* under the path belongs to a call that has passed the exchange, which    *)
(* never writes again.                                                     *)
(***************************************************************************)
EXTENDS AtomicFile, PersistTransfer, SequenceTheorems, TLAPS

Holding == {"write", "check", "target", "publish", "unlink",
            "undo Exists", "undo UnsafeTarget", "undo IoError"}

\* A call in progress has its own inode and a temporary name; before, none.
Owns == \A w \in Writers :
    /\ call[w].at \in Holding => call[w].fd = w /\ call[w].temp \in Temps
    /\ call[w].at \in {"idle", "open"} => call[w].temp = Nothing /\ call[w].tries < MaxAttempts

\* Nobody else writes to it.
Written == \A w \in Writers : /\ inode[w].by \subseteq {w}
                              /\ inode[w].len > 0 => inode[w].by = {w}

Safe(w) == inode[w].synced = Size /\ inode[w].len = Size

\* Past the write loop the inode is complete and synced.
Ready == \A w \in Writers :
            call[w].at \in {"check", "target", "publish", "unlink", "Ok"} => Safe(w)

\* Under the path there are only inodes of calls that passed the exchange.
Published(d) == \A w \in Writers :
    Target \in DOMAIN d /\ d[Target] = w => Safe(w) /\ call[w].at \in {"unlink", "Ok", "dead"}

Inv == TypeOK /\ Owns /\ Written /\ Ready /\ Published(dir) /\ Published(disk) /\ CleansUp

-----------------------------------------------------------------------------
\* What With and Without do to a directory.
LEMMA DirectoryOps ==
    ASSUME NEW d, NEW name, NEW i
    PROVE  /\ DOMAIN Without(d, name) = DOMAIN d \ {name}
           /\ \A n \in DOMAIN d \ {name} : Without(d, name)[n] = d[n]
           /\ DOMAIN With(d, name, i) = DOMAIN d \cup {name}
           /\ \A n \in DOMAIN d : n # name => With(d, name, i)[n] = d[n]
           /\ With(d, name, i)[name] = i
  BY DEF With, Without

\* A call's record with one of its fields changed.
LEMMA SetAt ==
    ASSUME NEW k \in Call, NEW x \in Phases, NEW c, c = [k EXCEPT !.at = x]
    PROVE  c \in Call /\ c.at = x /\ c.mode = k.mode /\ c.temp = k.temp /\ c.tries = k.tries /\ c.fd = k.fd
  BY SMTT(20) DEF Call

LEMMA SetMode ==
    ASSUME NEW k \in Call, NEW x \in Modes, NEW c, c = [k EXCEPT !.mode = x]
    PROVE  c \in Call /\ c.at = k.at /\ c.mode = x /\ c.temp = k.temp /\ c.tries = k.tries /\ c.fd = k.fd
  BY SMTT(20) DEF Call

LEMMA SetTemp ==
    ASSUME NEW k \in Call, NEW x \in Temps \cup {Nothing}, NEW c, c = [k EXCEPT !.temp = x]
    PROVE  c \in Call /\ c.at = k.at /\ c.mode = k.mode /\ c.temp = x /\ c.tries = k.tries /\ c.fd = k.fd
  BY SMTT(20) DEF Call

LEMMA SetTries ==
    ASSUME NEW k \in Call, NEW x \in 0..MaxAttempts, NEW c, c = [k EXCEPT !.tries = x]
    PROVE  c \in Call /\ c.at = k.at /\ c.mode = k.mode /\ c.temp = k.temp /\ c.tries = x /\ c.fd = k.fd
  BY SMTT(20) DEF Call

LEMMA SetFd ==
    ASSUME NEW k \in Call, NEW x \in Writers \cup {Nothing}, NEW c, c = [k EXCEPT !.fd = x]
    PROVE  c \in Call /\ c.at = k.at /\ c.mode = k.mode /\ c.temp = k.temp /\ c.tries = k.tries /\ c.fd = x
  BY SMTT(20) DEF Call

LEMMA CallType ==
    ASSUME NEW k \in Call
    PROVE  k.tries \in 0..MaxAttempts
  BY DEF Call

\* The initial states satisfy the invariant.
LEMMA InitInv == ASSUME FileAssumption PROVE Init => Inv
<1> SUFFICES ASSUME Init PROVE Inv
  OBVIOUS
<1>1. DOMAIN dir \subseteq {Target} /\ \A n \in DOMAIN dir : dir[n] \in Strangers
  <2>1. CASE dir = NoFiles
    BY <2>1 DEF NoFiles
  <2>2. CASE \E s \in Strangers : dir = With(NoFiles, Target, s)
    <3>1. PICK s \in Strangers : dir = With(NoFiles, Target, s)
      BY <2>2
    <3>2. DOMAIN NoFiles = {}
      BY DEF NoFiles
    <3> QED
      BY <3>1, <3>2 DEF With
  <2> QED
    BY <2>1, <2>2 DEF Init
<1>2. \A w \in Writers : /\ call[w] = [at |-> "idle", mode |-> "create",
                                       temp |-> Nothing, tries |-> 0, fd |-> Nothing]
                         /\ inode[w] = [by |-> {}, len |-> 0, synced |-> 0]
  BY DEF Init
<1>7. \A w \in Writers : /\ call[w].at = "idle"
                         /\ call[w].temp = Nothing /\ call[w].tries = 0
                         /\ call[w].fd = Nothing
                         /\ inode[w].by = {} /\ inode[w].len = 0
  BY <1>2
<1>3. TypeOK
  <2>4. 0 \in 0..Size /\ 0 \in 0..MaxAttempts
    BY FileAssumption DEF FileAssumption
  <2>1. nonce \in [Processes -> Nat \ {0}]
    BY DEF Init
  <2>2. inode \in [Writers -> [by : SUBSET Writers, len : 0..Size, synced : 0..Size]]
    BY <2>4 DEF Init
  <2>3. budget \in [crashes : 0..MaxCrashes, meddling : 0..MaxMeddling]
    BY DEF Init, FileAssumption
  <2> QED
    <3>1. litter = {} /\ disk = dir
      BY DEF Init
    <3>2. call \in [Writers -> Call]
      <4>1. "idle" \in Phases
        BY DEF Phases, Gone
      <4>2. "create" \in Modes
        BY DEF Modes
      <4> QED
        BY <2>4, <4>1, <4>2 DEF Init, Call
    <3> QED
      BY <1>1, <3>1, <3>2, <2>1, <2>2, <2>3 DEF TypeOK
<1>4. Owns /\ Written /\ Ready
  <2>1. Owns
    <3>1. 0 < MaxAttempts
      BY FileAssumption DEF FileAssumption
    <3> QED
      BY <1>7, <3>1 DEF Owns, Holding
  <2>2. Written
    BY <1>7 DEF Written
  <2>3. Ready
    BY <1>7 DEF Ready
  <2> QED
    BY <2>1, <2>2, <2>3
<1>5. Published(dir) /\ Published(disk)
  BY <1>1, FileAssumption DEF Published, Init, FileAssumption
<1>6. CleansUp
  BY <1>1 DEF CleansUp
<1> QED
  BY <1>3, <1>4, <1>5, <1>6 DEF Inv

-----------------------------------------------------------------------------
\* A step of one call that leaves every file alone: it may go on, or leave the
\* function if it has no temporary name.
LEMMA MoveKeepsInv ==
    ASSUME Inv, NEW w \in Writers, NEW c \in Call,
           call' = [call EXCEPT ![w] = c],
           c.at \in Holding => c.fd = w /\ c.temp \in Temps,
           c.at \in {"idle", "open"} => c.temp = Nothing /\ c.tries < MaxAttempts,
           c.at \in {"check", "target", "publish", "unlink", "Ok"} => Safe(w),
           call[w].at \notin {"unlink", "Ok", "dead"},
           call[w].at \notin Gone => \/ c.at \notin Gone /\ c.temp = call[w].temp
                                     \/ call[w].at = "open",
           UNCHANGED <<dir, disk, inode, litter, budget>>,
           nonce' \in [Processes -> Nat \ {0}],
           FileAssumption
    PROVE  Inv'
<1>1. call' \in [Writers -> Call] /\ call'[w] = c /\ \A v \in Writers \ {w} : call'[v] = call[v]
  BY DEF Inv, TypeOK
<1>2. TypeOK'
  BY <1>1 DEF Inv, TypeOK
<1>3. Owns' /\ Written' /\ Ready'
  BY <1>1 DEF Inv, Owns, Written, Ready, Safe
<1>4. Published(dir)' /\ Published(disk)'
  BY <1>1 DEF Inv, Published, Safe
<1>5. CleansUp'
  <2> SUFFICES ASSUME NEW n \in DOMAIN dir \ {Target}, n \notin litter
               PROVE  \E v \in Writers : call'[v].at \notin Gone /\ call'[v].temp = n
    BY DEF CleansUp, Running
  <2>1. PICK v \in Writers : call[v].at \notin Gone /\ call[v].temp = n
    BY DEF Inv, CleansUp, Running
  <2>2. n # Nothing /\ (call[w].at = "open" => call[w].temp = Nothing)
    BY DEF Inv, Owns, TypeOK, Temps, FileAssumption
  <2> QED
    BY <1>1, <2>1, <2>2
<1> QED
  BY <1>2, <1>3, <1>4, <1>5 DEF Inv

\* The same for the steps that only change where the call is.
LEMMA GoKeepsInv ==
    ASSUME Inv, FileAssumption, NEW w \in Writers, NEW at \in Phases \ Gone, Go(w, at),
           call[w].at \in Holding \ {"unlink"}, at \in Holding,
           at \in {"check", "target", "publish", "unlink", "Ok"} => Safe(w),
           SameFiles, UNCHANGED <<nonce, budget>>
    PROVE  Inv'
<1>1. /\ call \in [Writers -> Call] /\ nonce \in [Processes -> Nat \ {0}]
      /\ call[w] \in Call /\ call[w].fd = w /\ call[w].temp \in Temps
  BY DEF Inv, TypeOK, Owns
<1>2. PICK c : c = [call[w] EXCEPT !.at = at]
  OBVIOUS
<1>3. /\ c \in Call
      /\ c.at = at /\ c.temp = call[w].temp /\ c.tries = call[w].tries /\ c.fd = call[w].fd
  BY <1>1, <1>2, SetAt
<1>4. call' = [call EXCEPT ![w] = c]
  BY <1>1, <1>2 DEF Go
<1>5. call[w].at \notin {"unlink", "Ok", "dead"} /\ at \notin {"idle", "open"}
  BY DEF Holding
<1> QED
  BY <1>1, <1>3, <1>4, <1>5, MoveKeepsInv DEF SameFiles

\* The call starts, and tries names for its temporary file.
LEMMA BeginKeepsInv ==
    ASSUME Inv, FileAssumption, NEW w \in Writers, Begin(w) PROVE Inv'
<1>1. PICK mode \in Modes :
          call' = [call EXCEPT ![w].at = "open", ![w].mode = mode]
  BY DEF Begin
<1>2. /\ call \in [Writers -> Call] /\ nonce \in [Processes -> Nat \ {0}]
      /\ call[w] \in Call /\ call[w].at = "idle"
      /\ call[w].temp = Nothing /\ call[w].tries < MaxAttempts
  BY DEF Inv, TypeOK, Begin, Owns
<1>3. PICK c1 : c1 = [call[w] EXCEPT !.at = "open"]
  OBVIOUS
<1>4. PICK c : c = [c1 EXCEPT !.mode = mode]
  OBVIOUS
<1>5. "open" \in Phases
  BY DEF Phases
<1>6. c1 \in Call /\ c1.at = "open" /\ c1.temp = call[w].temp /\ c1.tries = call[w].tries
  BY <1>2, <1>3, <1>5, SetAt
<1>7. c \in Call /\ c.at = "open" /\ c.temp = call[w].temp /\ c.tries = call[w].tries
  BY <1>4, <1>6, SetMode
<1>8. call' = [call EXCEPT ![w] = c]
  BY <1>1, <1>2, <1>3, <1>4
<1> QED
  BY <1>2, <1>7, <1>8, MoveKeepsInv DEF Begin, SameFiles, Holding, Gone

LEMMA OpenTempKeepsInv ==
    ASSUME Inv, FileAssumption, NEW w \in Writers, OpenTemp(w) PROVE Inv'
<1> DEFINE temp == <<ProcessOf[w], nonce[ProcessOf[w]]>>
           tries == call[w].tries + 1
<1>1. /\ call \in [Writers -> Call] /\ nonce \in [Processes -> Nat \ {0}]
      /\ call[w] \in Call /\ call[w].at = "open"
      /\ ProcessOf[w] \in Processes /\ temp \in Temps
  BY DEF Inv, TypeOK, FileAssumption, OpenTemp, Temps
<1>2. nonce' \in [Processes -> Nat \ {0}]
  BY <1>1 DEF OpenTemp
<1>3. /\ call[w].temp = Nothing /\ call[w].tries < MaxAttempts
      /\ call[w].tries \in Nat /\ tries \in 0..MaxAttempts
  BY <1>1, CallType, FileAssumption DEF Inv, Owns, FileAssumption
<1>4. CASE temp \in DOMAIN dir
  <2> DEFINE at == IF tries >= MaxAttempts THEN "IoError" ELSE "open"
  <2>1. PICK c1 : c1 = [call[w] EXCEPT !.tries = tries]
    OBVIOUS
  <2>8. PICK c : c = [c1 EXCEPT !.at = at]
    OBVIOUS
  <2>2. at \in {"IoError", "open"} /\ (at = "open" => tries < MaxAttempts)
    BY <1>3, FileAssumption DEF FileAssumption
  <2>3. at \in Phases
    BY <2>2 DEF Phases, Gone, Answers
  <2>4. call' = [call EXCEPT ![w].tries = tries, ![w].at = at]
    BY <1>4 DEF OpenTemp
  <2> HIDE DEF at, tries
  <2>9. c1 \in Call /\ c1.temp = Nothing /\ c1.tries = tries
    BY <1>1, <1>3, <2>1, SetTries
  <2>5. c \in Call /\ c.at = at /\ c.temp = Nothing /\ c.tries = tries
    BY <2>3, <2>8, <2>9, SetAt
  <2>6. call' = [call EXCEPT ![w] = c]
    BY <1>1, <2>1, <2>4, <2>8
  <2>7. UNCHANGED <<dir, disk, inode, litter, budget>>
    BY <1>4 DEF OpenTemp
  <2> QED
    BY <1>1, <1>2, <2>2, <2>5, <2>6, <2>7, MoveKeepsInv DEF Holding
<1>5. CASE temp \notin DOMAIN dir
  <2>1. PICK c1 : c1 = [call[w] EXCEPT !.at = "write"]
    OBVIOUS
  <2>2. PICK c2 : c2 = [c1 EXCEPT !.temp = temp]
    OBVIOUS
  <2>12. PICK c : c = [c2 EXCEPT !.fd = w]
    OBVIOUS
  <2>3. c \in Call /\ c.at = "write" /\ c.temp = temp /\ c.fd = w
    <3>1. "write" \in Phases
      BY DEF Phases
    <3>2. c1 \in Call /\ c1.at = "write"
      BY <1>1, <2>1, <3>1, SetAt
    <3>3. c2 \in Call /\ c2.at = "write" /\ c2.temp = temp
      BY <1>1, <2>2, <3>2, SetTemp
    <3> QED
      BY <2>12, <3>3, SetFd
  <2>4. call' = [call EXCEPT ![w] = c]
    <3>1. call' = [call EXCEPT ![w].at = "write", ![w].temp = temp, ![w].fd = w]
      BY <1>5 DEF OpenTemp
    <3> QED
      BY <1>1, <2>1, <2>2, <2>12, <3>1
  <2>5. dir' = With(dir, temp, w) /\ UNCHANGED <<disk, inode, litter, budget>>
    BY <1>5 DEF OpenTemp
  <2> HIDE DEF temp
  <2>6. /\ DOMAIN dir' = DOMAIN dir \cup {temp} /\ dir'[temp] = w
        /\ \A n \in DOMAIN dir : n # temp => dir'[n] = dir[n]
    BY <2>5 DEF With
  <2>13. temp # Target
    BY <1>1, FileAssumption DEF FileAssumption, Temps
  <2>7. TypeOK'
    BY <1>1, <1>2, <2>3, <2>4, <2>5, <2>6 DEF Inv, TypeOK
  <2>8. call'[w] = c /\ \A v \in Writers \ {w} : call'[v] = call[v]
    BY <1>1, <2>4
  <2>9. Owns' /\ Written' /\ Ready'
    BY <1>1, <2>3, <2>5, <2>8 DEF Inv, Owns, Written, Ready, Safe
  <2>10. Published(dir)' /\ Published(disk)'
    BY <1>1, <2>5, <2>6, <2>8, <2>13 DEF Inv, Published, Safe
  <2>11. CleansUp'
    <3>1. c.at \notin Gone /\ call[w].temp = Nothing /\ Nothing \notin Temps
      BY <2>3, <1>3, FileAssumption DEF Gone, Answers, Temps, FileAssumption
    <3>2. \A n \in DOMAIN dir \ {Target} : n \in Temps
      BY DEF Inv, TypeOK
    <3> QED
      BY <2>3, <2>5, <2>6, <2>8, <3>1, <3>2 DEF Inv, CleansUp, Running
  <2> QED
    BY <2>7, <2>9, <2>10, <2>11 DEF Inv
<1> QED
  BY <1>4, <1>5

\* One call changes where it is; its other fields stay.
LEMMA GoIs ==
    ASSUME Inv, NEW w \in Writers, NEW at \in Phases, Go(w, at)
    PROVE  /\ call' \in [Writers -> Call]
           /\ call'[w].at = at /\ call'[w].temp = call[w].temp /\ call'[w].fd = call[w].fd
           /\ call'[w].tries = call[w].tries
           /\ \A v \in Writers \ {w} : call'[v] = call[v]
<1>1. call \in [Writers -> Call] /\ call[w] \in Call
  BY DEF Inv, TypeOK
<1>2. PICK c : c = [call[w] EXCEPT !.at = at]
  OBVIOUS
<1>3. c \in Call /\ c.at = at /\ c.temp = call[w].temp /\ c.fd = call[w].fd
      /\ c.tries = call[w].tries
  BY <1>1, <1>2, SetAt
<1>4. call' = [call EXCEPT ![w] = c]
  BY <1>1, <1>2 DEF Go
<1> QED
  BY <1>1, <1>3, <1>4

LEMMA WriteSomeKeepsInv ==
    ASSUME Inv, FileAssumption, NEW w \in Writers, WriteSome(w) PROVE Inv'
<1>1. /\ call[w].at = "write" /\ call[w].fd = w /\ inode[w].len < Size
      /\ inode \in [Writers -> [by : SUBSET Writers, len : 0..Size, synced : 0..Size]]
  BY DEF WriteSome, Inv, TypeOK, Owns, Holding
<1>2. inode' = [inode EXCEPT ![w].len = @ + 1, ![w].by = @ \cup {w}]
  BY <1>1 DEF WriteSome
<1>3. UNCHANGED <<dir, disk, nonce, call, litter, budget>>
  BY DEF WriteSome
<1>4. /\ inode[w].len \in 0..Size /\ inode[w].len + 1 \in 0..Size
      /\ inode[w].len + 1 > 0
  BY <1>1, FileAssumption DEF FileAssumption
<1> DEFINE Inode == [by : SUBSET Writers, len : 0..Size, synced : 0..Size]
<1>5. /\ inode' \in [Writers -> Inode]
      /\ inode'[w].by = inode[w].by \cup {w}
      /\ \A v \in Writers \ {w} : inode'[v] = inode[v]
  <2>1. PICK i1 : i1 = [inode[w] EXCEPT !.len = inode[w].len + 1]
    OBVIOUS
  <2>2. PICK i2 : i2 = [i1 EXCEPT !.by = inode[w].by \cup {w}]
    OBVIOUS
  <2>3. i1 \in Inode /\ i1.by = inode[w].by
    BY <1>1, <1>4, <2>1
  <2>4. i2 \in Inode /\ i2.by = inode[w].by \cup {w}
    BY <1>1, <2>2, <2>3
  <2>5. inode' = [inode EXCEPT ![w] = i2]
    BY <1>1, <1>2, <2>1, <2>2, <2>3
  <2> QED
    BY <1>1, <2>4, <2>5
<1>6. TypeOK'
  BY <1>3, <1>5 DEF Inv, TypeOK
<1>7. Owns' /\ CleansUp'
  BY <1>3 DEF Inv, Owns, CleansUp, Running
<1>8. Written'
  BY <1>5 DEF Inv, Written
<1>9. Ready' /\ Published(dir)' /\ Published(disk)'
  BY <1>1, <1>3, <1>5 DEF Inv, Ready, Published, Safe
<1> QED
  BY <1>6, <1>7, <1>8, <1>9 DEF Inv

LEMMA SyncKeepsInv ==
    ASSUME Inv, FileAssumption, NEW w \in Writers, Sync(w) PROVE Inv'
<1>1. /\ call[w].at = "write" /\ call[w].fd = w /\ inode[w].len = Size
      /\ inode \in [Writers -> [by : SUBSET Writers, len : 0..Size, synced : 0..Size]]
  BY DEF Sync, Inv, TypeOK, Owns, Holding
<1>2. inode' = [inode EXCEPT ![w].synced = Size] /\ Size \in 0..Size
  BY <1>1, FileAssumption DEF Sync, FileAssumption
<1>3. UNCHANGED <<dir, disk, nonce, litter, budget>> /\ Go(w, "check")
  BY DEF Sync
<1>4. "check" \in Phases
  BY DEF Phases
<1>5. /\ inode' \in [Writers -> [by : SUBSET Writers, len : 0..Size, synced : 0..Size]]
      /\ inode'[w].by = inode[w].by /\ inode'[w].len = inode[w].len
      /\ inode'[w].synced = Size
      /\ \A v \in Writers \ {w} : inode'[v] = inode[v]
  BY <1>1, <1>2
<1>6. /\ call' \in [Writers -> Call] /\ call'[w].at = "check"
      /\ call'[w].temp = call[w].temp /\ call'[w].fd = call[w].fd
      /\ \A v \in Writers \ {w} : call'[v] = call[v]
  BY <1>3, <1>4, GoIs
<1>7. TypeOK'
  BY <1>3, <1>5, <1>6 DEF Inv, TypeOK
<1>8. Owns'
  <2>1. call[w].at \in Holding /\ "check" \notin {"idle", "open"}
    BY <1>1 DEF Holding
  <2>2. call[w].fd = w /\ call[w].temp \in Temps
    BY <2>1 DEF Inv, Owns
  <2> QED
    BY <1>6, <2>1, <2>2 DEF Inv, Owns
<1>9. CleansUp'
  BY <1>1, <1>3, <1>6 DEF Inv, CleansUp, Running, Gone, Answers
<1>12. Written'
  BY <1>5 DEF Inv, Written
<1>10. Ready'
  BY <1>1, <1>5, <1>6 DEF Inv, Ready, Safe
<1>11. Published(dir)' /\ Published(disk)'
  BY <1>1, <1>3, <1>5, <1>6 DEF Inv, Published, Safe
<1> QED
  BY <1>7, <1>8, <1>9, <1>10, <1>11, <1>12 DEF Inv

LEMMA CheckKeepsInv ==
    ASSUME Inv, FileAssumption, NEW w \in Writers, CheckTemp(w) \/ CheckTarget(w) PROVE Inv'
<1>1. PICK at \in {"target", "publish", "undo IoError", "undo Exists", "undo UnsafeTarget"} :
          Go(w, at) /\ SameFiles /\ UNCHANGED <<nonce, budget>>
  BY DEF CheckTemp, CheckTarget
<1>2. call[w].at \in {"check", "target"}
  BY DEF CheckTemp, CheckTarget
<1>3. at \in Phases \ Gone /\ at \in Holding /\ call[w].at \in Holding \ {"unlink"}
  BY <1>1, <1>2 DEF Phases, Gone, Answers, Holding
<1>4. Safe(w)
  BY <1>2 DEF Inv, Ready
<1> QED
  BY <1>1, <1>3, <1>4, GoKeepsInv

\* The exchange: one inode that is safe takes the place under the path.
LEMMA PublishKeepsInv ==
    ASSUME Inv, FileAssumption, NEW w \in Writers, NEW at \in {"Ok", "unlink"},
           call[w].at = "publish", Go(w, at),
           UNCHANGED <<disk, inode, litter, nonce, budget>>,
           \A n \in DOMAIN dir' \ {Target} : n \in DOMAIN dir /\ dir'[n] = dir[n],
           Target \in DOMAIN dir' => dir'[Target] = w,
           at = "Ok" => call[w].temp \notin DOMAIN dir'
    PROVE  Inv'
<1>1. at \in Phases
  BY DEF Phases, Gone, Answers
<1>2. /\ call' \in [Writers -> Call] /\ call'[w].at = at
      /\ call'[w].temp = call[w].temp /\ call'[w].fd = call[w].fd
      /\ \A v \in Writers \ {w} : call'[v] = call[v]
  BY <1>1, GoIs
<1>3. Safe(w) /\ call[w].fd = w /\ call[w].temp \in Temps
  BY DEF Inv, Ready, Owns, Holding
<1>4. TypeOK'
  <2>1. DOMAIN dir' \subseteq Temps \cup {Target}
    BY DEF Inv, TypeOK
  <2>2. \A n \in DOMAIN dir' : dir'[n] \in Writers \cup Strangers
    BY DEF Inv, TypeOK
  <2> QED
    BY <1>2, <2>1, <2>2 DEF Inv, TypeOK
<1>5. Owns' /\ Ready' /\ Written'
  BY <1>2, <1>3 DEF Inv, Owns, Ready, Written, Safe
<1>6. Published(dir)'
  BY <1>2, <1>3 DEF Inv, Published, Safe
<1>7. Published(disk)'
  BY <1>2, <1>3 DEF Inv, Published, Safe
<1>8. CleansUp'
  <2> SUFFICES ASSUME NEW n \in DOMAIN dir' \ {Target}, n \notin litter
               PROVE  \E v \in Writers : call'[v].at \notin Gone /\ call'[v].temp = n
    BY DEF CleansUp, Running
  <2>1. PICK v \in Writers : call[v].at \notin Gone /\ call[v].temp = n
    BY DEF Inv, CleansUp, Running
  <2>2. CASE v # w
    BY <1>2, <2>1, <2>2
  <2>3. CASE v = w
    <3>1. at = "unlink"
      BY <2>1, <2>3
    <3> QED
      BY <1>2, <2>1, <2>3, <3>1 DEF Gone, Answers
  <2> QED
    BY <2>2, <2>3
<1> QED
  BY <1>4, <1>5, <1>6, <1>7, <1>8 DEF Inv

LEMMA RenameKeepsInv ==
    ASSUME Inv, FileAssumption, NEW w \in Writers, Rename(w) PROVE Inv'
<1>1. call[w].at = "publish" /\ call[w].fd = w /\ call[w].temp \in Temps /\ call[w].temp # Target
  <2>1. call[w].at = "publish"
    BY DEF Rename
  <2>2. call[w].fd = w /\ call[w].temp \in Temps
    BY <2>1 DEF Inv, Owns, Holding
  <2> QED
    BY <2>1, <2>2, FileAssumption DEF Temps, FileAssumption
<1>2. CASE Go(w, "undo IoError") /\ SameFiles
  BY <1>1, <1>2, GoKeepsInv DEF Rename, Phases, Gone, Answers, Holding
<1>3. CASE /\ dir' = With(Without(dir, call[w].temp), Target, w)
           /\ Go(w, "Ok") /\ UNCHANGED <<disk, inode, litter>>
  <2>1. PICK d : d = Without(dir, call[w].temp)
    OBVIOUS
  <2>2. DOMAIN d = DOMAIN dir \ {call[w].temp} /\ \A n \in DOMAIN d : d[n] = dir[n]
    BY <2>1 DEF Without
  <2>3. /\ DOMAIN dir' = DOMAIN d \cup {Target} /\ dir'[Target] = w
        /\ \A n \in DOMAIN d : n # Target => dir'[n] = d[n]
    BY <1>3, <2>1 DEF With
  <2>4. UNCHANGED <<nonce, budget>>
    BY DEF Rename
  <2> QED
    BY <1>1, <1>3, <2>2, <2>3, <2>4, PublishKeepsInv
<1> QED
  BY <1>1, <1>2, <1>3 DEF Rename

LEMMA LinkKeepsInv ==
    ASSUME Inv, FileAssumption, NEW w \in Writers, Link(w) PROVE Inv'
<1>1. call[w].at = "publish" /\ call[w].fd = w
  BY DEF Link, Inv, Owns, Holding
<1>2. CASE Go(w, "undo Exists") /\ SameFiles
  BY <1>1, <1>2, GoKeepsInv DEF Link, Phases, Gone, Answers, Holding
<1>3. CASE /\ dir' = With(dir, Target, w)
           /\ Go(w, "unlink") /\ UNCHANGED <<disk, inode, litter>>
  <2>1. /\ DOMAIN dir' = DOMAIN dir \cup {Target} /\ dir'[Target] = w
        /\ \A n \in DOMAIN dir : n # Target => dir'[n] = dir[n]
    BY <1>3 DEF With
  <2>2. UNCHANGED <<nonce, budget>>
    BY DEF Link
  <2> QED
    BY <1>1, <1>3, <2>1, <2>2, PublishKeepsInv
<1> QED
  BY <1>1, <1>2, <1>3 DEF Link

\* Before every way out the temporary name is removed, or stays as litter.
LEMMA UnlinkKeepsInv ==
    ASSUME Inv, FileAssumption, NEW w \in Writers, NEW answer \in Answers,
           call[w].at \in {"unlink", "undo Exists", "undo UnsafeTarget", "undo IoError"},
           answer = "Ok" <=> call[w].at = "unlink",
           Unlink(w, answer)
    PROVE  Inv'
<1>1. call[w].temp \in Temps /\ call[w].temp # Target /\ call[w].temp # Nothing
  <2>1. call[w].temp \in Temps
    BY DEF Inv, Owns, Holding
  <2> QED
    BY <2>1, FileAssumption DEF Temps, FileAssumption
<1>2. answer \in Phases
  BY DEF Phases, Gone
<1>3. /\ call' \in [Writers -> Call] /\ call'[w].at = answer
      /\ call'[w].temp = call[w].temp /\ call'[w].fd = call[w].fd
      /\ \A v \in Writers \ {w} : call'[v] = call[v]
  BY <1>2, GoIs DEF Unlink
<1>4. UNCHANGED <<disk, inode, nonce, budget>>
  BY DEF Unlink
<1>5. /\ DOMAIN dir' \subseteq DOMAIN dir /\ \A n \in DOMAIN dir' : dir'[n] = dir[n]
      /\ \A n \in DOMAIN dir' : n = call[w].temp => n \in litter'
      /\ litter \subseteq litter' /\ litter' \subseteq litter \cup {call[w].temp}
  <2>1. CASE dir' = Without(dir, call[w].temp) /\ UNCHANGED litter
    BY <2>1 DEF Without
  <2>2. CASE litter' = litter \cup {call[w].temp} /\ UNCHANGED dir
    BY <2>2
  <2> QED
    BY <2>1, <2>2 DEF Unlink
<1>6. TypeOK'
  BY <1>1, <1>3, <1>4, <1>5 DEF Inv, TypeOK
<1>7. answer \notin {"check", "target", "publish", "unlink", "idle", "open"} \cup Holding
  BY DEF Answers, Holding
<1>8. Owns'
  <2> SUFFICES ASSUME NEW v \in Writers
               PROVE  /\ call'[v].at \in Holding => call'[v].fd = v /\ call'[v].temp \in Temps
                      /\ call'[v].at \in {"idle", "open"} =>
                            call'[v].temp = Nothing /\ call'[v].tries < MaxAttempts
    BY DEF Owns
  <2>1. CASE v = w
    BY <1>3, <1>7, <2>1
  <2>2. CASE v # w
    BY <1>3, <2>2 DEF Inv, Owns
  <2> QED BY <2>1, <2>2
<1>9. Written' /\ Ready'
  BY <1>3, <1>4, <1>7 DEF Inv, Written, Ready, Safe
<1>10. Published(dir)' /\ Published(disk)'
  <2>1. \A v \in Writers : call[v].at \in {"unlink", "Ok", "dead"} => call'[v].at \in {"unlink", "Ok", "dead"}
    BY <1>3
  <2>2. Published(dir)'
    BY <1>4, <1>5, <2>1 DEF Inv, Published, Safe
  <2>3. Published(disk)'
    BY <1>4, <1>5, <2>1 DEF Inv, Published, Safe
  <2> QED BY <2>2, <2>3
<1>11. CleansUp'
  <2> SUFFICES ASSUME NEW n \in DOMAIN dir' \ {Target}, n \notin litter'
               PROVE  n \in {call[v].temp : v \in Running(Writers)}'
    BY DEF CleansUp
  <2>1. PICK v \in Writers : call[v].at \notin Gone /\ call[v].temp = n
    <3>1. n \in DOMAIN dir \ {Target} /\ n \notin litter
      BY <1>5
    <3>2. n \in {call[v].temp : v \in Running(Writers)}
      BY <3>1 DEF Inv, CleansUp
    <3> QED
      BY <3>2 DEF Running
  <2>2. v # w
    BY <1>5, <2>1
  <2>3. v \in Running(Writers)' /\ call'[v].temp = n
    BY <1>3, <2>1, <2>2 DEF Running
  <2> QED
    BY <2>3
<1> QED
  BY <1>6, <1>8, <1>9, <1>10, <1>11 DEF Inv

LEMMA FailKeepsInv ==
    ASSUME Inv, FileAssumption, NEW w \in Writers, Fail(w) PROVE Inv'
<1>1. CASE call[w].at = "open" /\ Go(w, "IoError")
  <2>1. /\ call \in [Writers -> Call] /\ call[w] \in Call
        /\ nonce \in [Processes -> Nat \ {0}]
    BY DEF Inv, TypeOK
  <2>2. PICK c : c = [call[w] EXCEPT !.at = "IoError"]
    OBVIOUS
  <2>3. "IoError" \in Phases
    BY DEF Phases, Gone, Answers
  <2>4. c \in Call /\ c.at = "IoError"
    BY <2>1, <2>2, <2>3, SetAt
  <2>5. call' = [call EXCEPT ![w] = c]
    BY <1>1, <2>1, <2>2 DEF Go
  <2> QED
    BY <1>1, <2>1, <2>4, <2>5, MoveKeepsInv DEF Fail, SameFiles, Holding
<1>2. CASE /\ call[w].at \in {"write", "check", "target", "publish"}
           /\ Go(w, "undo IoError")
  BY <1>2, GoKeepsInv DEF Fail, Phases, Gone, Answers, Holding
<1> QED
  BY <1>1, <1>2 DEF Fail

-----------------------------------------------------------------------------
\* What happens around the calls.
LEMMA FlushKeepsInv == ASSUME Inv, FlushDir PROVE Inv'
  BY DEF Inv, FlushDir, TypeOK, Owns, Written, Ready, Published, Safe, CleansUp, Running

LEMMA MeddleKeepsInv == ASSUME Inv, FileAssumption, Meddle PROVE Inv'
<1>1. UNCHANGED <<disk, inode, nonce, call, litter>>
  BY DEF Meddle
<1>2. /\ DOMAIN dir' \ {Target} \subseteq DOMAIN dir
      /\ \A n \in DOMAIN dir' \ {Target} : dir'[n] = dir[n]
      /\ Target \in DOMAIN dir' => dir'[Target] \in Strangers
  <2>1. CASE dir' = Without(dir, Target)
    BY <2>1 DEF Without
  <2>2. CASE \E s \in Strangers : dir' = With(dir, Target, s)
    BY <2>2 DEF With
  <2> QED
    BY <2>1, <2>2 DEF Meddle
<1>3. budget' \in [crashes : 0..MaxCrashes, meddling : 0..MaxMeddling]
  BY FileAssumption DEF Meddle, Inv, TypeOK, FileAssumption
<1>4. TypeOK'
  <2>1. \A n \in DOMAIN dir' : dir'[n] \in Writers \cup Strangers
    BY <1>2 DEF Inv, TypeOK
  <2>2. DOMAIN dir' \subseteq Temps \cup {Target}
    BY <1>2 DEF Inv, TypeOK
  <2> QED
    BY <1>1, <1>3, <2>1, <2>2 DEF Inv, TypeOK
<1>5. Owns' /\ Written' /\ Ready' /\ Published(disk)'
  BY <1>1 DEF Inv, Owns, Written, Ready, Published, Safe
<1>6. Published(dir)'
  BY <1>2, FileAssumption DEF Published, FileAssumption
<1>7. CleansUp'
  BY <1>1, <1>2 DEF Inv, CleansUp, Running
<1> QED
  BY <1>4, <1>5, <1>6, <1>7 DEF Inv

\* Dead calls do nothing more, and their temporary names are litter.
LEMMA KillFacts ==
    ASSUME Inv, FileAssumption, budget.crashes > 0, NEW W \in SUBSET Writers,
           NEW names \in SUBSET Temps, Kill(W, names)
    PROVE  /\ call' \in [Writers -> Call]
           /\ litter \subseteq litter' /\ litter' \subseteq Temps /\ names \subseteq litter'
           /\ budget' \in [crashes : 0..MaxCrashes, meddling : 0..MaxMeddling]
           /\ \A v \in Writers :
                 \/ call'[v] = call[v] /\ v \notin Running(W)
                 \/ /\ call'[v].at = "dead" /\ v \in W /\ call[v].at \notin Gone
                    /\ call[v].temp \in Temps => call[v].temp \in litter'
<1>1. call \in [Writers -> Call] /\ litter \subseteq Temps
      /\ budget \in [crashes : 0..MaxCrashes, meddling : 0..MaxMeddling]
  BY DEF Inv, TypeOK
<1>2. Nothing \notin Temps
  BY FileAssumption DEF Temps, FileAssumption
<1>3. "dead" \in Phases
  BY DEF Phases, Gone
<1>4. \A v \in Writers : [call[v] EXCEPT !.at = "dead"] \in Call
                         /\ [call[v] EXCEPT !.at = "dead"].at = "dead"
  <2> SUFFICES ASSUME NEW v \in Writers
               PROVE  [call[v] EXCEPT !.at = "dead"] \in Call
                      /\ [call[v] EXCEPT !.at = "dead"].at = "dead"
    OBVIOUS
  <2>1. PICK c : c = [call[v] EXCEPT !.at = "dead"]
    OBVIOUS
  <2>2. c \in Call /\ c.at = "dead"
    BY <1>1, <1>3, <2>1, SetAt
  <2> QED
    BY <2>1, <2>2
<1>5. call' = [v \in Writers |-> IF v \in Running(W)
                                 THEN [call[v] EXCEPT !.at = "dead"] ELSE call[v]]
  BY DEF Kill
<1>6. call' \in [Writers -> Call]
  BY <1>1, <1>4, <1>5
<1>7. litter' = (litter \cup {call[v].temp : v \in Running(W)} \cup names) \ {Nothing}
  BY DEF Kill
<1>8. litter \subseteq litter' /\ names \subseteq litter'
  BY <1>1, <1>2, <1>7
<1>9. litter' \subseteq Temps
  <2>1. \A v \in Running(W) : call[v].temp \in Temps \cup {Nothing}
    BY <1>1 DEF Running, Call
  <2> QED
    BY <1>1, <1>7, <2>1
<1>10. budget' \in [crashes : 0..MaxCrashes, meddling : 0..MaxMeddling]
  BY <1>1, FileAssumption DEF Kill, FileAssumption
<1>11. ASSUME NEW v \in Writers
       PROVE  \/ call'[v] = call[v] /\ v \notin Running(W)
              \/ /\ call'[v].at = "dead" /\ v \in W /\ call[v].at \notin Gone
                 /\ call[v].temp \in Temps => call[v].temp \in litter'
  <2>1. CASE v \in Running(W)
    BY <1>2, <1>4, <1>5, <1>7, <2>1 DEF Running
  <2>2. CASE v \notin Running(W)
    BY <1>5, <2>2
  <2> QED
    BY <2>1, <2>2
<1> QED
  BY <1>6, <1>8, <1>9, <1>10, <1>11

LEMMA CrashKeepsInv ==
    ASSUME Inv, FileAssumption, NEW p \in Processes, Crash(p) PROVE Inv'
<1> DEFINE W == {w \in Writers : ProcessOf[w] = p}
<1>1. /\ call' \in [Writers -> Call]
      /\ litter \subseteq litter' /\ litter' \subseteq Temps
      /\ budget' \in [crashes : 0..MaxCrashes, meddling : 0..MaxMeddling]
      /\ \A v \in Writers :
            \/ call'[v] = call[v]
            \/ /\ call'[v].at = "dead" /\ call[v].at \notin Gone
               /\ call[v].temp \in Temps => call[v].temp \in litter'
  BY KillFacts DEF Crash
<1>2. UNCHANGED <<dir, disk, inode>> /\ nonce' \in [Processes -> Nat \ {0}]
  BY DEF Crash, Inv, TypeOK
<1>3. TypeOK'
  BY <1>1, <1>2 DEF Inv, TypeOK
<1>4. Owns' /\ Written' /\ Ready'
  <2>1. Owns'
    BY <1>1 DEF Inv, Owns, Holding
  <2>2. Written'
    BY <1>2 DEF Inv, Written
  <2>3. Ready'
    BY <1>1, <1>2 DEF Inv, Ready, Safe
  <2> QED BY <2>1, <2>2, <2>3
<1>5. Published(dir)' /\ Published(disk)'
  BY <1>1, <1>2 DEF Inv, Published, Safe
<1>6. CleansUp'
  <2> SUFFICES ASSUME NEW n \in DOMAIN dir \ {Target}, n \notin litter'
               PROVE  \E v \in Writers : call'[v].at \notin Gone /\ call'[v].temp = n
    BY <1>2 DEF CleansUp, Running
  <2>1. PICK v \in Writers : call[v].at \notin Gone /\ call[v].temp = n
    BY <1>1 DEF Inv, CleansUp, Running
  <2>2. n \in Temps
    BY DEF Inv, TypeOK
  <2> QED
    BY <1>1, <2>1, <2>2
<1> QED
  BY <1>3, <1>4, <1>5, <1>6 DEF Inv

LEMMA PowerFailureKeepsInv ==
    ASSUME Inv, FileAssumption, PowerFailure PROVE Inv'
<1> DEFINE Inode == [by : SUBSET Writers, len : 0..Size, synced : 0..Size]
<1>0. DOMAIN disk \subseteq Temps \cup {Target} /\ inode \in [Writers -> Inode]
  BY DEF Inv, TypeOK
<1>1. /\ call' \in [Writers -> Call]
      /\ litter' \subseteq Temps /\ DOMAIN disk \ {Target} \subseteq litter'
      /\ budget' \in [crashes : 0..MaxCrashes, meddling : 0..MaxMeddling]
      /\ \A v \in Writers :
            \/ call'[v] = call[v] /\ call[v].at \in Gone
            \/ call'[v].at = "dead" /\ call[v].at \notin Gone
  <2>1. DOMAIN disk \ {Target} \in SUBSET Temps
    BY <1>0
  <2>2. Kill(Writers, DOMAIN disk \ {Target}) /\ budget.crashes > 0
    BY DEF PowerFailure
  <2>3. \A v \in Writers : v \notin Running(Writers) => call[v].at \in Gone
    BY DEF Running
  <2> HIDE DEF Kill
  <2> QED
    BY <2>1, <2>2, <2>3, KillFacts
<1>2. dir' = disk /\ disk' = disk /\ nonce' \in [Processes -> Nat \ {0}]
  BY DEF PowerFailure
<1>3. PICK left \in [Writers -> 0..Size] :
          /\ \A w \in Writers : left[w] \in inode[w].synced..inode[w].len
          /\ inode' = [w \in Writers |-> [inode[w] EXCEPT !.len = left[w]]]
  BY DEF PowerFailure
<1>4. \A w \in Writers : /\ inode'[w] \in Inode
                         /\ inode'[w].by = inode[w].by /\ inode'[w].synced = inode[w].synced
                         /\ inode'[w].len = left[w] /\ inode[w].len \in 0..Size
                         /\ inode[w].synced \in 0..Size
  BY <1>0, <1>3
<1>5. \A w \in Writers : Safe(w) => Safe(w)'
  BY <1>3, <1>4, FileAssumption DEF Safe, FileAssumption
<1>6. \A w \in Writers : inode'[w].len <= inode[w].len
  BY <1>3, <1>4, FileAssumption DEF FileAssumption
<1>7. TypeOK'
  <2>1. inode' \in [Writers -> Inode]
    BY <1>3, <1>4
  <2> QED
    BY <1>0, <1>1, <1>2, <2>1 DEF Inv, TypeOK
<1>8. Owns'
  BY <1>1, <1>2 DEF Inv, Owns, Holding
<1>9. Written'
  BY <1>3, <1>4, <1>6, FileAssumption DEF Inv, Written, FileAssumption
<1>10. Ready'
  BY <1>1, <1>5 DEF Inv, Ready, Gone, Answers
<1>11. Published(dir)' /\ Published(disk)'
  BY <1>1, <1>2, <1>5 DEF Inv, Published
<1>12. CleansUp'
  BY <1>1, <1>2 DEF CleansUp
<1> QED
  BY <1>7, <1>8, <1>9, <1>10, <1>11, <1>12 DEF Inv

-----------------------------------------------------------------------------
\* Every step keeps the invariant.
LEMMA NextInv == ASSUME FileAssumption PROVE Inv /\ [Next]_vars => Inv'
<1> SUFFICES ASSUME Inv, [Next]_vars PROVE Inv'
  OBVIOUS
<1>1. CASE UNCHANGED vars
  BY <1>1 DEF vars, Inv, TypeOK, Owns, Written, Ready, Published, Safe, CleansUp, Running
<1>2. ASSUME NEW w \in Writers, Begin(w) \/ Fail(w) PROVE Inv'
  BY <1>2, BeginKeepsInv, FailKeepsInv
<1>3. ASSUME NEW w \in Writers, Step(w) PROVE Inv'
  <2>1. CASE OpenTemp(w) \/ WriteSome(w) \/ Sync(w)
    BY <2>1, OpenTempKeepsInv, WriteSomeKeepsInv, SyncKeepsInv
  <2>2. CASE CheckTemp(w) \/ CheckTarget(w)
    BY <2>2, CheckKeepsInv
  <2>3. CASE Rename(w) \/ Link(w)
    BY <2>3, RenameKeepsInv, LinkKeepsInv
  <2>4. CASE UnlinkPublished(w) \/ Undo(w)
    <3>1. CASE UnlinkPublished(w)
      BY <3>1, UnlinkKeepsInv DEF UnlinkPublished, Answers
    <3>2. CASE Undo(w)
      BY <3>2, UnlinkKeepsInv DEF Undo, Answers
    <3> QED
      BY <2>4, <3>1, <3>2
  <2> QED
    BY <1>3, <2>1, <2>2, <2>3, <2>4 DEF Step
<1>4. CASE FlushDir \/ PowerFailure \/ Meddle
  BY <1>4, FlushKeepsInv, PowerFailureKeepsInv, MeddleKeepsInv
<1>5. ASSUME NEW p \in Processes, Crash(p) PROVE Inv'
  BY <1>5, CrashKeepsInv
<1> QED
  BY <1>1, <1>2, <1>3, <1>4, <1>5 DEF Next

LEMMA Invariance == Spec => []Inv
<1>1. Init => Inv
  BY InitInv, FileAssumption
<1>2. Inv /\ [Next]_vars => Inv'
  BY NextInv, FileAssumption
<1> QED
  BY <1>1, <1>2, PTL DEF Spec

\* The state of the calls, the directory and the disk keeps its type.
THEOREM TypeCorrect == Spec => []TypeOK
<1>1. Inv => TypeOK
  BY DEF Inv
<1> QED
  BY <1>1, Invariance, PTL

\* Complete files are what is published.
LEMMA NothingTorn ==
    ASSUME Inv
    PROVE  NeverTorn
<1>1. \A w \in Writers : Safe(w) => inode[w].len = Size /\ inode[w].by = {w}
  BY FileAssumption DEF Inv, Written, Safe, FileAssumption
<1> QED
  BY <1>1 DEF Inv, Published, NeverTorn, Finished

\* Nobody ever finds a part of a file, or a mix of two, under the path, not even
\* after a power failure: atomic_write_file_bytes() exchanges whole files only.
THEOREM NeverTornAlways == Spec => []NeverTorn
  BY NothingTorn, Invariance, PTL

\* No call that has answered leaves its temporary file behind, unless the
\* system refused to remove it.
THEOREM CleansUpAlways == Spec => []CleansUp
<1>1. Inv => CleansUp
  BY DEF Inv
<1> QED
  BY <1>1, Invariance, PTL
-----------------------------------------------------------------------------
(* atomic_write_file_bytes() implements FileSlot: every step is one of      *)
(* FileSlot or changes nothing there.                                       *)
(*                                                                          *)
(* The argument: since nothing torn is ever under the path, what a reader   *)
(* sees depends on the directory only, not on the inodes (Plain).  Then the *)
(* exchange is the step of rename() or link(), the answer is the last step  *)
(* of a call, and what is done to a temporary name is no step at all.       *)

\* A call answers "Exists" when it may only create, "UnsafeTarget" when it may not.
ModeFits == \A w \in Writers : /\ call[w].at = "undo Exists" => call[w].mode = "create"
                               /\ call[w].at = "undo UnsafeTarget" => call[w].mode = "overwrite"

\* What is under the path, whole.
Plain(d) == IF Target \notin DOMAIN d THEN Nothing
            ELSE IF d[Target] \in Strangers THEN d[Target] ELSE Slot!Whole(d[Target])

\* How far a call is.
View(at) == IF at \in Gone THEN at ELSE IF at = "unlink" THEN "placed" ELSE "waiting"
Bar == [w \in Writers |-> [mode |-> call[w].mode, at |-> View(call[w].at)]]

-----------------------------------------------------------------------------
\* The content is that of the directory.
LEMMA ContentIsPlain ==
    ASSUME Inv
    PROVE  Content(dir) = Plain(dir) /\ Content(disk) = Plain(disk)
<1>1. ASSUME NEW d, Target \in DOMAIN d => Finished(d[Target])
      PROVE  Content(d) = Plain(d)
  <2>1. CASE Target \notin DOMAIN d
    BY <2>1 DEF Content, Plain
  <2>2. CASE Target \in DOMAIN d /\ d[Target] \in Strangers
    BY <2>2 DEF Content, Plain
  <2>3. CASE Target \in DOMAIN d /\ d[Target] \notin Strangers
    <3>1. Finished(d[Target]) = TRUE
      BY <1>1, <2>3 DEF Finished
    <3>2. Content(d) = [by |-> d[Target], whole |-> Finished(d[Target])]
      BY <2>3 DEF Content
    <3>3. Content(d) = [by |-> d[Target], whole |-> TRUE]
      BY <3>1, <3>2, Zenon
    <3> QED
      BY <2>3, <3>3 DEF Plain, Slot!Whole
  <2> QED
    BY <2>1, <2>2, <2>3
<1> QED
  BY <1>1, NothingTorn DEF NeverTorn

LEMMA ProgressIsBar == [w \in Writers |-> Progress(w)] = Bar
  BY DEF Progress, Bar, View

\* So it is before and after a step.
LEMMA ContentIsPlainNext == Inv' => (Content(dir) = Plain(dir) /\ Content(disk) = Plain(disk))'
<1>1. Inv => Content(dir) = Plain(dir) /\ Content(disk) = Plain(disk)
  BY ContentIsPlain
<1> QED
  BY <1>1, PTL

LEMMA ShownIs ==
    ASSUME Inv, Inv'
    PROVE  /\ Content(dir) = Plain(dir) /\ Content(dir)' = Plain(dir')
           /\ Content(disk) = Plain(disk) /\ Content(disk)' = Plain(disk')
           /\ [w \in Writers |-> Progress(w)] = Bar
           /\ [w \in Writers |-> Progress(w)]' = Bar'
<1>1. Content(dir) = Plain(dir) /\ Content(disk) = Plain(disk)
  BY ContentIsPlain
<1>2. (Content(dir) = Plain(dir) /\ Content(disk) = Plain(disk))'
  BY ContentIsPlainNext
<1>3. ([w \in Writers |-> Progress(w)] = Bar)'
  BY ProgressIsBar, PTL
<1> QED
  BY <1>1, <1>2, <1>3, ProgressIsBar DEF Plain

LEMMA SamePlain ==
    ASSUME NEW d, NEW e, Target \in DOMAIN d <=> Target \in DOMAIN e,
           Target \in DOMAIN d => e[Target] = d[Target]
    PROVE  Plain(e) = Plain(d)
  BY DEF Plain

\* What a move of one call shows.
LEMMA BarGoes ==
    ASSUME Inv, NEW w \in Writers, NEW at, Go(w, at)
    PROVE  /\ Bar' = [Bar EXCEPT ![w].at = View(at)]
           /\ View(at) = View(call[w].at) => Bar' = Bar
<1>1. call \in [Writers -> Call]
  BY DEF Inv, TypeOK
<1>2. \A v \in Writers : call'[v] = IF v = w THEN [call[w] EXCEPT !.at = at] ELSE call[v]
  BY <1>1 DEF Go
<1>3. \A v \in Writers : /\ call'[v].mode = call[v].mode
                         /\ call'[v].at = IF v = w THEN at ELSE call[v].at
  BY <1>1, <1>2 DEF Call
<1>4. Bar' = [v \in Writers |-> [mode |-> call[v].mode,
                               at |-> View(IF v = w THEN at ELSE call[v].at)]]
  BY <1>3 DEF Bar, View
<1> QED
  BY <1>4 DEF Bar
-----------------------------------------------------------------------------
(* What it takes for a step to be one of FileSlot.                          *)

\* A call moves on and nothing is seen of it.
LEMMA NothingSeen ==
    ASSUME Inv, Inv', Bar' = Bar, Plain(dir') = Plain(dir), Plain(disk') = Plain(disk)
    PROVE  UNCHANGED Slot!vars
  BY ShownIs DEF Slot!vars

\* A call answers.
LEMMA Answering ==
    ASSUME Inv, Inv', NEW w \in Writers, NEW at,
           Bar' = [Bar EXCEPT ![w].at = at],
           Plain(dir') = Plain(dir), Plain(disk') = Plain(disk),
           \/ View(call[w].at) = "placed" /\ at = "Ok"
           \/ /\ View(call[w].at) = "waiting"
              /\ at \in {"IoError", IF call[w].mode = "overwrite" THEN "UnsafeTarget" ELSE "Exists"}
    PROVE  Slot!Next
<1>1. Bar[w].at = View(call[w].at) /\ Bar[w].mode = call[w].mode
  BY DEF Bar
<1>2. Slot!Answer(w)
  BY <1>1, ShownIs DEF Slot!Answer
<1> QED
  BY <1>2 DEF Slot!Next

\* A call puts its file under the path.
LEMMA Placing ==
    ASSUME Inv, Inv', NEW w \in Writers, NEW at \in {"placed", "Ok"},
           Bar' = [Bar EXCEPT ![w].at = at],
           View(call[w].at) = "waiting",
           call[w].mode = "overwrite" \/ Plain(dir) = Nothing,
           Plain(dir') = Slot!Whole(w), Plain(disk') = Plain(disk)
    PROVE  Slot!Next
<1>1. Bar[w].at = View(call[w].at) /\ Bar[w].mode = call[w].mode
  BY DEF Bar
<1>2. Slot!Place(w)
  BY <1>1, ShownIs DEF Slot!Place
<1> QED
  BY <1>2 DEF Slot!Next
-----------------------------------------------------------------------------
LEMMA InitImplements == Init => Slot!Init
<1> SUFFICES ASSUME Init
             PROVE  Slot!Init
  OBVIOUS
<1>1. Bar = [w \in Writers |-> [at |-> "idle", mode |-> "create"]]
  BY DEF Init, Bar, View, Gone
<1>2. Content(dir) \in {Nothing} \cup Strangers
  <2>1. CASE dir = NoFiles
    BY <2>1 DEF Content, NoFiles
  <2>2. ASSUME NEW s \in Strangers, dir = With(NoFiles, Target, s)
        PROVE  Content(dir) \in {Nothing} \cup Strangers
    <3>1. Target \in DOMAIN dir /\ dir[Target] = s
      BY <2>2 DEF With
    <3> QED
      BY <3>1 DEF Content
  <2> QED
    BY <2>1, <2>2 DEF Init
<1> QED
  BY <1>1, <1>2, ProgressIsBar DEF Init, Slot!Init

LEMMA BeginImplements ==
    ASSUME Inv, Inv', NEW w \in Writers, Begin(w)
    PROVE  Slot!Next
<1>1. PICK mode \in Modes : call' = [call EXCEPT ![w].at = "open", ![w].mode = mode]
  BY DEF Begin
<1>2. call[w].at = "idle" /\ call \in [Writers -> Call] /\ UNCHANGED <<dir, disk>>
  BY DEF Begin, Inv, TypeOK, SameFiles
<1>3. \A v \in Writers : /\ call'[v].mode = IF v = w THEN mode ELSE call[v].mode
                         /\ call'[v].at = IF v = w THEN "open" ELSE call[v].at
  BY <1>1, <1>2 DEF Call
<1>4. Bar' = [Bar EXCEPT ![w] = [at |-> "waiting", mode |-> mode]]
  BY <1>3 DEF Bar, View, Gone, Answers
<1>5. Bar[w].at = "idle"
  BY <1>2 DEF Bar, View, Gone
<1>6. Plain(dir') = Plain(dir) /\ Plain(disk') = Plain(disk)
  BY <1>2
<1>7. Slot!Ask(w, mode)
  BY <1>4, <1>5, <1>6, ShownIs DEF Slot!Ask
<1> QED
  BY <1>7 DEF Slot!Next, Modes
\* A temporary name is not the path.
LEMMA TempsAreOther == Target \notin Temps /\ Nothing \notin Temps
  BY FileAssumption DEF FileAssumption, Temps

\* A call whose name is not the path, entered or removed.
LEMMA OtherNames ==
    ASSUME NEW d, NEW name \in Temps, NEW i
    PROVE  Plain(With(d, name, i)) = Plain(d) /\ Plain(Without(d, name)) = Plain(d)
<1>1. name # Target
  BY TempsAreOther
<1>2. Plain(With(d, name, i)) = Plain(d)
  <2>1. /\ Target \in DOMAIN d <=> Target \in DOMAIN With(d, name, i)
        /\ Target \in DOMAIN d => With(d, name, i)[Target] = d[Target]
    BY <1>1 DEF With
  <2> QED
    BY <2>1, SamePlain
<1>3. Plain(Without(d, name)) = Plain(d)
  <2>1. /\ Target \in DOMAIN d <=> Target \in DOMAIN Without(d, name)
        /\ Target \in DOMAIN d => Without(d, name)[Target] = d[Target]
    BY <1>1 DEF Without
  <2> QED
    BY <2>1, SamePlain
<1> QED
  BY <1>2, <1>3

LEMMA OpenTempImplements ==
    ASSUME Inv, Inv', NEW w \in Writers, OpenTemp(w)
    PROVE  [Slot!Next]_Slot!vars
<1> DEFINE temp == <<ProcessOf[w], nonce[ProcessOf[w]]>>
<1>1. temp \in Temps
  BY FileAssumption DEF FileAssumption, Inv, TypeOK, Temps
<1>2. call[w].at = "open" /\ call \in [Writers -> Call] /\ disk' = disk
  BY DEF OpenTemp, Inv, TypeOK
<1>3. CASE temp \in DOMAIN dir
  <2>1. PICK at \in {"IoError", "open"} :
            dir' = dir /\ call' = [call EXCEPT ![w].tries = call[w].tries + 1, ![w].at = at]
    BY <1>3 DEF OpenTemp
  <2>2. \A v \in Writers : /\ call'[v].mode = call[v].mode
                           /\ call'[v].at = IF v = w THEN at ELSE call[v].at
    BY <1>2, <2>1 DEF Call
  <2>3. CASE at = "open"
    <3>1. Bar' = Bar
      BY <1>2, <2>2, <2>3 DEF Bar, View
    <3> QED
      BY <1>2, <2>1, <3>1, NothingSeen
  <2>4. CASE at = "IoError"
    <3>1. Bar' = [Bar EXCEPT ![w].at = "IoError"]
      BY <2>2, <2>4 DEF Bar, View, Gone, Answers
    <3>2. View(call[w].at) = "waiting"
      BY <1>2 DEF View, Gone, Answers
    <3> QED
      BY <1>2, <2>1, <3>1, <3>2, Answering
  <2> QED
    BY <2>3, <2>4
<1>4. CASE temp \notin DOMAIN dir
  <2>1. /\ dir' = With(dir, temp, w)
        /\ call' = [call EXCEPT ![w].at = "write", ![w].temp = temp, ![w].fd = w]
    BY <1>4 DEF OpenTemp
  <2>2. \A v \in Writers : /\ call'[v].mode = call[v].mode
                           /\ call'[v].at = IF v = w THEN "write" ELSE call[v].at
    BY <1>2, <2>1 DEF Call
  <2>3. Bar' = Bar
    BY <1>2, <2>2 DEF Bar, View, Gone, Answers
  <2>4. Plain(dir') = Plain(dir)
    BY <1>1, <2>1, OtherNames
  <2> QED
    BY <1>2, <2>3, <2>4, NothingSeen
<1> QED
  BY <1>3, <1>4

\* Nothing is seen of a call that goes on before the exchange.
LEMMA GoesOn ==
    ASSUME Inv, Inv', NEW w \in Writers, NEW at, Go(w, at), UNCHANGED <<dir, disk>>,
           View(call[w].at) = View(at)
    PROVE  UNCHANGED Slot!vars
  BY BarGoes, NothingSeen

\* A call that ends without having changed the path.
LEMMA EndsWith ==
    ASSUME Inv, Inv', NEW w \in Writers, NEW at \in Answers, Go(w, at),
           Plain(dir') = Plain(dir), UNCHANGED disk,
           \/ View(call[w].at) = "placed" /\ at = "Ok"
           \/ /\ View(call[w].at) = "waiting"
              /\ at \in {"IoError", IF call[w].mode = "overwrite" THEN "UnsafeTarget" ELSE "Exists"}
    PROVE  Slot!Next
<1>1. Bar' = [Bar EXCEPT ![w].at = at]
  BY BarGoes DEF View, Gone
<1> QED
  BY <1>1, Answering

LEMMA WriteImplements ==
    ASSUME Inv, Inv', NEW w \in Writers,
           WriteSome(w) \/ Sync(w) \/ CheckTemp(w) \/ CheckTarget(w) \/ Fail(w)
    PROVE  [Slot!Next]_Slot!vars
<1>1. UNCHANGED <<dir, disk>>
  BY DEF WriteSome, Sync, CheckTemp, CheckTarget, Fail, SameFiles
<1>2. CASE WriteSome(w)
  <2>1. Bar' = Bar
    BY <1>2 DEF WriteSome, Bar, View
  <2> QED
    BY <1>1, <2>1, NothingSeen
<1>3. CASE Sync(w) \/ CheckTemp(w) \/ CheckTarget(w)
  <2>1. PICK at \in {"check", "target", "publish", "undo IoError", "undo Exists",
                     "undo UnsafeTarget"} : Go(w, at)
    BY <1>3 DEF Sync, CheckTemp, CheckTarget
  <2>2. call[w].at \in {"write", "check", "target"}
    BY <1>3 DEF Sync, CheckTemp, CheckTarget
  <2>3. View(call[w].at) = "waiting" /\ View(at) = "waiting"
    BY <2>2 DEF View, Gone, Answers
  <2> QED
    BY <1>1, <2>1, <2>3, GoesOn
<1>4. CASE Fail(w)
  <2>1. CASE call[w].at = "open" /\ Go(w, "IoError")
    <3>1. View(call[w].at) = "waiting"
      BY <2>1 DEF View, Gone, Answers
    <3> QED
      BY <1>1, <2>1, <3>1, EndsWith DEF Answers
  <2>2. CASE call[w].at \in {"write", "check", "target", "publish"} /\ Go(w, "undo IoError")
    <3>1. View(call[w].at) = "waiting" /\ View("undo IoError") = "waiting"
      BY <2>2 DEF View, Gone, Answers
    <3> QED
      BY <1>1, <2>2, <3>1, GoesOn
  <2> QED
    BY <1>4, <2>1, <2>2 DEF Fail
<1> QED
  BY <1>2, <1>3, <1>4
\* The exchange: the file that is put there is whole.
LEMMA RenameImplements ==
    ASSUME Inv, Inv', NEW w \in Writers, Rename(w)
    PROVE  [Slot!Next]_Slot!vars
<1>1. /\ call[w].at = "publish" /\ call[w].mode = "overwrite" /\ call[w].fd = w
      /\ call[w].temp \in Temps
  BY DEF Rename, Inv, Owns, Holding
<1>2. View(call[w].at) = "waiting"
  BY <1>1 DEF View, Gone, Answers
<1>3. CASE Go(w, "undo IoError") /\ SameFiles
  <2>1. View("undo IoError") = "waiting"
    BY DEF View, Gone, Answers
  <2> QED
    BY <1>2, <1>3, <2>1, GoesOn DEF SameFiles
<1>4. CASE /\ dir' = With(Without(dir, call[w].temp), Target, w)
           /\ Go(w, "Ok") /\ UNCHANGED disk
  <2>1. Target \in DOMAIN dir' /\ dir'[Target] = w
    BY <1>4 DEF With
  <2>2. w \notin Strangers
    BY FileAssumption DEF FileAssumption
  <2>3. Plain(dir') = Slot!Whole(w)
    BY <2>1, <2>2 DEF Plain
  <2>4. Bar' = [Bar EXCEPT ![w].at = "Ok"]
    BY <1>4, BarGoes DEF View, Gone, Answers
  <2> QED
    BY <1>1, <1>2, <1>4, <2>3, <2>4, Placing
<1> QED
  BY <1>1, <1>3, <1>4 DEF Rename

LEMMA LinkImplements ==
    ASSUME Inv, Inv', NEW w \in Writers, Link(w)
    PROVE  [Slot!Next]_Slot!vars
<1>1. call[w].at = "publish" /\ call[w].fd = w
  BY DEF Link, Inv, Owns, Holding
<1>2. View(call[w].at) = "waiting"
  BY <1>1 DEF View, Gone, Answers
<1>3. CASE Go(w, "undo Exists") /\ SameFiles
  <2>1. View("undo Exists") = "waiting"
    BY DEF View, Gone, Answers
  <2> QED
    BY <1>2, <1>3, <2>1, GoesOn DEF SameFiles
<1>4. CASE /\ Target \notin DOMAIN dir /\ dir' = With(dir, Target, w)
           /\ Go(w, "unlink") /\ UNCHANGED disk
  <2>1. Target \in DOMAIN dir' /\ dir'[Target] = w
    BY <1>4 DEF With
  <2>2. w \notin Strangers
    BY FileAssumption DEF FileAssumption
  <2>3. Plain(dir') = Slot!Whole(w) /\ Plain(dir) = Nothing
    BY <1>4, <2>1, <2>2 DEF Plain
  <2>4. Bar' = [Bar EXCEPT ![w].at = "placed"]
    BY <1>4, BarGoes DEF View, Gone, Answers
  <2> QED
    BY <1>2, <1>4, <2>3, <2>4, Placing
<1> QED
  BY <1>1, <1>3, <1>4 DEF Link

LEMMA UnlinkImplements ==
    ASSUME Inv, Inv', ModeFits, NEW w \in Writers, UnlinkPublished(w) \/ Undo(w)
    PROVE  [Slot!Next]_Slot!vars
<1>1. PICK answer \in Answers :
          /\ Unlink(w, answer)
          /\ \/ call[w].at = "unlink" /\ answer = "Ok"
             \/ call[w].at = "undo Exists" /\ answer = "Exists"
             \/ call[w].at = "undo UnsafeTarget" /\ answer = "UnsafeTarget"
             \/ call[w].at = "undo IoError" /\ answer = "IoError"
  BY DEF UnlinkPublished, Undo, Answers
<1>2. call[w].temp \in Temps
  BY <1>1 DEF Inv, Owns, Holding
<1>3. Go(w, answer) /\ UNCHANGED disk /\ Plain(dir') = Plain(dir)
  BY <1>1, <1>2, OtherNames DEF Unlink
<1>4. CASE call[w].at = "unlink"
  <2>1. View(call[w].at) = "placed"
    BY <1>4 DEF View, Gone, Answers
  <2> QED
    BY <1>1, <1>3, <1>4, <2>1, EndsWith
<1>5. CASE call[w].at \in {"undo Exists", "undo UnsafeTarget", "undo IoError"}
  <2>1. View(call[w].at) = "waiting"
    BY <1>5 DEF View, Gone, Answers
  <2>2. answer \in {"IoError", IF call[w].mode = "overwrite" THEN "UnsafeTarget" ELSE "Exists"}
    BY <1>1, <1>5 DEF ModeFits
  <2> QED
    BY <1>3, <2>1, <2>2, EndsWith
<1> QED
  BY <1>1, <1>4, <1>5

\* Other programs, the disk, and the dead.
LEMMA MeddleImplements ==
    ASSUME Inv, Inv', Meddle
    PROVE  Slot!Next
<1>1. Bar' = Bar /\ UNCHANGED disk
  BY DEF Meddle, Bar, View
<1>2. Plain(dir') \in {Nothing} \cup Strangers
  <2>1. CASE dir' = Without(dir, Target)
    BY <2>1 DEF Plain, Without
  <2>2. ASSUME NEW s \in Strangers, dir' = With(dir, Target, s)
        PROVE  Plain(dir') = s
    BY <2>2 DEF Plain, With
  <2> QED
    BY <2>1, <2>2 DEF Meddle
<1>3. Slot!Meddle
  BY <1>1, <1>2, ShownIs DEF Slot!Meddle
<1> QED
  BY <1>3 DEF Slot!Next

LEMMA FlushImplements ==
    ASSUME Inv, Inv', FlushDir
    PROVE  Slot!Next
<1>1. Bar' = Bar /\ Plain(disk') = Plain(dir) /\ Plain(dir') = Plain(dir)
  BY DEF FlushDir, Bar, View
<1>2. Slot!Settle
  BY <1>1, ShownIs DEF Slot!Settle
<1> QED
  BY <1>2 DEF Slot!Next

LEMMA DeadRecord ==
    ASSUME NEW m, NEW a, NEW b, b = [mode |-> m, at |-> a]
    PROVE  b.at = a /\ [b EXCEPT !.at = "dead"] = [mode |-> m, at |-> "dead"]
  OBVIOUS

LEMMA KillImplements ==
    ASSUME Inv, Inv', budget.crashes > 0, NEW W \in SUBSET Writers,
           NEW names \in SUBSET Temps, Kill(W, names), UNCHANGED disk,
           dir' = dir \/ (dir' = disk /\ W = Writers)
    PROVE  Slot!Next
<1>1. \A v \in Writers : call'[v] = IF v \in Running(W) THEN [call[v] EXCEPT !.at = "dead"]
                                    ELSE call[v]
  BY DEF Kill
<1>2. \A v \in Writers : /\ call'[v].mode = call[v].mode
                         /\ call'[v].at = IF v \in Running(W) THEN "dead" ELSE call[v].at
  BY <1>1 DEF Inv, TypeOK, Call
<1>3. /\ Slot!Gone = Gone /\ "dead" \in Gone
      /\ \A at : View(at) \in Gone <=> at \in Gone
      /\ \A at \in Gone : View(at) = at
  BY DEF View, Gone, Answers, Slot!Gone, Slot!Answers
<1>4. ASSUME NEW v \in Writers
      PROVE  /\ Bar[v] = [mode |-> call[v].mode, at |-> View(call[v].at)]
             /\ Bar[v].at = View(call[v].at)
             /\ [Bar[v] EXCEPT !.at = "dead"] = [mode |-> call[v].mode, at |-> "dead"]
  <2>1. PICK b : b = Bar[v]
    OBVIOUS
  <2>2. b = [mode |-> call[v].mode, at |-> View(call[v].at)]
    BY <2>1 DEF Bar
  <2> QED
    BY <2>1, <2>2, DeadRecord
<1>5. ASSUME NEW v \in Running(W)
      PROVE  v \in Writers /\ Bar[v].at \notin Gone
  <2>1. v \in Writers /\ call[v].at \notin Gone
    BY DEF Running
  <2>2. Bar[v].at = View(call[v].at)
    BY <1>4, <2>1
  <2> QED
    BY <1>3, <2>1, <2>2
<1>6. ASSUME NEW v \in Writers
      PROVE  Bar'[v] = IF v \in Running(W) THEN [Bar[v] EXCEPT !.at = "dead"] ELSE Bar[v]
  <2>1. Bar'[v] = [mode |-> call'[v].mode, at |-> View(call'[v].at)]
    BY DEF Bar, View
  <2>2. CASE v \in Running(W)
    <3>1. Bar'[v] = [mode |-> call[v].mode, at |-> "dead"]
      BY <1>2, <1>3, <2>1, <2>2
    <3> QED
      BY <1>4, <2>2, <3>1
  <2>3. CASE v \notin Running(W)
    BY <1>2, <1>4, <2>1, <2>3
  <2> QED
    BY <2>2, <2>3
<1>7. Bar' = [v \in Writers |-> IF v \in Running(W) /\ Bar[v].at \notin Slot!Gone
                               THEN [Bar[v] EXCEPT !.at = "dead"] ELSE Bar[v]]
  <2>1. Bar' = [v \in Writers |-> Bar'[v]]
    BY DEF Bar
  <2> QED
    BY <1>3, <1>5, <1>6, <2>1
<1>8. Running(W) \in SUBSET Writers
  BY DEF Running
<1>9. ASSUME W = Writers, NEW v \in Writers
      PROVE  Bar'[v].at \in Slot!Gone
  <2>1. Bar'[v].at = View(call'[v].at)
    BY DEF Bar, View
  <2>2. v \in Running(W) \/ call[v].at \in Gone
    BY <1>9 DEF Running
  <2> QED
    BY <1>2, <1>3, <2>1, <2>2
<1>10. /\ Plain(disk') = Plain(disk) /\ Plain(dir') \in {Plain(dir), Plain(disk)}
       /\ Plain(dir') # Plain(dir) => \A v \in Writers : Bar'[v].at \in Slot!Gone
  BY <1>9
<1>11. Slot!Die
  <2> DEFINE shown == [v \in Writers |-> Progress(v)]
  <2>1. shown = Bar /\ shown' = Bar'
    BY ShownIs
  <2>2. shown' = [v \in Writers |-> IF v \in Running(W) /\ shown[v].at \notin Slot!Gone
                                   THEN [shown[v] EXCEPT !.at = "dead"] ELSE shown[v]]
    BY <1>7, <2>1, Zenon
  <2>3. /\ UNCHANGED Content(disk) /\ Content(dir)' \in {Content(dir), Content(disk)}
        /\ Content(dir)' # Content(dir) => \A v \in Writers : shown'[v].at \in Slot!Gone
    BY <1>10, <2>1, ShownIs
  <2> QED
    BY <1>8, <2>2, <2>3, Zenon DEF Slot!Die
<1> QED
  BY <1>11 DEF Slot!Next
-----------------------------------------------------------------------------
\* The mode of a call stays, and fits the answer it is about to give.
LEMMA GoFits ==
    ASSUME Inv, ModeFits, NEW w \in Writers, NEW at, Go(w, at),
           at = "undo Exists" => call[w].mode = "create",
           at = "undo UnsafeTarget" => call[w].mode = "overwrite"
    PROVE  ModeFits'
<1>1. \A v \in Writers : /\ call'[v].mode = call[v].mode
                         /\ call'[v].at = IF v = w THEN at ELSE call[v].at
  BY DEF Go, Inv, TypeOK, Call
<1> QED
  BY <1>1 DEF ModeFits

LEMMA OthersFit ==
    ASSUME Inv, ModeFits, NEW w \in Writers, NEW c \in Call, call' = [call EXCEPT ![w] = c],
           c.at \notin {"undo Exists", "undo UnsafeTarget"}
    PROVE  ModeFits'
<1>1. \A v \in Writers : /\ v # w => call'[v] = call[v]
                         /\ v = w => call'[v].at \notin {"undo Exists", "undo UnsafeTarget"}
  BY DEF Inv, TypeOK
<1> QED
  BY <1>1 DEF ModeFits

LEMMA NextFits == Inv /\ Inv' /\ ModeFits /\ [Next]_vars => ModeFits'
<1> SUFFICES ASSUME Inv, Inv', ModeFits, [Next]_vars
             PROVE  ModeFits'
  OBVIOUS
<1>1. call \in [Writers -> Call] /\ call' \in [Writers -> Call]
  BY DEF Inv, TypeOK
<1>2. CASE UNCHANGED call
  BY <1>2 DEF ModeFits
<1>3. ASSUME NEW w \in Writers, Begin(w) \/ OpenTemp(w)
      PROVE  ModeFits'
  <2>1. call' = [call EXCEPT ![w] = call'[w]]
    BY <1>1, <1>3 DEF Begin, OpenTemp
  <2>2. call'[w].at \in {"open", "IoError", "write"}
    BY <1>1, <1>3 DEF Begin, OpenTemp, Call
  <2> QED
    BY <1>1, <2>1, <2>2, OthersFit
<1>4. ASSUME NEW w \in Writers, Sync(w) \/ CheckTemp(w) \/ Rename(w) \/ Fail(w)
      PROVE  ModeFits'
  <2>1. PICK at \in {"check", "target", "Ok", "IoError", "undo IoError"} : Go(w, at)
    BY <1>4 DEF Sync, CheckTemp, Rename, Fail
  <2> QED
    BY <2>1, GoFits
<1>5. ASSUME NEW w \in Writers, CheckTarget(w) \/ Link(w)
      PROVE  ModeFits'
  <2>1. call[w].mode \in {"create", "overwrite"}
    BY <1>1 DEF Call, Modes
  <2>2. \/ Go(w, "publish") \/ Go(w, "unlink")
        \/ Go(w, "undo Exists") /\ call[w].mode = "create"
        \/ Go(w, "undo UnsafeTarget") /\ call[w].mode = "overwrite"
    BY <1>5, <2>1 DEF CheckTarget, Link
  <2> QED
    BY <2>2, GoFits
<1>6. ASSUME NEW w \in Writers, UnlinkPublished(w) \/ Undo(w)
      PROVE  ModeFits'
  <2>1. PICK at \in Answers : Go(w, at)
    BY <1>6 DEF UnlinkPublished, Undo, Unlink, Answers
  <2> QED
    BY <2>1, GoFits DEF Answers
<1>7. ASSUME NEW W \in SUBSET Writers, NEW names, Kill(W, names)
      PROVE  ModeFits'
  <2>1. \A v \in Writers : \/ call'[v] = call[v]
                           \/ call'[v] = [call[v] EXCEPT !.at = "dead"]
    BY <1>7 DEF Kill
  <2>2. \A v \in Writers : call'[v] = call[v] \/ call'[v].at = "dead"
    BY <1>1, <2>1 DEF Call
  <2> QED
    BY <2>2 DEF ModeFits
<1>8. ASSUME NEW w \in Writers, Begin(w) \/ Step(w) \/ Fail(w)
      PROVE  ModeFits'
  <2>1. CASE WriteSome(w)
    BY <1>2, <2>1 DEF WriteSome
  <2> QED
    BY <1>3, <1>4, <1>5, <1>6, <1>8, <2>1 DEF Step
<1>9. CASE FlushDir \/ Meddle \/ UNCHANGED vars
  BY <1>2, <1>9 DEF FlushDir, Meddle, vars
<1>10. CASE PowerFailure
  BY <1>7, <1>10 DEF PowerFailure
<1>11. ASSUME NEW p \in Processes, Crash(p)
       PROVE  ModeFits'
  BY <1>7, <1>11 DEF Crash
<1> QED
  BY <1>8, <1>9, <1>10, <1>11 DEF Next

LEMMA NextImplements == Inv /\ Inv' /\ ModeFits /\ [Next]_vars => [Slot!Next]_Slot!vars
<1> SUFFICES ASSUME Inv, Inv', ModeFits, [Next]_vars
             PROVE  [Slot!Next]_Slot!vars
  OBVIOUS
<1>1. CASE UNCHANGED vars
  <2>1. Bar' = Bar /\ UNCHANGED <<dir, disk>>
    BY <1>1 DEF vars, Bar, View
  <2> QED
    BY <2>1, NothingSeen
<1>2. ASSUME NEW w \in Writers, Begin(w) \/ Step(w) \/ Fail(w)
      PROVE  [Slot!Next]_Slot!vars
  BY <1>2, BeginImplements, OpenTempImplements, WriteImplements, RenameImplements,
     LinkImplements, UnlinkImplements DEF Step
<1>3. CASE FlushDir \/ Meddle
  BY <1>3, FlushImplements, MeddleImplements
<1>4. CASE PowerFailure
  <2>1. /\ budget.crashes > 0 /\ Kill(Writers, DOMAIN disk \ {Target})
        /\ UNCHANGED disk /\ dir' = disk
    BY <1>4 DEF PowerFailure
  <2>2. DOMAIN disk \ {Target} \in SUBSET Temps
    BY DEF Inv, TypeOK
  <2> QED
    BY <2>1, <2>2, KillImplements
<1>5. ASSUME NEW p \in Processes, Crash(p)
      PROVE  [Slot!Next]_Slot!vars
  <2>1. /\ budget.crashes > 0 /\ Kill({w \in Writers : ProcessOf[w] = p}, {})
        /\ UNCHANGED disk /\ dir' = dir
    BY <1>5 DEF Crash
  <2>2. {w \in Writers : ProcessOf[w] = p} \in SUBSET Writers /\ {} \in SUBSET Temps
    OBVIOUS
  <2> QED
    BY <2>1, <2>2, KillImplements
<1> QED
  BY <1>1, <1>2, <1>3, <1>4, <1>5 DEF Next

\* For any number of calls, processes, crashes and other programs, replacing a
\* file is one exchange of whole files with an answer that tells whether it
\* happened: atomic_write_file_bytes() implements FileSlot.
THEOREM SlotIsImplemented == Spec => ImplementsSlot
<1>1. Init => ModeFits
  <2>1. Init => \A w \in Writers : call[w].at = "idle"
    BY DEF Init
  <2> QED
    BY <2>1 DEF ModeFits
<1> QED
  BY <1>1, InitImplements, Invariance, NextFits, NextImplements, PTL
     DEF Spec, ImplementsSlot, Slot!Spec

-----------------------------------------------------------------------------
(***************************************************************************)
(* The end of a transfer makes several replacements.  What it has done is  *)
(* one of four histories, and where it is tells which (StageInv); the rest *)
(* is how the choices made in the preparation exclude one another          *)
(* (Coherent).                                                             *)
(***************************************************************************)
\* What a transfer may have done to the disk, in order.
Histories == {<<>>, <<"output">>, <<"output", "sidecar">>, <<"output", "removed">>}

\* What every preparation promises about the rest of the transfer.
Coherent(p) ==
    /\ p.sidecarPath \in Files \cup {NoPath}
    /\ p.cleanup.path \in Files \cup {NoPath}
    /\ p.sidecarStatus \in Statuses
    /\ p.cleanup.requested => ~p.requested
    /\ p.sidecarBytes => p.requested /\ p.sidecarStatus = "Ok"
    /\ p.xmp /\ p.edited # "none" /\ ~p.requested => p.edited = "image with xmp"
    /\ p.xmp /\ p.edited # "none" => p.edited = "image with xmp" \/ p.sidecarBytes

IsResult(r) ==
    r \in [status : Statuses, output : Statuses, sidecar : Statuses,
           sidecarPath : Files \cup {NoPath}, cleanup : Statuses,
           removed : BOOLEAN]

\* What a cleanup that was asked for must have come to.
OldSidecarGone ==
    /\ prepared.cleanup.path # NoPath
    /\ request.remove => late \/ ~Exists(prepared.cleanup.path)

\* Where the transfer is tells what it has done and what it would answer.
StageInv ==
    /\ stage \in {"execute", "persist", "sidecar", "cleanup", "remove", "return", "done", "dead"}
    /\ stage \in {"execute", "persist"} =>
          /\ effects = IF stage = "persist" /\ request.streamed THEN <<"output">> ELSE <<>>
          /\ result.output # "Ok" /\ result.status # "Ok" /\ ~result.removed
    /\ stage = "sidecar" => effects = <<"output">> /\ ~result.removed
    /\ stage \in {"cleanup", "remove", "return"} =>
          /\ effects # <<>>
          /\ prepared.sidecarBytes /\ result.sidecar = "Ok" => Did("sidecar")
    /\ stage \in {"cleanup", "remove"} => ~Did("removed") /\ ~result.removed
    /\ stage = "remove" => prepared.cleanup.requested /\ prepared.cleanup.path # NoPath
    /\ stage = "return" =>
          /\ result.removed <=> Did("removed")
          /\ prepared.cleanup.requested /\ result.cleanup = "Ok" => OldSidecarGone
    /\ stage \in {"sidecar", "cleanup", "remove", "return"} => result.output = "Ok"

\* What the caller has been told.
DoneInv ==
    stage = "done" =>
        /\ result.output # "Ok" => effects = <<>> /\ result.status # "Ok"
        /\ result.output = "Ok" => effects # <<>>
        /\ result.removed <=> Did("removed")
        /\ result.status = "Ok" => /\ prepared.sidecarBytes => Did("sidecar")
                                   /\ prepared.cleanup.requested => OldSidecarGone

\* Why each of it was done.
EffectsInv ==
    /\ effects \in Histories
    /\ effects # <<>> => prepared.edited # "none"
    /\ Did("sidecar") => prepared.requested
    /\ Did("removed") => prepared.cleanup.requested

TransferInv == /\ request \in Request
       /\ IsResult(result)
       /\ Coherent(prepared)
       /\ EffectsInv
       /\ StageInv
       /\ DoneInv

\* The histories as sets and as they grow.
LEMMA RangeOfHistory ==
    /\ Range(<<>>) = {} /\ Range(<<"output">>) = {"output"}
    /\ Range(<<"output", "sidecar">>) = {"output", "sidecar"}
    /\ Range(<<"output", "removed">>) = {"output", "removed"}
BY DEF Range

LEMMA HistoriesGrow ==
    /\ Append(<<>>, "output") = <<"output">>
    /\ Append(<<"output">>, "sidecar") = <<"output", "sidecar">>
    /\ Append(<<"output">>, "removed") = <<"output", "removed">>
<1>1. Append(<<>>, "output") = <<"output">>
  OBVIOUS
<1>2. ASSUME NEW S, NEW s \in Seq(S), NEW t \in Seq(S), NEW last \in S,
             Len(s) = 1, Len(t) = 2, t[1] = s[1], t[2] = last
      PROVE  Append(s, last) = t
  <2> DEFINE u == Append(s, last)
  <2>1. u \in Seq(S) /\ Len(u) = Len(s) + 1
    OBVIOUS
  <2>2. u[Len(s) + 1] = last /\ \A i \in 1..Len(s) : u[i] = s[i]
    OBVIOUS
  <2> HIDE DEF u
  <2>3. u = t
    BY <1>2, <2>1, <2>2, SeqEqual
  <2> QED
    BY <2>3 DEF u
<1> DEFINE S == {"output", "sidecar", "removed"}
<1>3. /\ <<"output">> \in Seq(S) /\ Len(<<"output">>) = 1 /\ <<"output">>[1] = "output"
      /\ <<"output", "sidecar">> \in Seq(S) /\ Len(<<"output", "sidecar">>) = 2
      /\ <<"output", "sidecar">>[1] = "output" /\ <<"output", "sidecar">>[2] = "sidecar"
      /\ <<"output", "removed">> \in Seq(S) /\ Len(<<"output", "removed">>) = 2
      /\ <<"output", "removed">>[1] = "output" /\ <<"output", "removed">>[2] = "removed"
  OBVIOUS
<1>4. "output" \in S /\ "sidecar" \in S /\ "removed" \in S
  OBVIOUS
<1> HIDE DEF S
<1>5. Append(<<"output">>, "sidecar") = <<"output", "sidecar">>
  BY <1>2, <1>3, <1>4
<1>6. Append(<<"output">>, "removed") = <<"output", "removed">>
  BY <1>2, <1>3, <1>4
<1> QED
  BY <1>1, <1>5, <1>6

\* An old sidecar is asked to go only when no new one is made.
LEMMA CleanupIsForEmbedded ==
    ASSUME NEW r, r.base \in Files \cup {NoPath},
           r.second \in Files \cup {NoPath}
    PROVE  /\ Cleanup(r).requested => r.mode = "EmbeddedOnly"
           /\ Cleanup(r).path \in Files \cup {NoPath}
BY DEF Cleanup, NoCleanup, FindExisting

\* Whatever was requested, and whatever failed.
LEMMA PreparedIsCoherent ==
    ASSUME NEW r \in Request,
           NEW xmp \in BOOLEAN, NEW ok \in BOOLEAN, NEW edited \in BOOLEAN
    PROVE  Coherent(Prepared(r, xmp, ok, edited))
<1> DEFINE p == Prepared(r, xmp, ok, edited)
<1>1. /\ r.mode \in TransferModes /\ r.stripEmbedded \in BOOLEAN
      /\ r.base \in Files \cup {NoPath}
      /\ r.second \in Files \cup {NoPath}
  BY DEF Request, Files
<1>2. /\ p.cleanup.requested => r.mode = "EmbeddedOnly"
      /\ p.cleanup.path \in Files \cup {NoPath}
      /\ p.sidecarPath \in Files \cup {NoPath}
  BY <1>1, CleanupIsForEmbedded DEF Prepared, NoCleanup
<1>3. /\ p.requested = (r.mode # "EmbeddedOnly")
      /\ p.sidecarBytes = (p.requested /\ xmp /\ ~(ok /\ r.stripEmbedded /\ r.mode # "SidecarOnly"))
      /\ p.xmp = xmp
      /\ p.edited = IF ~(ok /\ edited) \/ (r.stripEmbedded /\ r.mode # "SidecarOnly") THEN "none"
                    ELSE IF xmp /\ r.mode # "SidecarOnly" THEN "image with xmp" ELSE "image"
      /\ p.sidecarStatus =
             IF p.requested /\ IF ok THEN (r.stripEmbedded /\ r.mode # "SidecarOnly") ELSE ~xmp
             THEN "Unsupported" ELSE "Ok"
  BY DEF Prepared
<1> HIDE DEF p
<1>4. Coherent(p)
  BY <1>1, <1>2, <1>3 DEF Coherent, TransferModes, Statuses
<1> QED
  BY <1>4 DEF p

LEMMA TransferStarts == TransferInit => TransferInv
<1> SUFFICES ASSUME TransferInit
             PROVE  TransferInv
  OBVIOUS
<1>1. /\ ~prepared.requested /\ ~prepared.cleanup.requested /\ ~prepared.sidecarBytes
      /\ ~prepared.xmp /\ prepared.sidecarStatus = "Ok"
      /\ prepared.sidecarPath = NoPath /\ prepared.cleanup.path = NoPath
  BY DEF TransferInit, NothingPrepared, Prepared, NoCleanup
<1>2. Coherent(prepared)
  BY <1>1 DEF Coherent, Statuses
<1>3. IsResult(result) /\ result = NoResult
  BY DEF TransferInit, IsResult, NoResult, Statuses
<1>4. EffectsInv /\ StageInv /\ DoneInv
  BY <1>3, RangeOfHistory DEF TransferInit, EffectsInv, StageInv, DoneInv, Histories,
     Did, NoResult
<1> QED
  BY <1>2, <1>3, <1>4 DEF TransferInv, TransferInit

\* What the files may hold.
Typed == /\ files \in [Files -> Contents] /\ late \in BOOLEAN /\ prepared.edited \in Contents
         /\ stage = "cleanup" /\ prepared.requested => result.sidecarPath # NoPath

LEMMA TransferGoesOn == TransferInv /\ Typed /\ [TransferNext]_transferVars => TransferInv'
<1> SUFFICES ASSUME TransferInv, Typed, [TransferNext]_transferVars
             PROVE  TransferInv'
  OBVIOUS
<1> USE RangeOfHistory, HistoriesGrow DEF Did, Histories
<1>1. CASE Execute
  <2>1. PICK xmp \in BOOLEAN, ok \in BOOLEAN, edited \in BOOLEAN :
          /\ prepared' = Prepared(request, xmp, ok, edited)
          /\ IF request.streamed /\ prepared'.edited # "none"
                 THEN effects' = <<"output">> /\ stage' = "persist"
                 ELSE UNCHANGED effects /\ stage' = IF request.streamed THEN "done" ELSE "persist"
    BY <1>1 DEF Execute
  <2>2. Coherent(prepared')
    BY <2>1, PreparedIsCoherent DEF TransferInv
  <2>3. UNCHANGED <<request, result>> /\ effects = <<>> /\ stage = "execute"
    BY <1>1 DEF Execute, TransferInv, StageInv
  <2>4. request.streamed \in BOOLEAN
    BY DEF TransferInv, Request
  <2>5. EffectsInv'
    BY <2>1, <2>3, <2>4 DEF TransferInv, EffectsInv
  <2>6. StageInv'
    BY <2>1, <2>3, <2>4 DEF TransferInv, StageInv
  <2>7. DoneInv'
    BY <2>1, <2>3, <2>4 DEF TransferInv, StageInv, DoneInv, IsResult, Statuses
  <2> QED
    BY <2>2, <2>3, <2>5, <2>6, <2>7 DEF TransferInv, IsResult
<1>2. CASE PersistOutput
  <2>1. /\ effects = <<>> /\ UNCHANGED <<request, prepared>>
        /\ \/ /\ UNCHANGED effects /\ stage' = "done"
              /\ result' = [result EXCEPT !.output = "Unsupported", !.status = "Unsupported"]
           \/ /\ effects' = <<"output">> /\ prepared.edited # "none"
              /\ result' = [result EXCEPT !.output = "Ok"] /\ stage' = "sidecar"
    BY <1>2 DEF PersistOutput, FailOutput, TransferInv, StageInv
  <2>2. IsResult(result')
    BY <2>1 DEF TransferInv, IsResult, Statuses
  <2> QED
    BY <1>2, <2>1, <2>2 DEF PersistOutput, TransferInv, EffectsInv, StageInv,
       DoneInv, Coherent, IsResult
<1>3. CASE OutputWasStreamed
  BY <1>3 DEF OutputWasStreamed, FailOutput, TransferInv, EffectsInv, StageInv,
     DoneInv, Coherent, IsResult, Statuses
<1>4. CASE PersistSidecar
  <2>1. /\ effects = <<"output">> /\ prepared.requested /\ UNCHANGED <<request, prepared>>
        /\ stage' = "cleanup"
    BY <1>4 DEF PersistSidecar, TransferInv, StageInv
  <2>2. PICK status \in Statuses :
            /\ result' = [result EXCEPT !.sidecarPath = SidecarTarget, !.sidecar = status]
            /\ \/ UNCHANGED effects /\ (status # "Ok" \/ ~prepared.sidecarBytes)
               \/ effects' = <<"output", "sidecar">>
    BY <1>4, <2>1 DEF PersistSidecar, TransferInv, Coherent, Statuses
  <2>3. SidecarTarget \in Files
    BY DEF TransferInv, Coherent, SidecarTarget, Files
  <2>4. IsResult(result')
    BY <2>2, <2>3 DEF TransferInv, IsResult
  <2> QED
    BY <1>4, <2>1, <2>2, <2>3, <2>4 DEF PersistSidecar, TransferInv, EffectsInv,
       StageInv, DoneInv, IsResult
<1>5. CASE NoSidecar
  BY <1>5 DEF NoSidecar, FailOutput, TransferInv, EffectsInv, StageInv, DoneInv,
     Coherent, IsResult, Statuses
<1>6. CASE CheckCleanup
  <2>1. /\ stage = "cleanup" /\ prepared.cleanup.requested
        /\ UNCHANGED <<request, prepared, effects>>
        /\ \/ /\ stage' = "remove" /\ UNCHANGED result /\ prepared.cleanup.path # NoPath
           \/ /\ stage' = "return"
              /\ result' = [result EXCEPT !.cleanup = IF prepared.cleanup.path = NoPath
                                                     THEN "Unsupported" ELSE "Ok"]
              /\ prepared.cleanup.path # NoPath => OldSidecarGone'
    <3>1. stage = "cleanup" /\ prepared.cleanup.requested
          /\ UNCHANGED <<files, request, prepared, effects, late>>
      BY <1>6 DEF CheckCleanup
    <3>2. "sidecar" \notin Range(effects)
      BY <3>1 DEF TransferInv, EffectsInv, Coherent
    <3>3. OldSidecarGone' = OldSidecarGone
      BY <3>1 DEF OldSidecarGone, Exists
    <3>4. CASE /\ prepared.cleanup.path # NoPath /\ request.remove
               /\ Exists(prepared.cleanup.path)
      BY <1>6, <3>1, <3>2, <3>4 DEF CheckCleanup
    <3>5. CASE ~(/\ prepared.cleanup.path # NoPath /\ request.remove
                 /\ Exists(prepared.cleanup.path))
      <4>1. prepared.cleanup.path # NoPath => OldSidecarGone
        BY <3>5 DEF OldSidecarGone
      <4> QED BY <1>6, <3>1, <3>3, <3>5, <4>1 DEF CheckCleanup
    <3> QED BY <3>4, <3>5
  <2>2. IsResult(result')
    BY <2>1 DEF TransferInv, IsResult, Statuses
  <2>3. EffectsInv' /\ DoneInv'
    BY <2>1 DEF TransferInv, EffectsInv, DoneInv
  <2>4. StageInv'
    BY <2>1 DEF TransferInv, EffectsInv, StageInv, IsResult
  <2> QED
    BY <2>1, <2>2, <2>3, <2>4 DEF TransferInv, Coherent
<1>7. CASE NoCleanupAsked
  <2>1. /\ stage = "cleanup" /\ ~prepared.cleanup.requested /\ stage' = "return"
        /\ UNCHANGED <<request, prepared, effects, result>>
    BY <1>7 DEF NoCleanupAsked
  <2> QED
    BY <2>1 DEF TransferInv, EffectsInv, StageInv, DoneInv, IsResult, Coherent
<1>8. CASE Remove
  <2>1. /\ stage = "remove" /\ stage' = "return" /\ UNCHANGED <<request, prepared>>
        /\ \/ /\ effects' = Append(effects, "removed")
              /\ result' = [result EXCEPT !.cleanup = "Ok", !.removed = TRUE]
              /\ files' = [files EXCEPT ![prepared.cleanup.path] = "none"]
           \/ /\ UNCHANGED effects
              /\ result' = [result EXCEPT !.cleanup = "Unsupported"]
    BY <1>8 DEF Remove
  <2>2. effects = <<"output">>
    BY <2>1 DEF TransferInv, EffectsInv, StageInv, Coherent
  <2>3. IsResult(result')
    BY <2>1 DEF TransferInv, IsResult, Statuses
  <2>4. EffectsInv' /\ DoneInv'
    BY <2>1, <2>2 DEF TransferInv, EffectsInv, StageInv, DoneInv
  <2>6. result'.cleanup = "Ok" => OldSidecarGone'
    <3> PICK path : path = prepared.cleanup.path
      OBVIOUS
    <3>1. path \in Files /\ path # NoPath
      BY <2>1 DEF TransferInv, StageInv, Coherent
    <3>2. files' = [files EXCEPT ![path] = "none"] => files'[path] = "none"
      BY <3>1 DEF Typed
    <3> QED BY <2>1, <3>1, <3>2 DEF OldSidecarGone, Exists, TransferInv, IsResult
  <2>5. StageInv'
    BY <2>1, <2>2, <2>6 DEF TransferInv, StageInv, IsResult
  <2> QED
    BY <2>1, <2>3, <2>4, <2>5 DEF TransferInv, Coherent
<1>9. CASE Return
  <2>1. /\ stage = "return" /\ stage' = "done" /\ UNCHANGED <<request, prepared, effects>>
        /\ result' = [result EXCEPT !.status =
                     IF prepared.requested /\ result.sidecar # "Ok" THEN result.sidecar
                     ELSE IF prepared.cleanup.requested THEN result.cleanup ELSE "Ok"]
    BY <1>9 DEF Return
  <2>2. IsResult(result')
    BY <2>1 DEF TransferInv, IsResult, Statuses
  <2>3. EffectsInv' /\ StageInv'
    BY <2>1 DEF TransferInv, EffectsInv, StageInv
  <2>5. OldSidecarGone' = OldSidecarGone
    BY <1>9 DEF Return, OldSidecarGone, Exists
  <2>4. DoneInv'
    BY <2>1, <2>5 DEF TransferInv, EffectsInv, StageInv, Coherent, DoneInv, IsResult
  <2> QED
    BY <2>1, <2>2, <2>3, <2>4 DEF TransferInv, Coherent
<1>10. CASE Die \/ UNCHANGED transferVars
  <2>1. OldSidecarGone' = OldSidecarGone
    BY <1>10 DEF Die, transferVars, OldSidecarGone, Exists
  <2> QED
    BY <1>10, <2>1 DEF Die, transferVars, TransferInv, EffectsInv, StageInv, DoneInv, IsResult
<1>11. CASE OthersWrite
  <2>1. /\ UNCHANGED <<stage, request, prepared, result, effects>>
        /\ stage \notin {"done", "dead"}
    BY <1>11 DEF OthersWrite
  <2>2. stage = "return" /\ OldSidecarGone => OldSidecarGone'
    <3> PICK path : path = prepared.cleanup.path
      OBVIOUS
    <3>1. path \in Files \cup {NoPath}
      BY DEF TransferInv, Coherent
    <3>2. PICK f \in Files, c \in {"none", "other", "locked"} :
              /\ files' = [files EXCEPT ![f] = c]
              /\ late' = (late \/ (stage = "return" /\ f = path /\ c # "none"))
      BY <1>11 DEF OthersWrite
    <3>3. path # NoPath => files'[path] = IF path = f THEN c ELSE files[path]
      BY <3>1, <3>2 DEF Typed
    <3> QED BY <2>1, <3>2, <3>3 DEF OldSidecarGone, Exists
  <2> QED
    BY <2>1, <2>2 DEF TransferInv, EffectsInv, StageInv, DoneInv, IsResult
<1> QED
  BY <1>1, <1>2, <1>3, <1>4, <1>5, <1>6, <1>7, <1>8, <1>9, <1>10, <1>11
     DEF TransferNext, Persist

LEMMA NextTyped == TransferInv /\ Typed /\ [TransferNext]_transferVars => Typed'
<1> SUFFICES ASSUME TransferInv, Typed, [TransferNext]_transferVars
             PROVE  Typed'
  OBVIOUS
<1>0. late' \in BOOLEAN
  BY DEF TransferNext, Persist, Execute, PersistOutput, OutputWasStreamed, PersistSidecar,
     NoSidecar, CheckCleanup, NoCleanupAsked, Remove, Return, Die, OthersWrite,
     transferVars, Typed
<1>1. CASE Execute
  <2>1. PICK xmp \in BOOLEAN, ok \in BOOLEAN, edited \in BOOLEAN :
          /\ prepared' = Prepared(request, xmp, ok, edited)
          /\ files' = files \/ files' = [files EXCEPT !["output"] = prepared'.edited]
          /\ stage' # "cleanup"
    BY <1>1 DEF Execute
  <2>2. prepared'.edited \in Contents
    BY <2>1 DEF Prepared, Contents
  <2> QED
    BY <1>0, <2>1, <2>2 DEF Typed
<1>2. CASE PersistOutput \/ OutputWasStreamed
  <2>1. UNCHANGED prepared /\ stage' # "cleanup"
        /\ (files' = files \/ files' = [files EXCEPT !["output"] = prepared.edited])
    BY <1>2 DEF PersistOutput, OutputWasStreamed, FailOutput
  <2> QED
    BY <1>0, <2>1 DEF Typed
<1>3. CASE PersistSidecar
  <2>1. /\ SidecarTarget \in Files /\ "xmp" \in Contents
        /\ SidecarTarget # NoPath
    BY DEF TransferInv, Coherent, SidecarTarget, Files, Contents,
       NoPath
  <2>2. /\ UNCHANGED prepared
        /\ files' = files \/ files' = [files EXCEPT ![SidecarTarget] = "xmp"]
    BY <1>3 DEF PersistSidecar
  <2>3. result'.sidecarPath = SidecarTarget
    BY <1>3 DEF PersistSidecar, TransferInv, IsResult
  <2> QED
    BY <1>0, <2>1, <2>2, <2>3 DEF Typed
<1>4. CASE Remove
  <2>1. /\ UNCHANGED prepared /\ stage' # "cleanup" /\ "none" \in Contents
        /\ files' = files \/ \E path : files' = [files EXCEPT ![path] = "none"]
    BY <1>4 DEF Remove, Contents
  <2> QED
    BY <1>0, <2>1 DEF Typed
<1>5. CASE OthersWrite
  <2>1. /\ UNCHANGED <<stage, prepared, result>>
        /\ \E f \in Files, c \in Contents : files' = [files EXCEPT ![f] = c]
    BY <1>5 DEF OthersWrite, Contents
  <2> QED
    BY <1>0, <2>1 DEF Typed
<1>6. CASE \/ NoSidecar \/ CheckCleanup \/ NoCleanupAsked
           \/ Return \/ Die \/ UNCHANGED transferVars
  BY <1>6 DEF NoSidecar, CheckCleanup, NoCleanupAsked,
     Return, Die, transferVars, Typed
<1> QED
  BY <1>1, <1>2, <1>3, <1>4, <1>5, <1>6 DEF TransferNext, Persist

LEMMA StartsTyped == TransferInit => Typed
<1> SUFFICES ASSUME TransferInit
             PROVE  Typed
  OBVIOUS
<1>1. files \in [Files -> {"none", "other", "locked"}] /\ {"none", "other", "locked"} \subseteq Contents
      /\ stage = "execute" /\ late = FALSE
  BY DEF TransferInit, Contents
<1>2. prepared.edited = "none"
  BY DEF TransferInit, NothingPrepared, Prepared
<1> QED
  BY <1>1, <1>2 DEF Typed

LEMMA TransferInvariance == TransferSpec => [](TransferInv /\ Typed)
BY TransferStarts, StartsTyped, TransferGoesOn, NextTyped, PTL DEF TransferSpec

\* The state of a transfer keeps its shape.
THEOREM TransferTypeCorrect == TransferSpec => []TransferTypeOK
<1>1. TransferInv /\ Typed => TransferTypeOK
  <2> SUFFICES ASSUME TransferInv, Typed
               PROVE  TransferTypeOK
    OBVIOUS
  <2>1. Len(effects) <= 3 /\ Range(effects) \subseteq {"output", "sidecar", "removed"}
    <3>1. /\ Len(<<>>) <= 3 /\ Len(<<"output">>) <= 3
          /\ Len(<<"output", "sidecar">>) <= 3 /\ Len(<<"output", "removed">>) <= 3
      OBVIOUS
    <3> QED
      BY <3>1, RangeOfHistory DEF TransferInv, EffectsInv, Histories
  <2>2. stage \in {"execute", "persist", "sidecar", "cleanup", "remove", "return", "done", "dead"}
    BY DEF TransferInv, StageInv
  <2> QED
    BY <2>1, <2>2 DEF TransferInv, Typed, Coherent, IsResult, TransferTypeOK
<1> QED
  BY <1>1, TransferInvariance, PTL

\* No sidecar is touched before the output is in place, in whatever order other
\* programs act and wherever the process dies.
THEOREM OutputAlwaysFirst == TransferSpec => []OutputFirst
<1>1. TransferInv => OutputFirst
  BY DEF TransferInv, EffectsInv, OutputFirst, Histories
<1> QED
  BY <1>1, TransferInvariance, PTL

\* The result tells what was done: after Ok the output and the sidecar made for it
\* are in place and the old one is gone, but for the two exceptions that
\* AnswersAreTrue names.
THEOREM AnswersAreAlwaysTrue == TransferSpec => []AnswersAreTrue
<1>1. TransferInv => AnswersAreTrue
  BY RangeOfHistory DEF TransferInv, EffectsInv, DoneInv, AnswersAreTrue, OldSidecarGone,
     Histories, Did, IsResult, Statuses
<1> QED
  BY <1>1, TransferInvariance, PTL

\* After Ok a packet that was made is in the image or beside it.
THEOREM XmpAlwaysLands == TransferSpec => []XmpLandsSomewhere
<1>1. TransferInv => XmpLandsSomewhere
  BY RangeOfHistory DEF TransferInv, EffectsInv, DoneInv, Coherent,
     XmpLandsSomewhere, Histories, Did, IsResult, Statuses
<1> QED
  BY <1>1, TransferInvariance, PTL

\* An old sidecar is removed only in favour of an image with the packet.
THEOREM OldSidecarAlwaysYields == TransferSpec => []OldSidecarYields
<1>1. TransferInv => OldSidecarYields
  BY RangeOfHistory DEF TransferInv, EffectsInv, Coherent, OldSidecarYields,
     Histories, Did
<1> QED
  BY <1>1, TransferInvariance, PTL
=============================================================================
