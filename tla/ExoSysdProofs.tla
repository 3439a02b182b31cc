--------------------------- MODULE ExoSysdProofs ---------------------------
(***************************************************************************)
(* Theorems about exosysd, for any requests and any numbers of blocks,     *)
(* turns and failures.                                                     *)
(*                                                                         *)
(* That no block is gone through too often is not inductive: a block that  *)
(* is being gone through, and one that will be when the daemon looks next, *)
(* are counted already (Due).                                              *)
(*                                                                         *)
(* The runs of exotool.sh share files and containers by name.  For each    *)
(* the invariant says whose it is: a container that of a run of its        *)
(* package (ContainersOK, CompleteOK), a file that of the run that hashed  *)
(* it, as long as no two runs use one name (FilesOK).                      *)
(***************************************************************************)
EXTENDS ExoSysd, Sums, SequenceTheorems

NodeOK ==
  /\ blocks \in Seq(Block) /\ Len(blocks) <= MaxBlocks
  /\ best \in 0 .. Len(blocks) /\ lastBlock \in 0 .. Len(blocks)
  /\ turns \in [1 .. MaxBlocks -> Nat] /\ handled \in [1 .. MaxBlocks -> Nat]
  /\ restarts \in Nat
  /\ pc \in {"poll", "events", "sleep", "ended"}

(* The block will be gone through when the daemon looks next, or is now.   *)
ToCome(b) == best = b /\ (lastBlock # b \/ pc = "ended")

Underway(b) == pc = "events" /\ lastBlock = b

Due(b) == (IF ToCome(b) THEN 1 ELSE 0) + (IF Underway(b) THEN 1 ELSE 0)

Counted == \A b \in 1 .. MaxBlocks : handled[b] + Due(b) <= turns[b] + restarts

IInv == NodeOK /\ Counted

(* What happens to a block: it gets to be the best one.                    *)
LEMMA BestKeeps ==
  ASSUME IInv, NEW b \in 1 .. MaxBlocks, Best(b),
         blocks' \in Seq(Block), Len(blocks') <= MaxBlocks,
         Len(blocks) <= Len(blocks'), b <= Len(blocks')
  PROVE  IInv'
<1>1. /\ best' = b /\ turns' = [turns EXCEPT ![b] = @ + 1]
      /\ UNCHANGED <<pc, lastBlock, handled, restarts>>
  BY DEF Best, daemon
<1>2. NodeOK'
  BY <1>1 DEF IInv, NodeOK
<1>3. ASSUME NEW c \in 1 .. MaxBlocks
      PROVE  (handled[c] + Due(c) <= turns[c] + restarts)'
  <2>1. handled[c] + Due(c) <= turns[c] + restarts /\ handled[c] \in Nat /\ turns[c] \in Nat
    BY DEF IInv, NodeOK, Counted
  <2>2. Underway(c)' = Underway(c)
    BY <1>1 DEF Underway
  <2>3. CASE c = b
    <3>1. turns'[c] = turns[c] + 1
      BY <1>1, <2>3 DEF IInv, NodeOK
    <3>2. QED
      BY <1>1, <2>1, <2>2, <3>1 DEF IInv, NodeOK, Due
  <2>4. CASE c # b
    <3>1. turns'[c] = turns[c] /\ ~ToCome(c)'
      BY <1>1, <2>4 DEF IInv, NodeOK, ToCome
    <3>2. QED
      BY <1>1, <2>1, <2>2, <3>1 DEF IInv, NodeOK, Due
  <2>5. QED
    BY <2>3, <2>4
<1>4. QED
  BY <1>2, <1>3 DEF IInv, Counted

(* The steps of exotool.sh leave the node and the daemon alone.            *)
LEMMA ToolsKeep ==
  ASSUME NEW r \in DOMAIN runs, ExoTool(r)
  PROVE  UNCHANGED <<node, daemon>>
BY DEF ExoTool, Curl, HashFile, MoveFile, Check, DockerRun, ContainerEnds, CallLogger, SafeExit

LEMMA Unchanged ==
  ASSUME IInv, UNCHANGED <<node, daemon>>
  PROVE  IInv'
BY DEF IInv, NodeOK, Counted, Due, ToCome, Underway, node, daemon

(* The arithmetic of it: what is due may grow by as much as restarts.     *)
LEMMA Trade ==
  ASSUME NEW h \in Nat, NEW t \in Nat, NEW r \in Nat, NEW s \in Nat, NEW c \in Nat, NEW d \in Nat,
         h + c <= t + r, d + r <= c + s
  PROVE  h + d <= t + s
OBVIOUS

(* What the daemon does between the blocks: what is due grows no faster    *)
(* than the number of restarts.                                            *)
LEMMA DaemonKeeps ==
  ASSUME IInv, UNCHANGED <<blocks, best, turns, handled>>,
         lastBlock' \in 0 .. Len(blocks), restarts' \in Nat,
         pc' \in {"poll", "events", "sleep", "ended"},
         \A b \in 1 .. MaxBlocks : Due(b)' + restarts <= Due(b) + restarts'
  PROVE  IInv'
<1>1. NodeOK'
  BY DEF IInv, NodeOK
<1>2. ASSUME NEW b \in 1 .. MaxBlocks
      PROVE  (handled[b] + Due(b) <= turns[b] + restarts)'
  <2>1. handled[b] + Due(b) <= turns[b] + restarts /\ Due(b)' + restarts <= Due(b) + restarts'
    BY DEF IInv, Counted
  <2>2. /\ handled[b] \in Nat /\ turns[b] \in Nat /\ restarts \in Nat /\ restarts' \in Nat
        /\ handled'[b] = handled[b] /\ turns'[b] = turns[b]
    BY DEF IInv, NodeOK
  <2>3. Due(b) \in Nat /\ Due(b)' \in Nat
    BY DEF Due
  <2>4. handled[b] + Due(b)' <= turns[b] + restarts'
    BY <2>1, <2>2, <2>3, Trade
  <2>5. QED
    BY <2>2, <2>4
<1>3. QED
  BY <1>1, <1>2 DEF IInv, Counted

LEMMA Initially == Init => IInv
<1>1. SUFFICES ASSUME Init PROVE IInv
  OBVIOUS
<1>2. /\ blocks = << >> /\ best = 0 /\ turns = [b \in 1 .. MaxBlocks |-> 0]
      /\ pc = "poll" /\ lastBlock = 0 /\ handled = turns /\ restarts = 0
  BY <1>1 DEF Init
<1>3. blocks \in Seq(Block) /\ Len(blocks) = 0
  BY <1>2
<1>4. QED
  BY <1>2, <1>3, ExoSysdAssumption DEF IInv, NodeOK, Counted, Due, ToCome, Underway

LEMMA StepKeeps == IInv /\ [Next]_vars => IInv'
<1>1. SUFFICES ASSUME IInv, [Next]_vars PROVE IInv'
  OBVIOUS
<1>2. CASE \E events \in Block : NewBest(events)
  <2>1. PICK events \in Block : NewBest(events)
    BY <1>2
  <2>2. /\ blocks \in Seq(Block) /\ Len(blocks) \in Nat
        /\ Len(blocks) < MaxBlocks /\ blocks' = Append(blocks, events)
        /\ Best(Len(blocks) + 1)
    BY <1>1, <2>1 DEF IInv, NodeOK, NewBest
  <2>3. blocks' \in Seq(Block) /\ Len(blocks') = Len(blocks) + 1
    BY <2>2
  <2>4. Len(blocks) + 1 \in 1 .. MaxBlocks
    BY <2>2, ExoSysdAssumption
  <2>5. QED
    BY <1>1, <2>2, <2>3, <2>4, BestKeeps
<1>3. CASE \E b \in DOMAIN blocks : BestAgain(b)
  <2>1. PICK b \in DOMAIN blocks : BestAgain(b)
    BY <1>3
  <2>2. b \in 1 .. MaxBlocks /\ b <= Len(blocks)
    BY <1>1, ExoSysdAssumption DEF IInv, NodeOK
  <2>3. Best(b) /\ blocks' = blocks
    BY <2>1 DEF BestAgain
  <2>4. QED
    BY <1>1, <2>2, <2>3, BestKeeps DEF IInv, NodeOK
<1>4. CASE GetBlockHash
  <2>1. /\ pc = "poll" /\ best # lastBlock /\ lastBlock' = best
        /\ pc' = IF best = 0 THEN "sleep" ELSE "events"
        /\ UNCHANGED <<blocks, best, turns, handled, restarts>>
    BY <1>4 DEF GetBlockHash, IsNew, node
  <2>2. /\ restarts \in Nat /\ lastBlock \in 0 .. Len(blocks) /\ best \in 0 .. Len(blocks)
        /\ Len(blocks) \in Nat
    BY <1>1 DEF IInv, NodeOK
  <2>3. ASSUME NEW b \in 1 .. MaxBlocks PROVE Due(b)' + restarts <= Due(b) + restarts'
    BY <2>1, <2>2 DEF Due, ToCome, Underway
  <2>4. QED
    BY <1>1, <2>1, <2>2, <2>3, DaemonKeeps
<1>5. CASE StartExoTools
  <2>1. /\ pc = "events" /\ handled' = [handled EXCEPT ![lastBlock] = @ + 1]
        /\ pc' = "sleep"
        /\ UNCHANGED <<blocks, best, turns, lastBlock, restarts>>
    BY <1>5 DEF StartExoTools, node
  <2>2. NodeOK'
    <3>1. handled \in [1 .. MaxBlocks -> Nat]
      BY <1>1 DEF IInv, NodeOK
    <3>2. handled' \in [1 .. MaxBlocks -> Nat]
      <4>1. CASE lastBlock \in 1 .. MaxBlocks
        <5>1. handled[lastBlock] + 1 \in Nat
          BY <3>1, <4>1
        <5>2. QED
          BY <2>1, <3>1, <4>1, <5>1
      <4>2. CASE lastBlock \notin 1 .. MaxBlocks
        BY <2>1, <3>1, <4>2
      <4>3. QED
        BY <4>1, <4>2
    <3>3. QED
      BY <1>1, <2>1, <3>2 DEF IInv, NodeOK
  <2>3. ASSUME NEW c \in 1 .. MaxBlocks
        PROVE  (handled[c] + Due(c) <= turns[c] + restarts)'
    <3>1. handled[c] + Due(c) <= turns[c] + restarts /\ handled[c] \in Nat /\ turns[c] \in Nat
      BY <1>1 DEF IInv, NodeOK, Counted
    <3>2. ToCome(c)' = ToCome(c) /\ ~Underway(c)'
      BY <2>1 DEF ToCome, Underway
    <3>3. handled'[c] = IF Underway(c) THEN handled[c] + 1 ELSE handled[c]
      BY <1>1, <2>1 DEF IInv, NodeOK, Underway
    <3>4. QED
      BY <1>1, <2>1, <3>1, <3>2, <3>3 DEF IInv, NodeOK, Due
  <2>4. QED
    BY <2>2, <2>3 DEF IInv, Counted
<1>6. CASE Sleep \/ LeaveBlock
  <2>1. /\ pc \in {"sleep", "events"} /\ pc' \in {"poll", "sleep"}
        /\ UNCHANGED <<blocks, best, turns, lastBlock, handled, restarts>>
    BY <1>6 DEF Sleep, LeaveBlock, node
  <2>2. /\ restarts \in Nat /\ lastBlock \in 0 .. Len(blocks) /\ best \in 0 .. Len(blocks)
        /\ Len(blocks) \in Nat
    BY <1>1 DEF IInv, NodeOK
  <2>3. ASSUME NEW b \in 1 .. MaxBlocks PROVE Due(b)' + restarts <= Due(b) + restarts'
    BY <2>1, <2>2 DEF Due, ToCome, Underway
  <2>4. QED
    BY <1>1, <2>1, <2>2, <2>3, DaemonKeeps
<1>7. CASE RpcFails
  <2>1. /\ pc \in {"poll", "events"} /\ pc' = "ended" /\ restarts' = restarts + 1
        /\ UNCHANGED <<blocks, best, turns, lastBlock, handled>>
    BY <1>7 DEF RpcFails, node
  <2>2. /\ restarts \in Nat /\ lastBlock \in 0 .. Len(blocks) /\ best \in 0 .. Len(blocks)
        /\ Len(blocks) \in Nat
    BY <1>1 DEF IInv, NodeOK
  <2>3. ASSUME NEW b \in 1 .. MaxBlocks PROVE Due(b)' + restarts <= Due(b) + restarts'
    BY <2>1, <2>2 DEF Due, ToCome, Underway
  <2>4. QED
    BY <1>1, <2>1, <2>2, <2>3, DaemonKeeps
<1>8. CASE Restart
  <2>1. /\ pc = "ended" /\ pc' = "poll" /\ lastBlock' = 0
        /\ UNCHANGED <<blocks, best, turns, handled, restarts>>
    BY <1>8 DEF Restart, node
  <2>2. /\ restarts \in Nat /\ lastBlock \in 0 .. Len(blocks) /\ best \in 0 .. Len(blocks)
        /\ Len(blocks) \in Nat
    BY <1>1 DEF IInv, NodeOK
  <2>3. ASSUME NEW b \in 1 .. MaxBlocks PROVE Due(b)' + restarts <= Due(b) + restarts'
    BY <2>1, <2>2 DEF Due, ToCome, Underway
  <2>4. QED
    BY <1>1, <2>1, <2>2, <2>3, DaemonKeeps
<1>9. CASE \E r \in DOMAIN runs : ExoTool(r)
  BY <1>1, <1>9, ToolsKeep, Unchanged
<1>10. CASE UNCHANGED vars
  BY <1>1, <1>10, Unchanged DEF vars
<1>11. QED
  BY <1>1, <1>2, <1>3, <1>4, <1>5, <1>6, <1>7, <1>8, <1>9, <1>10 DEF Next

(* exosysd goes through the events of a block at most once for each time   *)
(* the block was the best one and each time the daemon was started.        *)
THEOREM HandledCorrect == Spec => []HandledOncePerTurn
<1>1. IInv => HandledOncePerTurn
  <2>1. SUFFICES ASSUME IInv, NEW b \in DOMAIN blocks PROVE handled[b] <= turns[b] + restarts
    BY DEF HandledOncePerTurn
  <2>2. b \in 1 .. MaxBlocks
    BY <2>1, ExoSysdAssumption DEF IInv, NodeOK
  <2>3. Due(b) \in Nat
    BY DEF Due
  <2>4. QED
    BY <2>1, <2>2, <2>3 DEF IInv, NodeOK, Counted
<1>2. QED
  BY Initially, StepKeeps, <1>1, PTL DEF Spec
-----------------------------------------------------------------------------
(* The runs of exotool.sh.                                                 *)

(* Before the check nothing is completed or reported; from then on, the    *)
(* package found is the one that was asked for.                            *)
Unchecked(r) == runs[r].step \in {"curl", "hash", "move", "check"}

InContainer(r) == runs[r].step \in {"run", "running", "report", "exit"}

RunsOK ==
  \A r \in DOMAIN runs :
    /\ Unchecked(r) => ~runs[r].completed /\ ~runs[r].reported
    /\ InContainer(r) \/ runs[r].completed \/ runs[r].reported => runs[r].hash = runs[r].supplied

(* The bounds of the model, and that a block is gone through only if there *)
(* is one.                                                                 *)
TurnsOK ==
  /\ SumFunction(turns) + restarts <= MaxTurns
  /\ pc = "events" => lastBlock # 0
  /\ Len(runs) <= SumFunction(handled)

ToolsTypeOK ==
  /\ runs \in Seq(Run)
  /\ temp \in [Names -> Hashes \cup {None}]
  /\ downloads \in [Hashes \cup {None} -> [Names -> Hashes \cup {None}]]
  /\ containers \in [Hashes \cup Names -> [by : 0 .. Len(runs), running : BOOLEAN]]

TypeInv == NodeOK /\ TurnsOK /\ ToolsTypeOK /\ RunsOK

(* One run goes on: its url and the hash it was passed stay.               *)
Becomes(r, hash, step, completed, reported) ==
  /\ runs' \in Seq(Run) /\ Len(runs') = Len(runs) /\ DOMAIN runs' = DOMAIN runs
  /\ \A q \in DOMAIN runs \ {r} : runs'[q] = runs[q]
  /\ \A q \in DOMAIN runs :
       runs'[q].url = runs[q].url /\ runs'[q].supplied = runs[q].supplied
  /\ runs'[r].hash = hash /\ runs'[r].step = step
  /\ runs'[r].completed = completed /\ runs'[r].reported = reported

LEMMA Updated ==
  ASSUME NEW S, NEW s \in Seq(S), NEW i \in DOMAIN s, NEW e \in S
  PROVE  LET t == [s EXCEPT ![i] = e] IN
         /\ t \in Seq(S) /\ Len(t) = Len(s) /\ DOMAIN t = DOMAIN s
         /\ t[i] = e /\ \A j \in DOMAIN s \ {i} : t[j] = s[j]
<1> DEFINE t == [s EXCEPT ![i] = e]
<1>1. Len(s) \in Nat /\ DOMAIN s = 1 .. Len(s) /\ \A j \in 1 .. Len(s) : s[j] \in S
  BY ElementOfSeq, LenProperties
<1>2. t \in [1 .. Len(s) -> S]
  BY <1>1
<1>3. t[i] = e /\ \A j \in DOMAIN s \ {i} : t[j] = s[j]
  BY <1>1
<1> HIDE DEF t
<1>4. t \in Seq(S) /\ Len(t) = Len(s) /\ DOMAIN t = DOMAIN s
  BY <1>1, <1>2
<1> QED
  BY <1>3, <1>4 DEF t

LEMMA RunType ==
  ASSUME ToolsTypeOK, NEW r \in DOMAIN runs
  PROVE  /\ r \in 1 .. Len(runs) /\ runs[r] \in Run
         /\ Name(r) \in Names /\ runs[r].supplied \in Hashes
         /\ runs[r].hash \in Hashes \cup {None}
         /\ runs[r].completed \in BOOLEAN /\ runs[r].reported \in BOOLEAN
<1>1. r \in 1 .. Len(runs) /\ runs[r] \in Run
  BY ElementOfSeq, LenProperties DEF ToolsTypeOK
<1>2. runs[r].url \in Urls
  BY <1>1 DEF Run
<1> QED
  BY <1>1, <1>2 DEF Run, Name, Names

(* What an update of some fields of a run leaves.                          *)
LEMMA RunUpdated ==
  ASSUME ToolsTypeOK, NEW r \in DOMAIN runs, NEW e \in Run,
         e.url = runs[r].url, e.supplied = runs[r].supplied,
         runs' = [runs EXCEPT ![r] = e]
  PROVE  Becomes(r, e.hash, e.step, e.completed, e.reported)
<1>1. runs \in Seq(Run)
  BY DEF ToolsTypeOK
<1>2. /\ runs' \in Seq(Run) /\ Len(runs') = Len(runs) /\ DOMAIN runs' = DOMAIN runs
      /\ runs'[r] = e /\ \A q \in DOMAIN runs \ {r} : runs'[q] = runs[q]
  BY <1>1, Updated
<1> QED
  BY <1>2 DEF Becomes

(* What each step of exotool.sh makes of its run.                          *)
LEMMA ToolRuns ==
  ASSUME ToolsTypeOK, NEW r \in DOMAIN runs
  PROVE  LET hash == runs[r].hash
             completed == runs[r].completed
             reported == runs[r].reported
         IN /\ Curl(r) => Becomes(r, hash, "hash", completed, reported)
            /\ HashFile(r) => Becomes(r, temp[Name(r)], "move", completed, reported)
            /\ MoveFile(r) => Becomes(r, hash, "check", completed, reported)
            /\ Check(r) => Becomes(r, hash, IF Passes(r) THEN "run" ELSE "ended",
                                   completed, reported)
            /\ DockerRun(r) =>
                 Becomes(r, hash,
                         IF containers[hash] = NoContainer THEN "running" ELSE "report",
                         completed, reported)
            /\ ContainerEnds(r) =>
                 Becomes(r, hash, "report",
                         IF containers[hash] = Container(r) THEN TRUE ELSE completed, reported)
            /\ CallLogger(r) => Becomes(r, hash, "exit", completed, TRUE)
            /\ SafeExit(r) => Becomes(r, hash, "ended", completed, reported)
<1> DEFINE old == runs[r]
           Steps == {"curl", "hash", "move", "check", "run", "running", "report", "exit", "ended"}
<1>1. old \in Run /\ Name(r) \in Names
  BY RunType
<1>2. temp[Name(r)] \in Hashes \cup {None}
  BY <1>1 DEF ToolsTypeOK
<1>3. ASSUME NEW e \in Run, e.url = old.url, e.supplied = old.supplied,
             runs' = [runs EXCEPT ![r] = e]
      PROVE  Becomes(r, e.hash, e.step, e.completed, e.reported)
  BY <1>3, RunUpdated
<1>4. ASSUME NEW step \in Steps, runs' = [runs EXCEPT ![r].step = step]
      PROVE  Becomes(r, old.hash, step, old.completed, old.reported)
  <2> DEFINE e == [old EXCEPT !.step = step]
  <2>1. /\ e \in Run /\ e.url = old.url /\ e.supplied = old.supplied
        /\ e.hash = old.hash /\ e.step = step
        /\ e.completed = old.completed /\ e.reported = old.reported
    <3> HIDE DEF old
    <3> QED
      BY <1>1 DEF Run
  <2>2. runs' = [runs EXCEPT ![r] = e]
    BY <1>4
  <2> HIDE DEF e, old
  <2> QED
    BY <1>3, <2>1, <2>2
<1>5. ASSUME NEW hash \in Hashes \cup {None},
             runs' = [runs EXCEPT ![r] = [@ EXCEPT !.hash = hash, !.step = "move"]]
      PROVE  Becomes(r, hash, "move", old.completed, old.reported)
  <2> DEFINE e == [old EXCEPT !.hash = hash, !.step = "move"]
  <2>1. /\ e \in Run /\ e.url = old.url /\ e.supplied = old.supplied
        /\ e.hash = hash /\ e.step = "move"
        /\ e.completed = old.completed /\ e.reported = old.reported
    <3> HIDE DEF old
    <3> QED
      BY <1>1 DEF Run
  <2>2. runs' = [runs EXCEPT ![r] = e]
    BY <1>5
  <2> HIDE DEF e, old
  <2> QED
    BY <1>3, <2>1, <2>2
<1>6. ASSUME runs' = [runs EXCEPT ![r] = [@ EXCEPT !.step = "report", !.completed = TRUE]]
      PROVE  Becomes(r, old.hash, "report", TRUE, old.reported)
  <2> DEFINE e == [old EXCEPT !.step = "report", !.completed = TRUE]
  <2>1. /\ e \in Run /\ e.url = old.url /\ e.supplied = old.supplied
        /\ e.hash = old.hash /\ e.step = "report"
        /\ e.completed = TRUE /\ e.reported = old.reported
    <3> HIDE DEF old
    <3> QED
      BY <1>1 DEF Run
  <2>2. runs' = [runs EXCEPT ![r] = e]
    BY <1>6
  <2> HIDE DEF e, old
  <2> QED
    BY <1>3, <2>1, <2>2
<1>7. ASSUME runs' = [runs EXCEPT ![r] = [@ EXCEPT !.reported = TRUE, !.step = "exit"]]
      PROVE  Becomes(r, old.hash, "exit", old.completed, TRUE)
  <2> DEFINE e == [old EXCEPT !.reported = TRUE, !.step = "exit"]
  <2>1. /\ e \in Run /\ e.url = old.url /\ e.supplied = old.supplied
        /\ e.hash = old.hash /\ e.step = "exit"
        /\ e.completed = old.completed /\ e.reported = TRUE
    <3> HIDE DEF old
    <3> QED
      BY <1>1 DEF Run
  <2>2. runs' = [runs EXCEPT ![r] = e]
    BY <1>7
  <2> HIDE DEF e, old
  <2> QED
    BY <1>3, <2>1, <2>2
<1>8. ASSUME Curl(r) PROVE Becomes(r, runs[r].hash, "hash", runs[r].completed, runs[r].reported)
  BY <1>4, <1>8 DEF Curl
<1>9. ASSUME HashFile(r)
      PROVE  Becomes(r, temp[Name(r)], "move", runs[r].completed, runs[r].reported)
  BY <1>2, <1>5, <1>9 DEF HashFile, HashFound
<1>10. ASSUME MoveFile(r)
       PROVE  Becomes(r, runs[r].hash, "check", runs[r].completed, runs[r].reported)
  BY <1>4, <1>10 DEF MoveFile
<1>11. ASSUME Check(r)
       PROVE  Becomes(r, runs[r].hash, IF Passes(r) THEN "run" ELSE "ended",
                      runs[r].completed, runs[r].reported)
  BY <1>4, <1>11 DEF Check
<1>12. ASSUME DockerRun(r)
       PROVE  Becomes(r, runs[r].hash,
                      IF containers[runs[r].hash] = NoContainer THEN "running" ELSE "report",
                      runs[r].completed, runs[r].reported)
  BY <1>4, <1>12 DEF DockerRun, ContainerOf
<1>13. ASSUME ContainerEnds(r)
       PROVE  Becomes(r, runs[r].hash, "report",
                      IF containers[runs[r].hash] = Container(r) THEN TRUE ELSE runs[r].completed,
                      runs[r].reported)
  BY <1>4, <1>6, <1>13 DEF ContainerEnds, ContainerOf
<1>14. ASSUME CallLogger(r)
       PROVE  Becomes(r, runs[r].hash, "exit", runs[r].completed, TRUE)
  BY <1>7, <1>14 DEF CallLogger
<1>15. ASSUME SafeExit(r)
       PROVE  Becomes(r, runs[r].hash, "ended", runs[r].completed, runs[r].reported)
  BY <1>4, <1>15 DEF SafeExit
<1> QED
  BY <1>8, <1>9, <1>10, <1>11, <1>12, <1>13, <1>14, <1>15

(* The steps of exotool.sh leave the files, the containers and the runs    *)
(* well typed, and no run is reported before its package was checked.      *)
LEMMA ToolKeepsTypes ==
  ASSUME ToolsTypeOK, RunsOK, NEW r \in DOMAIN runs, ExoTool(r)
  PROVE  ToolsTypeOK' /\ RunsOK' /\ Len(runs') = Len(runs)
<1> DEFINE hash == runs[r].hash
           completed == runs[r].completed
           reported == runs[r].reported
           Kept(h, s, c, p) == /\ Becomes(r, h, s, c, p)
                               /\ s \in {"hash", "move", "check"} => ~c /\ ~p
                               /\ s \in {"run", "running", "report", "exit"} \/ c \/ p
                                    => h = runs[r].supplied
<1>1. /\ r \in 1 .. Len(runs) /\ Name(r) \in Names
      /\ hash \in Hashes \cup {None}
  BY RunType
<1>2. /\ Unchecked(r) => ~completed /\ ~reported
      /\ InContainer(r) \/ completed \/ reported => hash = runs[r].supplied
  BY DEF RunsOK
<1>3. ASSUME NEW h, NEW c,
             NEW s \in {"hash", "move", "check", "run", "running", "report", "exit", "ended"},
             NEW p, Kept(h, s, c, p)
      PROVE  /\ RunsOK' /\ runs' \in Seq(Run) /\ Len(runs') = Len(runs)
  <2>1. /\ DOMAIN runs' = DOMAIN runs
        /\ runs'[r].hash = h /\ runs'[r].step = s
        /\ runs'[r].completed = c /\ runs'[r].reported = p
        /\ runs'[r].supplied = runs[r].supplied
        /\ \A q \in DOMAIN runs \ {r} : runs'[q] = runs[q]
    BY <1>3 DEF Becomes
  <2>2. ASSUME NEW q \in DOMAIN runs
        PROVE  /\ Unchecked(q)' => ~runs'[q].completed /\ ~runs'[q].reported
               /\ InContainer(q)' \/ runs'[q].completed \/ runs'[q].reported
                    => runs'[q].hash = runs'[q].supplied
    <3>1. CASE q = r
      BY <1>3, <2>1, <3>1 DEF Unchecked, InContainer
    <3>2. CASE q # r
      BY <2>1, <3>2 DEF RunsOK, Unchecked, InContainer
    <3> QED
      BY <3>1, <3>2
  <2> QED
    BY <1>3, <2>1, <2>2 DEF RunsOK, Becomes
<1>c. ASSUME NEW v \in [by : 0 .. Len(runs), running : BOOLEAN],
             containers' = [containers EXCEPT ![hash] = v]
      PROVE  containers' \in [Hashes \cup Names -> [by : 0 .. Len(runs), running : BOOLEAN]]
  BY <1>c DEF ToolsTypeOK
<1>d. Container(r) \in [by : 0 .. Len(runs), running : BOOLEAN]
  BY <1>1 DEF Container
<1>4. CASE Curl(r)
  <2>1. Kept(hash, "hash", completed, reported)
    BY <1>2, <1>4, ToolRuns DEF Unchecked, At, Curl
  <2>2. temp' \in [Names -> Hashes \cup {None}] /\ UNCHANGED <<downloads, containers>>
    BY <1>1, <1>4 DEF Curl, ToolsTypeOK
  <2> HIDE DEF Kept
  <2>3. RunsOK' /\ runs' \in Seq(Run) /\ Len(runs') = Len(runs)
    BY <1>3, <2>1
  <2> QED
    BY <2>2, <2>3 DEF ToolsTypeOK
<1>5. CASE HashFile(r)
  <2>1. Kept(temp[Name(r)], "move", completed, reported)
    BY <1>2, <1>5, ToolRuns DEF Unchecked, At, HashFile
  <2>2. UNCHANGED <<temp, downloads, containers>>
    BY <1>5 DEF HashFile, files
  <2> HIDE DEF Kept
  <2>3. RunsOK' /\ runs' \in Seq(Run) /\ Len(runs') = Len(runs)
    BY <1>3, <2>1
  <2> QED
    BY <2>2, <2>3 DEF ToolsTypeOK
<1>6. CASE MoveFile(r)
  <2>1. Kept(hash, "check", completed, reported)
    BY <1>2, <1>6, ToolRuns DEF Unchecked, At, MoveFile
  <2>2. /\ temp' \in [Names -> Hashes \cup {None}]
        /\ downloads' \in [Hashes \cup {None} -> [Names -> Hashes \cup {None}]]
        /\ UNCHANGED containers
    BY <1>1, <1>6 DEF MoveFile, ToolsTypeOK
  <2> HIDE DEF Kept
  <2>3. RunsOK' /\ runs' \in Seq(Run) /\ Len(runs') = Len(runs)
    BY <1>3, <2>1
  <2> QED
    BY <2>2, <2>3 DEF ToolsTypeOK
<1>7. CASE Check(r)
  <2>1. Kept(hash, IF Passes(r) THEN "run" ELSE "ended", completed, reported)
    BY <1>2, <1>7, ToolRuns DEF Unchecked, At, Check, Passes
  <2>2. UNCHANGED <<temp, downloads, containers>>
    BY <1>7 DEF Check, files
  <2> HIDE DEF Kept
  <2>3. RunsOK' /\ runs' \in Seq(Run) /\ Len(runs') = Len(runs)
    BY <1>3, <2>1
  <2> QED
    BY <2>2, <2>3 DEF ToolsTypeOK
<1>8. CASE DockerRun(r)
  <2>1. Kept(hash, IF containers[hash] = NoContainer THEN "running" ELSE "report",
             completed, reported)
    BY <1>2, <1>8, ToolRuns DEF InContainer, At, DockerRun
  <2>2. /\ containers' \in [Hashes \cup Names -> [by : 0 .. Len(runs), running : BOOLEAN]]
        /\ UNCHANGED <<temp, downloads>>
    <3>1. \/ containers' = [containers EXCEPT ![hash] = Container(r)]
          \/ UNCHANGED containers
      BY <1>8 DEF DockerRun, ContainerOf
    <3>2. UNCHANGED <<temp, downloads>>
      BY <1>8 DEF DockerRun, files
    <3> QED
      BY <1>c, <1>d, <3>1, <3>2 DEF ToolsTypeOK
  <2> HIDE DEF Kept
  <2>3. RunsOK' /\ runs' \in Seq(Run) /\ Len(runs') = Len(runs)
    BY <1>3, <2>1
  <2> QED
    BY <2>2, <2>3 DEF ToolsTypeOK
<1>9. CASE ContainerEnds(r)
  <2>1. Kept(hash, "report", IF containers[hash] = Container(r) THEN TRUE ELSE completed, reported)
    BY <1>2, <1>9, ToolRuns DEF InContainer, At, ContainerEnds
  <2>2. /\ containers' \in [Hashes \cup Names -> [by : 0 .. Len(runs), running : BOOLEAN]]
        /\ UNCHANGED <<temp, downloads>>
    <3> DEFINE stopped == [containers[hash] EXCEPT !.running = FALSE]
    <3>1. \/ /\ containers[hash] = Container(r)
             /\ containers' = [containers EXCEPT ![hash] = stopped]
          \/ UNCHANGED containers
      BY <1>9 DEF ContainerEnds, ContainerOf
    <3>2. containers[hash] = Container(r) => stopped \in [by : 0 .. Len(runs), running : BOOLEAN]
      BY <1>d DEF Container
    <3>3. UNCHANGED <<temp, downloads>>
      BY <1>9 DEF ContainerEnds, files
    <3> HIDE DEF stopped
    <3> QED
      BY <1>c, <3>1, <3>2, <3>3 DEF ToolsTypeOK
  <2> HIDE DEF Kept
  <2>3. RunsOK' /\ runs' \in Seq(Run) /\ Len(runs') = Len(runs)
    BY <1>3, <2>1
  <2> QED
    BY <2>2, <2>3 DEF ToolsTypeOK
<1>10. CASE CallLogger(r)
  <2>1. Kept(hash, "exit", completed, TRUE)
    BY <1>2, <1>10, ToolRuns DEF InContainer, At, CallLogger
  <2>2. UNCHANGED <<temp, downloads, containers>>
    BY <1>10 DEF CallLogger, files
  <2> HIDE DEF Kept
  <2>3. RunsOK' /\ runs' \in Seq(Run) /\ Len(runs') = Len(runs)
    BY <1>3, <2>1
  <2> QED
    BY <2>2, <2>3 DEF ToolsTypeOK
<1>11. CASE SafeExit(r)
  <2>1. Kept(hash, "ended", completed, reported)
    BY <1>2, <1>11, ToolRuns DEF InContainer, At, SafeExit
  <2>2. /\ containers' \in [Hashes \cup Names -> [by : 0 .. Len(runs), running : BOOLEAN]]
        /\ UNCHANGED <<temp, downloads>>
    <3> DEFINE left == IF containers[hash].running THEN NoContainer ELSE containers[hash]
    <3>1. containers' = [containers EXCEPT ![hash] = left] /\ UNCHANGED <<temp, downloads>>
      BY <1>11 DEF SafeExit, ContainerOf, files
    <3>2. hash \in Hashes
      BY <1>2, <1>11, RunType DEF InContainer, At, SafeExit
    <3>3. NoContainer \in [by : 0 .. Len(runs), running : BOOLEAN]
      BY <1>1 DEF NoContainer
    <3>4. left \in [by : 0 .. Len(runs), running : BOOLEAN]
      BY <3>2, <3>3 DEF ToolsTypeOK
    <3> HIDE DEF left
    <3> QED
      BY <1>c, <3>1, <3>4
  <2> HIDE DEF Kept
  <2>3. RunsOK' /\ runs' \in Seq(Run) /\ Len(runs') = Len(runs)
    BY <1>3, <2>1
  <2> QED
    BY <2>2, <2>3 DEF ToolsTypeOK
<1> QED
  BY <1>4, <1>5, <1>6, <1>7, <1>8, <1>9, <1>10, <1>11 DEF ExoTool

(* The counts of the blocks are sums of natural numbers.                   *)
LEMMA CountsType ==
  ASSUME NEW f \in [1 .. MaxBlocks -> Nat]
  PROVE  /\ SumFunction(f) \in Nat
         /\ \A b \in 1 .. MaxBlocks : f[b] <= SumFunction(f)
         /\ \A b \in 1 .. MaxBlocks :
              SumFunction([f EXCEPT ![b] = @ + 1]) = SumFunction(f) + 1
<1>1. IsFiniteSet(1 .. MaxBlocks)
  BY FS_Interval, ExoSysdAssumption
<1>2. SumFunction(f) \in Nat /\ \A b \in 1 .. MaxBlocks : f[b] <= SumFunction(f)
  BY <1>1, SumNat
<1>3. ASSUME NEW b \in 1 .. MaxBlocks
      PROVE  SumFunction([f EXCEPT ![b] = @ + 1]) = SumFunction(f) + 1
  <2> DEFINE g == [f EXCEPT ![b] = @ + 1]
  <2>1. /\ f \in [1 .. MaxBlocks -> Int] /\ g \in [1 .. MaxBlocks -> Int]
        /\ g[b] = f[b] + 1 /\ \A c \in (1 .. MaxBlocks) \ {b} : g[c] = f[c]
    OBVIOUS
  <2> HIDE DEF g
  <2>2. SumFunction(g) = SumFunction(f) - f[b] + g[b]
    BY <1>1, <2>1, SumOneChanged
  <2>3. SumFunction(g) = SumFunction(f) + 1
    BY <1>2, <2>1, <2>2
  <2> QED
    BY <2>3 DEF g
<1> QED
  BY <1>2, <1>3

(* The requests of a block start a run at most, of what they are for.      *)
LEMMA RequestsStart ==
  ASSUME NodeOK, ToolsTypeOK, TurnsOK, StartExoTools
  PROVE  /\ lastBlock \in 1 .. MaxBlocks
         /\ \/ UNCHANGED runs
            \/ \E e \in Events : NewRun(e) \in Run /\ runs' = Append(runs, NewRun(e))
<1>1. lastBlock \in 1 .. Len(blocks) /\ Len(blocks) \in Nat /\ Len(blocks) <= MaxBlocks
  BY DEF NodeOK, TurnsOK, StartExoTools
<1>2. blocks[lastBlock] \in Block
  BY <1>1 DEF NodeOK
<1>3. ASSUME NEW i \in DOMAIN blocks[lastBlock] PROVE blocks[lastBlock][i] \in Events
  <2>1. PICK e \in Events : blocks[lastBlock] = <<e>>
    BY <1>2, <1>3 DEF Block, StartExoTools
  <2> QED
    BY <2>1
<1>4. \A e \in Events : NewRun(e) \in Run
  BY ExoSysdAssumption DEF NewRun, Run
<1>5. \/ UNCHANGED runs
      \/ \E i \in DOMAIN blocks[lastBlock] : runs' = Append(runs, NewRun(blocks[lastBlock][i]))
  BY DEF StartExoTools
<1> QED
  BY <1>1, <1>3, <1>4, <1>5, ExoSysdAssumption

LEMMA TypeInitially == Init => TypeInv
<1>1. SUFFICES ASSUME Init PROVE TypeInv
  OBVIOUS
<1>2. NodeOK
  BY <1>1, Initially DEF IInv
<1>3. SumFunction(turns) = 0 /\ SumFunction(handled) = 0
  <2>1. IsFiniteSet(1 .. MaxBlocks)
    BY FS_Interval, ExoSysdAssumption
  <2>2. SumFunction([b \in 1 .. MaxBlocks |-> 0]) = 0
    BY <2>1, SumZero, Zenon
  <2>3. turns = [b \in 1 .. MaxBlocks |-> 0] /\ handled = turns
    BY <1>1 DEF Init
  <2> QED
    BY <2>2, <2>3, Zenon
<1>4. runs \in Seq(Run) /\ Len(runs) = 0 /\ DOMAIN runs = {}
  BY <1>1 DEF Init
<1>5. TurnsOK /\ RunsOK
  BY <1>1, <1>3, <1>4, ExoSysdAssumption DEF Init, TurnsOK, RunsOK
<1>6. ToolsTypeOK
  BY <1>1, <1>4 DEF Init, ToolsTypeOK, NoContainer
<1> QED
  BY <1>2, <1>5, <1>6 DEF TypeInv

LEMMA TypeStep == TypeInv /\ NodeOK' /\ [Next]_vars => TypeInv'
<1> SUFFICES ASSUME TypeInv, NodeOK', [Next]_vars PROVE TypeInv'
  OBVIOUS
<1>0. /\ NodeOK /\ TurnsOK /\ ToolsTypeOK /\ RunsOK
      /\ SumFunction(turns) \in Nat /\ SumFunction(handled) \in Nat
      /\ restarts \in Nat /\ MaxTurns \in Nat /\ Len(runs) \in Nat
  BY CountsType, ExoSysdAssumption DEF TypeInv, NodeOK, ToolsTypeOK
<1>u. ASSUME UNCHANGED <<runs, files, containers>> PROVE ToolsTypeOK' /\ RunsOK'
  BY <1>0, <1>u DEF ToolsTypeOK, RunsOK, Unchecked, InContainer, files
<1>1. ASSUME NEW b \in 1 .. MaxBlocks, Best(b) PROVE TypeInv'
  <2>1. turns' = [turns EXCEPT ![b] = @ + 1] /\ SumFunction(turns) + restarts < MaxTurns
    BY <1>1 DEF Best
  <2>2. SumFunction(turns') = SumFunction(turns) + 1
    BY <1>0, <2>1, CountsType DEF NodeOK
  <2>3. TurnsOK'
    BY <1>0, <1>1, <2>1, <2>2 DEF TurnsOK, Best, daemon
  <2> QED
    BY <1>1, <1>u, <2>3 DEF TypeInv, Best
<1>2. ASSUME NEW events \in Block, NewBest(events) PROVE TypeInv'
  <2>1. Len(blocks) + 1 \in 1 .. MaxBlocks /\ Best(Len(blocks) + 1)
    BY <1>0, <1>2, ExoSysdAssumption DEF NewBest, NodeOK
  <2> QED
    BY <1>1, <2>1
<1>3. ASSUME NEW b \in DOMAIN blocks, BestAgain(b) PROVE TypeInv'
  <2>1. b \in 1 .. MaxBlocks
    BY <1>0, ExoSysdAssumption DEF NodeOK
  <2> QED
    BY <1>1, <1>3, <2>1 DEF BestAgain
<1>4. CASE GetBlockHash
  <2>1. TurnsOK'
    BY <1>0, <1>4 DEF GetBlockHash, TurnsOK, node
  <2> QED
    BY <1>4, <1>u, <2>1 DEF GetBlockHash, TypeInv
<1>5. CASE StartExoTools
  <2>1. /\ lastBlock \in 1 .. MaxBlocks
        /\ \/ UNCHANGED runs
           \/ \E e \in Events : NewRun(e) \in Run /\ runs' = Append(runs, NewRun(e))
    BY <1>0, <1>5, RequestsStart
  <2>2. /\ handled' = [handled EXCEPT ![lastBlock] = @ + 1] /\ pc' = "sleep"
        /\ UNCHANGED <<turns, restarts, temp, downloads, containers>>
    BY <1>5 DEF StartExoTools, node, files
  <2>3. SumFunction(handled') = SumFunction(handled) + 1
    BY <1>0, <2>1, <2>2, CountsType DEF NodeOK
  <2>4. CASE UNCHANGED runs
    <3>1. TurnsOK'
      BY <1>0, <2>2, <2>3, <2>4 DEF TurnsOK
    <3> QED
      BY <1>u, <2>2, <2>4, <3>1 DEF TypeInv, files
  <2>5. CASE \E e \in Events : NewRun(e) \in Run /\ runs' = Append(runs, NewRun(e))
    <3>1. PICK e \in Events : NewRun(e) \in Run /\ runs' = Append(runs, NewRun(e))
      BY <2>5
    <3> DEFINE new == NewRun(e)
    <3>2. ~new.completed /\ ~new.reported /\ new.step = "curl" /\ new \in Run
      BY <3>1 DEF NewRun
    <3>3. runs' = Append(runs, new)
      BY <3>1
    <3> HIDE DEF new
    <3>4. runs \in Seq(Run)
      BY <1>0 DEF ToolsTypeOK
    <3>5. /\ runs' \in Seq(Run) /\ Len(runs') = Len(runs) + 1
          /\ DOMAIN runs' = 1 .. Len(runs) + 1 /\ DOMAIN runs = 1 .. Len(runs)
          /\ \A r \in 1 .. Len(runs) : runs'[r] = runs[r]
          /\ runs'[Len(runs) + 1] = new
      BY <1>0, <3>2, <3>3, <3>4
    <3>6. TurnsOK'
      BY <1>0, <2>2, <2>3, <3>5 DEF TurnsOK
    <3>7. ToolsTypeOK'
      <4>1. 0 .. Len(runs) \subseteq 0 .. Len(runs')
        BY <1>0, <3>5
      <4>2. containers \in [Hashes \cup Names -> [by : 0 .. Len(runs'), running : BOOLEAN]]
        BY <1>0, <4>1 DEF ToolsTypeOK
      <4> QED
        BY <1>0, <2>2, <3>5, <4>2 DEF ToolsTypeOK
    <3>8. RunsOK'
      <4>1. ASSUME NEW r \in 1 .. Len(runs) + 1
            PROVE  /\ Unchecked(r)' => ~runs'[r].completed /\ ~runs'[r].reported
                   /\ InContainer(r)' \/ runs'[r].completed \/ runs'[r].reported
                        => runs'[r].hash = runs'[r].supplied
        <5>1. CASE r = Len(runs) + 1
          BY <3>2, <3>5, <5>1 DEF InContainer
        <5>2. CASE r # Len(runs) + 1
          <6>1. r \in 1 .. Len(runs)
            BY <1>0, <5>2
          <6> QED
            BY <1>0, <3>5, <6>1 DEF RunsOK, Unchecked, InContainer
        <5> QED
          BY <5>1, <5>2
      <4> QED
        BY <3>5, <4>1 DEF RunsOK
    <3> QED
      BY <3>6, <3>7, <3>8 DEF TypeInv
  <2> QED
    BY <2>1, <2>4, <2>5
<1>6. CASE Sleep \/ LeaveBlock
  <2>1. TurnsOK'
    BY <1>0, <1>6 DEF Sleep, LeaveBlock, TurnsOK, node
  <2> QED
    BY <1>6, <1>u, <2>1 DEF Sleep, LeaveBlock, TypeInv
<1>7. CASE RpcFails
  <2>1. TurnsOK'
    BY <1>0, <1>7 DEF RpcFails, TurnsOK, node
  <2> QED
    BY <1>7, <1>u, <2>1 DEF RpcFails, TypeInv
<1>8. CASE Restart
  <2>1. TurnsOK'
    BY <1>0, <1>8 DEF Restart, TurnsOK, node
  <2> QED
    BY <1>8, <1>u, <2>1 DEF Restart, TypeInv
<1>9. ASSUME NEW r \in DOMAIN runs, ExoTool(r) PROVE TypeInv'
  <2>1. ToolsTypeOK' /\ RunsOK' /\ Len(runs') = Len(runs)
    BY <1>0, <1>9, ToolKeepsTypes
  <2>2. UNCHANGED <<turns, restarts, pc, lastBlock, handled>>
    BY <1>9, ToolsKeep DEF node, daemon
  <2>3. TurnsOK'
    BY <1>0, <2>1, <2>2 DEF TurnsOK
  <2> QED
    BY <2>1, <2>3 DEF TypeInv
<1>10. CASE UNCHANGED vars
  <2>1. TurnsOK'
    BY <1>0, <1>10 DEF TurnsOK, vars, node, daemon
  <2> QED
    BY <1>10, <1>u, <2>1 DEF vars, TypeInv
<1> QED
  BY <1>2, <1>3, <1>4, <1>5, <1>6, <1>7, <1>8, <1>9, <1>10 DEF Next

LEMMA TypeInvCorrect == Spec => [](IInv /\ TypeInv)
<1>1. IInv /\ TypeInv /\ [Next]_vars => (IInv /\ TypeInv)'
  BY StepKeeps, TypeStep DEF IInv
<1> QED
  BY <1>1, Initially, TypeInitially, PTL DEF Spec

(* There is no more than one run for each time a block was gone through,   *)
(* the files are of packages, and nothing is completed or reported whose   *)
(* hash is not the one that was asked for.                                 *)
THEOREM ToolsTypeCorrect == Spec => []TypeOK
<1>1. IInv /\ TypeInv => TypeOK
  <2> SUFFICES ASSUME IInv, TypeInv PROVE TypeOK
    OBVIOUS
  <2>1. SumFunction(turns) \in Nat /\ \A b \in 1 .. MaxBlocks : turns[b] <= SumFunction(turns)
    BY CountsType DEF IInv, NodeOK
  <2>2. turns \in [1 .. MaxBlocks -> 0 .. MaxTurns] /\ restarts \in 0 .. MaxTurns
    <3>1. SumFunction(turns) + restarts <= MaxTurns /\ restarts \in Nat
      BY DEF TypeInv, TurnsOK, NodeOK
    <3>2. \A b \in 1 .. MaxBlocks : turns[b] \in 0 .. MaxTurns
      BY <2>1, <3>1, ExoSysdAssumption DEF IInv, NodeOK
    <3> QED
      BY <2>1, <3>1, <3>2, ExoSysdAssumption DEF IInv, NodeOK
  <2> QED
    BY <2>2 DEF TypeOK, IInv, TypeInv, NodeOK, TurnsOK, ToolsTypeOK, RunsOK
<1> QED
  BY <1>1, TypeInvCorrect, PTL
-----------------------------------------------------------------------------
(* The containers and the files the runs share.                            *)

Shared(r) == \E q \in DOMAIN runs \ {r} : runs[q].supplied = runs[r].supplied

(* Whatever container there is was started by a run that was asked for its *)
(* package.                                                                *)
Started(r) == runs[r].step \in {"running", "report", "exit", "ended"}

StartedBy(r, h) == containers[h].by = r /\ runs[r].supplied = h /\ Started(r)

ContainersOK ==
  \A h \in DOMAIN containers :
    containers[h] # NoContainer => \E q \in DOMAIN runs : StartedBy(q, h)

(* A run has its container while it is running, and after it has seen it   *)
(* complete, unless some other run has the same package.                   *)
Complete(r) ==
  Shared(r) \/ /\ At(r, "running") => containers[runs[r].hash] = Container(r)
               /\ At(r, "report") \/ At(r, "exit") \/ runs[r].reported => runs[r].completed

CompleteOK == \A r \in DOMAIN runs : Complete(r)

(* As long as no two runs download to a file of the same name, a file that *)
(* was hashed is the one that is moved, to the folder of its hash.         *)
FoldersOK == \A h \in DOMAIN downloads, n \in Names : downloads[h][n] \in {None, h}

HashedOK == \A r \in DOMAIN runs : At(r, "move") => temp[Name(r)] = runs[r].hash

FilesOK == FileNameShared \/ (FoldersOK /\ HashedOK)

SharingInv == ContainersOK /\ CompleteOK /\ FilesOK

(* What two runs share they go on sharing.                                 *)
LEMMA SharingStays ==
  ASSUME NEW D, D = DOMAIN runs, D \subseteq DOMAIN runs',
         \A q \in D : runs'[q].url = runs[q].url /\ runs'[q].supplied = runs[q].supplied
  PROVE  /\ \A r \in D : Shared(r) => Shared(r)'
         /\ FileNameShared => FileNameShared'
         /\ \A r \in D : Name(r)' = Name(r)
<1>1. \A r \in D : Name(r)' = Name(r)
  BY DEF Name
<1>2. \A r \in D : Shared(r) => Shared(r)'
  BY DEF Shared
<1>3. FileNameShared => FileNameShared'
  BY <1>1 DEF FileNameShared
<1> QED
  BY <1>1, <1>2, <1>3

(* The container of a package is started by the run of it that goes on, or *)
(* removed, or left to whoever started it.                                 *)
LEMMA ContainersStay ==
  ASSUME ContainersOK, NEW r \in DOMAIN runs,
         NEW hash, NEW step, NEW completed, NEW reported,
         Becomes(r, hash, step, completed, reported),
         Started(r) => Started(r)',
         DOMAIN containers' = DOMAIN containers,
         \A h \in DOMAIN containers :
           \/ containers'[h] = NoContainer
           \/ containers[h] # NoContainer /\ containers'[h].by = containers[h].by
           \/ StartedBy(r, h)'
  PROVE  ContainersOK'
<1>1. /\ DOMAIN runs' = DOMAIN runs
      /\ \A q \in DOMAIN runs : runs'[q].supplied = runs[q].supplied
      /\ \A q \in DOMAIN runs : Started(q) => Started(q)'
  BY DEF Becomes, Started
<1>2. ASSUME NEW h \in DOMAIN containers, containers'[h] # NoContainer
      PROVE  \E q \in DOMAIN runs : StartedBy(q, h)'
  <2>1. CASE containers[h] # NoContainer /\ containers'[h].by = containers[h].by
    <3>1. PICK q \in DOMAIN runs : StartedBy(q, h)
      BY <2>1 DEF ContainersOK
    <3> QED
      BY <1>1, <2>1, <3>1 DEF StartedBy
  <2> QED
    BY <1>2, <2>1
<1> QED
  BY <1>1, <1>2 DEF ContainersOK

(* The runs of other packages keep their containers when one goes on.      *)
LEMMA CompleteStays ==
  ASSUME CompleteOK, NEW r \in DOMAIN runs,
         NEW hash, NEW step, NEW completed, NEW reported,
         Becomes(r, hash, step, completed, reported),
         \A q \in DOMAIN runs \ {r} :
           At(q, "running") => containers'[runs[q].hash] = containers[runs[q].hash] \/ Shared(q),
         \/ Shared(r)
         \/ /\ step = "running" => containers'[hash] = Container(r)
            /\ step \in {"report", "exit"} \/ reported => completed
  PROVE  CompleteOK'
<1>1. /\ DOMAIN runs' = DOMAIN runs
      /\ \A q \in DOMAIN runs \ {r} : runs'[q] = runs[q]
      /\ runs'[r].hash = hash /\ runs'[r].step = step
      /\ runs'[r].completed = completed /\ runs'[r].reported = reported
  BY DEF Becomes
<1>2. \A q \in DOMAIN runs : Shared(q) => Shared(q)'
  BY SharingStays DEF Becomes
<1>3. Complete(r)'
  BY <1>1, <1>2 DEF Complete, At, Container
<1>4. ASSUME NEW q \in DOMAIN runs \ {r} PROVE Complete(q)'
  BY <1>1, <1>2 DEF CompleteOK, Complete, At, Container
<1> QED
  BY <1>1, <1>3, <1>4 DEF CompleteOK

(* A file that was hashed is touched by another run only if that downloads *)
(* to the same name.                                                       *)
LEMMA FilesStay ==
  ASSUME FilesOK, NEW r \in DOMAIN runs,
         NEW hash, NEW step, NEW completed, NEW reported,
         Becomes(r, hash, step, completed, reported),
         \A n \in Names : n # Name(r) => temp'[n] = temp[n],
         step = "move" => temp'[Name(r)] = hash,
         \A q \in DOMAIN runs : Name(q) \in Names,
         FoldersOK /\ HashedOK => FoldersOK'
  PROVE  FilesOK'
<1>1. /\ DOMAIN runs' = DOMAIN runs
      /\ \A q \in DOMAIN runs \ {r} : runs'[q] = runs[q]
      /\ runs'[r].hash = hash /\ runs'[r].step = step
  BY DEF Becomes
<1>2. /\ FileNameShared => FileNameShared'
      /\ \A q \in DOMAIN runs : Name(q)' = Name(q)
  BY SharingStays DEF Becomes
<1>3. CASE FileNameShared
  BY <1>2, <1>3 DEF FilesOK
<1>4. CASE ~FileNameShared
  <2>1. FoldersOK /\ HashedOK
    BY <1>4 DEF FilesOK
  <2>2. \A q \in DOMAIN runs \ {r} : Name(q) # Name(r)
    BY <1>4 DEF FileNameShared
  <2>3. ASSUME NEW q \in DOMAIN runs \ {r}, At(q, "move")'
        PROVE  temp'[Name(q)'] = runs'[q].hash
    <3>1. At(q, "move") /\ temp'[Name(q)] = temp[Name(q)]
      BY <1>1, <2>2, <2>3 DEF At
    <3> QED
      BY <1>1, <1>2, <2>1, <3>1 DEF HashedOK
  <2>4. At(r, "move")' => temp'[Name(r)'] = runs'[r].hash
    BY <1>1, <1>2 DEF At
  <2>5. HashedOK'
    BY <1>1, <2>3, <2>4 DEF HashedOK
  <2> QED
    BY <2>1, <2>5 DEF FilesOK
<1> QED
  BY <1>3, <1>4

(* What each step of exotool.sh does to the files and the containers.      *)
LEMMA ToolKeepsSharing ==
  ASSUME ToolsTypeOK, RunsOK, SharingInv, NEW r \in DOMAIN runs, ExoTool(r)
  PROVE  SharingInv'
<1> DEFINE hash == runs[r].hash
           completed == runs[r].completed
           reported == runs[r].reported
<1>1. /\ ContainersOK /\ CompleteOK /\ FilesOK /\ Complete(r)
      /\ \A q \in DOMAIN runs : Name(q) \in Names
      /\ DOMAIN containers = Hashes \cup Names
      /\ DOMAIN temp = Names
  BY RunType DEF SharingInv, CompleteOK, ToolsTypeOK
<1>2. /\ InContainer(r) => hash = runs[r].supplied /\ hash \in Hashes
      /\ Unchecked(r) => ~completed /\ ~reported
  BY RunType DEF RunsOK
<1>3. ASSUME NEW h, NEW s, NEW c, NEW p, Becomes(r, h, s, c, p),
             UNCHANGED containers, ~Started(r), s \in {"hash", "move", "check", "run", "ended"},
             c = completed, p = reported
      PROVE  ContainersOK' /\ CompleteOK'
  <2>1. ContainersOK'
    BY <1>1, <1>3, ContainersStay
  <2>2. Shared(r) \/ (reported => completed)
    BY <1>1 DEF Complete
  <2>3. CompleteOK'
    BY <1>1, <1>3, <2>2, CompleteStays
  <2> QED
    BY <2>1, <2>3
<1>4. ASSUME NEW h, NEW s, NEW c, NEW p, Becomes(r, h, s, c, p),
             UNCHANGED <<temp, downloads>>, s # "move"
      PROVE  FilesOK'
  <2>1. FoldersOK /\ HashedOK => FoldersOK'
    BY <1>4 DEF FoldersOK
  <2> QED
    BY <1>1, <1>4, <2>1, FilesStay
<1>o. ASSUME InContainer(r), \A h \in DOMAIN containers \ {hash} : containers'[h] = containers[h],
             NEW q \in DOMAIN runs \ {r}, At(q, "running")
      PROVE  containers'[runs[q].hash] = containers[runs[q].hash] \/ Shared(q)
  <2>1. runs[q].hash = runs[q].supplied /\ runs[q].supplied \in Hashes
    BY <1>o, RunType DEF RunsOK, InContainer, At
  <2>2. hash = runs[r].supplied
    BY <1>2, <1>o
  <2>3. runs[q].hash # hash \/ Shared(q)
    BY <2>1, <2>2 DEF Shared
  <2> QED
    BY <1>1, <1>o, <2>1, <2>3
<1>5. CASE Curl(r)
  <2>1. Becomes(r, hash, "hash", completed, reported) /\ ~Started(r)
    BY <1>5, ToolRuns DEF Curl, At, Started
  <2>2. ContainersOK' /\ CompleteOK'
    BY <1>3, <1>5, <2>1 DEF Curl
  <2>3. \A n \in Names : n # Name(r) => temp'[n] = temp[n]
    BY <1>1, <1>5 DEF Curl
  <2>4. FoldersOK /\ HashedOK => FoldersOK'
    BY <1>5 DEF Curl, FoldersOK
  <2>5. FilesOK'
    BY <1>1, <2>1, <2>3, <2>4, FilesStay
  <2> QED
    BY <2>2, <2>5 DEF SharingInv
<1>6. CASE HashFile(r)
  <2>1. Becomes(r, temp[Name(r)], "move", completed, reported) /\ ~Started(r)
    BY <1>6, ToolRuns DEF HashFile, At, Started
  <2>2. UNCHANGED <<temp, downloads, containers>>
    BY <1>6 DEF HashFile, files
  <2>3. ContainersOK' /\ CompleteOK'
    BY <1>3, <2>1, <2>2
  <2>4. FoldersOK /\ HashedOK => FoldersOK'
    BY <2>2 DEF FoldersOK
  <2>5. FilesOK'
    BY <1>1, <2>1, <2>2, <2>4, FilesStay
  <2> QED
    BY <2>3, <2>5 DEF SharingInv
<1>7. CASE MoveFile(r)
  <2>1. Becomes(r, hash, "check", completed, reported) /\ ~Started(r)
    BY <1>7, ToolRuns DEF MoveFile, At, Started
  <2>2. ContainersOK' /\ CompleteOK'
    BY <1>3, <1>7, <2>1 DEF MoveFile
  <2>3. \A n \in Names : n # Name(r) => temp'[n] = temp[n]
    BY <1>1, <1>7 DEF MoveFile
  <2>4. FoldersOK /\ HashedOK => FoldersOK'
    <3>1. HashedOK => temp[Name(r)] = hash
      BY <1>7 DEF MoveFile, HashedOK
    <3>2. \/ downloads' = downloads
          \/ downloads' = [downloads EXCEPT ![hash][Name(r)] = temp[Name(r)]]
      BY <1>7 DEF MoveFile
    <3>3. downloads \in [Hashes \cup {None} -> [Names -> Hashes \cup {None}]]
      BY DEF ToolsTypeOK
    <3> QED
      BY <3>1, <3>2, <3>3 DEF FoldersOK
  <2>5. FilesOK'
    BY <1>1, <2>1, <2>3, <2>4, FilesStay
  <2> QED
    BY <2>2, <2>5 DEF SharingInv
<1>8. CASE Check(r)
  <2>1. Becomes(r, hash, IF Passes(r) THEN "run" ELSE "ended", completed, reported) /\ ~Started(r)
    BY <1>8, ToolRuns DEF Check, At, Started
  <2>2. UNCHANGED <<temp, downloads, containers>>
    BY <1>8 DEF Check, files
  <2>3. ContainersOK' /\ CompleteOK' /\ FilesOK'
    BY <1>3, <1>4, <2>1, <2>2
  <2> QED
    BY <2>3 DEF SharingInv
<1>9. CASE DockerRun(r)
  <2> DEFINE taken == containers[hash] # NoContainer
  <2>1. /\ Becomes(r, hash, IF taken THEN "report" ELSE "running", completed, reported)
        /\ ~Started(r) /\ InContainer(r) /\ At(r, "run")
    BY <1>9, ToolRuns DEF DockerRun, At, Started, InContainer
  <2>2. /\ UNCHANGED <<temp, downloads>>
        /\ ~taken => containers' = [containers EXCEPT ![hash] = Container(r)]
        /\ taken => UNCHANGED containers
    BY <1>9 DEF DockerRun, ContainerOf, files
  <2>3. runs'[r].supplied = hash /\ hash \in DOMAIN containers
    BY <1>1, <1>2, <2>1 DEF Becomes
  <2>4. DOMAIN containers' = DOMAIN containers
    BY <2>2
  <2>5. FilesOK'
    BY <1>4, <2>1, <2>2
  <2>6. CASE taken
    <3>1. ContainersOK'
      BY <1>1, <2>1, <2>2, <2>6, ContainersStay
    <3>2. PICK q \in DOMAIN runs : StartedBy(q, hash)
      BY <1>1, <2>3, <2>6 DEF ContainersOK
    <3>3. Shared(r)
      BY <1>2, <2>1, <3>2 DEF Shared, StartedBy, Started
    <3>4. CompleteOK'
      BY <1>1, <2>1, <2>2, <2>6, <3>3, CompleteStays
    <3> QED
      BY <2>5, <3>1, <3>4 DEF SharingInv
  <2>7. CASE ~taken
    <3>1. /\ containers'[hash] = Container(r)
          /\ \A h \in DOMAIN containers \ {hash} : containers'[h] = containers[h]
      BY <2>2, <2>3, <2>7
    <3>2. Becomes(r, hash, "running", completed, reported)
      BY <2>1, <2>7
    <3>3. containers'[hash].by = r /\ runs'[r].supplied = hash /\ runs'[r].step = "running"
      BY <2>3, <3>1, <3>2 DEF Becomes, Container
    <3>4. ASSUME NEW h \in DOMAIN containers
          PROVE  \/ containers'[h] = NoContainer
                 \/ containers[h] # NoContainer /\ containers'[h].by = containers[h].by
                 \/ StartedBy(r, h)'
      <4>1. CASE h = hash
        <5>1. containers'[h].by = r /\ runs'[r].supplied = h /\ runs'[r].step = "running"
          BY <3>3, <4>1, Zenon
        <5>2. StartedBy(r, h)'
          BY <5>1 DEF StartedBy, Started
        <5> QED
          BY <5>2
      <4>2. CASE h # hash
        BY <3>1, <4>2
      <4> QED
        BY <4>1, <4>2
    <3>5. ContainersOK'
      <4>1. Started(r)'
        BY <3>3 DEF Started
      <4> QED
        BY <1>1, <2>4, <3>2, <3>4, <4>1, ContainersStay
    <3>6. \A q \in DOMAIN runs \ {r} :
            At(q, "running") => containers'[runs[q].hash] = containers[runs[q].hash] \/ Shared(q)
      BY <1>o, <2>1, <3>1
    <3>7. Shared(r) \/ ~reported \/ completed
      BY <1>1 DEF Complete
    <3>8. CompleteOK'
      BY <1>1, <3>1, <3>2, <3>6, <3>7, CompleteStays
    <3> QED
      BY <2>5, <3>5, <3>8 DEF SharingInv
  <2> QED
    BY <2>6, <2>7
<1>10. CASE ContainerEnds(r)
  <2> DEFINE own == containers[hash] = Container(r)
  <2>1. /\ Becomes(r, hash, "report", IF own THEN TRUE ELSE completed, reported)
        /\ InContainer(r) /\ At(r, "running")
    BY <1>10, ToolRuns DEF ContainerEnds, At, InContainer
  <2>2. /\ UNCHANGED <<temp, downloads>>
        /\ own => containers' = [containers EXCEPT ![hash].running = FALSE]
        /\ ~own => UNCHANGED containers
    BY <1>10 DEF ContainerEnds, ContainerOf, files
  <2>3. hash \in DOMAIN containers
    BY <1>1, <1>2, <2>1
  <2>4. /\ DOMAIN containers' = DOMAIN containers
        /\ \A h \in DOMAIN containers \ {hash} : containers'[h] = containers[h]
        /\ own => containers[hash] # NoContainer /\ containers'[hash].by = containers[hash].by
    BY <2>2, <2>3 DEF Container, NoContainer
  <2>5. FilesOK'
    BY <1>4, <2>1, <2>2
  <2>6. Started(r)'
    BY <2>1 DEF Becomes, Started
  <2>7. ASSUME NEW h \in DOMAIN containers
        PROVE  \/ containers'[h] = NoContainer
               \/ containers[h] # NoContainer /\ containers'[h].by = containers[h].by
    BY <2>2, <2>4
  <2>8. ContainersOK'
    BY <1>1, <2>1, <2>4, <2>6, <2>7, ContainersStay
  <2>9. \A q \in DOMAIN runs \ {r} :
          At(q, "running") => containers'[runs[q].hash] = containers[runs[q].hash] \/ Shared(q)
    BY <1>o, <2>1, <2>4
  <2>10. Shared(r) \/ own
    BY <1>1, <2>1 DEF Complete
  <2>11. CompleteOK'
    BY <1>1, <2>1, <2>9, <2>10, CompleteStays
  <2> QED
    BY <2>5, <2>8, <2>11 DEF SharingInv
<1>11. CASE CallLogger(r)
  <2>1. Becomes(r, hash, "exit", completed, TRUE) /\ At(r, "report")
    BY <1>11, ToolRuns DEF CallLogger, At
  <2>2. UNCHANGED <<temp, downloads, containers>>
    BY <1>11 DEF CallLogger, files
  <2>3. Started(r)'
    BY <2>1 DEF Becomes, Started
  <2>4. ContainersOK'
    BY <1>1, <2>1, <2>2, <2>3, ContainersStay
  <2>5. Shared(r) \/ completed
    BY <1>1, <2>1 DEF Complete
  <2>6. CompleteOK'
    BY <1>1, <2>1, <2>2, <2>5, CompleteStays
  <2>7. FilesOK'
    BY <1>4, <2>1, <2>2
  <2> QED
    BY <2>4, <2>6, <2>7 DEF SharingInv
<1>12. CASE SafeExit(r)
  <2>1. Becomes(r, hash, "ended", completed, reported) /\ At(r, "exit") /\ InContainer(r)
    BY <1>12, ToolRuns DEF SafeExit, At, InContainer
  <2>2. /\ UNCHANGED <<temp, downloads>>
        /\ containers' = [containers EXCEPT ![hash] = IF @.running THEN NoContainer ELSE @]
    BY <1>12 DEF SafeExit, ContainerOf, files
  <2>3. hash \in DOMAIN containers
    BY <1>1, <1>2, <2>1
  <2>4. /\ DOMAIN containers' = DOMAIN containers
        /\ \A h \in DOMAIN containers \ {hash} : containers'[h] = containers[h]
        /\ containers'[hash] = NoContainer \/ containers'[hash] = containers[hash]
    BY <2>2, <2>3
  <2>5. Started(r)'
    BY <2>1 DEF Becomes, Started
  <2>6. ContainersOK'
    <3>1. ASSUME NEW h \in DOMAIN containers
          PROVE  \/ containers'[h] = NoContainer
                 \/ containers[h] # NoContainer /\ containers'[h].by = containers[h].by
      BY <2>4
    <3> QED
      BY <1>1, <2>1, <2>4, <2>5, <3>1, ContainersStay
  <2>7. \A q \in DOMAIN runs \ {r} :
          At(q, "running") => containers'[runs[q].hash] = containers[runs[q].hash] \/ Shared(q)
    BY <1>o, <2>1, <2>4
  <2>8. Shared(r) \/ completed
    BY <1>1, <2>1 DEF Complete
  <2>9. CompleteOK'
    BY <1>1, <2>1, <2>7, <2>8, CompleteStays
  <2>10. FilesOK'
    BY <1>4, <2>1, <2>2
  <2> QED
    BY <2>6, <2>9, <2>10 DEF SharingInv
<1> QED
  BY <1>5, <1>6, <1>7, <1>8, <1>9, <1>10, <1>11, <1>12 DEF ExoTool

LEMMA SharingStep == TypeInv /\ SharingInv /\ [Next]_vars => SharingInv'
<1> SUFFICES ASSUME TypeInv, SharingInv, [Next]_vars PROVE SharingInv'
  OBVIOUS
<1>0. /\ NodeOK /\ TurnsOK /\ ToolsTypeOK /\ RunsOK
      /\ ContainersOK /\ CompleteOK /\ FilesOK
  BY DEF TypeInv, SharingInv
<1>1. ASSUME UNCHANGED <<runs, files, containers>> PROVE SharingInv'
  BY <1>0, <1>1 DEF SharingInv, ContainersOK, StartedBy, Started, CompleteOK, Complete, Shared, At,
                    FilesOK, FoldersOK, HashedOK, FileNameShared, Name, files
<1>2. CASE UNCHANGED runs /\ StartExoTools
  BY <1>1, <1>2 DEF StartExoTools
<1>3. ASSUME NEW e \in Events, NewRun(e) \in Run, runs' = Append(runs, NewRun(e)),
             UNCHANGED <<files, containers>>
      PROVE  SharingInv'
  <2> DEFINE new == NewRun(e)
             n == Len(runs) + 1
  <2>1. new \in Run /\ new.step = "curl" /\ ~new.reported /\ runs' = Append(runs, new)
    BY <1>3 DEF NewRun
  <2> HIDE DEF new
  <2>2. runs \in Seq(Run)
    BY <1>0 DEF ToolsTypeOK
  <2>3. /\ DOMAIN runs' = DOMAIN runs \cup {n}
        /\ \A r \in DOMAIN runs : runs'[r] = runs[r]
        /\ runs'[n] = new
    BY <2>1, <2>2
  <2> HIDE DEF n
  <2>4. /\ \A r \in DOMAIN runs : Shared(r) => Shared(r)'
        /\ FileNameShared => FileNameShared'
        /\ \A r \in DOMAIN runs : Name(r)' = Name(r)
    BY <2>3, SharingStays
  <2>5. ContainersOK'
    BY <1>0, <1>3, <2>3 DEF ContainersOK, StartedBy, Started
  <2>6. ASSUME NEW r \in DOMAIN runs' PROVE Complete(r)'
    BY <1>0, <1>3, <2>1, <2>3, <2>4 DEF CompleteOK, Complete, At, Container
  <2>7. FilesOK'
    BY <1>0, <1>3, <2>1, <2>3, <2>4 DEF FilesOK, FoldersOK, HashedOK, At, files
  <2> QED
    BY <2>5, <2>6, <2>7 DEF SharingInv, CompleteOK
<1>4. CASE StartExoTools
  <2>1. \/ UNCHANGED runs
        \/ \E e \in Events : NewRun(e) \in Run /\ runs' = Append(runs, NewRun(e))
    BY <1>0, <1>4, RequestsStart
  <2>2. UNCHANGED <<files, containers>>
    BY <1>4 DEF StartExoTools
  <2> QED
    BY <1>2, <1>3, <1>4, <2>1, <2>2
<1>5. ASSUME NEW r \in DOMAIN runs, ExoTool(r) PROVE SharingInv'
  BY <1>0, <1>5, ToolKeepsSharing
<1>6. \/ UNCHANGED <<runs, files, containers>>
      \/ StartExoTools
      \/ \E r \in DOMAIN runs : ExoTool(r)
  BY DEF Next, NewBest, BestAgain, Best, GetBlockHash, LeaveBlock, Sleep, RpcFails, Restart, vars
<1> QED
  BY <1>1, <1>4, <1>5, <1>6

LEMMA SharingCorrect == Spec => [](TypeInv /\ SharingInv)
<1>1. Init => SharingInv
  BY DEF Init, SharingInv, ContainersOK, CompleteOK, FilesOK, FoldersOK, HashedOK
<1>2. TypeInv /\ SharingInv /\ [Next]_vars => SharingInv'
  BY SharingStep
<1> QED
  BY <1>1, <1>2, TypeInvCorrect, PTL DEF Spec

(* A package is reported only after its container came to its end, unless  *)
(* another run had the same package, whatever the urls answered with and   *)
(* however the runs of exotool.sh overlap.                                 *)
THEOREM ReportsCorrect == Spec => []ReportsAreOfCompleted
<1>1. TypeInv /\ SharingInv => ReportsAreOfCompleted
  BY DEF SharingInv, CompleteOK, Complete, Shared, ReportsAreOfCompleted
<1> QED
  BY <1>1, SharingCorrect, PTL

(* In the folder of a container there is nothing but its package, unless   *)
(* two runs downloaded to a file of the same name.                         *)
THEOREM PackagesCorrect == Spec => []ContainersHaveTheirPackage
<1>1. TypeInv /\ SharingInv => ContainersHaveTheirPackage
  <2> SUFFICES ASSUME TypeInv, SharingInv, NEW r \in DOMAIN runs, At(r, "running"),
                      ~FileNameShared, NEW n \in Names
               PROVE  downloads[runs[r].hash][n] \in {None, runs[r].supplied}
    BY DEF ContainersHaveTheirPackage
  <2>1. ToolsTypeOK /\ RunsOK /\ FoldersOK
    BY DEF TypeInv, SharingInv, FilesOK
  <2>2. runs[r].hash = runs[r].supplied /\ runs[r].hash \in Hashes
    BY <2>1, RunType DEF RunsOK, InContainer, At
  <2>3. runs[r].hash \in DOMAIN downloads
    BY <2>1, <2>2 DEF ToolsTypeOK
  <2> QED
    BY <2>1, <2>2, <2>3 DEF FoldersOK
<1> QED
  BY <1>1, SharingCorrect, PTL
=============================================================================
