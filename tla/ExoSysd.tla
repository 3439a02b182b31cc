------------------------------- MODULE ExoSysd -------------------------------
(***************************************************************************)
(* exosysd and the runs of exotool.sh it starts.  The daemon asks the node *)
(* for its best block, goes through the events of a block it has not just  *)
(* seen, starts exotool.sh for every request among them, and waits for     *)
(* none.  The runs share the folder they download to and the names of      *)
(* docker's containers.                                                    *)
(*                                                                         *)
(* A package is its hash.  A block has one event at most.  A block may be  *)
(* the best one again, when the branch that overtook it is given up.       *)
(***************************************************************************)
EXTENDS Naturals, Sequences, Functions

CONSTANTS
  Hashes,        \* of packages
  Tars,          \* those that are tar files
  Urls,
  NameOf,        \* the file name a url ends with
  Events,        \* the events that tell of requests: their name, url and hash
  Unreadable,    \* what a block holds that the daemon cannot make sense of
  MaxBlocks,     \* bound
  MaxTurns       \* bound: how often there is another best block, or the daemon fails

None == "none"   \* no file; the hash of nothing

ASSUME ExoSysdAssumption ==
  /\ Tars \subseteq Hashes /\ None \notin Hashes
  /\ DOMAIN NameOf = Urls
  /\ \A e \in Events : e.url \in Urls /\ e.hash \in Hashes
  /\ Unreadable \notin {<< >>} \cup {<<e>> : e \in Events}
  /\ {MaxBlocks, MaxTurns} \subseteq Nat

Block == {<< >>, Unreadable} \cup {<<e>> : e \in Events}

Names == {NameOf[u] : u \in Urls}

(* A container: the run that started it, and if it runs still.             *)
Container(r) == [by |-> r, running |-> TRUE]

NoContainer == [by |-> 0, running |-> FALSE]

VARIABLES
  blocks,      \* the events of each block; its hash is its place
  best,        \* the best block, 0 for the genesis block, which has no events
  turns,       \* how often each block got to be the best one
  pc,          \* where the daemon is
  lastBlock,   \* the block it goes or went through
  handled,     \* how often each block's events were gone through
  restarts,
  runs,        \* the runs of exotool.sh
  temp,        \* /tmp/qrucial, by file name
  downloads,   \* static/HASH/audit_files/download, by HASH and file name
  containers   \* docker's containers, by name

node == <<blocks, best, turns>>
daemon == <<pc, lastBlock, handled, restarts>>
files == <<temp, downloads>>
vars == <<node, daemon, runs, files, containers>>

(* "completed": the container the run started came to its end by itself.   *)
Run == [url : Urls, supplied : Hashes, hash : Hashes \cup {None},
        step : {"curl", "hash", "move", "check", "run", "running", "report", "exit", "ended"},
        completed : BOOLEAN, reported : BOOLEAN]

Init ==
  /\ blocks = << >> /\ best = 0 /\ turns = [b \in 1 .. MaxBlocks |-> 0]
  /\ pc = "poll" /\ lastBlock = 0 /\ handled = turns /\ restarts = 0
  /\ runs = << >>
  /\ temp = [n \in Names |-> None]
  /\ downloads = [h \in Hashes \cup {None} |-> [n \in Names |-> None]]
  /\ containers = [c \in Hashes \cup Names |-> NoContainer]
-----------------------------------------------------------------------------
Best(b) ==
  /\ SumFunction(turns) + restarts < MaxTurns
  /\ best' = b /\ turns' = [turns EXCEPT ![b] = @ + 1]
  /\ UNCHANGED <<daemon, runs, files, containers>>

NewBest(events) ==
  /\ Len(blocks) < MaxBlocks
  /\ blocks' = Append(blocks, events)
  /\ Best(Len(blocks) + 1)

BestAgain(b) ==
  /\ b # best
  /\ UNCHANGED blocks
  /\ Best(b)
-----------------------------------------------------------------------------
(* Mistake: it is not asked if the block is the one seen last.             *)
IsNew_Always == best # 0

(* Mistake: a block made before the one seen last is taken for an old one. *)
IsNew_Later == best > lastBlock

IsNew == best # lastBlock

(* chain_getBlockHash; the block seen last is asked for again at once.     *)
GetBlockHash ==
  /\ pc = "poll" /\ IsNew
  /\ lastBlock' = best
  /\ pc' = IF best = 0 THEN "sleep" ELSE "events"
  /\ UNCHANGED <<node, handled, restarts, runs, files, containers>>

(* EXECUTION_REQUEST_NAME                                                  *)
IsRequest(event) == event.name = "ExecutionRequest"

NewRun(event) ==
  [url |-> event.url, supplied |-> event.hash, hash |-> None, step |-> "curl",
   completed |-> FALSE, reported |-> FALSE]

(* The events of that block, whichever is the best one by now.             *)
StartExoTools ==
  /\ pc = "events" /\ blocks[lastBlock] # Unreadable
  /\ \/ \E i \in DOMAIN blocks[lastBlock] :
          /\ IsRequest(blocks[lastBlock][i])
          /\ runs' = Append(runs, NewRun(blocks[lastBlock][i]))
     \/ /\ \A i \in DOMAIN blocks[lastBlock] : ~IsRequest(blocks[lastBlock][i])
        /\ UNCHANGED runs
  /\ handled' = [handled EXCEPT ![lastBlock] = @ + 1]
  /\ pc' = "sleep"
  /\ UNCHANGED <<node, lastBlock, restarts, files, containers>>

(* Metadata of another version, or events that do not decode: the block is *)
(* left, in the first case without a pause, and is the one seen last.      *)
LeaveBlock ==
  /\ pc = "events" /\ blocks[lastBlock] = Unreadable
  /\ pc' \in {"poll", "sleep"}
  /\ UNCHANGED <<node, lastBlock, handled, restarts, runs, files, containers>>

Sleep ==
  /\ pc = "sleep"
  /\ pc' = "poll"
  /\ UNCHANGED <<node, lastBlock, handled, restarts, runs, files, containers>>

(* A request to the node that fails ends the daemon, and so does an answer *)
(* that is no metadata at all, until it is started again and knows of no   *)
(* block.                                                                  *)
RpcFails ==
  /\ pc \in {"poll", "events"} /\ SumFunction(turns) + restarts < MaxTurns
  /\ restarts' = restarts + 1
  /\ pc' = "ended"
  /\ UNCHANGED <<node, lastBlock, handled, runs, files, containers>>

Restart ==
  /\ pc = "ended"
  /\ pc' = "poll" /\ lastBlock' = 0
  /\ UNCHANGED <<node, handled, restarts, runs, files, containers>>
-----------------------------------------------------------------------------
At(r, step) == runs[r].step = step

Name(r) == NameOf[runs[r].url]

(* curl writes what the url answers with, or leaves what there was.        *)
Curl(r) ==
  /\ At(r, "curl")
  /\ runs' = [runs EXCEPT ![r].step = "hash"]
  /\ \E file \in Hashes \cup {temp[Name(r)]} : temp' = [temp EXCEPT ![Name(r)] = file]
  /\ UNCHANGED <<node, daemon, downloads, containers>>

(* Mistake: the hash is the one that was passed.                           *)
HashFound_Supplied(r) == runs[r].supplied

HashFound(r) == temp[Name(r)]

(* cat | keccak256.                                                        *)
HashFile(r) ==
  /\ At(r, "hash")
  /\ runs' = [runs EXCEPT ![r] = [@ EXCEPT !.hash = HashFound(r), !.step = "move"]]
  /\ UNCHANGED <<node, daemon, files, containers>>

(* mv, of the file that is there by now, if one is.                        *)
MoveFile(r) ==
  LET file == temp[Name(r)] IN
  /\ At(r, "move")
  /\ runs' = [runs EXCEPT ![r].step = "check"]
  /\ temp' = [temp EXCEPT ![Name(r)] = None]
  /\ downloads' = IF file = None THEN downloads
                  ELSE [downloads EXCEPT ![runs[r].hash][Name(r)] = file]
  /\ UNCHANGED <<node, daemon, containers>>

IsTar(r) == downloads[runs[r].hash][Name(r)] \in Tars

(* Mistake: the hash is not compared with the one that was passed.         *)
Passes_Tar(r) == IsTar(r)

Passes(r) == IsTar(r) /\ runs[r].hash = runs[r].supplied

(* The test for a tar file, and check_hash.                                *)
Check(r) ==
  /\ At(r, "check")
  /\ runs' = [runs EXCEPT ![r].step = IF Passes(r) THEN "run" ELSE "ended"]
  /\ UNCHANGED <<node, daemon, files, containers>>

(* Mistake: a container is named after the file.                           *)
ContainerOf_File(r) == Name(r)

ContainerOf(r) == runs[r].hash

(* docker run fails when there is a container of that name, also one that  *)
(* has ended; the script goes on.                                          *)
DockerRun(r) ==
  /\ At(r, "run")
  /\ IF containers[ContainerOf(r)] = NoContainer
     THEN /\ containers' = [containers EXCEPT ![ContainerOf(r)] = Container(r)]
          /\ runs' = [runs EXCEPT ![r].step = "running"]
     ELSE /\ runs' = [runs EXCEPT ![r].step = "report"]
          /\ UNCHANGED containers
  /\ UNCHANGED <<node, daemon, files>>

(* The container ends by itself, or was stopped by another run.            *)
ContainerEnds(r) ==
  /\ At(r, "running")
  /\ IF containers[ContainerOf(r)] = Container(r)
     THEN /\ containers' = [containers EXCEPT ![ContainerOf(r)].running = FALSE]
          /\ runs' = [runs EXCEPT ![r] = [@ EXCEPT !.step = "report", !.completed = TRUE]]
     ELSE /\ runs' = [runs EXCEPT ![r].step = "report"]
          /\ UNCHANGED containers
  /\ UNCHANGED <<node, daemon, files>>

(* call_logger, with result=1 whatever happened.                           *)
CallLogger(r) ==
  /\ At(r, "report")
  /\ runs' = [runs EXCEPT ![r] = [@ EXCEPT !.reported = TRUE, !.step = "exit"]]
  /\ UNCHANGED <<node, daemon, files, containers>>

(* A container of the name is stopped and removed if it is running: one    *)
(* that has ended is left.                                                 *)
SafeExit(r) ==
  /\ At(r, "exit")
  /\ runs' = [runs EXCEPT ![r].step = "ended"]
  /\ containers' = [containers EXCEPT ![ContainerOf(r)] =
                      IF @.running THEN NoContainer ELSE @]
  /\ UNCHANGED <<node, daemon, files>>

ExoTool(r) ==
  \/ Curl(r) \/ HashFile(r) \/ MoveFile(r) \/ Check(r)
  \/ DockerRun(r) \/ ContainerEnds(r) \/ CallLogger(r) \/ SafeExit(r)

Next ==
  \/ \E events \in Block : NewBest(events)
  \/ \E b \in DOMAIN blocks : BestAgain(b)
  \/ GetBlockHash \/ StartExoTools \/ LeaveBlock \/ Sleep \/ RpcFails \/ Restart
  \/ \E r \in DOMAIN runs : ExoTool(r)

(* The node answers, and the daemon, started again if need be, goes on.    *)
Fairness ==
  /\ WF_vars(GetBlockHash) /\ WF_vars(StartExoTools) /\ WF_vars(LeaveBlock)
  /\ WF_vars(Sleep) /\ WF_vars(Restart)

Spec == Init /\ [][Next]_vars

FairSpec == Spec /\ Fairness
-----------------------------------------------------------------------------
TypeOK ==
  /\ blocks \in Seq(Block) /\ Len(blocks) <= MaxBlocks
  /\ best \in 0 .. Len(blocks) /\ lastBlock \in 0 .. Len(blocks)
  /\ turns \in [1 .. MaxBlocks -> 0 .. MaxTurns]
  /\ handled \in [1 .. MaxBlocks -> Nat]
  /\ pc \in {"poll", "events", "sleep", "ended"}
  /\ restarts \in 0 .. MaxTurns
  /\ runs \in Seq(Run) /\ Len(runs) <= SumFunction(handled)
  /\ temp \in [Names -> Hashes \cup {None}]
  /\ downloads \in [Hashes \cup {None} -> [Names -> Hashes \cup {None}]]
  /\ containers \in [Hashes \cup Names -> [by : 0 .. Len(runs), running : BOOLEAN]]
  /\ \A r \in DOMAIN runs :
       runs[r].completed \/ runs[r].reported => runs[r].hash = runs[r].supplied

(* exosysd: although it remembers one block, it goes through the events of *)
(* a block once for each time the block was the best one and each time the *)
(* daemon was started, and not more often.                                 *)
HandledOncePerTurn ==
  \A b \in DOMAIN blocks : handled[b] <= turns[b] + restarts

(* exosysd: the events of a block that stays the best one are gone through *)
(* in the end, however many blocks came and whatever failed or could not   *)
(* be read before, unless it is itself a block that cannot be read.        *)
StableBlockIsHandled ==
  \A b \in 1 .. MaxBlocks :
    (best = b /\ blocks[b] # Unreadable) ~> (best # b \/ handled[b] > 0)

FileNameShared ==
  \E q, r \in DOMAIN runs : q # r /\ Name(q) = Name(r)

(* exotool.sh: in the folder a container works on there is nothing but the *)
(* package it is named after, whatever the urls answered with, unless two  *)
(* runs downloaded to a file of the same name.                             *)
ContainersHaveTheirPackage ==
  \A r \in DOMAIN runs :
    At(r, "running") /\ ~FileNameShared =>
      \A n \in Names : downloads[runs[r].hash][n] \in {None, runs[r].supplied}

(* exotool.sh: a package is reported only after its container came to its  *)
(* end, unless another run had the same package to check: no run stops, or *)
(* is refused for, the container of another package.                       *)
ReportsAreOfCompleted ==
  \A r \in DOMAIN runs :
    runs[r].reported =>
      \/ \E q \in DOMAIN runs \ {r} : runs[q].supplied = runs[r].supplied
      \/ runs[r].completed

(* README.md: an audit request's "Event triggers ExoTool (automated        *)
(* execution started)".                                                    *)
RequestsStartTools ==
  \A b \in 1 .. MaxBlocks :
    (best = b /\ blocks[b] \notin {<< >>, Unreadable})
      ~> (best # b \/ \E r \in DOMAIN runs : runs[r].supplied = blocks[b][1].hash)
=============================================================================
