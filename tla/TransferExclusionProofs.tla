------------------------ MODULE TransferExclusionProofs ------------------------
(***************************************************************************)
(* Proofs, for every number of processes, resources, threads and commands, *)
(* that the lease keeps threads apart: while the transfer proper of a      *)
(* process is under way one thread at a time works on it, so that nothing  *)
(* is provisioned or requested twice and no part of a transfer is repeated.*)
(* The theorems are about deployments in which no provisioner reports its  *)
(* results later, by a command (NoLateProvisioning).                       *)
(***************************************************************************)
EXTENDS TransferProcessManagerProofs

-----------------------------------------------------------------------------
(* States *)

(* The states of the transfer proper are those up to COMPLETED. *)
LEMMA TransferStates ==
  /\ Transferring \cap TransferProcessStates =
       {INITIAL, PROVISIONING, PROVISIONED, REQUESTING, REQUESTED, IN_PROGRESS,
        STREAMING, COMPLETED}
  /\ \A s \in TransferProcessStates : s \in Int
BY DEF Transferring, TransferProcessStates, UNSAVED, INITIAL, PROVISIONING, PROVISIONED,
       REQUESTING, REQUESTED, IN_PROGRESS, STREAMING, COMPLETED, DEPROVISIONING,
       DEPROVISIONED, ENDED, CANCELLED, ERROR

(* transitionError changes the state and its count only. *)
LEMMA ErrorFrame ==
  ASSUME NEW tp \in TransferProcessType
  PROVE  TransitionError(tp).id = tp.id /\ TransitionError(tp).state = ERROR
BY DEF TransitionError, TransferProcessType

(* A transition never leads back into the transfer proper. *)
LEMMA TransitionOver ==
  ASSUME NEW tp \in TransferProcessType, NEW end \in TransferProcessStates,
         tp.state \notin Transferring, end \notin Transferring
  PROVE  Transition(tp, end).state \notin Transferring
BY TransitionFrame

(* The state handleProvisionResult leaves a process in. *)
LEMMA ProvisionResultState ==
  ASSUME NEW tp \in TransferProcessType, NEW done \in SUBSET Resources, NEW fatal \in BOOLEAN
  PROVE  /\ ProvisionResult(tp, done, fatal).id = tp.id
         /\ \/ ProvisionResult(tp, done, fatal).state = ERROR
            \/ ProvisionResult(tp, done, fatal).state = tp.state
            \/ /\ ProvisionResult(tp, done, fatal).state = PROVISIONED
               /\ tp.state <= PROVISIONED
<1> DEFINE updated == AddProvisionedResources(tp, done)
<1>1. updated \in TransferProcessType /\ updated.id = tp.id /\ updated.state = tp.state
  BY DEF TransferProcessType, AddProvisionedResources
<1>2. PROVISIONED \in TransferProcessStates
  BY DEF TransferProcessStates
<1>3. \/ ProvisionResult(tp, done, fatal) = TransitionError(updated)
      \/ ProvisionResult(tp, done, fatal) = Transition(updated, PROVISIONED)
      \/ ProvisionResult(tp, done, fatal) = updated
  BY DEF ProvisionResult
<1> HIDE DEF updated
<1>4. /\ TransitionError(updated).id = tp.id /\ TransitionError(updated).state = ERROR
      /\ Transition(updated, PROVISIONED).id = tp.id
      /\ Transition(updated, PROVISIONED).state =
           IF PROVISIONED < tp.state THEN tp.state ELSE PROVISIONED
  BY <1>1, <1>2, ErrorFrame, TransitionFrame
<1>5. tp.state \in Int /\ PROVISIONED \in Int
  BY <1>2, TransferStates DEF TransferProcessType
<1> QED BY <1>1, <1>3, <1>4, <1>5

(* The result of deprovisioning does not bring a transfer back. *)
LEMMA DeprovisionResultOver ==
  ASSUME NEW tp \in TransferProcessType, tp.state \notin Transferring,
         NEW done \in SUBSET Resources, NEW fatal \in BOOLEAN
  PROVE  /\ DeprovisionResult(tp, done, fatal).id = tp.id
         /\ DeprovisionResult(tp, done, fatal).state \notin Transferring
<1> DEFINE updated == AddDeprovisionedResources(tp, done)
<1>1. updated \in TransferProcessType /\ updated.id = tp.id /\ updated.state = tp.state
  BY DEF TransferProcessType, AddDeprovisionedResources
<1>2. DEPROVISIONED \in TransferProcessStates /\ DEPROVISIONED \notin Transferring
      /\ ERROR \notin Transferring
  BY DEF TransferProcessStates, Transferring, INITIAL, COMPLETED, DEPROVISIONED, ERROR
<1>3. \/ DeprovisionResult(tp, done, fatal) = TransitionError(updated)
      \/ DeprovisionResult(tp, done, fatal) = Transition(updated, DEPROVISIONED)
      \/ DeprovisionResult(tp, done, fatal) = updated
  BY DEF DeprovisionResult
<1> HIDE DEF updated
<1>4. Transition(updated, DEPROVISIONED).state \notin Transferring
  BY <1>1, <1>2, TransitionOver
<1>5. Transition(updated, DEPROVISIONED).id = tp.id
  BY <1>1, <1>2, TransitionFrame
<1> QED BY <1>1, <1>2, <1>3, <1>4, <1>5, ErrorFrame

-----------------------------------------------------------------------------
(* One process *)

(* What every step does to a stored process. *)
NotRepeated(id) ==
  store'[id].state \in Transferring =>
    store[id].state \in {CANCELLED} \cup INITIAL .. store'[id].state

ModeKept(id) ==
  /\ Over(id)' \/ Exclusive(id)'
  /\ Over(id) => Over(id)'
  /\ NotRepeated(id)

Modes == \A id \in DOMAIN store : ModeKept(id)

(* Nothing brings a transfer back that is over. *)
LEMMA OverKept ==
  ASSUME NEW id, Over(id), store'[id].state \notin Transferring,
         \A tp \in batch' : tp.id = id => tp \in batch \/ tp.state \notin Transferring,
         \A t \in tasks' : t.tp.id = id => t \in tasks \/ t.tp.state \notin Transferring
  PROVE  ModeKept(id)
<1>1. Over(id)'
  BY DEF Over
<1> QED BY <1>1 DEF ModeKept, NotRepeated

(* A step that adds nothing about process id. *)
LEMMA Elsewhere ==
  ASSUME Inv, NEW id \in DOMAIN store, Over(id) \/ Exclusive(id), store'[id] = store[id],
         id \in leased => id \in leased', id \in selected => id \in leased' \cup selected',
         \A tp \in batch' : tp.id = id => tp \in batch,
         \A t \in tasks' : t.tp.id = id => t \in tasks
  PROVE  ModeKept(id)
<1>1. CASE Over(id)
  <2>1. store[id].state \notin Transferring
    BY <1>1 DEF Over
  <2> QED BY <1>1, <2>1, OverKept
<1>2. CASE ~Over(id) /\ Exclusive(id)
  <2>1. \A tp \in batch' : tp.id = id => LoopAlone(tp)'
    BY <1>2 DEF Exclusive, LoopAlone
  <2>2. \A t \in tasks' : t.tp.id = id =>
          IF t.thread = SM THEN CommandAlone(t)' ELSE CallbackAlone(t)'
    BY <1>2 DEF Exclusive, CommandAlone, CallbackAlone
  <2>3. Exclusive(id)'
    BY <1>2, <2>1, <2>2 DEF Exclusive
  <2>4. NotRepeated(id)
    <3>1. store[id].state \in Int
      BY TransferStates DEF Inv, StoreInv, Sound, TransferProcessType
    <3> QED BY <3>1 DEF NotRepeated, Transferring, INITIAL
  <2> QED BY <1>2, <2>3, <2>4 DEF ModeKept
<1> QED BY <1>1, <1>2

-----------------------------------------------------------------------------
(* The other parts of the invariant *)

OnePerThread == \A t, u \in tasks : t.thread = u.thread => t = u

(* Commands stay about transfers that are over. *)
LEMMA ReleaseKept ==
  ASSUME Modes, NEW cmd, ReleaseOnly(cmd), cmd.id \in DOMAIN store
  PROVE  ReleaseOnly(cmd)'
BY DEF Modes, ModeKept, ReleaseOnly

(* A step after which queue and drained commands are the same or fewer. *)
LEMMA CommandsKept ==
  ASSUME Inv, ExclusionInv, Modes, queue' = queue, commands' = commands \/ commands' = <<>>
  PROVE  /\ \A i \in 1 .. Len(queue') : ReleaseOnly(queue[i])'
         /\ \A i \in 1 .. Len(commands') : ReleaseOnly(commands[i])'
<1>1. /\ \A i \in 1 .. Len(queue) : ReleaseOnly(queue[i]) /\ queue[i].id \in DOMAIN store
      /\ \A i \in 1 .. Len(commands) : ReleaseOnly(commands[i]) /\ commands[i].id \in DOMAIN store
  BY DEF Inv, CommandInv, CommandOK, ExclusionInv
<1>2. ASSUME NEW i \in 1 .. Len(queue') PROVE ReleaseOnly(queue[i])'
  <2>1. PICK cmd : cmd = queue[i]
    OBVIOUS
  <2>2. ReleaseOnly(cmd)'
    BY <1>1, <1>2, <2>1, ReleaseKept
  <2> QED BY <2>1, <2>2
<1>3. ASSUME NEW i \in 1 .. Len(commands') PROVE ReleaseOnly(commands[i])'
  <2>1. CASE commands' = commands
    <3>1. PICK cmd : cmd = commands[i]
      OBVIOUS
    <3>2. ReleaseOnly(cmd)'
      BY <1>1, <1>3, <2>1, <3>1, ReleaseKept
    <3> QED BY <2>1, <3>1, <3>2
  <2>2. CASE commands' = <<>>
    <3>1. Len(<<>>) = 0
      BY EmptySeq
    <3> QED BY <1>3, <2>2, <3>1
  <2> QED BY <2>1, <2>2
<1> QED BY <1>2, <1>3

(* The parts put together, for a step that creates no process. *)
LEMMA StepExclusion ==
  ASSUME Inv, ExclusionInv, Modes, DOMAIN store' \subseteq DOMAIN store,
         OnePerThread', pc' # "lease" => selected' = {},
         queue' = queue, commands' = commands \/ commands' = <<>>
  PROVE  ExclusionInv'
<1>1. \A id \in DOMAIN store' : Over(id)' \/ Exclusive(id)'
  BY DEF Modes, ModeKept
<1> QED BY <1>1, CommandsKept DEF ExclusionInv, OnePerThread

-----------------------------------------------------------------------------
(* Steps of which every process is elsewhere *)

(* The store and the operations in flight are as before, or fewer. *)
LEMMA AllElsewhere ==
  ASSUME Inv, ExclusionInv, store' = store, leased \subseteq leased',
         selected \subseteq leased' \cup selected', batch' \subseteq batch,
         tasks' \subseteq tasks
  PROVE  Modes /\ OnePerThread'
<1>1. ASSUME NEW id \in DOMAIN store PROVE ModeKept(id)
  <2>1. Over(id) \/ Exclusive(id)
    BY DEF ExclusionInv
  <2> QED BY <2>1, Elsewhere
<1> QED BY <1>1 DEF Modes, OnePerThread, ExclusionInv

(* The parts put together, where the commands changed. *)
LEMMA CommandExclusion ==
  ASSUME Modes, OnePerThread', DOMAIN store' \subseteq DOMAIN store,
         pc' # "lease" => selected' = {},
         \A i \in 1 .. Len(queue') : ReleaseOnly(queue'[i]) /\ queue'[i].id \in DOMAIN store,
         \A i \in 1 .. Len(commands') :
           ReleaseOnly(commands'[i]) /\ commands'[i].id \in DOMAIN store
  PROVE  ExclusionInv'
<1>1. \A id \in DOMAIN store' : Over(id)' \/ Exclusive(id)'
  BY DEF Modes, ModeKept
<1>2. ASSUME NEW i \in 1 .. Len(queue') PROVE ReleaseOnly(queue[i])'
  <2>1. PICK cmd : cmd = queue'[i]
    OBVIOUS
  <2>2. ReleaseOnly(cmd) /\ cmd.id \in DOMAIN store
    BY <1>2, <2>1
  <2>3. ReleaseOnly(cmd)'
    BY <2>2, ReleaseKept
  <2> QED BY <2>1, <2>3
<1>3. ASSUME NEW i \in 1 .. Len(commands') PROVE ReleaseOnly(commands[i])'
  <2>1. PICK cmd : cmd = commands'[i]
    OBVIOUS
  <2>2. ReleaseOnly(cmd) /\ cmd.id \in DOMAIN store
    BY <1>3, <2>1
  <2>3. ReleaseOnly(cmd)'
    BY <2>2, ReleaseKept
  <2> QED BY <2>1, <2>3
<1> QED BY <1>1, <1>2, <1>3 DEF ExclusionInv, OnePerThread

(* The commands of the invariant are about stored processes. *)
LEMMA ReleaseCommands ==
  ASSUME Inv, ExclusionInv
  PROVE  /\ \A i \in 1 .. Len(queue) : ReleaseOnly(queue[i]) /\ queue[i].id \in DOMAIN store
         /\ \A i \in 1 .. Len(commands) :
              ReleaseOnly(commands[i]) /\ commands[i].id \in DOMAIN store
BY DEF Inv, CommandInv, CommandOK, ExclusionInv

(* Looking up whether a request is known. *)
LEMMA LookupExclusive ==
  ASSUME Inv, ExclusionInv, NEW c, NEW req, InitiateRequestLookup(c, req)
  PROVE  ExclusionInv' /\ Modes
<1>1. UNCHANGED <<store, leased, selected, batch, tasks, queue, commands, pc>>
  BY DEF InitiateRequestLookup, storeVars, loopVars
<1>2. Modes /\ OnePerThread'
  BY <1>1, AllElsewhere
<1> QED BY <1>1, <1>2, StepExclusion DEF ExclusionInv

(* Marking the picked Items as leased. *)
LEMMA LeaseExclusive ==
  ASSUME Inv, ExclusionInv, Lease
  PROVE  ExclusionInv' /\ Modes
<1>1. /\ UNCHANGED <<store, batch, tasks, queue, commands>>
      /\ leased' = leased \cup selected /\ selected' = {}
  BY DEF Lease
<1>2. Modes /\ OnePerThread'
  BY <1>1, AllElsewhere
<1> QED BY <1>1, <1>2, StepExclusion

(* A step that changes nothing. *)
LEMMA StutterExclusive ==
  ASSUME Inv, ExclusionInv, UNCHANGED vars
  PROVE  ExclusionInv' /\ Modes
<1>1. UNCHANGED <<store, leased, selected, batch, tasks, queue, commands, pc>>
  BY DEF vars
<1>2. Modes /\ OnePerThread'
  BY <1>1, AllElsewhere
<1> QED BY <1>1, <1>2, StepExclusion DEF ExclusionInv

(* Draining the command queue. *)
LEMMA DequeueExclusive ==
  ASSUME Inv, ExclusionInv, Dequeue
  PROVE  ExclusionInv' /\ Modes
<1>1. PICK n \in 0 .. Len(queue) :
        commands' = SubSeq(queue, 1, n) /\ queue' = SubSeq(queue, n + 1, Len(queue))
  BY DEF Dequeue
<1>2. UNCHANGED <<store, leased, selected, batch, tasks>> /\ selected' = {}
  BY DEF Dequeue, storeVars, ExclusionInv
<1>3. Modes /\ OnePerThread'
  BY <1>2, AllElsewhere
<1>4. queue \in Seq(CommandType) /\ Len(queue) \in Nat
      /\ \A i \in 1 .. Len(queue) : queue[i] \in CommandType
  BY LenProperties DEF Inv, CommandInv
<1>5. Len(commands') = n /\ \A i \in 1 .. n : commands'[i] = queue[i]
  <2>1. n \in Int /\ \A i \in 1 .. n : queue[i] \in CommandType
    BY <1>4
  <2> QED BY <1>1, <2>1, SubSeqProperties
<1>6. Len(queue') = Len(queue) - n /\ \A i \in 1 .. (Len(queue) - n) : queue'[i] = queue[n + i]
  <2>1. /\ n + 1 \in Int /\ Len(queue) \in Int
        /\ \A i \in n + 1 .. Len(queue) : queue[i] \in CommandType
    BY <1>4
  <2>2. /\ Len(queue') = IF n + 1 <= Len(queue) THEN Len(queue) - (n + 1) + 1 ELSE 0
        /\ \A i \in 1 .. (Len(queue) - (n + 1) + 1) : queue'[i] = queue[(n + 1) + i - 1]
    BY <1>1, <2>1, SubSeqProperties
  <2> QED BY <1>4, <2>2
<1>7. ASSUME NEW i \in 1 .. Len(commands')
      PROVE  ReleaseOnly(commands'[i]) /\ commands'[i].id \in DOMAIN store
  <2>1. i \in 1 .. Len(queue) /\ commands'[i] = queue[i]
    BY <1>4, <1>5
  <2> QED BY <2>1, ReleaseCommands
<1>8. ASSUME NEW i \in 1 .. Len(queue')
      PROVE  ReleaseOnly(queue'[i]) /\ queue'[i].id \in DOMAIN store
  <2>1. n + i \in 1 .. Len(queue) /\ queue'[i] = queue[n + i]
    BY <1>4, <1>6
  <2> QED BY <2>1, ReleaseCommands
<1> QED BY <1>2, <1>3, <1>7, <1>8, CommandExclusion

(* Appending a command about a transfer that is over, or about another kind. *)
LEMMA QueueExtended ==
  ASSUME Inv, ExclusionInv, NEW cmd \in CommandType, ReleaseOnly(cmd), cmd.id \in DOMAIN store,
         queue' = Append(queue, cmd)
  PROVE  \A i \in 1 .. Len(queue') : ReleaseOnly(queue'[i]) /\ queue'[i].id \in DOMAIN store
<1>1. queue \in Seq(CommandType)
  BY DEF Inv, CommandInv
<1>2. /\ Len(queue') = Len(queue) + 1 /\ Len(queue) \in Nat
      /\ \A i \in 1 .. Len(queue) : queue'[i] = queue[i]
      /\ queue'[Len(queue) + 1] = cmd
  BY <1>1, AppendProperties, LenProperties
<1>3. ASSUME NEW i \in 1 .. Len(queue')
      PROVE  ReleaseOnly(queue'[i]) /\ queue'[i].id \in DOMAIN store
  <2>1. CASE i \in 1 .. Len(queue)
    BY <1>2, <2>1, ReleaseCommands
  <2>2. CASE i = Len(queue) + 1
    BY <1>2, <2>2
  <2> QED BY <1>2, <2>1, <2>2
<1> QED BY <1>3

(* Dropping the command that was run. *)
LEMMA CommandDropped ==
  ASSUME Inv, ExclusionInv, commands # <<>>, commands' = Tail(commands)
  PROVE  \A i \in 1 .. Len(commands') :
           ReleaseOnly(commands'[i]) /\ commands'[i].id \in DOMAIN store
<1>1. commands \in Seq(CommandType) /\ Len(commands) \in Nat
  BY LenProperties DEF Inv, CommandInv
<1>2. /\ Len(commands') = Len(commands) - 1
      /\ \A i \in 1 .. Len(commands') : commands'[i] = commands[i + 1]
  BY <1>1, HeadTailProperties
<1>3. ASSUME NEW i \in 1 .. Len(commands')
      PROVE  ReleaseOnly(commands'[i]) /\ commands'[i].id \in DOMAIN store
  <2>1. i + 1 \in 1 .. Len(commands) /\ commands'[i] = commands[i + 1]
    BY <1>1, <1>2
  <2> QED BY <2>1, ReleaseCommands
<1> QED BY <1>3

(* The command at the head is one of those of the invariant. *)
LEMMA HeadReleases ==
  ASSUME Inv, ExclusionInv, commands # <<>>
  PROVE  ReleaseOnly(Head(commands)) /\ Head(commands).id \in DOMAIN store
<1>1. commands \in Seq(CommandType)
  BY DEF Inv, CommandInv
<1>2. 1 \in 1 .. Len(commands) /\ Head(commands) = commands[1]
  BY <1>1, EmptySeq, LenProperties
<1> QED BY <1>2, ReleaseCommands

(* A command handler that throws. *)
LEMMA CommandFailsExclusive ==
  ASSUME Inv, ExclusionInv, commands # <<>>, CommandFails(Head(commands))
  PROVE  ExclusionInv' /\ Modes
<1>1. PICK cmd : cmd = Head(commands)
  OBVIOUS
<1>2. /\ pc = "process" /\ UNCHANGED <<store, leased, selected, tasks>>
      /\ batch' \subseteq batch
      /\ \/ queue' = Append(queue, Failed(cmd)) /\ commands' = Tail(commands)
         \/ queue' = queue /\ commands' = Tail(commands)
         \/ queue' = queue /\ commands' = <<>>
  BY <1>1 DEF CommandFails, Running, Enqueue, CommandDone, Aborted, storeVars
<1>3. selected' = {}
  BY <1>2 DEF ExclusionInv
<1>4. Modes /\ OnePerThread'
  BY <1>2, AllElsewhere
<1>5. Failed(cmd) \in CommandType /\ ReleaseOnly(Failed(cmd)) /\ Failed(cmd).id \in DOMAIN store
  <2>1. cmd \in CommandType /\ ReleaseOnly(cmd) /\ cmd.id \in DOMAIN store
    BY <1>1, HeadCommand, HeadReleases
  <2>2. /\ Failed(cmd) \in CommandType /\ Failed(cmd).id = cmd.id
        /\ Failed(cmd).kind = cmd.kind
    BY <2>1 DEF Failed, CommandType
  <2> QED BY <2>1, <2>2 DEF ReleaseOnly
<1>6. \A i \in 1 .. Len(commands') :
        ReleaseOnly(commands'[i]) /\ commands'[i].id \in DOMAIN store
  <2>1. CASE commands' = <<>>
    <3>1. Len(commands') = 0
      BY <2>1, EmptySeq
    <3> QED BY <3>1
  <2> QED BY <1>2, <2>1, CommandDropped
<1>7. \A i \in 1 .. Len(queue') : ReleaseOnly(queue'[i]) /\ queue'[i].id \in DOMAIN store
  BY <1>2, <1>5, QueueExtended, ReleaseCommands
<1> QED BY <1>2, <1>3, <1>4, <1>6, <1>7, CommandExclusion

(* Issuing a command: a provisioner that reports deprovisioned resources was *)
(* asked to deprovision them, so the transfer is over.                       *)
LEMMA IssueExclusive ==
  ASSUME Inv, ExclusionInv, NoLateProvisioning, NEW kind \in CommandKinds,
         NEW id \in Processes, NEW resource \in Resources \cup {Null},
         IssueCommand(kind, id, resource)
  PROVE  ExclusionInv' /\ Modes
<1>1. /\ UNCHANGED <<store, leased, selected, batch, tasks, commands, pc>>
      /\ id \in DOMAIN store /\ Acceptable(NewCommand(kind, id, resource))
      /\ queue' = Append(queue, NewCommand(kind, id, resource))
  BY DEF IssueCommand, Enqueue, storeVars, loopVars
<1>2. Modes /\ OnePerThread'
  BY <1>1, AllElsewhere
<1>3. PICK cmd : cmd = NewCommand(kind, id, resource)
  OBVIOUS
<1>4. cmd \in CommandType /\ cmd.id = id /\ cmd.kind = kind
  BY <1>3, ManagerAssumption DEF NewCommand, CommandType
<1>5. ReleaseOnly(cmd)
  <2>1. cmd.kind # "AddProvisionedResource"
    BY <1>4 DEF NoLateProvisioning
  <2>2. ASSUME cmd.kind = "DeprovisionComplete" PROVE Over(cmd.id)
    <3>1. Find(cmd.id).state \in {DEPROVISIONING, DEPROVISIONED, ENDED}
      BY <1>1, <1>3, <2>2 DEF Acceptable
    <3>2. Find(cmd.id).state \notin Transferring \cup {CANCELLED, ERROR}
      BY <3>1 DEF Transferring, INITIAL, COMPLETED, DEPROVISIONING, DEPROVISIONED, ENDED,
                  CANCELLED, ERROR
    <3>3. ~Exclusive(cmd.id)
      BY <3>2 DEF Exclusive, Find
    <3> QED BY <1>1, <1>4, <3>3 DEF ExclusionInv
  <2> QED BY <2>1, <2>2 DEF ReleaseOnly
<1>6. \A i \in 1 .. Len(queue') : ReleaseOnly(queue'[i]) /\ queue'[i].id \in DOMAIN store
  BY <1>1, <1>3, <1>4, <1>5, QueueExtended
<1>7. \A i \in 1 .. Len(commands') :
        ReleaseOnly(commands'[i]) /\ commands'[i].id \in DOMAIN store
  BY <1>1, ReleaseCommands
<1>8. pc' # "lease" => selected' = {}
  BY <1>1 DEF ExclusionInv
<1> QED BY <1>1, <1>2, <1>6, <1>7, <1>8, CommandExclusion

-----------------------------------------------------------------------------
(* New processes, and processes that are fetched *)

(* Creating a process: no thread holds a copy of it yet. *)
LEMMA CreateExclusive ==
  ASSUME Inv, ExclusionInv, NEW c \in Clients, NEW new \in Processes,
         InitiateRequestCreate(c, new)
  PROVE  ExclusionInv' /\ Modes
<1>1. /\ UNCHANGED <<batch, tasks, queue, commands, pc>>
      /\ c \in DOMAIN creating /\ new \notin DOMAIN store
      /\ Upsert(NewTransferProcess(new, creating[c]))
  BY DEF InitiateRequestCreate, loopVars
<1>2. PICK req \in Requests : creating[c] = req
  BY <1>1 DEF Inv, LoopInv
<1>3. PICK tp : tp = NewTransferProcess(new, req)
  OBVIOUS
<1>4. tp.id = new /\ tp.state = INITIAL
  <2> DEFINE unsaved == [id |-> new, req |-> req, state |-> UNSAVED,
                         stateCount |-> 0, manifest |-> Null,
                         provisioned |-> {}, deprovisioned |-> {}]
  <2>1. unsaved \in TransferProcessType
    BY DEF TransferProcessType, TransferProcessStates
  <2>2. INITIAL \in TransferProcessStates /\ ~(INITIAL < UNSAVED)
    BY DEF TransferProcessStates, INITIAL, UNSAVED
  <2>3. Transition(unsaved, INITIAL).id = new /\ Transition(unsaved, INITIAL).state = INITIAL
    BY <2>1, <2>2, TransitionFrame
  <2> QED BY <1>3, <2>3 DEF NewTransferProcess
<1>5. /\ DOMAIN store' = DOMAIN store \cup {new} /\ store'[new] = tp
      /\ \A id \in DOMAIN store : store'[id] = store[id]
      /\ leased' = leased \ {new} /\ selected' = selected \ {new}
  BY <1>1, <1>2, <1>3, <1>4 DEF Upsert
<1>6. Modes
  <2>1. ASSUME NEW id \in DOMAIN store PROVE ModeKept(id)
    <3>1. Over(id) \/ Exclusive(id)
      BY DEF ExclusionInv
    <3>2. id # new
      BY <1>1
    <3> QED BY <1>1, <1>5, <3>1, <3>2, Elsewhere
  <2> QED BY <2>1 DEF Modes
<1>7. Exclusive(new)'
  <2>1. /\ \A b \in batch : b.id # new
        /\ \A t \in tasks : t.tp.id # new
    BY <1>1 DEF Inv, BatchInv, TaskInv, Held
  <2>2. INITIAL \in Transferring
    BY DEF Transferring, INITIAL, COMPLETED
  <2>3. store'[new].state \in Transferring \cup {CANCELLED, ERROR}
    BY <1>4, <1>5, <2>2
  <2> QED BY <1>1, <2>1, <2>3 DEF Exclusive
<1>8. \A id \in DOMAIN store' : Over(id)' \/ Exclusive(id)'
  BY <1>5, <1>6, <1>7 DEF Modes, ModeKept
<1>9. OnePerThread' /\ (pc' # "lease" => selected' = {})
  BY <1>1, <1>5 DEF OnePerThread, ExclusionInv
<1> QED BY <1>1, <1>6, <1>8, <1>9, CommandsKept DEF ExclusionInv, OnePerThread

(* The states of the processors are neither CANCELLED nor ERROR. *)
LEMMA ProcessorStates ==
  ASSUME phase \in 1 .. CommandPhase, phase # CommandPhase
  PROVE  Processors[phase] \in {INITIAL, PROVISIONING, PROVISIONED, REQUESTING, REQUESTED,
                                IN_PROGRESS, DEPROVISIONING, DEPROVISIONED}
BY DEF Processors, CommandPhase

(* nextForState picks a process that is not leased, so that no callback is *)
(* about to change it, and lets the loop have it.                          *)
LEMMA FetchExclusive ==
  ASSUME Inv, ExclusionInv, NextForState
  PROVE  ExclusionInv' /\ Modes
<1>1. PICK ids \in SUBSET Candidates(Processors[phase]) :
        /\ batch' = {store[id] : id \in ids}
        /\ selected' = ids
        /\ IF ids = {} THEN phase' = NextPhase /\ pc' = "select"
                       ELSE phase' = phase /\ pc' = "lease"
  BY DEF NextForState
<1>2. /\ UNCHANGED <<store, leased, tasks, queue, commands>>
      /\ pc = "select" /\ phase # CommandPhase /\ \A t \in tasks : t.thread # SM
  BY DEF NextForState, Idle
<1>3. batch = {} /\ selected = {}
  BY <1>2, EmptyBatch DEF ExclusionInv
<1>4. ASSUME NEW id \in DOMAIN store PROVE ModeKept(id)
  <2>1. Over(id) \/ Exclusive(id)
    BY DEF ExclusionInv
  <2>2. \A i \in DOMAIN store : store[i].id = i
    BY DEF Inv, StoreInv
  <2>3. CASE id \notin ids
    <3>1. \A tp \in batch' : tp.id # id
      BY <1>1, <2>2, <2>3 DEF Candidates
    <3> QED BY <1>2, <1>3, <2>1, <3>1, Elsewhere
  <2>4. CASE id \in ids /\ Over(id)
    <3>1. \A tp \in batch' : tp.id = id => tp = store[id]
      BY <1>1, <2>2 DEF Candidates
    <3>2. store[id].state \notin Transferring
      BY <2>4 DEF Over
    <3> QED BY <1>2, <2>4, <3>1, <3>2, OverKept
  <2>5. CASE id \in ids /\ ~Over(id) /\ Exclusive(id)
    <3>1. /\ store[id].state = Processors[phase] /\ id \notin leased
          /\ phase \in 1 .. CommandPhase
      BY <1>1, <2>5 DEF Candidates, Inv, LoopInv
    <3>2. store[id].state # CANCELLED
      BY <1>2, <3>1, ProcessorStates
         DEF INITIAL, PROVISIONING, PROVISIONED, REQUESTING, REQUESTED, IN_PROGRESS,
             DEPROVISIONING, DEPROVISIONED, CANCELLED
    <3>3. \A t \in tasks : t.tp.id # id
      BY <1>2, <2>5, <3>1, <3>2 DEF Exclusive, CallbackAlone
    <3>4. \A tp \in batch' : tp.id = id => LoopAlone(tp)'
      BY <1>1, <1>2, <2>2, <2>5, <3>3 DEF LoopAlone, Candidates
    <3>5. Exclusive(id)'
      BY <1>2, <2>5, <3>3, <3>4 DEF Exclusive
    <3>6. NotRepeated(id)
      <4>1. store[id].state \in Int
        BY TransferStates DEF Inv, StoreInv, Sound, TransferProcessType
      <4> QED BY <1>2, <4>1 DEF NotRepeated, Transferring, INITIAL
    <3> QED BY <2>5, <3>5, <3>6 DEF ModeKept
  <2> QED BY <2>1, <2>3, <2>4, <2>5
<1>5. Modes
  BY <1>4 DEF Modes
<1>6. OnePerThread' /\ (pc' # "lease" => selected' = {})
  BY <1>1, <1>2 DEF OnePerThread, ExclusionInv
<1> QED BY <1>2, <1>5, <1>6, StepExclusion

-----------------------------------------------------------------------------
(* The processors *)

(* What saving a stored process does. *)
LEMMA Saved ==
  ASSUME NEW new, new.id \in DOMAIN store, Upsert(new)
  PROVE  /\ DOMAIN store' = DOMAIN store /\ store'[new.id] = new
         /\ \A id \in DOMAIN store : id # new.id => store'[id] = store[id]
         /\ leased' = leased \ {new.id} /\ selected' = selected \ {new.id}
BY DEF Upsert

(* Leaving an entity of the batch, or the whole iteration. *)
LEMMA LeavesEntity ==
  ASSUME Inv, ExclusionInv, NEW tp \in batch, pc = "process", Processed(tp) \/ Aborted
  PROVE  /\ batch' \subseteq batch \ {tp} /\ queue' = queue
         /\ commands' = commands \/ commands' = <<>>
         /\ pc' # "lease" /\ selected = {}
         /\ \A b \in batch' : b.id # tp.id
<1>1. /\ batch' \subseteq batch \ {tp} /\ queue' = queue
      /\ commands' = commands \/ commands' = <<>>
      /\ pc' # "lease"
  BY DEF Processed, Aborted
<1> QED BY <1>1 DEF Inv, BatchInv, ExclusionInv

(* Where the loop has a process of a transfer that is not over, it has the *)
(* stored process and nobody else has it.                                  *)
LEMMA LoopHasIt ==
  ASSUME Inv, ExclusionInv, NEW tp \in batch, ~Over(tp.id)
  PROVE  LoopAlone(tp) /\ tp.state \in Transferring
<1>1. tp.id \in DOMAIN store /\ tp.state = Processors[phase] /\ phase # CommandPhase
      /\ phase \in 1 .. CommandPhase
  BY DEF Inv, BatchInv, LoopInv, Held
<1>2. LoopAlone(tp) /\ store[tp.id].state \in Transferring \cup {CANCELLED, ERROR}
  BY <1>1 DEF ExclusionInv, Exclusive
<1>3. tp.state \notin {CANCELLED, ERROR}
  BY <1>1, ProcessorStates
     DEF INITIAL, PROVISIONING, PROVISIONED, REQUESTING, REQUESTED, IN_PROGRESS,
         DEPROVISIONING, DEPROVISIONED, CANCELLED, ERROR
<1> QED BY <1>2, <1>3 DEF LoopAlone

(* A processor saves what became of the fetched copy. *)
LEMMA SaveExclusive ==
  ASSUME Inv, ExclusionInv, NEW tp \in batch, pc = "process",
         NEW new, new.id = tp.id, Upsert(new), Processed(tp) \/ Aborted, UNCHANGED tasks,
         tp.state \notin Transferring => new.state \notin Transferring,
         tp.state \in Transferring =>
           new.state = ERROR \/ (new.state \in Transferring /\ tp.state <= new.state)
  PROVE  ExclusionInv' /\ Modes
<1>1. tp.id \in DOMAIN store /\ tp.state \in Int
  BY TransferStates DEF Inv, BatchInv, Held, Sound, TransferProcessType
<1>2. /\ DOMAIN store' = DOMAIN store /\ store'[tp.id] = new
      /\ \A id \in DOMAIN store : id # tp.id => store'[id] = store[id]
      /\ leased' = leased \ {tp.id} /\ selected' = selected \ {tp.id}
  BY <1>1, Saved
<1>3. /\ batch' \subseteq batch \ {tp} /\ queue' = queue
      /\ commands' = commands \/ commands' = <<>>
      /\ pc' # "lease" /\ selected = {}
      /\ \A b \in batch' : b.id # tp.id
  BY LeavesEntity
<1>4. ASSUME NEW id \in DOMAIN store PROVE ModeKept(id)
  <2>1. Over(id) \/ Exclusive(id)
    BY DEF ExclusionInv
  <2>2. CASE id # tp.id
    BY <1>2, <1>3, <2>1, <2>2, Elsewhere
  <2>3. CASE id = tp.id /\ Over(id)
    <3>1. tp.state \notin Transferring
      BY <2>3 DEF Over
    <3> QED BY <1>2, <1>3, <2>3, <3>1, OverKept
  <2>4. CASE id = tp.id /\ ~Over(id)
    <3>1. LoopAlone(tp) /\ tp.state \in Transferring
      BY <2>4, LoopHasIt
    <3>2. Exclusive(id)'
      BY <1>2, <1>3, <2>4, <3>1 DEF LoopAlone, Exclusive
    <3>3. NotRepeated(id)
      <4>1. ERROR \notin Transferring
        BY DEF ERROR, Transferring, INITIAL
      <4>2. ASSUME new.state \in Transferring
            PROVE  tp.state \in INITIAL .. new.state
        BY <1>1, <3>1, <4>1, <4>2 DEF Transferring, INITIAL, COMPLETED
      <4> QED BY <1>2, <2>4, <3>1, <4>2 DEF NotRepeated, LoopAlone
    <3> QED BY <2>4, <3>2, <3>3 DEF ModeKept
  <2> QED BY <2>1, <2>2, <2>3, <2>4
<1>5. Modes
  BY <1>4 DEF Modes
<1>6. OnePerThread' /\ selected' = {}
  BY <1>2, <1>3 DEF OnePerThread, ExclusionInv
<1> QED BY <1>2, <1>3, <1>5, <1>6, StepExclusion

(* A processor starts an operation on the fetched copy. *)
LEMMA StartExclusive ==
  ASSUME Inv, ExclusionInv, NEW tp \in batch, pc = "process",
         NEW kind \in Operations, Start(kind, tp), tp.state = OperationState(kind),
         Processed(tp), UNCHANGED storeVars
  PROVE  ExclusionInv' /\ Modes
<1>1. tp.id \in DOMAIN store
  BY DEF Inv, BatchInv, Held
<1>2. UNCHANGED <<store, leased, selected>>
  BY DEF storeVars
<1>3. /\ batch' \subseteq batch \ {tp} /\ queue' = queue
      /\ commands' = commands \/ commands' = <<>>
      /\ pc' # "lease" /\ selected = {}
      /\ \A b \in batch' : b.id # tp.id
  BY LeavesEntity
<1>4. PICK c \in Callbacks :
        /\ \A t \in tasks : t.thread # c
        /\ tasks' = tasks \cup {[thread |-> c, kind |-> kind, tp |-> tp]}
  BY DEF Start, Idle
<1>5. PICK n : n = [thread |-> c, kind |-> kind, tp |-> tp]
  OBVIOUS
<1>6. n.thread = c /\ n.kind = kind /\ n.tp = tp /\ tasks' = tasks \cup {n}
  BY <1>4, <1>5
<1>7. ASSUME NEW id \in DOMAIN store PROVE ModeKept(id)
  <2>1. Over(id) \/ Exclusive(id)
    BY DEF ExclusionInv
  <2>2. CASE id # tp.id
    BY <1>2, <1>3, <1>6, <2>1, <2>2, Elsewhere
  <2>3. CASE id = tp.id /\ Over(id)
    <3>1. tp.state \notin Transferring /\ store[id].state \notin Transferring
      BY <2>3 DEF Over
    <3> QED BY <1>2, <1>3, <1>6, <2>3, <3>1, OverKept
  <2>4. CASE id = tp.id /\ ~Over(id)
    <3>1. LoopAlone(tp) /\ tp.state \in Transferring
      BY <2>4, LoopHasIt
    <3>2. /\ tp.state \in {PROVISIONING, REQUESTING}
          /\ tp.state = REQUESTING => kind = "send"
          /\ tp.state \in Int
      BY <3>1 DEF OperationState, Operations, Transferring, INITIAL, COMPLETED, PROVISIONING,
                  REQUESTING, DEPROVISIONING
    <3>3. /\ store'[id] = tp /\ id \in leased'
          /\ \A u \in tasks' : u.tp.id = id => u = n
      BY <1>2, <1>3, <1>6, <2>4, <3>1 DEF LoopAlone
    <3>4. CallbackAlone(n)'
      BY <1>6, <2>4, <3>2, <3>3 DEF CallbackAlone
    <3>5. n.thread # SM
      BY <1>6, ManagerAssumption
    <3>6. Exclusive(id)'
      BY <1>3, <2>4, <3>1, <3>3, <3>4, <3>5 DEF Exclusive
    <3>7. NotRepeated(id)
      BY <1>2, <2>4, <3>1, <3>2, <3>3 DEF NotRepeated, LoopAlone, Transferring, INITIAL
    <3> QED BY <2>4, <3>6, <3>7 DEF ModeKept
  <2> QED BY <2>1, <2>2, <2>3, <2>4
<1>8. Modes
  BY <1>7 DEF Modes
<1>9. OnePerThread' /\ selected' = {}
  BY <1>2, <1>3, <1>4, <1>6 DEF OnePerThread, ExclusionInv
<1> QED BY <1>2, <1>3, <1>8, <1>9, StepExclusion

(* A processor leaves the entity alone, and leased. *)
LEMMA IgnoredExclusive ==
  ASSUME Inv, ExclusionInv, NEW tp \in batch, pc = "process",
         Processed(tp), UNCHANGED <<storeVars, tasks>>
  PROVE  ExclusionInv' /\ Modes
<1>1. UNCHANGED <<store, leased, selected, tasks>>
  BY DEF storeVars
<1>2. /\ batch' \subseteq batch \ {tp} /\ queue' = queue
      /\ commands' = commands \/ commands' = <<>>
      /\ pc' # "lease" /\ selected = {}
  BY LeavesEntity
<1>3. Modes /\ OnePerThread'
  BY <1>1, <1>2, AllElsewhere
<1> QED BY <1>1, <1>2, <1>3, StepExclusion

(* A processor saves the fetched copy after a transition of the transfer proper. *)
LEMMA AdvanceExclusive ==
  ASSUME Inv, ExclusionInv, NEW tp \in batch, pc = "process",
         tp \in TransferProcessType, tp.state \in Transferring,
         NEW end \in TransferProcessStates, end \in Transferring,
         Upsert(Transition(tp, end)), Processed(tp), UNCHANGED tasks
  PROVE  ExclusionInv' /\ Modes
<1>1. PICK new : new = Transition(tp, end)
  OBVIOUS
<1>2. new.id = tp.id /\ new.state = IF end < tp.state THEN tp.state ELSE end
  BY <1>1, TransitionFrame
<1>3. new.state \in Transferring /\ tp.state <= new.state
  <2>1. tp.state \in Int /\ end \in Int
    BY TransferStates DEF TransferProcessType
  <2> QED BY <1>2, <2>1
<1> QED BY <1>1, <1>2, <1>3, SaveExclusive

(* A processor reports a fatal error. *)
LEMMA FailExclusive ==
  ASSUME Inv, ExclusionInv, NEW tp \in batch, pc = "process", tp \in TransferProcessType,
         Upsert(TransitionError(tp)), Processed(tp) \/ Aborted, UNCHANGED tasks
  PROVE  ExclusionInv' /\ Modes
<1>1. PICK new : new = TransitionError(tp)
  OBVIOUS
<1>2. new.id = tp.id /\ new.state = ERROR
  BY <1>1, ErrorFrame
<1>3. ERROR \notin Transferring
  BY DEF ERROR, Transferring, INITIAL
<1> QED BY <1>1, <1>2, <1>3, SaveExclusive

(* Every processor keeps threads apart. *)
LEMMA ProcessExclusive ==
  ASSUME Inv, ExclusionInv, NEW tp \in batch, Process(tp)
  PROVE  ExclusionInv' /\ Modes
<1> USE DEF Processing
<1>0. tp \in TransferProcessType /\ tp.state = Processors[phase] /\ tp.state \in Int
  BY TransferStates DEF Inv, BatchInv, Held, Sound, TransferProcessType
<1>s. /\ {INITIAL, PROVISIONING, PROVISIONED, REQUESTING, REQUESTED, IN_PROGRESS, STREAMING,
          COMPLETED} \subseteq Transferring \cap TransferProcessStates
      /\ InProgressOrStreaming(tp) \in {IN_PROGRESS, STREAMING}
  BY TransferStates DEF InProgressOrStreaming
<1>1. CASE ProcessInitial(tp)
  <2>1. CASE Upsert(TransitionError(tp))
    BY <1>0, <1>1, <2>1, FailExclusive DEF ProcessInitial
  <2>2. ASSUME NEW manifest \in SUBSET Definitions,
               Upsert(TransitionProvisioning(tp, manifest))
        PROVE  ExclusionInv' /\ Modes
    <3>1. PICK new : new = TransitionProvisioning(tp, manifest)
      OBVIOUS
    <3>2. tp.state = INITIAL /\ ~(PROVISIONING < INITIAL) /\ INITIAL <= PROVISIONING
      BY <1>0, <1>1 DEF ProcessInitial, INITIAL, PROVISIONING
    <3>3. new.id = tp.id /\ new.state = PROVISIONING
      <4> DEFINE moved == Transition(tp, PROVISIONING)
      <4>1. moved \in TransferProcessType /\ moved.id = tp.id /\ moved.state = PROVISIONING
        BY <1>0, <1>s, <3>2, TransitionFrame
      <4>2. new = [moved EXCEPT !.manifest = manifest]
        BY <3>1 DEF TransitionProvisioning
      <4> HIDE DEF moved
      <4> QED BY <4>1, <4>2 DEF TransferProcessType
    <3> QED BY <1>1, <1>s, <2>2, <3>1, <3>2, <3>3, SaveExclusive DEF ProcessInitial
  <2> QED BY <1>1, <2>1, <2>2 DEF ProcessInitial
<1>2. CASE ProcessInitialAssetNotFound(tp)
  BY <1>0, <1>2, FailExclusive DEF ProcessInitialAssetNotFound
<1>3. CASE ProcessProvisioning(tp)
  BY <1>0, <1>3, StartExclusive DEF ProcessProvisioning, Operations, OperationState
<1>4. CASE ProcessProvisionedConsumer(tp)
  BY <1>0, <1>4, <1>s, AdvanceExclusive DEF ProcessProvisionedConsumer
<1>5. CASE ProcessProviderRequest(tp)
  <2>1. pc = "process" /\ Processed(tp) /\ UNCHANGED tasks /\ tp.state = PROVISIONED
    BY <1>0, <1>5 DEF ProcessProviderRequest
  <2>2. CASE Upsert(TransitionInProgressOrStreaming(tp))
    BY <1>0, <1>s, <2>1, <2>2, AdvanceExclusive DEF TransitionInProgressOrStreaming
  <2>3. CASE Upsert(Transition(tp, PROVISIONED))
    BY <1>0, <1>s, <2>1, <2>3, AdvanceExclusive
  <2>4. CASE Upsert(TransitionError(tp))
    BY <1>0, <2>1, <2>4, FailExclusive
  <2> QED BY <1>5, <2>2, <2>3, <2>4 DEF ProcessProviderRequest
<1>6. CASE ProcessRequestingDelayed(tp)
  BY <1>0, <1>6, <1>s, SaveExclusive DEF ProcessRequestingDelayed
<1>7. CASE SendConsumerRequest(tp)
  BY <1>0, <1>7, StartExclusive DEF SendConsumerRequest, Operations, OperationState
<1>8. CASE ProcessRequested(tp)
  <2>1. CASE Upsert(TransitionInProgressOrStreaming(tp))
    BY <1>0, <1>8, <1>s, <2>1, AdvanceExclusive
    DEF ProcessRequested, TransitionInProgressOrStreaming
  <2>2. CASE UNCHANGED storeVars
    BY <1>8, <2>2, IgnoredExclusive DEF ProcessRequested
  <2> QED BY <1>8, <2>1, <2>2 DEF ProcessRequested
<1>9. CASE ProcessInProgressIgnored(tp)
  BY <1>9, IgnoredExclusive DEF ProcessInProgressIgnored
<1>10. CASE ProcessInProgressCompleted(tp)
  BY <1>0, <1>10, <1>s, AdvanceExclusive DEF ProcessInProgressCompleted
<1>11. CASE ProcessInProgressNotCompleted(tp)
  BY <1>0, <1>11, <1>s, SaveExclusive DEF ProcessInProgressNotCompleted
<1>12. CASE ProcessDeprovisioning(tp)
  BY <1>0, <1>12, StartExclusive DEF ProcessDeprovisioning, Operations, OperationState
<1>13. CASE ProcessDeprovisioned(tp)
  <2>1. PICK new : new = Transition(tp, ENDED)
    OBVIOUS
  <2>2. /\ DEPROVISIONED \notin Transferring /\ ENDED \notin Transferring
        /\ ENDED \in TransferProcessStates
    BY DEF Transferring, COMPLETED, DEPROVISIONED, ENDED, TransferProcessStates
  <2>3. tp.state = DEPROVISIONED
    BY <1>0, <1>13 DEF ProcessDeprovisioned
  <2>4. new.id = tp.id /\ new.state \notin Transferring
    BY <1>0, <2>1, <2>2, <2>3, TransitionFrame, TransitionOver
  <2> QED BY <1>13, <2>1, <2>2, <2>3, <2>4, SaveExclusive DEF ProcessDeprovisioned
<1> QED BY <1>1, <1>2, <1>3, <1>4, <1>5, <1>6, <1>7, <1>8, <1>9, <1>10, <1>11,
           <1>12, <1>13 DEF Process

-----------------------------------------------------------------------------
(* Callbacks *)

(* A task of a transfer that is not over is alone with the process. *)
LEMMA TaskHasIt ==
  ASSUME Inv, ExclusionInv, NEW t \in tasks, ~Over(t.tp.id)
  PROVE  /\ \A tp \in batch : tp.id # t.tp.id
         /\ t.thread = SM => CommandAlone(t)
         /\ t.thread \in Callbacks => CallbackAlone(t)
         /\ \A u \in tasks : u.tp.id = t.tp.id =>
              IF u.thread = SM THEN CommandAlone(u) ELSE CallbackAlone(u)
<1>1. t.tp.id \in DOMAIN store
  BY DEF Inv, TaskInv, Held
<1>2. Exclusive(t.tp.id)
  BY <1>1 DEF ExclusionInv
<1>3. \A tp \in batch : tp.id # t.tp.id
  BY <1>2 DEF Exclusive, LoopAlone
<1> QED BY <1>2, <1>3, ManagerAssumption DEF Exclusive

(* The callback of an operation found the process and goes on to save it. *)
LEMMA GoesOnExclusive ==
  ASSUME Inv, ExclusionInv, NEW t \in tasks, t.thread \in Callbacks,
         NEW new, new.id = t.tp.id, GoesOnToUpdate(t, new),
         UNCHANGED <<storeVars, loopVars, queue>>,
         Over(t.tp.id) => new.state \notin Transferring,
         ~Over(t.tp.id) =>
           /\ new.state \in {PROVISIONING, PROVISIONED, CANCELLED, ERROR}
           /\ new.state \in Transferring => store[t.tp.id].state <= new.state
  PROVE  ExclusionInv' /\ Modes
<1>1. UNCHANGED <<store, leased, selected, batch, queue, commands, pc>>
  BY DEF storeVars, loopVars
<1>2. PICK n : n = [thread |-> t.thread, kind |-> "update", tp |-> new]
  OBVIOUS
<1>3. n.thread = t.thread /\ n.tp = new /\ tasks' = (tasks \ {t}) \cup {n}
  BY <1>2 DEF GoesOnToUpdate
<1>4. ASSUME NEW id \in DOMAIN store PROVE ModeKept(id)
  <2>1. Over(id) \/ Exclusive(id)
    BY DEF ExclusionInv
  <2>2. CASE id # t.tp.id
    BY <1>1, <1>3, <2>1, <2>2, Elsewhere
  <2>3. CASE id = t.tp.id /\ Over(id)
    <3>1. store[id].state \notin Transferring
      BY <2>3 DEF Over
    <3> QED BY <1>1, <1>3, <2>3, <3>1, OverKept
  <2>4. CASE id = t.tp.id /\ ~Over(id)
    <3>1. /\ \A tp \in batch : tp.id # id
          /\ CallbackAlone(t)
          /\ \A u \in tasks : u.tp.id = id =>
               IF u.thread = SM THEN CommandAlone(u) ELSE CallbackAlone(u)
      BY <2>4, TaskHasIt
    <3>2. new.state # REQUESTING
      BY <2>4 DEF PROVISIONING, PROVISIONED, CANCELLED, ERROR, REQUESTING
    <3>3. \A u \in tasks' : u.thread \in Callbacks /\ u.tp.id = id => u = n
      BY <1>3, <2>4, <3>1 DEF CallbackAlone
    <3>4. CallbackAlone(n)'
      BY <1>1, <1>3, <2>4, <3>1, <3>2, <3>3 DEF CallbackAlone
    <3>5. \A u \in tasks : u.thread = SM /\ CommandAlone(u) => CommandAlone(u)'
      BY <1>1 DEF CommandAlone
    <3>6. ASSUME NEW u \in tasks', u.tp.id = id
          PROVE  IF u.thread = SM THEN CommandAlone(u)' ELSE CallbackAlone(u)'
      <4>1. CASE u = n
        BY <1>3, <3>4, <4>1, ManagerAssumption
      <4>2. CASE u \in tasks /\ u # n
        <5>1. u.thread \in Callbacks \cup {SM}
          BY <4>2 DEF Inv, TaskInv, TaskType
        <5>2. u.thread = SM
          BY <3>3, <3>6, <4>2, <5>1
        <5> QED BY <3>1, <3>5, <3>6, <4>2, <5>2
      <4> QED BY <1>3, <4>1, <4>2
    <3>7. store[id].state \in Transferring \cup {CANCELLED, ERROR}
      BY <2>1, <2>4 DEF Exclusive
    <3>8. Exclusive(id)'
      BY <1>1, <3>1, <3>6, <3>7 DEF Exclusive
    <3>9. NotRepeated(id)
      <4>1. store[id].state \in Int
        BY TransferStates DEF Inv, StoreInv, Sound, TransferProcessType
      <4> QED BY <1>1, <4>1 DEF NotRepeated, Transferring, INITIAL
    <3> QED BY <2>4, <3>8, <3>9 DEF ModeKept
  <2> QED BY <2>1, <2>2, <2>3, <2>4
<1>5. Modes
  BY <1>4 DEF Modes
<1>6. OnePerThread' /\ (pc' # "lease" => selected' = {})
  BY <1>1, <1>3 DEF OnePerThread, ExclusionInv
<1> QED BY <1>1, <1>5, <1>6, StepExclusion

(* A task saves the process and ends. *)
LEMMA TaskSavesExclusive ==
  ASSUME Inv, ExclusionInv, NEW t \in tasks, tasks' = tasks \ {t},
         NEW new, new.id = t.tp.id, Upsert(new), UNCHANGED <<loopVars, queue>>,
         Over(t.tp.id) => new.state \notin Transferring,
         t.thread = SM => new.state = t.tp.state,
         ~Over(t.tp.id) /\ t.thread \in Callbacks =>
           /\ new.state \in Transferring \cup {CANCELLED, ERROR}
           /\ new.state \in Transferring =>
                store[t.tp.id].state \in {CANCELLED} \cup INITIAL .. new.state
  PROVE  ExclusionInv' /\ Modes
<1>1. UNCHANGED <<batch, queue, commands, pc>> /\ t.tp.id \in DOMAIN store
      /\ t.thread \in Callbacks \cup {SM}
  BY DEF loopVars, Inv, TaskInv, Held, TaskType
<1>2. /\ DOMAIN store' = DOMAIN store /\ store'[t.tp.id] = new
      /\ \A id \in DOMAIN store : id # t.tp.id => store'[id] = store[id]
      /\ leased' = leased \ {t.tp.id} /\ selected' = selected \ {t.tp.id}
  BY <1>1, Saved
<1>3. ASSUME NEW id \in DOMAIN store PROVE ModeKept(id)
  <2>1. Over(id) \/ Exclusive(id)
    BY DEF ExclusionInv
  <2>2. CASE id # t.tp.id
    BY <1>1, <1>2, <2>1, <2>2, Elsewhere
  <2>3. CASE id = t.tp.id /\ Over(id)
    BY <1>1, <1>2, <2>3, OverKept
  <2>4. CASE id = t.tp.id /\ ~Over(id)
    <3>1. /\ \A tp \in batch : tp.id # id
          /\ t.thread = SM => CommandAlone(t)
          /\ t.thread \in Callbacks => CallbackAlone(t)
          /\ \A u \in tasks : u.tp.id = id =>
               IF u.thread = SM THEN CommandAlone(u) ELSE CallbackAlone(u)
      BY <2>4, TaskHasIt
    <3>s. /\ CANCELLED \notin Transferring /\ DEPROVISIONING \notin Transferring
          /\ COMPLETED \notin {CANCELLED, PROVISIONING, REQUESTING}
      BY DEF CANCELLED, DEPROVISIONING, COMPLETED, PROVISIONING, REQUESTING, Transferring,
             INITIAL
    <3>2. CASE t.thread \in Callbacks
      <4>1. \A u \in tasks' : u.tp.id = id => u.thread = SM /\ u.tp.state = CANCELLED
        <5>1. store[id].state # COMPLETED
          BY <2>4, <3>1, <3>2, <3>s DEF CallbackAlone
        <5>2. \A u \in tasks' : u.thread \in Callbacks \cup {SM}
          BY DEF Inv, TaskInv, TaskType
        <5>3. \A u \in tasks' : u.tp.id = id => u.thread = SM
          BY <2>4, <3>1, <3>2, <5>2 DEF CallbackAlone
        <5> QED BY <3>1, <5>1, <5>3 DEF CommandAlone
      <4>2. Exclusive(id)'
        BY <1>1, <1>2, <2>4, <3>1, <3>2, <4>1 DEF Exclusive, CommandAlone
      <4>3. NotRepeated(id)
        BY <1>2, <2>4, <3>2 DEF NotRepeated
      <4> QED BY <2>4, <4>2, <4>3 DEF ModeKept
    <3>3. CASE t.thread = SM /\ new.state = CANCELLED
      <4>1. \A u \in tasks' : u.thread # SM
        BY <3>3 DEF ExclusionInv
      <4>2. \A u \in tasks' : u.tp.id = id => CallbackAlone(u)'
        BY <1>2, <2>4, <3>1, <3>3, <4>1 DEF CallbackAlone
      <4>3. Exclusive(id)'
        BY <1>1, <1>2, <2>4, <3>1, <3>3, <4>1, <4>2 DEF Exclusive
      <4> QED BY <1>2, <2>4, <3>3, <3>s, <4>3 DEF ModeKept, NotRepeated
    <3>4. CASE t.thread = SM /\ new.state = DEPROVISIONING /\ store[id].state = COMPLETED
      <4>1. \A u \in tasks' : u.thread # SM
        BY <3>4 DEF ExclusionInv
      <4>2. \A u \in tasks' : u.tp.id # id
        BY <3>1, <3>4, <3>s, <4>1 DEF CallbackAlone
      <4>3. Over(id)'
        BY <1>1, <1>2, <2>4, <3>1, <3>4, <3>s, <4>2 DEF Over
      <4> QED BY <1>2, <2>4, <3>4, <3>s, <4>3 DEF ModeKept, NotRepeated
    <3> QED BY <1>1, <2>4, <3>1, <3>2, <3>3, <3>4 DEF CommandAlone
  <2> QED BY <2>1, <2>2, <2>3, <2>4
<1>4. Modes
  BY <1>3 DEF Modes
<1>5. OnePerThread' /\ (pc' # "lease" => selected' = {})
  BY <1>1, <1>2 DEF OnePerThread, ExclusionInv
<1> QED BY <1>1, <1>2, <1>4, <1>5, StepExclusion

(* A task that ends without saving anything. *)
LEMMA TaskDropsExclusive ==
  ASSUME Inv, ExclusionInv, NEW t \in tasks, tasks' = tasks \ {t},
         UNCHANGED <<storeVars, loopVars, queue>>
  PROVE  ExclusionInv' /\ Modes
<1>1. UNCHANGED <<store, leased, selected, batch, queue, commands, pc>>
  BY DEF storeVars, loopVars
<1>2. Modes /\ OnePerThread'
  BY <1>1, AllElsewhere
<1> QED BY <1>1, <1>2, StepExclusion DEF ExclusionInv

(* The result of provisioning a process that is still to be provisioned, or *)
(* was cancelled meanwhile.                                                 *)
LEMMA ProvisionResultAlone ==
  ASSUME NEW tp \in TransferProcessType, NEW done \in SUBSET Resources, NEW fatal \in BOOLEAN,
         tp.state \in {PROVISIONING, CANCELLED},
         NEW new, new = ProvisionResult(tp, done, fatal)
  PROVE  /\ new.state \in {PROVISIONING, PROVISIONED, CANCELLED, ERROR}
         /\ new.state \in Transferring => tp.state <= new.state
<1>1. \/ new.state = ERROR
      \/ new.state = tp.state
      \/ new.state = PROVISIONED /\ tp.state <= PROVISIONED
  BY ProvisionResultState
<1> QED BY <1>1 DEF Transferring, INITIAL, COMPLETED, PROVISIONING, PROVISIONED, CANCELLED, ERROR

(* The result of provisioning arrives. *)
LEMMA ProvisionReturnsExclusive ==
  ASSUME Inv, ExclusionInv, NEW t \in tasks, ProvisionReturns(t)
  PROVE  ExclusionInv' /\ Modes
<1>1. PICK found : found = store[t.tp.id]
  OBVIOUS
<1>2. /\ t.thread \in Callbacks /\ t.tp.state = PROVISIONING
      /\ found \in TransferProcessType /\ found.id = t.tp.id
      /\ UNCHANGED <<storeVars, loopVars, queue>>
      /\ t.tp \in TransferProcessType
  BY <1>1 DEF ProvisionReturns, Inv, TaskInv, Held, StoreInv, Sound, Operations, OperationState
<1>3. PICK done \in SUBSET Resources, fatal \in BOOLEAN :
        IF found.state = ERROR THEN tasks' = tasks \ {t}
        ELSE GoesOnToUpdate(t, ProvisionResult(found, done, fatal))
  BY <1>1 DEF ProvisionReturns, Find
<1>4. CASE found.state = ERROR
  BY <1>2, <1>3, <1>4, TaskDropsExclusive
<1>5. CASE found.state # ERROR
  <2>1. PICK new : new = ProvisionResult(found, done, fatal)
    OBVIOUS
  <2>2. new.id = t.tp.id
    BY <1>2, <2>1, ProvisionResultState
  <2>3. PROVISIONING \in Transferring
    BY DEF PROVISIONING, Transferring, INITIAL, COMPLETED
  <2>4. ~Over(t.tp.id)
    BY <1>2, <2>3 DEF Over
  <2>5. CallbackAlone(t)
    BY <1>2, <2>4, TaskHasIt
  <2>6. found.state \in {PROVISIONING, CANCELLED}
    BY <1>1, <1>2, <2>3, <2>5 DEF CallbackAlone, PROVISIONING, REQUESTING
  <2>7. /\ new.state \in {PROVISIONING, PROVISIONED, CANCELLED, ERROR}
        /\ new.state \in Transferring => store[t.tp.id].state <= new.state
    BY <1>1, <1>2, <2>1, <2>6, ProvisionResultAlone
  <2> QED BY <1>2, <1>3, <1>5, <2>1, <2>2, <2>4, <2>7, GoesOnExclusive
<1> QED BY <1>4, <1>5

(* The result of deprovisioning arrives: the transfer is over. *)
LEMMA DeprovisionReturnsExclusive ==
  ASSUME Inv, ExclusionInv, NEW t \in tasks, DeprovisionReturns(t)
  PROVE  ExclusionInv' /\ Modes
<1>1. PICK found : found = store[t.tp.id]
  OBVIOUS
<1>2. /\ t.thread \in Callbacks /\ t.tp.state = DEPROVISIONING
      /\ found \in TransferProcessType /\ found.id = t.tp.id
      /\ UNCHANGED <<storeVars, loopVars, queue>>
      /\ t.tp \in TransferProcessType
  BY <1>1 DEF DeprovisionReturns, Inv, TaskInv, Held, StoreInv, Sound, Operations, OperationState
<1>3. PICK done \in SUBSET Resources, fatal \in BOOLEAN :
        \/ tasks' = tasks \ {t}
        \/ GoesOnToUpdate(t, DeprovisionResult(found, done, fatal))
  <2>1. GetResourcesToDeprovision(t.tp) \subseteq Resources
    BY <1>2 DEF GetResourcesToDeprovision, TransferProcessType
  <2> QED BY <1>1, <2>1 DEF DeprovisionReturns, Find
<1>4. CASE tasks' = tasks \ {t}
  BY <1>2, <1>4, TaskDropsExclusive
<1>5. CASE GoesOnToUpdate(t, DeprovisionResult(found, done, fatal))
  <2>1. PICK new : new = DeprovisionResult(found, done, fatal)
    OBVIOUS
  <2>2. ~CallbackAlone(t)
    BY <1>2 DEF CallbackAlone, DEPROVISIONING, PROVISIONING, PROVISIONED, REQUESTING, CANCELLED,
                ERROR
  <2>3. Over(t.tp.id)
    BY <1>2, <2>2, TaskHasIt
  <2>4. found.state \notin Transferring
    BY <1>1, <2>3 DEF Over
  <2>5. new.id = t.tp.id /\ new.state \notin Transferring
    BY <1>2, <2>1, <2>4, DeprovisionResultOver
  <2> QED BY <1>2, <1>5, <2>1, <2>3, <2>5, GoesOnExclusive
<1> QED BY <1>3, <1>4, <1>5

(* Every callback, and the update that follows it or a command, keeps *)
(* threads apart.                                                     *)
LEMMA CallbackExclusive ==
  ASSUME Inv, ExclusionInv, NEW t \in tasks, Callback(t)
  PROVE  ExclusionInv' /\ Modes
<1>0. /\ t \in TaskType /\ t.tp \in TransferProcessType /\ t.tp.state \in Int
      /\ t.kind \in Operations =>
           t.thread \in Callbacks /\ t.tp.state = OperationState(t.kind)
      /\ store[t.tp.id] \in TransferProcessType /\ store[t.tp.id].id = t.tp.id
      /\ store[t.tp.id].state \in Int
  BY TransferStates DEF Inv, TaskInv, Held, StoreInv, Sound, TransferProcessType
<1>e. ASSUME t.thread \in Callbacks, GoesOnToUpdate(t, TransitionError(Find(t.tp.id))),
             UNCHANGED <<storeVars, loopVars, queue>>
      PROVE  ExclusionInv' /\ Modes
  <2>1. PICK new : new = TransitionError(Find(t.tp.id))
    OBVIOUS
  <2>2. new.id = t.tp.id /\ new.state = ERROR
    BY <1>0, <2>1, ErrorFrame DEF Find
  <2>3. ERROR \notin Transferring
    BY DEF ERROR, Transferring, INITIAL
  <2> QED BY <1>e, <2>1, <2>2, <2>3, GoesOnExclusive
<1>s. ASSUME t.kind = "send", NEW end \in {REQUESTING, REQUESTED},
             Upsert(Transition(t.tp, end)), tasks' = tasks \ {t},
             UNCHANGED <<loopVars, queue>>
      PROVE  ExclusionInv' /\ Modes
  <2>1. PICK new : new = Transition(t.tp, end)
    OBVIOUS
  <2>2. t.tp.state = REQUESTING /\ t.thread \in Callbacks
    BY <1>0, <1>s DEF Operations, OperationState
  <2>3. /\ REQUESTING \in Transferring /\ end \in TransferProcessStates /\ end \in Transferring
        /\ ~(end < REQUESTING) /\ REQUESTING <= end /\ end \in Int
    BY DEF Transferring, TransferProcessStates, INITIAL, COMPLETED, REQUESTING, REQUESTED
  <2>4. new.id = t.tp.id /\ new.state = end
    BY <1>0, <2>1, <2>2, <2>3, TransitionFrame
  <2>5. ~Over(t.tp.id)
    BY <2>2, <2>3 DEF Over
  <2>6. CallbackAlone(t)
    BY <2>2, <2>5, TaskHasIt
  <2>7. store[t.tp.id].state \in {CANCELLED} \cup INITIAL .. end
    BY <2>3, <2>6 DEF CallbackAlone, INITIAL, PROVISIONING, REQUESTING
  <2>8. t.thread # SM
    BY <2>2, ManagerAssumption
  <2> QED BY <1>s, <2>1, <2>3, <2>4, <2>5, <2>7, <2>8, TaskSavesExclusive
<1>1. CASE ProvisionReturns(t)
  BY <1>1, ProvisionReturnsExclusive
<1>2. CASE DeprovisionReturns(t)
  BY <1>2, DeprovisionReturnsExclusive
<1>3. CASE OperationThrows(t)
  BY <1>0, <1>3, <1>e DEF OperationThrows, Operations
<1>4. CASE SendSucceeds(t)
  BY <1>4, <1>s DEF SendSucceeds
<1>5. CASE SendFails(t)
  BY <1>5, <1>s DEF SendFails
<1>6. CASE SendFailsFinally(t)
  BY <1>0, <1>6, <1>e DEF SendFailsFinally, Operations
<1>7. CASE Update(t)
  <2>1. PICK new : new = t.tp
    OBVIOUS
  <2>2. Upsert(new) /\ tasks' = tasks \ {t} /\ UNCHANGED <<loopVars, queue>>
    BY <1>7, <2>1 DEF Update
  <2>3. Over(t.tp.id) => new.state \notin Transferring
    BY <2>1 DEF Over
  <2>4. ASSUME ~Over(t.tp.id), t.thread \in Callbacks
        PROVE  /\ new.state \in Transferring \cup {CANCELLED, ERROR}
               /\ new.state \in Transferring =>
                    store[t.tp.id].state \in {CANCELLED} \cup INITIAL .. new.state
    <3>1. CallbackAlone(t)
      BY <2>4, TaskHasIt
    <3>2. new.state \in Transferring \cup {CANCELLED, ERROR}
      BY <2>1, <3>1, TransferStates DEF CallbackAlone
    <3>3. ASSUME new.state \in Transferring, store[t.tp.id].state # CANCELLED
          PROVE  store[t.tp.id].state \in INITIAL .. new.state
      <4>1. /\ store[t.tp.id].state \in {PROVISIONING, REQUESTING}
            /\ store[t.tp.id].state <= new.state
        BY <2>1, <3>1, <3>3 DEF CallbackAlone
      <4> QED BY <1>0, <2>1, <4>1 DEF INITIAL, PROVISIONING, REQUESTING
    <3> QED BY <3>2, <3>3
  <2> QED BY <2>1, <2>2, <2>3, <2>4, TaskSavesExclusive
<1> QED BY <1>1, <1>2, <1>3, <1>4, <1>5, <1>6, <1>7 DEF Callback

-----------------------------------------------------------------------------
(* Command handlers *)

(* A handler that changes a process cancels it, or starts to deprovision it *)
(* when it is completed, unless the transfer is over already.               *)
LEMMA ModifiedReleases ==
  ASSUME NEW cmd \in CommandType, NEW tp \in TransferProcessType,
         cmd.kind # "AddProvisionedResource",
         cmd.kind = "DeprovisionComplete" =>
           tp.state \notin Transferring /\ cmd.resource \in Resources,
         ~HandlerThrows(cmd, tp), ~HandlerIgnores(cmd, tp),
         NEW fatal \in BOOLEAN, NEW new, new = Modified(cmd, tp, fatal)
  PROVE  /\ new.id = tp.id
         /\ tp.state \notin Transferring => new.state \notin Transferring
         /\ cmd.kind # "DeprovisionComplete" /\ tp.state \in Transferring \cup {CANCELLED, ERROR} =>
              new.state = CANCELLED \/ (new.state = DEPROVISIONING /\ tp.state = COMPLETED)
<1>0. /\ CANCELLED \in TransferProcessStates /\ CANCELLED \notin Transferring
      /\ DEPROVISIONING \in TransferProcessStates /\ DEPROVISIONING \notin Transferring
      /\ tp.state \in TransferProcessStates
  BY DEF TransferProcessStates, Transferring, INITIAL, COMPLETED, CANCELLED, DEPROVISIONING,
         TransferProcessType
<1>1. CASE cmd.kind = "CancelTransfer"
  <2>1. new = Transition(tp, CANCELLED)
    BY <1>1 DEF Modified
  <2>2. new.id = tp.id /\ new.state = IF CANCELLED < tp.state THEN tp.state ELSE CANCELLED
    BY <1>0, <2>1, TransitionFrame
  <2>3. ~(CANCELLED < tp.state)
    BY <1>0 DEF TransferProcessStates, UNSAVED, INITIAL, PROVISIONING, PROVISIONED, REQUESTING,
                REQUESTED, IN_PROGRESS, STREAMING, COMPLETED, DEPROVISIONING, DEPROVISIONED,
                ENDED, CANCELLED, ERROR
  <2> QED BY <1>0, <2>2, <2>3
<1>2. CASE cmd.kind = "DeprovisionRequest"
  <2>1. new = Transition(tp, DEPROVISIONING)
    BY <1>2 DEF Modified
  <2>2. /\ new.id = tp.id
        /\ new.state = IF DEPROVISIONING < tp.state THEN tp.state ELSE DEPROVISIONING
    BY <1>0, <2>1, TransitionFrame
  <2>3. tp.state \notin Transferring => new.state \notin Transferring
    BY <1>0, <2>1, TransitionOver
  <2>4. tp.state <= DEPROVISIONING => tp.state \in {COMPLETED, DEPROVISIONING}
    <3>1. ~Throws(tp, DEPROVISIONING)
      BY <1>2 DEF HandlerThrows
    <3>2. Starts(tp, DEPROVISIONING) = {COMPLETED, DEPROVISIONING}
      BY DEF Starts, INITIAL, PROVISIONING, PROVISIONED, REQUESTING, REQUESTED, IN_PROGRESS,
             STREAMING, COMPLETED, DEPROVISIONING, DEPROVISIONED, ENDED, CANCELLED
    <3> QED BY <3>1, <3>2 DEF Throws
  <2>5. ASSUME tp.state \in Transferring \cup {CANCELLED, ERROR}
        PROVE  tp.state = COMPLETED \/ tp.state = CANCELLED
    BY <1>0, <2>4, <2>5
       DEF Transferring, INITIAL, COMPLETED, DEPROVISIONING, CANCELLED, ERROR
  <2>6. ~(DEPROVISIONING < COMPLETED) /\ DEPROVISIONING < CANCELLED
    BY DEF COMPLETED, DEPROVISIONING, CANCELLED
  <2> QED BY <2>2, <2>3, <2>5, <2>6
<1>3. CASE cmd.kind = "DeprovisionComplete"
  <2>1. new = DeprovisionResult(tp, {cmd.resource}, FALSE)
    BY <1>3 DEF Modified
  <2>2. {cmd.resource} \in SUBSET Resources /\ FALSE \in BOOLEAN
    BY <1>3
  <2>3. new.id = tp.id /\ new.state \notin Transferring
    BY <1>3, <2>1, <2>2, DeprovisionResultOver
  <2> QED BY <1>3, <2>3
<1> QED BY <1>1, <1>2, <1>3 DEF CommandType, AllCommandKinds

(* A handler found a process and goes on to update it. *)
LEMMA HandlerExclusive ==
  ASSUME Inv, ExclusionInv, batch = {}, Idle(SM), UNCHANGED <<storeVars, batch>>,
         NEW new, new.id \in DOMAIN store,
         tasks' = tasks \cup {[thread |-> SM, kind |-> "update", tp |-> new]},
         Over(new.id) => new.state \notin Transferring,
         ~Over(new.id) =>
           \/ new.state = CANCELLED
           \/ new.state = DEPROVISIONING /\ store[new.id].state = COMPLETED
  PROVE  Modes /\ OnePerThread'
<1>1. UNCHANGED <<store, leased, selected, batch>> /\ \A t \in tasks : t.thread # SM
  BY DEF storeVars, Idle
<1>2. PICK n : n = [thread |-> SM, kind |-> "update", tp |-> new]
  OBVIOUS
<1>3. n.thread = SM /\ n.tp = new /\ tasks' = tasks \cup {n}
  BY <1>2
<1>4. ASSUME NEW id \in DOMAIN store PROVE ModeKept(id)
  <2>1. Over(id) \/ Exclusive(id)
    BY DEF ExclusionInv
  <2>2. CASE id # new.id
    BY <1>1, <1>3, <2>1, <2>2, Elsewhere
  <2>3. CASE id = new.id /\ Over(id)
    <3>1. store[id].state \notin Transferring
      BY <2>3 DEF Over
    <3> QED BY <1>1, <1>3, <2>3, <3>1, OverKept
  <2>4. CASE id = new.id /\ ~Over(id)
    <3>1. Exclusive(id)
      BY <2>1, <2>4
    <3>2. CommandAlone(n)'
      BY <1>1, <1>3, <2>4 DEF CommandAlone
    <3>3. \A u \in tasks : u.tp.id = id => CallbackAlone(u)'
      BY <1>1, <1>3, <3>1, ManagerAssumption DEF Exclusive, CallbackAlone
    <3>4. Exclusive(id)'
      BY <1>1, <1>3, <3>1, <3>2, <3>3 DEF Exclusive
    <3>5. NotRepeated(id)
      <4>1. store[id].state \in Int
        BY TransferStates DEF Inv, StoreInv, Sound, TransferProcessType
      <4> QED BY <1>1, <4>1 DEF NotRepeated, Transferring, INITIAL
    <3> QED BY <2>4, <3>4, <3>5 DEF ModeKept
  <2> QED BY <2>1, <2>2, <2>3, <2>4
<1> QED BY <1>1, <1>3, <1>4 DEF Modes, OnePerThread, ExclusionInv

(* A command handler that succeeds. *)
LEMMA RunCommandExclusive ==
  ASSUME Inv, ExclusionInv, commands # <<>>, RunCommand(Head(commands))
  PROVE  ExclusionInv' /\ Modes
<1>1. PICK cmd : cmd = Head(commands)
  OBVIOUS
<1>2. PICK found : found = store[cmd.id]
  OBVIOUS
<1>3. /\ pc = "process" /\ phase = CommandPhase /\ Idle(SM)
      /\ ~HandlerThrows(cmd, found)
      /\ IF HandlerIgnores(cmd, found) THEN UNCHANGED tasks
         ELSE \E fatal \in BOOLEAN :
                tasks' = tasks \cup {[thread |-> SM, kind |-> "update",
                                      tp |-> Modified(cmd, found, fatal)]}
      /\ commands' = Tail(commands)
      /\ UNCHANGED <<storeVars, batch, queue>>
  BY <1>1, <1>2 DEF RunCommand, Running, Find, CommandDone
<1>4. UNCHANGED <<store, leased, selected>> /\ batch = {} /\ selected = {}
  BY <1>3, EmptyBatch DEF storeVars, ExclusionInv
<1>5. /\ cmd \in CommandType /\ CommandOK(cmd) /\ ReleaseOnly(cmd)
      /\ cmd.id \in DOMAIN store /\ found \in TransferProcessType /\ found.id = cmd.id
  <2>1. cmd \in CommandType /\ CommandOK(cmd) /\ ReleaseOnly(cmd) /\ cmd.id \in DOMAIN store
    BY <1>1, HeadCommand, HeadReleases
  <2> QED BY <1>2, <2>1 DEF Inv, StoreInv, Sound
<1>6. Modes /\ OnePerThread'
  <2>1. CASE HandlerIgnores(cmd, found)
    BY <1>3, <1>4, <2>1, AllElsewhere
  <2>2. CASE ~HandlerIgnores(cmd, found)
    <3>0. PICK fatal \in BOOLEAN :
            tasks' = tasks \cup {[thread |-> SM, kind |-> "update",
                                  tp |-> Modified(cmd, found, fatal)]}
      BY <1>3, <2>2
    <3>1. PICK new : new = Modified(cmd, found, fatal)
      OBVIOUS
    <3>2. /\ cmd.kind # "AddProvisionedResource"
          /\ cmd.kind = "DeprovisionComplete" =>
               Over(cmd.id) /\ found.state \notin Transferring /\ cmd.resource \in Resources
      BY <1>2, <1>5 DEF ReleaseOnly, CommandOK, Over
    <3>3. /\ new.id = cmd.id
          /\ found.state \notin Transferring => new.state \notin Transferring
          /\ cmd.kind # "DeprovisionComplete"
             /\ found.state \in Transferring \cup {CANCELLED, ERROR} =>
               new.state = CANCELLED \/ (new.state = DEPROVISIONING /\ found.state = COMPLETED)
      BY <1>3, <1>5, <2>2, <3>1, <3>2, ModifiedReleases
    <3>4. Over(cmd.id) => new.state \notin Transferring
      BY <1>2, <3>3 DEF Over
    <3>5. ~Over(cmd.id) =>
            \/ new.state = CANCELLED
            \/ new.state = DEPROVISIONING /\ store[cmd.id].state = COMPLETED
      <4>1. ~Over(cmd.id) => Exclusive(cmd.id)
        BY <1>5 DEF ExclusionInv
      <4> QED BY <1>2, <3>2, <3>3, <4>1 DEF Exclusive
    <3> QED BY <1>3, <1>4, <1>5, <3>0, <3>1, <3>3, <3>4, <3>5, HandlerExclusive
  <2> QED BY <2>1, <2>2
<1>7. \A i \in 1 .. Len(queue') : ReleaseOnly(queue'[i]) /\ queue'[i].id \in DOMAIN store
  BY <1>3, ReleaseCommands
<1>8. \A i \in 1 .. Len(commands') :
        ReleaseOnly(commands'[i]) /\ commands'[i].id \in DOMAIN store
  BY <1>3, CommandDropped
<1> QED BY <1>4, <1>6, <1>7, <1>8, CommandExclusion

-----------------------------------------------------------------------------
(* Theorems *)

(* The empty store satisfies the invariant. *)
LEMMA InitExclusion == Init => ExclusionInv
<1> SUFFICES ASSUME Init PROVE ExclusionInv
  OBVIOUS
<1>1. /\ DOMAIN store = {} /\ selected = {} /\ tasks = {}
      /\ queue = <<>> /\ commands = <<>>
  BY DEF Init
<1>2. Len(<<>>) = 0
  BY EmptySeq
<1> QED BY <1>1, <1>2 DEF ExclusionInv

(* Every step keeps the threads apart and repeats no part of a transfer. *)
LEMMA NextExclusion ==
  ASSUME NoLateProvisioning, Inv, ExclusionInv, [Next]_vars
  PROVE  ExclusionInv' /\ Modes
<1>1. CASE Request
  BY <1>1, LookupExclusive, CreateExclusive, IssueExclusive DEF Request
<1>2. CASE Loop
  BY <1>2, FetchExclusive, LeaseExclusive, ProcessExclusive, DequeueExclusive,
     RunCommandExclusive, CommandFailsExclusive DEF Loop
<1>3. ASSUME NEW t \in tasks, Callback(t) PROVE ExclusionInv' /\ Modes
  BY <1>3, CallbackExclusive
<1>4. CASE UNCHANGED vars
  BY <1>4, StutterExclusive
<1> QED BY <1>1, <1>2, <1>3, <1>4 DEF Next

(* Of every process, the transfer is over or one thread at a time works on  *)
(* it: nextForState, leases, callbacks and command handlers keep out of     *)
(* each other's way, in every deployment without late provisioning results. *)
THEOREM ExclusionHolds ==
  ASSUME NoLateProvisioning
  PROVE  Spec => []ExclusionInv
<1>1. IndInv /\ ExclusionInv /\ [Next]_vars => ExclusionInv'
  BY NextExclusion, InvIsIndInv
<1> QED BY <1>1, InitExclusion, IndInvHolds, PTL DEF Spec

(* At most one operation is in flight for a process, except deprovisioning. *)
LEMMA OneOperation ==
  ASSUME Inv, ExclusionInv
  PROVE  OneOperationInFlight
<1> SUFFICES ASSUME NEW t \in tasks, NEW u \in tasks, t.kind \in Operations,
                    u.kind \in Operations, t.tp.id = u.tp.id
             PROVE  t = u \/ (t.kind = "deprovision" /\ u.kind = "deprovision")
  BY DEF OneOperationInFlight
<1>1. /\ t.thread \in Callbacks /\ t.tp.state = OperationState(t.kind)
      /\ u.thread \in Callbacks /\ u.tp.state = OperationState(u.kind)
  BY DEF Inv, TaskInv
<1>2. CASE Over(t.tp.id)
  <2>1. t.tp.state \notin Transferring /\ u.tp.state \notin Transferring
    BY <1>2 DEF Over
  <2>2. PROVISIONING \in Transferring /\ REQUESTING \in Transferring
    BY DEF PROVISIONING, REQUESTING, Transferring, INITIAL, COMPLETED
  <2> QED BY <1>1, <2>1, <2>2 DEF OperationState, Operations
<1>3. CASE ~Over(t.tp.id)
  <2>1. CallbackAlone(t)
    BY <1>1, <1>3, TaskHasIt
  <2> QED BY <1>1, <2>1 DEF CallbackAlone
<1> QED BY <1>2, <1>3

(* While a provision or send operation is in flight for a process, no other *)
(* operation is: the lease covers the whole of it, for every number of      *)
(* callback threads and batch size.                                         *)
THEOREM OneOperationAtATime ==
  ASSUME NoLateProvisioning
  PROVE  Spec => []OneOperationInFlight
<1>1. IndInv /\ ExclusionInv => OneOperationInFlight
  BY OneOperation, InvIsIndInv
<1> QED BY <1>1, ExclusionHolds, IndInvHolds, PTL

(* No state of the transfer proper is entered again once it was passed,     *)
(* failed or released, whatever stale copies the threads still hold.        *)
THEOREM TransferNotRepeated ==
  ASSUME NoLateProvisioning
  PROVE  Spec => TransferNeverRepeated
<1>1. IndInv /\ ExclusionInv /\ [Next]_vars =>
        [\A id \in DOMAIN store :
           store'[id].state \in Transferring =>
             store[id].state \in {CANCELLED} \cup INITIAL .. store'[id].state]_vars
  BY NextExclusion, InvIsIndInv DEF Modes, ModeKept, NotRepeated
<1> QED BY <1>1, ExclusionHolds, IndInvHolds, PTL DEF Spec, TransferNeverRepeated

-----------------------------------------------------------------------------
(* Deprovisioning *)

(* What DeprovisionedIsComplete says of one copy *)
Released(tp) ==
  tp.state \in DEPROVISIONED .. ENDED => GetResourcesToDeprovision(tp) = {}

(* new is the only record a step may write that no thread had before. *)
Writes(new) ==
  /\ \A id \in DOMAIN store' : store'[id] \in Records \cup {new}
  /\ \A tp \in batch' : tp \in Records \cup {new}
  /\ \A t \in tasks' : t.tp \in Records \cup {new}

(* A step that writes nothing but a released record keeps all released. *)
LEMMA WriteReleased ==
  ASSUME DeprovisionedIsComplete, NEW new, Released(new), Writes(new)
  PROVE  DeprovisionedIsComplete'
  BY DEF DeprovisionedIsComplete, Released, Writes, Records

(* A step that writes nothing new keeps all released. *)
LEMMA NothingWritten ==
  ASSUME DeprovisionedIsComplete,
         \A id \in DOMAIN store' : store'[id] \in Records,
         \A tp \in batch' : tp \in Records,
         \A t \in tasks' : t.tp \in Records
  PROVE  DeprovisionedIsComplete'
  BY DEF DeprovisionedIsComplete, Records

(* Outside DEPROVISIONED .. ENDED nothing is demanded of a copy. *)
LEMMA ReleasedElsewhere ==
  /\ \A tp : tp.state \in Transferring \cup {DEPROVISIONING, CANCELLED, ERROR} => Released(tp)
  /\ \A tp \in TransferProcessType : Released(TransitionError(tp))
<1>0. /\ \A n \in Transferring : n \notin DEPROVISIONED .. ENDED
      /\ \A n \in {DEPROVISIONING, CANCELLED, ERROR} : n \notin DEPROVISIONED .. ENDED
  BY DEF Transferring, INITIAL, COMPLETED, DEPROVISIONING, CANCELLED, ERROR, DEPROVISIONED,
         ENDED
<1>1. \A tp : tp.state \in Transferring \cup {DEPROVISIONING, CANCELLED, ERROR} => Released(tp)
  BY <1>0, Zenon DEF Released
<1>2. \A tp \in TransferProcessType : TransitionError(tp).state = ERROR
  BY DEF TransitionError, TransferProcessType
<1> QED BY <1>1, <1>2

(* A transition leaves the resources alone: it only has to be watched when *)
(* it enters DEPROVISIONED or ENDED.                                       *)
LEMMA TransitionReleased ==
  ASSUME NEW tp \in TransferProcessType, Released(tp), NEW end \in TransferProcessStates,
         end \in DEPROVISIONED .. ENDED => GetResourcesToDeprovision(tp) = {}
  PROVE  Released(Transition(tp, end))
<1>1. GetResourcesToDeprovision(Transition(tp, end)) = GetResourcesToDeprovision(tp)
  BY TransitionFrame DEF GetResourcesToDeprovision
<1>2. Transition(tp, end).state = IF end < tp.state THEN tp.state ELSE end
  BY TransitionFrame
<1> QED BY <1>1, <1>2 DEF Released

(* handleDeprovisionResult enters DEPROVISIONED with nothing left, and adds *)
(* to what is deprovisioned otherwise.                                      *)
LEMMA DeprovisionResultReleased ==
  ASSUME NEW tp \in TransferProcessType, Released(tp),
         NEW done \in SUBSET Resources, NEW fatal \in BOOLEAN
  PROVE  Released(DeprovisionResult(tp, done, fatal))
<1> DEFINE updated == AddDeprovisionedResources(tp, done)
<1>1. /\ updated \in TransferProcessType /\ updated.state = tp.state
      /\ updated.provisioned = tp.provisioned
      /\ tp.deprovisioned \subseteq updated.deprovisioned
  BY DEF AddDeprovisionedResources, TransferProcessType
<1>2. GetResourcesToDeprovision(updated) \subseteq GetResourcesToDeprovision(tp)
  BY <1>1 DEF GetResourcesToDeprovision
<1>3. \/ DeprovisionResult(tp, done, fatal) = TransitionError(updated)
      \/ /\ DeprovisionResult(tp, done, fatal) = Transition(updated, DEPROVISIONED)
         /\ GetResourcesToDeprovision(updated) = {}
      \/ DeprovisionResult(tp, done, fatal) = updated
  BY DEF DeprovisionResult, DeprovisionComplete
<1> HIDE DEF updated
<1>4. Released(updated)
  BY <1>1, <1>2 DEF Released
<1>5. DEPROVISIONED \in TransferProcessStates
  BY DEF TransferProcessStates
<1> QED BY <1>1, <1>3, <1>4, <1>5, ReleasedElsewhere, TransitionReleased

(* The loop saves an entity of its batch, or leaves it alone. *)
LEMMA ProcessReleased ==
  ASSUME Inv, DeprovisionedIsComplete, NEW tp \in batch, Process(tp)
  PROVE  DeprovisionedIsComplete'
<1>0. /\ tp \in TransferProcessType /\ Released(tp) /\ tp \in Records
      /\ tp.state = Processors[phase]
  BY DEF Inv, BatchInv, Held, Sound, DeprovisionedIsComplete, Released, Records
<1>1. ASSUME NEW new, Released(new), Upsert(new), batch' \subseteq batch,
             \A t \in tasks' : t \in tasks \/ t.tp = tp
      PROVE  DeprovisionedIsComplete'
  <2>1. Writes(new)
    BY <1>0, <1>1 DEF Upsert, Writes, Records
  <2> QED BY <1>1, <2>1, WriteReleased
<1>2. ASSUME UNCHANGED store, batch' \subseteq batch,
             \A t \in tasks' : t \in tasks \/ t.tp = tp
      PROVE  DeprovisionedIsComplete'
  <2>1. /\ \A id \in DOMAIN store' : store'[id] \in Records
        /\ \A cp \in batch' : cp \in Records
        /\ \A t \in tasks' : t.tp \in Records
    BY <1>0, <1>2 DEF Records
  <2> QED BY <2>1, NothingWritten
<1>3. Processed(tp) \/ Aborted => batch' \subseteq batch
  BY DEF Processed, Aborted
<1>e. Released(TransitionError(tp))
  BY <1>0, ReleasedElsewhere
<1>t. ASSUME NEW end \in {PROVISIONING, PROVISIONED, REQUESTING, IN_PROGRESS, STREAMING,
                          COMPLETED}
      PROVE  Released(Transition(tp, end))
  <2>1. end \in TransferProcessStates /\ end \notin DEPROVISIONED .. ENDED
    BY DEF TransferProcessStates, PROVISIONING, PROVISIONED, REQUESTING, IN_PROGRESS,
           STREAMING, COMPLETED, DEPROVISIONED, ENDED
  <2> QED BY <1>0, <2>1, TransitionReleased
<1>f. Released(TransitionInProgressOrStreaming(tp))
  BY <1>t DEF TransitionInProgressOrStreaming, InProgressOrStreaming
<1>s. ASSUME NEW kind, Start(kind, tp) PROVE \A t \in tasks' : t \in tasks \/ t.tp = tp
  BY <1>s DEF Start
<1>11. CASE ProcessInitial(tp)
  <2>1. ASSUME NEW manifest \in SUBSET Definitions
        PROVE  Released(TransitionProvisioning(tp, manifest))
    <3>1. tp.state = INITIAL
      BY <1>0, <1>11 DEF ProcessInitial, Processing
    <3>2. PROVISIONING \in TransferProcessStates /\ ~(PROVISIONING < INITIAL)
          /\ PROVISIONING \in Transferring
      BY DEF TransferProcessStates, PROVISIONING, INITIAL, Transferring, COMPLETED
    <3>3. /\ Transition(tp, PROVISIONING) \in TransferProcessType
          /\ Transition(tp, PROVISIONING).state = PROVISIONING
      BY <1>0, <3>1, <3>2, TransitionFrame
    <3>4. TransitionProvisioning(tp, manifest).state = PROVISIONING
      BY <3>3 DEF TransitionProvisioning, TransferProcessType
    <3> QED BY <3>2, <3>4, ReleasedElsewhere
  <2> QED BY <1>1, <1>3, <1>11, <1>e, <2>1 DEF ProcessInitial
<1>12. CASE ProcessInitialAssetNotFound(tp)
  BY <1>1, <1>3, <1>12, <1>e DEF ProcessInitialAssetNotFound
<1>13. CASE ProcessProvisioning(tp)
  BY <1>2, <1>3, <1>13, <1>s DEF ProcessProvisioning, storeVars
<1>14. CASE ProcessProvisionedConsumer(tp)
  BY <1>1, <1>3, <1>14, <1>t DEF ProcessProvisionedConsumer
<1>15. CASE ProcessProviderRequest(tp)
  BY <1>1, <1>3, <1>15, <1>e, <1>f, <1>t DEF ProcessProviderRequest
<1>16. CASE ProcessRequestingDelayed(tp)
  BY <1>0, <1>1, <1>3, <1>16 DEF ProcessRequestingDelayed
<1>17. CASE SendConsumerRequest(tp)
  BY <1>2, <1>3, <1>17, <1>s DEF SendConsumerRequest, storeVars
<1>18. CASE ProcessRequested(tp)
  BY <1>1, <1>2, <1>3, <1>18, <1>f DEF ProcessRequested, storeVars
<1>19. CASE ProcessInProgressIgnored(tp)
  BY <1>2, <1>3, <1>19 DEF ProcessInProgressIgnored, storeVars
<1>20. CASE ProcessInProgressCompleted(tp)
  BY <1>1, <1>3, <1>20, <1>t DEF ProcessInProgressCompleted
<1>21. CASE ProcessInProgressNotCompleted(tp)
  BY <1>0, <1>1, <1>3, <1>21 DEF ProcessInProgressNotCompleted
<1>22. CASE ProcessDeprovisioning(tp)
  BY <1>2, <1>3, <1>22, <1>s DEF ProcessDeprovisioning, storeVars
<1>23. CASE ProcessDeprovisioned(tp)
  <2>1. tp.state = DEPROVISIONED
    BY <1>0, <1>23 DEF ProcessDeprovisioned, Processing
  <2>2. GetResourcesToDeprovision(tp) = {} /\ ENDED \in TransferProcessStates
    BY <1>0, <2>1 DEF Released, DEPROVISIONED, ENDED, TransferProcessStates
  <2>3. Released(Transition(tp, ENDED))
    BY <1>0, <2>2, TransitionReleased
  <2> QED BY <1>1, <1>3, <1>23, <2>3 DEF ProcessDeprovisioned
<1> QED BY <1>11, <1>12, <1>13, <1>14, <1>15, <1>16, <1>17, <1>18, <1>19, <1>20,
           <1>21, <1>22, <1>23 DEF Process

(* The provisioning callback is alone with a process that is provisioning  *)
(* or cancelled, so it never adds a resource to one that was deprovisioned. *)
LEMMA CallbackReleased ==
  ASSUME Inv, ExclusionInv, DeprovisionedIsComplete, NEW t \in tasks, Callback(t)
  PROVE  DeprovisionedIsComplete'
<1>0. PICK found : found = store[t.tp.id]
  OBVIOUS
<1>1. /\ t.tp \in TransferProcessType /\ t.tp.id \in DOMAIN store
      /\ found \in TransferProcessType /\ Released(found) /\ Released(t.tp)
      /\ t.kind \in Operations =>
           t.thread \in Callbacks /\ t.tp.state = OperationState(t.kind)
  BY <1>0 DEF Inv, TaskInv, Held, StoreInv, Sound, DeprovisionedIsComplete, Records, Released
<1>u. ASSUME NEW new, Released(new), GoesOnToUpdate(t, new), UNCHANGED <<store, batch>>
      PROVE  DeprovisionedIsComplete'
  <2>1. Writes(new)
    BY <1>u DEF GoesOnToUpdate, Writes, Records
  <2> QED BY <1>u, <2>1, WriteReleased
<1>d. ASSUME tasks' = tasks \ {t}, UNCHANGED <<store, batch>>
      PROVE  DeprovisionedIsComplete'
  <2>1. /\ \A id \in DOMAIN store' : store'[id] \in Records
        /\ \A cp \in batch' : cp \in Records
        /\ \A v \in tasks' : v.tp \in Records
    BY <1>d DEF Records
  <2> QED BY <2>1, NothingWritten
<1>w. ASSUME NEW new, Released(new), Upsert(new), tasks' = tasks \ {t}, UNCHANGED batch
      PROVE  DeprovisionedIsComplete'
  <2>1. Writes(new)
    BY <1>w DEF Upsert, Writes, Records
  <2> QED BY <1>w, <2>1, WriteReleased
<1>e. Released(TransitionError(found))
  BY <1>1, ReleasedElsewhere
<1>t. ASSUME NEW end \in {REQUESTING, REQUESTED} PROVE Released(Transition(t.tp, end))
  <2>1. end \in TransferProcessStates /\ end \notin DEPROVISIONED .. ENDED
    BY DEF TransferProcessStates, REQUESTING, REQUESTED, DEPROVISIONED, ENDED
  <2> QED BY <1>1, <2>1, TransitionReleased
<1>2. CASE ProvisionReturns(t)
  <2>1. PICK done \in SUBSET Resources, fatal \in BOOLEAN :
          IF found.state = ERROR THEN tasks' = tasks \ {t}
          ELSE GoesOnToUpdate(t, ProvisionResult(found, done, fatal))
    BY <1>0, <1>2 DEF ProvisionReturns, Find
  <2>2. UNCHANGED <<store, batch>> /\ t.thread \in Callbacks /\ t.tp.state = PROVISIONING
    BY <1>1, <1>2 DEF ProvisionReturns, storeVars, loopVars, Operations, OperationState
  <2>3. PROVISIONING \in Transferring
    BY DEF PROVISIONING, Transferring, INITIAL, COMPLETED
  <2>4. CallbackAlone(t)
    <3>1. ~Over(t.tp.id)
      BY <2>2, <2>3 DEF Over
    <3> QED BY <2>2, <3>1, TaskHasIt
  <2>5. found.state \in {PROVISIONING, CANCELLED}
    BY <1>0, <2>2, <2>3, <2>4 DEF CallbackAlone, PROVISIONING, REQUESTING
  <2>6. ProvisionResult(found, done, fatal).state \in {PROVISIONING, PROVISIONED, CANCELLED, ERROR}
    BY <1>1, <2>5, ProvisionResultState
  <2>7. Released(ProvisionResult(found, done, fatal))
    BY <2>6, ReleasedElsewhere
       DEF Transferring, PROVISIONING, PROVISIONED, INITIAL, COMPLETED
  <2> QED BY <1>u, <1>d, <2>1, <2>2, <2>7
<1>3. CASE DeprovisionReturns(t)
  <2>1. UNCHANGED <<store, batch>>
    BY <1>3 DEF DeprovisionReturns, storeVars, loopVars
  <2>2. GetResourcesToDeprovision(t.tp) \subseteq Resources
    BY <1>1 DEF GetResourcesToDeprovision, TransferProcessType
  <2>3. PICK done \in SUBSET Resources, fatal \in BOOLEAN :
          \/ tasks' = tasks \ {t}
          \/ GoesOnToUpdate(t, DeprovisionResult(found, done, fatal))
    BY <1>0, <1>3, <2>2 DEF DeprovisionReturns, Find
  <2>4. Released(DeprovisionResult(found, done, fatal))
    BY <1>1, DeprovisionResultReleased
  <2> QED BY <1>u, <1>d, <2>1, <2>3, <2>4
<1>4. CASE OperationThrows(t)
  BY <1>0, <1>4, <1>e, <1>u DEF OperationThrows, Find, storeVars, loopVars
<1>5. CASE SendSucceeds(t)
  BY <1>5, <1>t, <1>w DEF SendSucceeds, loopVars
<1>6. CASE SendFails(t)
  BY <1>6, <1>t, <1>w DEF SendFails, loopVars
<1>7. CASE SendFailsFinally(t)
  BY <1>0, <1>7, <1>e, <1>u DEF SendFailsFinally, Find, storeVars, loopVars
<1>8. CASE Update(t)
  BY <1>1, <1>8, <1>w DEF Update, loopVars
<1> QED BY <1>2, <1>3, <1>4, <1>5, <1>6, <1>7, <1>8 DEF Callback

(* Command handlers: none of them adds a provisioned resource. *)
LEMMA RunCommandReleased ==
  ASSUME Inv, ExclusionInv, DeprovisionedIsComplete, commands # <<>>,
         RunCommand(Head(commands))
  PROVE  DeprovisionedIsComplete'
<1>1. PICK cmd : cmd = Head(commands)
  OBVIOUS
<1>2. PICK found : found = store[cmd.id]
  OBVIOUS
<1>3. /\ ~HandlerThrows(cmd, found) /\ UNCHANGED <<store, batch>>
      /\ IF HandlerIgnores(cmd, found) THEN UNCHANGED tasks
         ELSE \E fatal \in BOOLEAN :
                tasks' = tasks \cup {[thread |-> SM, kind |-> "update",
                                      tp |-> Modified(cmd, found, fatal)]}
  BY <1>1, <1>2 DEF RunCommand, Find, storeVars
<1>4. /\ cmd \in CommandType /\ CommandOK(cmd) /\ ReleaseOnly(cmd)
      /\ found \in TransferProcessType /\ Released(found)
  <2>1. cmd \in CommandType /\ CommandOK(cmd) /\ ReleaseOnly(cmd) /\ cmd.id \in DOMAIN store
    BY <1>1, HeadCommand, HeadReleases
  <2> QED BY <1>2, <2>1 DEF Inv, StoreInv, Sound, DeprovisionedIsComplete, Records, Released
<1>5. CASE HandlerIgnores(cmd, found)
  <2>1. /\ \A id \in DOMAIN store' : store'[id] \in Records
        /\ \A cp \in batch' : cp \in Records
        /\ \A v \in tasks' : v.tp \in Records
    BY <1>3, <1>5 DEF Records
  <2> QED BY <2>1, NothingWritten
<1>6. CASE ~HandlerIgnores(cmd, found)
  <2>1. PICK fatal \in BOOLEAN :
          tasks' = tasks \cup {[thread |-> SM, kind |-> "update",
                                tp |-> Modified(cmd, found, fatal)]}
    BY <1>3, <1>6
  <2>2. PICK new : new = Modified(cmd, found, fatal)
    OBVIOUS
  <2>3. Released(new)
    <3>1. /\ {CANCELLED, DEPROVISIONING} \subseteq TransferProcessStates
          /\ CANCELLED \notin DEPROVISIONED .. ENDED
          /\ DEPROVISIONING \notin DEPROVISIONED .. ENDED
      BY DEF TransferProcessStates, CANCELLED, DEPROVISIONING, DEPROVISIONED, ENDED
    <3>2. CASE cmd.kind = "CancelTransfer"
      BY <1>4, <2>2, <3>1, <3>2, TransitionReleased DEF Modified
    <3>3. CASE cmd.kind = "DeprovisionRequest"
      BY <1>4, <2>2, <3>1, <3>3, TransitionReleased DEF Modified
    <3>4. CASE cmd.kind = "DeprovisionComplete"
      <4>1. new = DeprovisionResult(found, {cmd.resource}, FALSE)
        BY <2>2, <3>4 DEF Modified
      <4>2. {cmd.resource} \in SUBSET Resources /\ FALSE \in BOOLEAN
        BY <1>4, <3>4 DEF CommandOK
      <4> QED BY <1>4, <4>1, <4>2, DeprovisionResultReleased
    <3> QED BY <1>4, <3>2, <3>3, <3>4 DEF CommandType, AllCommandKinds, ReleaseOnly
  <2>4. Writes(new)
    BY <1>3, <2>1, <2>2 DEF Writes, Records
  <2> QED BY <2>3, <2>4, WriteReleased
<1> QED BY <1>5, <1>6

(* Every step keeps what is past DEPROVISIONING free of resources. *)
LEMMA NextReleased ==
  ASSUME Inv, ExclusionInv, DeprovisionedIsComplete, [Next]_vars
  PROVE  DeprovisionedIsComplete'
<1>n. ASSUME UNCHANGED <<store, tasks>>,
             batch' \subseteq batch \cup {store[id] : id \in DOMAIN store}
      PROVE  DeprovisionedIsComplete'
  <2>1. /\ \A id \in DOMAIN store' : store'[id] \in Records
        /\ \A cp \in batch' : cp \in Records
        /\ \A v \in tasks' : v.tp \in Records
    BY <1>n DEF Records
  <2> QED BY <2>1, NothingWritten
<1>1. CASE Request
  <2>1. ASSUME NEW c \in Clients, NEW req \in Requests, InitiateRequestLookup(c, req)
        PROVE  DeprovisionedIsComplete'
    BY <1>n, <2>1 DEF InitiateRequestLookup, storeVars, loopVars
  <2>2. ASSUME NEW c \in Clients, NEW id \in Processes, InitiateRequestCreate(c, id)
        PROVE  DeprovisionedIsComplete'
    <3>1. PICK new : new = NewTransferProcess(id, creating[c])
      OBVIOUS
    <3>2. Upsert(new) /\ UNCHANGED <<batch, tasks>> /\ c \in DOMAIN creating
      BY <2>2, <3>1 DEF InitiateRequestCreate, loopVars
    <3>3. new.provisioned = {}
      BY <3>1 DEF NewTransferProcess, Transition, TransitionTo, INITIAL, UNSAVED
    <3>4. Released(new)
      BY <3>3 DEF Released, GetResourcesToDeprovision
    <3>5. Writes(new)
      BY <3>2 DEF Upsert, Writes, Records
    <3> QED BY <3>4, <3>5, WriteReleased
  <2>3. ASSUME NEW kind \in CommandKinds, NEW id \in Processes,
               NEW resource \in Resources \cup {Null}, IssueCommand(kind, id, resource)
        PROVE  DeprovisionedIsComplete'
    BY <1>n, <2>3 DEF IssueCommand, storeVars, loopVars
  <2> QED BY <1>1, <2>1, <2>2, <2>3 DEF Request
<1>2. CASE NextForState
  <2>1. UNCHANGED <<store, tasks>> /\ batch' \subseteq {store[id] : id \in DOMAIN store}
    BY <1>2 DEF NextForState, Candidates
  <2> QED BY <1>n, <2>1
<1>3. CASE Lease
  BY <1>3, <1>n DEF Lease
<1>4. ASSUME NEW tp \in batch, Process(tp) PROVE DeprovisionedIsComplete'
  BY <1>4, ProcessReleased
<1>5. CASE Dequeue
  BY <1>5, <1>n DEF Dequeue, storeVars
<1>6. CASE commands # <<>> /\ RunCommand(Head(commands))
  BY <1>6, RunCommandReleased
<1>7. CASE commands # <<>> /\ CommandFails(Head(commands))
  <2>1. UNCHANGED <<store, tasks>> /\ batch' \subseteq batch
    BY <1>7 DEF CommandFails, Aborted, storeVars
  <2> QED BY <1>n, <2>1
<1>8. ASSUME NEW t \in tasks, Callback(t) PROVE DeprovisionedIsComplete'
  BY <1>8, CallbackReleased
<1>9. CASE UNCHANGED vars
  BY <1>9, <1>n DEF vars
<1> QED BY <1>1, <1>2, <1>3, <1>4, <1>5, <1>6, <1>7, <1>8, <1>9 DEF Next, Loop

(* In a deployment whose provisioners do not report provisioning results by *)
(* commands, no copy of a process is past DEPROVISIONING with a resource    *)
(* that was not deprovisioned: handleDeprovisionResult checks it on the     *)
(* copy it saves, and a provisioning callback never meets such a process.   *)
THEOREM DeprovisioningCorrect ==
  ASSUME NoLateProvisioning
  PROVE  Spec => []DeprovisionedIsComplete
<1>1. Init => DeprovisionedIsComplete
  BY DEF Init, DeprovisionedIsComplete, Records
<1>2. IndInv /\ ExclusionInv /\ DeprovisionedIsComplete /\ [Next]_vars
        => DeprovisionedIsComplete'
  BY NextReleased, InvIsIndInv
<1> QED BY <1>1, <1>2, ExclusionHolds, IndInvHolds, PTL DEF Spec
=============================================================================
