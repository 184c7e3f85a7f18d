---------------------------- MODULE ChainSyncProofs ----------------------------
(***************************************************************************)
(* Proofs about ChainSync, for every number of nodes, peers, batches and   *)
(* crashes: its types, and that no node's chain has a gap.                 *)
(***************************************************************************)
EXTENDS ChainSync, SequenceTheorems, TLAPS

USE DEF Genesis, Unknown

\* A stuttering step keeps the types.
LEMMA UnchangedTypes ==
  ASSUME TypeOK, UNCHANGED vars
  PROVE  TypeOK'
  BY DEF TypeOK, vars, disk, IsSaving

\* What SetTask leaves: the task has the new record, all others keep theirs.
LEMMA TaskSet ==
  ASSUME NEW n \in Nodes, NEW t \in Tasks, NEW s \in Task,
         sync \in [Nodes -> [Tasks -> Task]], SetTask(n, t, s)
  PROVE  /\ sync' \in [Nodes -> [Tasks -> Task]]
         /\ sync'[n][t] = s
         /\ \A m \in Nodes, u \in Tasks : m # n \/ u # t => sync'[m][u] = sync[m][u]
  <1> DEFINE row == [sync[n] EXCEPT ![t] = s]
  <1>1. sync' = [sync EXCEPT ![n] = row]
    BY DEF SetTask
  <1>2. row \in [Tasks -> Task]
    OBVIOUS
  <1> HIDE DEF Task
  <1> QED BY <1>1, <1>2

\* What WriteBlock leaves, in the same form.
LEMMA SaveSet ==
  ASSUME NEW n \in Nodes, NEW a \in Actors, NEW b \in Hash,
         saving \in [Nodes -> [Actors -> Save]], WriteBlock(n, a, b)
  PROVE  /\ saving' \in [Nodes -> [Actors -> Save]]
         /\ saving'[n][a] = [block |-> b, put |-> "block"]
         /\ \A m \in Nodes, c \in Actors : m # n \/ c # a => saving'[m][c] = saving[m][c]
  <1> DEFINE row == [saving[n] EXCEPT ![a] = [block |-> b, put |-> "block"]]
  <1>1. saving' = [saving EXCEPT ![n] = row]
    BY DEF WriteBlock
  <1>2. row \in [Actors -> Save]
    BY DEF Save
  <1> QED BY <1>1, <1>2

\* The records the tasks start from.
LEMMA RecordTypes ==
  /\ NoSave \in Save
  /\ Stopped \in Task /\ Stopped.got = {}
  /\ \A s \in Task : Leave(s) \in Task /\ Leave(s).got = {}
<1>1. 0 \in 0..MaxHeight /\ 0 \in Hash
  BY BoundsAssumption DEF Hash
<1> QED BY <1>1 DEF NoSave, Save, Stopped, Task, Leave

\* The records a task turns into when it asks a peer, and when it has an answer.
LEMMA TaskUpdates ==
  ASSUME NEW s \in Task
  PROVE  /\ \A p : Without(s, p) \in Task /\ Without(s, p).got = s.got
         /\ \A p \in Nodes : latestHeight[p] \in 0..MaxHeight =>
              Pulling(s, p) \in Task /\ Pulling(s, p).got = s.got
         /\ \A got \in SUBSET Hash :
              Importing(s, got) \in Task /\ Importing(s, got).got = got
<1>1. \A p : Without(s, p) \in Task /\ Without(s, p).got = s.got
  BY DEF Without, Task
<1>2. ASSUME NEW p \in Nodes, latestHeight[p] \in 0..MaxHeight
      PROVE  Pulling(s, p) \in Task /\ Pulling(s, p).got = s.got
  <2>1. {p} \in SUBSET Nodes /\ s.base \in 0..MaxHeight
    BY DEF Task
  <2> DEFINE w == Without(s, p)
  <2>2. w \in Task /\ w.got = s.got
    BY <1>1
  <2> HIDE DEF w
  <2>3. Pulling(s, p) = [w EXCEPT !.at = "pull", !.peer = {p}, !.goal = latestHeight[p],
                                  !.current = s.base, !.last = s.base]
    BY DEF Pulling, w
  <2> QED BY <1>2, <2>1, <2>2, <2>3 DEF Task
<1>3. ASSUME NEW got \in SUBSET Hash
      PROVE  Importing(s, got) \in Task /\ Importing(s, got).got = got
  BY DEF Importing, Task
<1> QED BY <1>1, <1>2, <1>3

\* What a peer answers with has been made.
LEMMA AnswerTypes ==
  ASSUME TypeOK, NEW p \in Nodes, NEW from
  PROVE  Answer(p, from) \in SUBSET Hash /\ Answer(p, from) \subseteq DOMAIN made
<1>1. \A h \in Heights : blocks[p][h] \in 0..Len(made)
  BY DEF TypeOK
<1>2. Len(made) \in Nat /\ DOMAIN made = 1..Len(made)
  BY LenProperties DEF TypeOK
<1>3. \A b \in Answer(p, from) : b \in 0..Len(made) /\ b # 0
  BY <1>1 DEF Answer
<1> QED BY <1>2, <1>3 DEF Hash

\* A step that moves one import task and nothing else keeps the types.
LEMMA TaskStepTypes ==
  ASSUME TypeOK, NEW n \in Nodes, NEW t \in Tasks, NEW s \in Task, SetTask(n, t, s),
         s.got \subseteq DOMAIN made,
         apart' \in [Nodes -> BOOLEAN],
         UNCHANGED <<made, disk, ran, taken, up, saving, crashes>>,
         tip' \in [Nodes -> [height : 0..MaxHeight, hash : 0..Len(made)]]
  PROVE  TypeOK'
<1> USE DEF TypeOK
<1>1. /\ sync' \in [Nodes -> [Tasks -> Task]]
      /\ sync'[n][t] = s
      /\ \A m \in Nodes, u \in Tasks : m # n \/ u # t => sync'[m][u] = sync[m][u]
  BY TaskSet, SMTT(20)
<1>2. \A m \in Nodes, u \in Tasks : sync'[m][u].got \subseteq DOMAIN made
  <2> TAKE m \in Nodes, u \in Tasks
  <2>1. CASE m = n /\ u = t
    BY <1>1, <2>1
  <2>2. CASE m # n \/ u # t
    BY <1>1, <2>2
  <2> QED BY <2>1, <2>2
<1>3. \A m \in Nodes, a \in Actors : IsSaving(m, a)' => saving'[m][a].block \in DOMAIN made'
  BY DEF IsSaving
<1> QED BY <1>1, <1>2, <1>3 DEF disk

\* A step that leaves the memory of the tasks and the saves alone keeps what they refer to,
\* whatever blocks are made.
LEMMA StillKnown ==
  ASSUME TypeOK, made' \in Seq(Block), Len(made) <= Len(made')
  PROVE  DOMAIN made \subseteq DOMAIN made' /\ 0..Len(made) \subseteq 0..Len(made')
  BY DEF TypeOK

LEMMA BuildTypes ==
  ASSUME TypeOK, NEW n \in Nodes, Build(n)
  PROVE  TypeOK'
<1> USE DEF TypeOK
<1> DEFINE new == [height |-> tip[n].height + 1, prev |-> tip[n].hash, batch |-> taken[n] + 1]
<1>1. PICK b \in 1..Len(made) + 1 :
        /\ IF b \in DOMAIN made THEN made[b] = new /\ UNCHANGED made
                                ELSE made' = Append(made, new)
        /\ tip' = [tip EXCEPT ![n] = [height |-> new.height, hash |-> b]]
        /\ WriteBlock(n, "consensus", b)
  BY Zenon DEF Build
<1>2. new \in Block /\ new.height \in 0..MaxHeight
  <2>1. tip[n].height < MaxHeight
    BY DEF Build
  <2>2. tip[n].height \in 0..MaxHeight /\ tip[n].hash \in Nat /\ taken[n] \in Nat
    <3>1. Len(made) \in Nat
      BY LenProperties
    <3>2. tip[n] \in [height : 0..MaxHeight, hash : 0..Len(made)]
      OBVIOUS
    <3> QED BY <3>1, <3>2
  <2>3. tip[n].height + 1 \in 1..MaxHeight /\ taken[n] + 1 \in Nat
    BY <2>1, <2>2, BoundsAssumption
  <2>4. 1..MaxHeight \subseteq 0..MaxHeight
    OBVIOUS
  <2> QED BY <2>2, <2>3, <2>4 DEF Block, Heights, Hash
<1> HIDE DEF new
<1>3. made' \in Seq(Block) /\ b \in DOMAIN made' /\ Len(made) <= Len(made')
  <2>1. CASE b \in DOMAIN made
    BY <1>1, <2>1
  <2>2. CASE b \notin DOMAIN made
    <3>1. made' = Append(made, new) /\ b = Len(made) + 1
      BY <1>1, <2>2
    <3> QED BY <3>1, <1>2, AppendProperties
  <2> QED BY <2>1, <2>2
<1>4. DOMAIN made \subseteq DOMAIN made' /\ 0..Len(made) \subseteq 0..Len(made')
  BY <1>3, StillKnown
<1>5. /\ saving' \in [Nodes -> [Actors -> Save]]
      /\ \A m \in Nodes, a \in Actors : IsSaving(m, a)' => saving'[m][a].block \in DOMAIN made'
  <2>1. b \in Hash
    BY LenProperties DEF Hash
  <2>2. /\ saving' \in [Nodes -> [Actors -> Save]]
        /\ saving'[n]["consensus"] = [block |-> b, put |-> "block"]
        /\ \A m \in Nodes, c \in Actors : m # n \/ c # "consensus" => saving'[m][c] = saving[m][c]
    <3>1. "consensus" \in Actors
      BY DEF Actors
    <3> QED BY <1>1, <2>1, <3>1, SaveSet
  <2>3. ASSUME NEW m \in Nodes, NEW a \in Actors, IsSaving(m, a)'
        PROVE  saving'[m][a].block \in DOMAIN made'
    <3>1. CASE m = n /\ a = "consensus"
      BY <2>2, <3>1, <1>3
    <3>2. CASE m # n \/ a # "consensus"
      BY <2>2, <2>3, <3>2, <1>4, SMTT(20) DEF IsSaving
    <3> QED BY <3>1, <3>2
  <2> QED BY <2>2, <2>3
<1>6. tip' \in [Nodes -> [height : 0..MaxHeight, hash : 0..Len(made')]]
  <2>1. tip \in [Nodes -> [height : 0..MaxHeight, hash : 0..Len(made')]]
    BY <1>4
  <2>2. [height |-> new.height, hash |-> b] \in [height : 0..MaxHeight, hash : 0..Len(made')]
    BY <1>2, <1>3, <1>4
  <2> QED BY <1>1, <2>1, <2>2
<1>7. blocks' \in [Nodes -> [Heights -> 0..Len(made')]] /\ latestHash' \in [Nodes -> 0..Len(made')]
  <2>1. UNCHANGED <<blocks, latestHash>>
    BY DEF Build, disk
  <2>2. \A m \in Nodes : blocks[m] \in [Heights -> 0..Len(made')] /\ latestHash[m] \in 0..Len(made')
    BY <1>4
  <2> QED BY <2>1, <2>2
<1>8. ran' \in [Nodes -> Seq(Nat)] /\ taken' \in [Nodes -> Nat]
  <2>1. taken[n] + 1 \in Nat /\ ran[n] \in Seq(Nat)
    OBVIOUS
  <2>2. Append(ran[n], taken[n] + 1) \in Seq(Nat)
    BY <2>1, AppendProperties
  <2>3. /\ ran' = [ran EXCEPT ![n] = Append(ran[n], taken[n] + 1)]
        /\ taken' = [taken EXCEPT ![n] = taken[n] + 1]
    BY DEF Build
  <2> QED BY <2>1, <2>2, <2>3
<1>9. apart' \in [Nodes -> BOOLEAN]
  BY DEF Build, Begins
<1>10. \A m \in Nodes, t \in Tasks : sync'[m][t].got \subseteq DOMAIN made'
  BY <1>4 DEF Build
<1> QED BY <1>3, <1>5, <1>6, <1>7, <1>8, <1>9, <1>10 DEF Build, disk

LEMMA PutTypes ==
  ASSUME TypeOK, NEW n \in Nodes, NEW a \in Actors, Put(n, a)
  PROVE  TypeOK'
<1> USE DEF TypeOK
<1> DEFINE b == saving[n][a].block
<1>1. saving[n][a] \in Save /\ saving[n][a].put # "none"
  BY DEF Put, PutBlock, PutHeight, PutHash, Save
<1>2. b \in DOMAIN made /\ b \in 0..Len(made) /\ made[b].height \in Heights
  <2>1. b \in DOMAIN made
    BY <1>1 DEF IsSaving, NoSave
  <2>2. b \in 1..Len(made) /\ Len(made) \in Nat
    BY <2>1, LenProperties
  <2>3. made[b] \in Block
    BY <2>2, ElementOfSeq
  <2> QED BY <2>1, <2>2, <2>3, SMTT(20) DEF Block
<1>3. made[b].height \in 0..MaxHeight
  BY <1>2 DEF Heights
<1> HIDE DEF b
<1>4. \A m \in Nodes, c \in Actors : saving[m][c] \in Save
  OBVIOUS
<1>5. /\ saving' \in [Nodes -> [Actors -> Save]]
      /\ \A m \in Nodes, c \in Actors : IsSaving(m, c)' => IsSaving(m, c) /\ saving'[m][c].block = saving[m][c].block
  <2>1. PICK r \in Save : /\ saving' = [saving EXCEPT ![n] = [saving[n] EXCEPT ![a] = r]]
                          /\ r = NoSave \/ r.block = b
    <3>1. CASE saving' = [saving EXCEPT ![n][a].put = "height"]
      <4>1. [saving[n][a] EXCEPT !.put = "height"] \in Save
        BY <1>1 DEF Save
      <4> QED BY <4>1, <1>1, <3>1 DEF b, Save
    <3>2. CASE saving' = [saving EXCEPT ![n][a].put = "hash"]
      <4>1. [saving[n][a] EXCEPT !.put = "hash"] \in Save
        BY <1>1 DEF Save
      <4> QED BY <4>1, <1>1, <3>2 DEF b, Save
    <3>3. CASE saving' = [saving EXCEPT ![n][a] = NoSave]
      BY <3>3, RecordTypes
    <3> QED BY <3>1, <3>2, <3>3 DEF Put, PutBlock, PutHeight, PutHash
  <2>2. IsSaving(n, a)
    BY <1>1 DEF IsSaving, NoSave
  <2>3. saving' \in [Nodes -> [Actors -> Save]]
    BY <2>1
  <2>4. ASSUME NEW m \in Nodes, NEW c \in Actors, IsSaving(m, c)'
        PROVE  IsSaving(m, c) /\ saving'[m][c].block = saving[m][c].block
    <3>1. CASE m = n /\ c = a
      <4>1. saving'[n][a] = r
        BY <2>1
      <4> QED BY <4>1, <3>1, <2>1, <2>2, <2>4 DEF IsSaving, b
    <3>2. CASE m # n \/ c # a
      <4>1. saving'[m][c] = saving[m][c]
        BY <2>1, <3>2
      <4> QED BY <4>1, <2>4 DEF IsSaving
    <3> QED BY <3>1, <3>2
  <2> QED BY <2>3, <2>4
<1>6. made' = made /\ UNCHANGED <<ran, taken, up, tip, apart, crashes>>
  BY DEF Put, PutBlock, PutHeight, PutHash
<1>7. \A m \in Nodes, c \in Actors : IsSaving(m, c)' => saving'[m][c].block \in DOMAIN made'
  BY <1>5, <1>6
<1>8. CASE PutBlock(n, a)
  <2>1. blocks' \in [Nodes -> [Heights -> 0..Len(made)]]
    <3>1. blocks' = [blocks EXCEPT ![n][made[b].height] = b]
      BY <1>8 DEF PutBlock, b
    <3> QED BY <3>1, <1>2
  <2> QED BY <1>5, <1>6, <1>7, <1>8, <2>1 DEF PutBlock
<1>9. CASE PutHeight(n, a)
  <2>1. latestHeight' \in [Nodes -> 0..MaxHeight]
    <3>1. latestHeight' = [latestHeight EXCEPT ![n] = made[b].height]
      BY <1>9 DEF PutHeight, b
    <3> QED BY <3>1, <1>3
  <2> QED BY <1>5, <1>6, <1>7, <1>9, <2>1 DEF PutHeight
<1>10. CASE PutHash(n, a)
  <2>1. latestHash' \in [Nodes -> 0..Len(made)]
    <3>1. latestHash' = [latestHash EXCEPT ![n] = b]
      BY <1>10 DEF PutHash, b
    <3> QED BY <3>1, <1>2
  <2>2. /\ sync' \in [Nodes -> [Tasks -> Task]]
        /\ \A m \in Nodes, t \in Tasks : sync'[m][t].got = sync[m][t].got
    <3>1. CASE a \in Tasks
      <4> DEFINE s == [sync[n][a] EXCEPT !.last = made[b].height]
      <4>1. sync' = [sync EXCEPT ![n][a].last = made[b].height]
        BY <1>10, <3>1 DEF PutHash, b
      <4>2. sync[n][a] \in Task
        BY <3>1
      <4>3. s \in Task /\ s.got = sync[n][a].got
        BY <4>2, <1>3 DEF Task
      <4>4. SetTask(n, a, s)
        BY <4>1, <3>1 DEF SetTask
      <4> HIDE DEF s
      <4>5. /\ sync' \in [Nodes -> [Tasks -> Task]]
            /\ sync'[n][a] = s
            /\ \A m \in Nodes, u \in Tasks : m # n \/ u # a => sync'[m][u] = sync[m][u]
        BY <4>3, <4>4, <3>1, TaskSet
      <4> QED BY <4>3, <4>5
    <3>2. CASE a \notin Tasks
      BY <1>10, <3>2 DEF PutHash
    <3> QED BY <3>1, <3>2
  <2> QED BY <1>5, <1>6, <1>7, <1>10, <2>1, <2>2 DEF PutHash
<1> QED BY <1>8, <1>9, <1>10 DEF Put

\* The steps of a task that only asks peers.
LEMMA AskTypes ==
  ASSUME TypeOK, NEW n \in Nodes, NEW t \in Tasks,
         StartSync(n, t) \/ AskHeight(n, t) \/ Pull(n, t) \/ LosePeer(n, t) \/ TaskDies(n, t)
           \/ EndAnswer(n, t) \/ Reload(n, t)
  PROVE  TypeOK'
<1> DEFINE s == sync[n][t]
<1>1. /\ s \in Task /\ s.todo \in SUBSET Nodes /\ s.peer \in SUBSET Nodes
      /\ s.base \in 0..MaxHeight /\ s.got \subseteq DOMAIN made
  BY DEF TypeOK, Task
<1>2. /\ apart \in [Nodes -> BOOLEAN] /\ latestHeight \in [Nodes -> 0..MaxHeight]
      /\ tip \in [Nodes -> [height : 0..MaxHeight, hash : 0..Len(made)]]
      /\ latestHash \in [Nodes -> 0..Len(made)]
  BY DEF TypeOK
<1>3. /\ Leave(s) \in Task /\ Leave(s).got = {}
      /\ Stopped \in Task /\ Stopped.got = {}
  BY <1>1, RecordTypes
<1>4. CASE StartSync(n, t)
  <2> DEFINE r == [Stopped EXCEPT !.at = "peers", !.base = latestHeight[n],
                                  !.final = latestHeight[n], !.todo = PeersOf[n]]
  <2>1. r \in Task /\ r.got = {}
    BY <1>2, <1>3, NodesAssumption DEF Task
  <2>2. /\ SetTask(n, t, r) /\ apart' \in [Nodes -> BOOLEAN]
        /\ UNCHANGED <<made, disk, ran, taken, up, tip, saving, crashes>>
    BY <1>2, <1>4 DEF StartSync, Begins
  <2> HIDE DEF r
  <2> QED BY <2>1, <2>2, <1>2, TaskStepTypes
<1>5. CASE AskHeight(n, t)
  <2>1. PICK p \in s.todo : SetTask(n, t, Pulling(s, p)) \/ SetTask(n, t, Without(s, p))
    BY <1>5 DEF AskHeight
  <2>2. p \in Nodes /\ latestHeight[p] \in 0..MaxHeight
    BY <1>1, <1>2
  <2> HIDE DEF s
  <2>3. PICK r \in Task : SetTask(n, t, r) /\ r.got \subseteq DOMAIN made
    BY <1>1, <2>1, <2>2, TaskUpdates
  <2> QED BY <2>3, <1>2, <1>5, TaskStepTypes DEF AskHeight
<1>6. CASE Pull(n, t)
  <2>1. PICK p \in s.peer :
          \/ SetTask(n, t, Leave(s))
          \/ SetTask(n, t, Importing(s, Answer(p, s.current)))
    BY <1>6 DEF Pull
  <2>2. p \in Nodes
    BY <1>1
  <2> HIDE DEF s
  <2>3. PICK r \in Task : SetTask(n, t, r) /\ r.got \subseteq DOMAIN made
    BY <1>1, <1>3, <2>1, <2>2, TaskUpdates, AnswerTypes
  <2> QED BY <2>3, <1>2, <1>6, TaskStepTypes DEF Pull
<1>7. CASE LosePeer(n, t)
  <2>1. (\E p : SetTask(n, t, Without(s, p))) \/ SetTask(n, t, Leave(s))
    BY <1>7 DEF LosePeer
  <2> HIDE DEF s
  <2>2. PICK r \in Task : SetTask(n, t, r) /\ r.got \subseteq DOMAIN made
    BY <1>1, <1>3, <2>1, TaskUpdates
  <2> QED BY <2>2, <1>2, <1>7, TaskStepTypes DEF LosePeer
<1>10. CASE TaskDies(n, t)
  <2> DEFINE r == [Stopped EXCEPT !.at = "done"]
  <2>1. r \in Task /\ r.got = {}
    BY <1>3 DEF Task
  <2>2. /\ SetTask(n, t, r) /\ apart' \in [Nodes -> BOOLEAN]
        /\ UNCHANGED <<made, disk, ran, taken, up, tip, saving, crashes>>
    <3>1. (apart[n] /\ latestHeight[n] = tip[n].height) \in BOOLEAN
      BY <1>2
    <3> QED BY <1>2, <1>10, <3>1 DEF TaskDies
  <2> HIDE DEF r
  <2> QED BY <2>1, <2>2, <1>2, TaskStepTypes
<1>8. CASE EndAnswer(n, t)
  <2> DEFINE more == [s EXCEPT !.at = "pull", !.current = s.last, !.final = s.last]
  <2>1. s.last \in 0..MaxHeight /\ s.current \in 0..MaxHeight /\ s.goal \in 0..MaxHeight
    BY <1>1 DEF Task
  <2>2. more \in Task /\ more.got = s.got
    BY <1>1, <2>1 DEF Task
  <2>3. Leave(more) \in Task /\ Leave(more).got = {}
    BY <2>2, RecordTypes
  <2>4. SetTask(n, t, Leave(s)) \/ SetTask(n, t, more) \/ SetTask(n, t, Leave(more))
    BY <1>8, <2>1 DEF EndAnswer
  <2> HIDE DEF s, more
  <2>5. PICK r \in Task : SetTask(n, t, r) /\ r.got \subseteq DOMAIN made
    BY <1>1, <1>3, <2>2, <2>3, <2>4
  <2> QED BY <2>5, <1>2, <1>8, TaskStepTypes DEF EndAnswer
<1>9. CASE Reload(n, t)
  <2> DEFINE r == [Stopped EXCEPT !.at = IF t = "initial" THEN "done" ELSE "idle"]
  <2>1. r \in Task /\ r.got = {}
    BY <1>3 DEF Task
  <2>2. SetTask(n, t, r)
    BY <1>9 DEF Reload
  <2>3. tip' \in [Nodes -> [height : 0..MaxHeight, hash : 0..Len(made)]]
    <3>1. [height |-> latestHeight[n], hash |-> latestHash[n]] \in [height : 0..MaxHeight, hash : 0..Len(made)]
      BY <1>2
    <3> QED BY <1>2, <1>9, <3>1 DEF Reload
  <2> HIDE DEF r
  <2> QED BY <2>1, <2>2, <2>3, <1>2, <1>9, TaskStepTypes DEF Reload
<1> QED BY <1>4, <1>5, <1>6, <1>7, <1>8, <1>9, <1>10

LEMMA ImportTypes ==
  ASSUME TypeOK, NEW n \in Nodes, NEW t \in Tasks, Import(n, t)
  PROVE  TypeOK'
<1> USE DEF TypeOK
<1> DEFINE s == sync[n][t]
<1>1. s \in Task /\ s.got \subseteq DOMAIN made
  OBVIOUS
<1>2. PICK b \in s.got :
        \/ /\ ran' = [ran EXCEPT ![n] = Append(@, made[b].batch)]
           /\ WriteBlock(n, t, b)
           /\ SetTask(n, t, [s EXCEPT !.got = @ \ {b}])
        \/ /\ SetTask(n, t, [s EXCEPT !.got = {}])
           /\ UNCHANGED <<ran, saving>>
  BY Zenon DEF Import
<1>3. b \in DOMAIN made /\ b \in Hash /\ made[b].batch \in Nat
  <2>1. b \in 1..Len(made) /\ Len(made) \in Nat
    BY <1>1, LenProperties
  <2>2. made[b] \in Block
    BY <2>1, ElementOfSeq
  <2> QED BY <1>1, <2>1, <2>2, SMTT(20) DEF Block, Hash
<1>4. /\ \A r \in SUBSET s.got : [s EXCEPT !.got = r] \in Task /\ [s EXCEPT !.got = r].got = r
      /\ s.got \ {b} \in SUBSET s.got /\ {} \in SUBSET s.got
  <2> HIDE DEF s
  <2>1. ASSUME NEW q \in SUBSET Hash
        PROVE  [s EXCEPT !.got = q] \in Task /\ [s EXCEPT !.got = q].got = q
    BY <1>1 DEF Task
  <2>2. s.got \in SUBSET Hash
    BY <1>1 DEF Task
  <2> QED BY <2>1, <2>2
<1> HIDE DEF s
<1>5. PICK r \in Task : SetTask(n, t, r) /\ r.got \subseteq DOMAIN made
  <2>1. PICK q \in SUBSET s.got : SetTask(n, t, [s EXCEPT !.got = q])
    <3>1. CASE SetTask(n, t, [s EXCEPT !.got = s.got \ {b}])
      BY <1>4, <3>1
    <3>2. CASE SetTask(n, t, [s EXCEPT !.got = {}])
      BY <1>4, <3>2
    <3> QED BY <1>2, <3>1, <3>2
  <2> QED BY <1>1, <1>4, <2>1, ZenonT(40)
<1>6. /\ sync' \in [Nodes -> [Tasks -> Task]]
      /\ sync'[n][t] = r
      /\ \A m \in Nodes, u \in Tasks : m # n \/ u # t => sync'[m][u] = sync[m][u]
  BY <1>5, TaskSet
<1>7. \A m \in Nodes, u \in Tasks : sync'[m][u].got \subseteq DOMAIN made
  <2> TAKE m \in Nodes, u \in Tasks
  <2>1. CASE m = n /\ u = t
    BY <1>5, <1>6, <2>1
  <2>2. CASE m # n \/ u # t
    BY <1>6, <2>2
  <2> QED BY <2>1, <2>2
<1>8. ran' \in [Nodes -> Seq(Nat)]
  <2>1. Append(ran[n], made[b].batch) \in Seq(Nat)
    <3>1. ran[n] \in Seq(Nat)
      OBVIOUS
    <3> QED BY <1>3, <3>1, AppendProperties
  <2>2. ran' = ran \/ ran' = [ran EXCEPT ![n] = Append(ran[n], made[b].batch)]
    BY <1>2
  <2>3. ran \in [Nodes -> Seq(Nat)]
    OBVIOUS
  <2> QED BY <2>1, <2>2, <2>3
<1>9. /\ saving' \in [Nodes -> [Actors -> Save]]
      /\ \A m \in Nodes, a \in Actors : IsSaving(m, a)' => saving'[m][a].block \in DOMAIN made
  <2>1. CASE WriteBlock(n, t, b)
    <3>1. t \in Actors
      BY DEF Actors
    <3>2. /\ saving' \in [Nodes -> [Actors -> Save]]
          /\ saving'[n][t] = [block |-> b, put |-> "block"]
          /\ \A m \in Nodes, c \in Actors : m # n \/ c # t => saving'[m][c] = saving[m][c]
      BY <1>3, <2>1, <3>1, SaveSet
    <3>3. ASSUME NEW m \in Nodes, NEW a \in Actors, IsSaving(m, a)'
          PROVE  saving'[m][a].block \in DOMAIN made
      <4>1. CASE m = n /\ a = t
        BY <3>2, <4>1, <1>3
      <4>2. CASE m # n \/ a # t
        BY <3>2, <3>3, <4>2 DEF IsSaving
      <4> QED BY <4>1, <4>2
    <3> QED BY <3>2, <3>3
  <2>2. CASE saving' = saving
    BY <2>2 DEF IsSaving
  <2> QED BY <1>2, <2>1, <2>2
<1> QED BY <1>6, <1>7, <1>8, <1>9 DEF Import, disk

LEMMA CrashTypes ==
  ASSUME TypeOK, NEW n \in Nodes, Crash(n)
  PROVE  TypeOK'
<1> USE DEF TypeOK
<1>1. tip' \in [Nodes -> [height : 0..MaxHeight, hash : 0..Len(made)]]
  <2>1. 0 \in 0..MaxHeight /\ 0 \in 0..Len(made)
    BY BoundsAssumption, LenProperties
  <2> QED BY <2>1 DEF Crash
<1>2. /\ saving' \in [Nodes -> [Actors -> Save]]
      /\ \A m \in Nodes, a \in Actors : IsSaving(m, a)' => saving'[m][a].block \in DOMAIN made
  BY RecordTypes DEF Crash, IsSaving
<1>3. /\ sync' \in [Nodes -> [Tasks -> Task]]
      /\ \A m \in Nodes, u \in Tasks : sync'[m][u].got \subseteq DOMAIN made
  BY RecordTypes DEF Crash
<1>4. crashes' \in 0..MaxCrashes /\ apart' \in [Nodes -> BOOLEAN] /\ up' \in [Nodes -> BOOLEAN]
  BY BoundsAssumption DEF Crash
<1> QED BY <1>1, <1>2, <1>3, <1>4 DEF Crash, disk

LEMMA RestartTypes ==
  ASSUME TypeOK, NEW n \in Nodes, Restart(n)
  PROVE  TypeOK'
<1> USE DEF TypeOK
<1>1. tip' \in [Nodes -> [height : 0..MaxHeight, hash : 0..Len(made)]]
  BY DEF Restart
<1>2. up' \in [Nodes -> BOOLEAN]
  BY DEF Restart
<1>3. \A m \in Nodes, a \in Actors : IsSaving(m, a)' => saving'[m][a].block \in DOMAIN made
  BY DEF Restart, IsSaving
<1> QED BY <1>1, <1>2, <1>3 DEF Restart, disk

\* Every variable of every node keeps its type, and no hash dangles.
THEOREM TypeCorrect == Spec => []TypeOK
<1>1. Init => TypeOK
  <2> SUFFICES ASSUME Init PROVE TypeOK
    OBVIOUS
  <2>1. made = <<>> /\ made \in Seq(Block) /\ Len(made) = 0 /\ <<>> \in Seq(Nat)
    BY EmptySeq DEF Init
  <2>2. 0 \in 0..MaxHeight /\ 0 \in 0..MaxCrashes
    BY BoundsAssumption
  <2> QED BY <2>1, <2>2, RecordTypes DEF Init, TypeOK, IsSaving
<1>2. TypeOK /\ [Next]_vars => TypeOK'
  <2> SUFFICES ASSUME TypeOK, [Next]_vars PROVE TypeOK'
    OBVIOUS
  <2>1. CASE UNCHANGED vars
    BY <2>1, UnchangedTypes
  <2>2. ASSUME NEW n \in Nodes, Build(n) PROVE TypeOK'
    BY <2>2, BuildTypes
  <2>3. ASSUME NEW n \in Nodes, Crash(n) PROVE TypeOK'
    BY <2>3, CrashTypes
  <2>4. ASSUME NEW n \in Nodes, Restart(n) PROVE TypeOK'
    BY <2>4, RestartTypes
  <2>5. ASSUME NEW n \in Nodes, NEW a \in Actors, Put(n, a) PROVE TypeOK'
    BY <2>5, PutTypes
  <2>6. ASSUME NEW n \in Nodes, NEW t \in Tasks, Import(n, t) PROVE TypeOK'
    BY <2>6, ImportTypes
  <2>7. ASSUME NEW n \in Nodes, NEW t \in Tasks,
               StartSync(n, t) \/ AskHeight(n, t) \/ Pull(n, t) \/ LosePeer(n, t) \/ TaskDies(n, t)
                 \/ EndAnswer(n, t) \/ Reload(n, t)
        PROVE  TypeOK'
    BY <2>7, AskTypes
  <2> QED BY <2>1, <2>2, <2>3, <2>4, <2>5, <2>6, <2>7 DEF Next
<1> QED BY <1>1, <1>2, PTL DEF Spec

-----------------------------------------------------------------------------
(* No gaps.  A block is only put above one that is held, by the consensus      *)
(* because its tip is held, by an import because it looks; and once put it is  *)
(* overwritten, never removed.                                                 *)

Held(n, h) == h = 0 \/ blocks[n][h] # Genesis

\* The heights held have none missing below them.
BelowHeld ==
  \A n \in Nodes, h \in Heights : blocks[n][h] # Genesis =>
    \A g \in Heights : g <= h => blocks[n][g] # Genesis

LatestHeld == \A n \in Nodes : Held(n, latestHeight[n])

\* The block at the tip in memory is held, or is the one the consensus is about to put.
TipHeld ==
  \A n \in Nodes :
    \/ Held(n, tip[n].height)
    \/ /\ saving[n]["consensus"].put = "block"
       /\ made[saving[n]["consensus"].block].height = tip[n].height

\* What an actor is saving goes on top of a block that is held.
SaveHeld ==
  \A n \in Nodes, a \in Actors :
    /\ saving[n][a].put = "block" => Held(n, made[saving[n][a].block].height - 1)
    /\ saving[n][a].put \in {"height", "hash"} => Held(n, made[saving[n][a].block].height)

GapInv == BelowHeld /\ LatestHeld /\ TipHeld /\ SaveHeld

LEMMA GapInvSuffices == TypeOK /\ GapInv => NoGaps
<1> SUFFICES ASSUME TypeOK, GapInv, NEW n \in Nodes, NEW h \in 1..latestHeight[n]
             PROVE  blocks[n][h] # Genesis
  BY DEF NoGaps
<1>1. latestHeight[n] \in 0..MaxHeight
  BY DEF TypeOK
<1>2. latestHeight[n] \in Heights /\ h \in Heights /\ h <= latestHeight[n]
  BY <1>1, BoundsAssumption DEF Heights
<1>3. blocks[n][latestHeight[n]] # Genesis
  BY <1>2 DEF GapInv, LatestHeld, Held, Heights
<1> QED BY <1>2, <1>3 DEF GapInv, BelowHeld

\* A step that changes neither the blocks, nor the height on disk, nor the tip and the
\* saves but for forgetting them, keeps the invariant.
LEMMA GapInvKept ==
  ASSUME TypeOK, GapInv, UNCHANGED <<made, blocks, latestHeight>>,
         \A n \in Nodes : tip'[n] = tip[n] \/ Held(n, tip'[n].height),
         \A n \in Nodes, a \in Actors : saving'[n][a] = saving[n][a] \/ saving'[n][a] = NoSave,
         \A n \in Nodes : saving'[n]["consensus"] = saving[n]["consensus"]
                            \/ Held(n, tip'[n].height)
  PROVE  GapInv'
<1>1. BelowHeld' /\ LatestHeld'
  BY DEF GapInv, BelowHeld, LatestHeld, Held
<1>2. TipHeld'
  BY DEF GapInv, TipHeld, Held
<1>3. SaveHeld'
  BY DEF GapInv, SaveHeld, Held, NoSave
<1> QED BY <1>1, <1>2, <1>3 DEF GapInv

\* What an actor is about to put is a block that has been made, of some height.
LEMMA SavedBlock ==
  ASSUME TypeOK, NEW n \in Nodes, NEW a \in Actors, saving[n][a].put # "none"
  PROVE  /\ saving[n][a].block \in DOMAIN made
         /\ made[saving[n][a].block].height \in Heights
         /\ saving[n][a].block # Genesis
<1> DEFINE b == saving[n][a].block
<1>1. b \in DOMAIN made
  BY DEF TypeOK, IsSaving, NoSave
<1>2. b \in 1..Len(made) /\ Len(made) \in Nat
  BY <1>1, LenProperties DEF TypeOK
<1>3. made[b] \in Block
  BY <1>2, ElementOfSeq DEF TypeOK
<1> QED BY <1>1, <1>2, <1>3 DEF Block

LEMMA GapPutBlock ==
  ASSUME TypeOK, GapInv, NEW n \in Nodes, NEW a \in Actors, PutBlock(n, a)
  PROVE  GapInv'
<1> DEFINE b == saving[n][a].block
           k == made[b].height
<1>1. b # Genesis /\ k \in Heights
  BY SavedBlock DEF PutBlock
<1>2. blocks' = [blocks EXCEPT ![n][k] = b]
  BY DEF PutBlock
<1>3. /\ \A m \in Nodes, h \in Heights : blocks[m][h] # Genesis => blocks'[m][h] # Genesis
      /\ \A m \in Nodes, h \in Heights : m # n \/ h # k => blocks'[m][h] = blocks[m][h]
      /\ blocks'[n][k] = b
  BY <1>1, <1>2 DEF TypeOK
<1>4. Held(n, k - 1)
  BY DEF GapInv, SaveHeld, PutBlock
<1>5. \A m \in Nodes, h \in Heights \cup {0} : Held(m, h) => Held(m, h)'
  BY <1>3 DEF Held
<1>6. UNCHANGED <<made, latestHeight, tip>> /\ saving' = [saving EXCEPT ![n][a].put = "height"]
  BY DEF PutBlock
<1>7. /\ \A m \in Nodes, c \in Actors : m # n \/ c # a => saving'[m][c] = saving[m][c]
      /\ saving'[n][a].put = "height" /\ saving'[n][a].block = b
  BY <1>6 DEF TypeOK, Save
<1> HIDE DEF k
<1>8. saving'[n][a].block \in DOMAIN made /\ made[saving'[n][a].block].height = k
  BY <1>7, SavedBlock DEF k, PutBlock
<1> HIDE DEF b
<1>9. BelowHeld'
  <2> SUFFICES ASSUME NEW m \in Nodes, NEW h \in Heights, blocks'[m][h] # Genesis,
                      NEW g \in Heights, g <= h
               PROVE  blocks'[m][g] # Genesis
    BY DEF BelowHeld
  <2>1. CASE m = n /\ h = k /\ g # k
    <3>1. k - 1 \in Heights /\ g <= k - 1 /\ blocks[n][k - 1] # Genesis
      BY <1>1, <1>4, <2>1, BoundsAssumption DEF Heights, Held
    <3>2. blocks[n][g] # Genesis
      BY <3>1 DEF GapInv, BelowHeld
    <3> QED BY <1>3, <2>1, <3>2
  <2>2. CASE m = n /\ h = k /\ g = k
    BY <2>2
  <2>3. CASE m # n \/ h # k
    BY <1>3, <2>3 DEF GapInv, BelowHeld
  <2> QED BY <2>1, <2>2, <2>3
<1>10. LatestHeld'
  <2>1. \A m \in Nodes : latestHeight[m] \in Heights \cup {0}
    BY DEF TypeOK, Heights
  <2> QED BY <1>5, <1>6, <2>1 DEF GapInv, LatestHeld, Held
<1>11. TipHeld'
  <2> SUFFICES ASSUME NEW m \in Nodes
               PROVE  \/ Held(m, tip[m].height)'
                      \/ /\ saving'[m]["consensus"].put = "block"
                         /\ made'[saving'[m]["consensus"].block].height = tip'[m].height
    BY DEF TipHeld
  <2>1. tip[m].height \in Heights \cup {0}
    BY DEF TypeOK, Heights
  <2>2. CASE Held(m, tip[m].height)
    BY <1>5, <1>6, <2>1, <2>2 DEF Held
  <2>3. CASE ~Held(m, tip[m].height) /\ m = n /\ a = "consensus"
    <3>1. k = tip[m].height
      BY <2>3 DEF GapInv, TipHeld, k, b
    <3> QED BY <1>1, <1>3, <1>6, <2>3, <3>1 DEF Held
  <2>4. CASE ~Held(m, tip[m].height) /\ (m # n \/ a # "consensus")
    <3>1. "consensus" \in Actors
      BY DEF Actors
    <3> QED BY <1>6, <1>7, <2>4, <3>1 DEF GapInv, TipHeld
  <2> QED BY <2>2, <2>3, <2>4
<1>12. SaveHeld'
  <2> DEFINE On(m, c) ==
        /\ saving[m][c].put = "block" => Held(m, made[saving[m][c].block].height - 1)
        /\ saving[m][c].put \in {"height", "hash"} => Held(m, made[saving[m][c].block].height)
  <2> SUFFICES ASSUME NEW m \in Nodes, NEW c \in Actors PROVE On(m, c)'
    BY DEF SaveHeld
  <2>1. CASE m = n /\ c = a
    BY <1>1, <1>3, <1>6, <1>7, <1>8, <2>1 DEF Held
  <2>2. CASE m # n \/ c # a
    <3>1. saving'[m][c] = saving[m][c] /\ made' = made
      BY <1>6, <1>7, <2>2
    <3> DEFINE h == made[saving[m][c].block].height
    <3>2. ASSUME saving[m][c].put # "none"
          PROVE  h \in Heights \cup {0} /\ h - 1 \in Heights \cup {0}
      BY <3>2, SavedBlock, BoundsAssumption DEF Heights
    <3>3. CASE saving[m][c].put = "block"
      <4>1. Held(m, h - 1)
        BY <3>3 DEF GapInv, SaveHeld
      <4>2. Held(m, h - 1)'
        BY <1>5, <3>1, <3>2, <3>3, <4>1 DEF Held
      <4> QED BY <3>1, <3>3, <4>2 DEF Held
    <3>4. CASE saving[m][c].put \in {"height", "hash"}
      <4>1. Held(m, h)
        BY <3>4 DEF GapInv, SaveHeld
      <4>2. Held(m, h)'
        BY <1>5, <3>1, <3>2, <3>4, <4>1 DEF Held
      <4> QED BY <3>1, <3>4, <4>2 DEF Held
    <3> QED BY <3>1, <3>3, <3>4
  <2> QED BY <2>1, <2>2
<1> QED BY <1>9, <1>10, <1>11, <1>12 DEF GapInv

LEMMA GapBuild ==
  ASSUME TypeOK, GapInv, NEW n \in Nodes, Build(n)
  PROVE  GapInv'
<1> DEFINE new == [height |-> tip[n].height + 1, prev |-> tip[n].hash, batch |-> taken[n] + 1]
<1>1. PICK b \in 1..Len(made) + 1 :
        /\ IF b \in DOMAIN made THEN made[b] = new /\ UNCHANGED made
                                ELSE made' = Append(made, new)
        /\ tip' = [tip EXCEPT ![n] = [height |-> new.height, hash |-> b]]
        /\ WriteBlock(n, "consensus", b)
  BY Zenon DEF Build
<1>2. Len(made) \in Nat /\ DOMAIN made = 1..Len(made) /\ made \in Seq(Block)
  BY LenProperties DEF TypeOK
<1>3. made'[b].height = tip[n].height + 1 /\ \A c \in DOMAIN made : made'[c] = made[c]
  <2>1. CASE b \in DOMAIN made
    BY <1>1, <2>1
  <2>2. CASE b \notin DOMAIN made
    <3>1. made' = Append(made, new) /\ b = Len(made) + 1
      BY <1>1, <1>2, <2>2
    <3>2. new \in UNION {Block, {new}} /\ made \in Seq(UNION {Block, {new}})
      BY <1>2
    <3> HIDE DEF new
    <3>3. Append(made, new)[Len(made) + 1] = new /\ \A c \in 1..Len(made) : Append(made, new)[c] = made[c]
      BY <3>2, AppendProperties
    <3>4. new.height = tip[n].height + 1
      BY DEF new
    <3> QED BY <1>2, <3>1, <3>3, <3>4
  <2> QED BY <2>1, <2>2
<1> HIDE DEF new
<1>4. /\ tip'[n].height = tip[n].height + 1
      /\ \A m \in Nodes : m # n => tip'[m] = tip[m]
  BY <1>1 DEF TypeOK, new
<1>5. b \in Hash /\ "consensus" \in Actors
  BY <1>2 DEF Hash, Actors
<1>6. /\ saving'[n]["consensus"] = [block |-> b, put |-> "block"]
      /\ \A m \in Nodes, c \in Actors : m # n \/ c # "consensus" => saving'[m][c] = saving[m][c]
  BY <1>1, <1>5, SaveSet DEF TypeOK
<1>7. saving[n]["consensus"].put = "none"
  BY DEF Build, IsSaving, NoSave
<1>8. Held(n, tip[n].height) /\ tip[n].height \in Nat
  BY <1>7, BoundsAssumption DEF GapInv, TipHeld, TypeOK
<1>9. UNCHANGED <<blocks, latestHeight>>
  BY DEF Build, disk
<1>10. BelowHeld' /\ LatestHeld'
  BY <1>9 DEF GapInv, BelowHeld, LatestHeld, Held
<1>11. TipHeld'
  <2> SUFFICES ASSUME NEW m \in Nodes
               PROVE  \/ Held(m, tip[m].height)'
                      \/ /\ saving'[m]["consensus"].put = "block"
                         /\ made'[saving'[m]["consensus"].block].height = tip'[m].height
    BY DEF TipHeld
  <2>1. CASE m = n
    BY <1>3, <1>4, <1>6, <2>1
  <2>2. CASE m # n
    <3>1. saving'[m] ["consensus"] = saving[m]["consensus"] /\ tip'[m] = tip[m]
      BY <1>4, <1>5, <1>6, <2>2
    <3>2. CASE Held(m, tip[m].height)
      BY <1>9, <3>1, <3>2 DEF Held
    <3>3. CASE ~Held(m, tip[m].height)
      <4>1. /\ saving[m]["consensus"].put = "block"
            /\ made[saving[m]["consensus"].block].height = tip[m].height
        BY <3>3 DEF GapInv, TipHeld
      <4>2. saving[m]["consensus"].block \in DOMAIN made
        BY <4>1, <1>5, SavedBlock
      <4> QED BY <1>3, <3>1, <4>1, <4>2
    <3> QED BY <3>2, <3>3
  <2> QED BY <2>1, <2>2
<1>12. SaveHeld'
  <2> DEFINE On(m, c) ==
        /\ saving[m][c].put = "block" => Held(m, made[saving[m][c].block].height - 1)
        /\ saving[m][c].put \in {"height", "hash"} => Held(m, made[saving[m][c].block].height)
  <2> SUFFICES ASSUME NEW m \in Nodes, NEW c \in Actors PROVE On(m, c)'
    BY DEF SaveHeld
  <2>1. CASE m = n /\ c = "consensus"
    <3>1. saving'[m][c].put = "block" /\ made'[saving'[m][c].block].height - 1 = tip[n].height
      BY <1>3, <1>6, <1>8, <2>1
    <3> QED BY <1>8, <1>9, <2>1, <3>1 DEF Held
  <2>2. CASE m # n \/ c # "consensus"
    <3>1. saving'[m][c] = saving[m][c] /\ On(m, c)
      BY <1>6, <2>2 DEF GapInv, SaveHeld
    <3>2. saving[m][c].put # "none" => made'[saving[m][c].block] = made[saving[m][c].block]
      BY <1>3, SavedBlock
    <3> QED BY <1>9, <3>1, <3>2 DEF Held
  <2> QED BY <2>1, <2>2
<1> QED BY <1>10, <1>11, <1>12 DEF GapInv

LEMMA GapPutHeight ==
  ASSUME TypeOK, GapInv, NEW n \in Nodes, NEW a \in Actors, PutHeight(n, a)
  PROVE  GapInv'
<1>1. /\ UNCHANGED <<made, blocks, tip>>
      /\ saving' = [saving EXCEPT ![n][a].put = "hash"]
      /\ latestHeight' = [latestHeight EXCEPT ![n] = made[saving[n][a].block].height]
      /\ saving[n][a].put = "height"
  BY DEF PutHeight
<1>2. /\ \A m \in Nodes, c \in Actors : m # n \/ c # a => saving'[m][c] = saving[m][c]
      /\ saving'[n][a].put = "hash" /\ saving'[n][a].block = saving[n][a].block
  BY <1>1 DEF TypeOK, Save
<1>3. Held(n, made[saving[n][a].block].height)
  BY <1>1 DEF GapInv, SaveHeld
<1>4. LatestHeld'
  BY <1>1, <1>3 DEF GapInv, LatestHeld, Held, TypeOK
<1>5. BelowHeld'
  BY <1>1 DEF GapInv, BelowHeld
<1>7. SaveHeld'
  <2> DEFINE On(m, c) ==
        /\ saving[m][c].put = "block" => Held(m, made[saving[m][c].block].height - 1)
        /\ saving[m][c].put \in {"height", "hash"} => Held(m, made[saving[m][c].block].height)
  <2> SUFFICES ASSUME NEW m \in Nodes, NEW c \in Actors PROVE On(m, c)'
    BY DEF SaveHeld
  <2>1. CASE m = n /\ c = a
    BY <1>1, <1>2, <1>3, <2>1 DEF Held
  <2>2. CASE m # n \/ c # a
    <3>1. saving'[m][c] = saving[m][c] /\ On(m, c)
      BY <1>2, <2>2 DEF GapInv, SaveHeld
    <3> QED BY <1>1, <3>1 DEF Held
  <2> QED BY <2>1, <2>2
<1>6. TipHeld'
  <2>1. \A m \in Nodes : saving[m]["consensus"].put = "block" => saving'[m]["consensus"] = saving[m]["consensus"]
    BY <1>1, <1>2 DEF Actors
  <2> QED BY <1>1, <2>1 DEF GapInv, TipHeld, Held
<1> QED BY <1>4, <1>5, <1>6, <1>7 DEF GapInv

LEMMA GapPutHash ==
  ASSUME TypeOK, GapInv, NEW n \in Nodes, NEW a \in Actors, PutHash(n, a)
  PROVE  GapInv'
<1>1. /\ UNCHANGED <<made, blocks, latestHeight, tip>>
      /\ saving' = [saving EXCEPT ![n][a] = NoSave]
      /\ saving[n][a].put = "hash"
  BY DEF PutHash
<1>2. \A m \in Nodes, c \in Actors : saving'[m][c] = saving[m][c] \/ saving'[m][c] = NoSave
  BY <1>1 DEF TypeOK
<1>3. \A m \in Nodes : saving[m]["consensus"].put = "block" => saving'[m]["consensus"] = saving[m]["consensus"]
  BY <1>1 DEF TypeOK, Actors
<1>4. TipHeld'
  BY <1>1, <1>3 DEF GapInv, TipHeld, Held
<1>5. BelowHeld' /\ LatestHeld'
  BY <1>1 DEF GapInv, BelowHeld, LatestHeld, Held
<1>6. SaveHeld'
  <2> SUFFICES ASSUME NEW m \in Nodes, NEW c \in Actors
               PROVE  /\ saving'[m][c].put = "block" =>
                           Held(m, made[saving[m][c].block].height - 1)'
                      /\ saving'[m][c].put \in {"height", "hash"} =>
                           Held(m, made[saving[m][c].block].height)'
    BY DEF SaveHeld
  <2>1. CASE saving'[m][c] = NoSave
    BY <2>1 DEF NoSave
  <2>2. CASE saving'[m][c] = saving[m][c]
    BY <1>1, <2>2 DEF GapInv, SaveHeld, Held
  <2> QED BY <1>2, <2>1, <2>2
<1> QED BY <1>4, <1>5, <1>6 DEF GapInv

LEMMA GapImport ==
  ASSUME TypeOK, GapInv, NEW n \in Nodes, NEW t \in Tasks, Import(n, t)
  PROVE  GapInv'
<1>1. UNCHANGED <<made, blocks, latestHeight, tip>>
  BY DEF Import, disk
<1>2. CASE UNCHANGED saving
  BY <1>1, <1>2, GapInvKept
<1>3. CASE ~UNCHANGED saving
  <2>1. PICK b \in sync[n][t].got : Fits(n, b) /\ WriteBlock(n, t, b)
    BY <1>3 DEF Import
  <2>2. b \in DOMAIN made /\ b \in Hash /\ made[b] \in Block
    <3>1. b \in 1..Len(made) /\ Len(made) \in Nat
      BY LenProperties DEF TypeOK
    <3> QED BY <3>1, ElementOfSeq DEF TypeOK, Hash
  <2>3. t \in Actors /\ t # "consensus"
    BY DEF Actors, Tasks
  <2>4. /\ saving'[n][t] = [block |-> b, put |-> "block"]
        /\ \A m \in Nodes, c \in Actors : m # n \/ c # t => saving'[m][c] = saving[m][c]
    BY <2>1, <2>2, <2>3, SaveSet DEF TypeOK
  <2>5. Held(n, made[b].height - 1)
    <3>1. made[b].height \in Heights /\ made[b].prev \in Nat
      BY <2>2 DEF Block, Hash
    <3>2. CASE made[b].height = 1
      BY <3>2 DEF Held
    <3>3. CASE made[b].height > 1
      BY <2>1, <3>1, <3>3 DEF Fits, LocalHash, Held
    <3> QED BY <3>1, <3>2, <3>3, BoundsAssumption DEF Heights
  <2>6. BelowHeld' /\ LatestHeld'
    BY <1>1 DEF GapInv, BelowHeld, LatestHeld, Held
  <2>7. TipHeld'
    <3>1. \A m \in Nodes : saving'[m]["consensus"] = saving[m]["consensus"]
      BY <2>3, <2>4 DEF Actors
    <3> QED BY <1>1, <3>1 DEF GapInv, TipHeld, Held
  <2>8. SaveHeld'
    BY <1>1, <2>4, <2>5, SMTT(20) DEF GapInv, SaveHeld, Held
  <2> QED BY <2>6, <2>7, <2>8 DEF GapInv
<1> QED BY <1>2, <1>3

\* Whatever is lost in a crash, and whatever tip is read back, the blocks stay.
LEMMA GapOther ==
  ASSUME TypeOK, GapInv, NEW n \in Nodes,
         \/ Crash(n) \/ Restart(n)
         \/ \E t \in Tasks : StartSync(n, t) \/ AskHeight(n, t) \/ Pull(n, t) \/ LosePeer(n, t) \/ TaskDies(n, t)
                               \/ EndAnswer(n, t) \/ Reload(n, t)
  PROVE  GapInv'
<1>1. UNCHANGED <<made, blocks, latestHeight>>
  BY DEF Crash, Restart, StartSync, AskHeight, Pull, LosePeer, TaskDies, EndAnswer, Reload, disk
<1>2. \A m \in Nodes : Held(m, latestHeight[m]) /\ Held(m, 0)
  BY DEF GapInv, LatestHeld, Held
<1>3. /\ tip \in [Nodes -> [height : 0..MaxHeight, hash : 0..Len(made)]]
      /\ saving \in [Nodes -> [Actors -> Save]]
  BY DEF TypeOK
<1>4. CASE Crash(n)
  <2>1. tip' = [tip EXCEPT ![n] = [height |-> 0, hash |-> Genesis]]
    BY <1>4 DEF Crash
  <2>2. saving' = [saving EXCEPT ![n] = [a \in Actors |-> NoSave]]
    BY <1>4 DEF Crash
  <2>3. \A m \in Nodes : tip'[m] = tip[m] \/ Held(m, tip'[m].height)
    BY <1>2, <1>3, <2>1
  <2>4. \A m \in Nodes, a \in Actors : saving'[m][a] = saving[m][a] \/ saving'[m][a] = NoSave
    BY <1>3, <2>2
  <2>5. \A m \in Nodes : saving'[m]["consensus"] = saving[m]["consensus"] \/ Held(m, tip'[m].height)
    BY <1>2, <1>3, <2>1, <2>2
  <2> QED BY <1>1, <2>3, <2>4, <2>5, GapInvKept
<1>5. CASE ~Crash(n)
  <2>1. saving' = saving
    BY <1>5 DEF Restart, StartSync, AskHeight, Pull, LosePeer, TaskDies, EndAnswer, Reload
  <2>2. tip' = tip \/ tip' = [tip EXCEPT ![n] = [height |-> latestHeight[n], hash |-> latestHash[n]]]
    BY <1>5 DEF Restart, StartSync, AskHeight, Pull, LosePeer, TaskDies, EndAnswer, Reload
  <2>3. \A m \in Nodes : tip'[m] = tip[m] \/ Held(m, tip'[m].height)
    BY <1>2, <1>3, <2>2
  <2> QED BY <1>1, <2>1, <2>3, GapInvKept
<1> QED BY <1>4, <1>5

LEMMA GapInvariant == Spec => [](TypeOK /\ GapInv)
<1>1. Init => GapInv
  BY DEF Init, GapInv, BelowHeld, LatestHeld, TipHeld, SaveHeld, Held, NoSave
<1>2. TypeOK /\ GapInv /\ [Next]_vars => GapInv'
  <2> SUFFICES ASSUME TypeOK, GapInv, [Next]_vars PROVE GapInv'
    OBVIOUS
  <2>1. CASE UNCHANGED vars
    BY <2>1, GapInvKept DEF vars, disk
  <2>2. ASSUME NEW n \in Nodes, Build(n) PROVE GapInv'
    BY <2>2, GapBuild
  <2>3. ASSUME NEW n \in Nodes, NEW a \in Actors, Put(n, a) PROVE GapInv'
    BY <2>3, GapPutBlock, GapPutHeight, GapPutHash DEF Put
  <2>4. ASSUME NEW n \in Nodes, NEW t \in Tasks, Import(n, t) PROVE GapInv'
    BY <2>4, GapImport
  <2>5. ASSUME NEW n \in Nodes,
               \/ Crash(n) \/ Restart(n)
               \/ \E t \in Tasks : StartSync(n, t) \/ AskHeight(n, t) \/ Pull(n, t)
                    \/ LosePeer(n, t) \/ TaskDies(n, t) \/ EndAnswer(n, t) \/ Reload(n, t)
        PROVE  GapInv'
    BY <2>5, GapOther
  <2> QED BY <2>1, <2>2, <2>3, <2>4, <2>5 DEF Next
<1> QED BY <1>1, <1>2, TypeCorrect, PTL DEF Spec

\* Over imports that overlap, a consensus that builds meanwhile, and crashes between any
\* two puts, no node's chain has a gap below its latest height.
THEOREM ChainHasNoGaps == Spec => []NoGaps
  BY GapInvariant, GapInvSuffices, PTL

-----------------------------------------------------------------------------
(* Imports in order.  The blocks of an answer lie one above the other, from    *)
(* the height the task has reached: the peer has no gaps, and holds every      *)
(* block at its height.  So every block is put on the one that was looked at.  *)

\* One node's step.
NodeStep(n) ==
  \/ Build(n) \/ Crash(n) \/ Restart(n)
  \/ \E a \in Actors : Put(n, a)
  \/ \E t \in Tasks :
       StartSync(n, t) \/ AskHeight(n, t) \/ Pull(n, t) \/ LosePeer(n, t) \/ TaskDies(n, t)
       \/ Import(n, t) \/ EndAnswer(n, t) \/ Reload(n, t)

\* Blocks are made and never changed.
Grows == DOMAIN made \subseteq DOMAIN made' /\ \A c \in DOMAIN made : made'[c] = made[c]

\* What a step of another node leaves to node m.
Untouched(m) ==
  /\ blocks'[m] = blocks[m] /\ latestHeight'[m] = latestHeight[m]
  /\ latestHash'[m] = latestHash[m] /\ ran'[m] = ran[m]
  /\ up'[m] = up[m] /\ tip'[m] = tip[m] /\ apart'[m] = apart[m]
  /\ saving'[m] = saving[m] /\ sync'[m] = sync[m]

LEMMA MadeGrows ==
  ASSUME TypeOK, NEW n \in Nodes, NodeStep(n)
  PROVE  Grows
<1>1. CASE UNCHANGED made
  BY <1>1 DEF Grows
<1>2. CASE ~UNCHANGED made
  <2>1. PICK new : made' = Append(made, new)
    <3>1. Build(n)
      BY <1>2 DEF NodeStep, Crash, Restart, Put, PutBlock, PutHeight, PutHash, StartSync,
                  AskHeight, Pull, LosePeer, TaskDies, AwaitsAnswer, Import, EndAnswer, Reload
    <3> QED BY <1>2, <3>1, Zenon DEF Build
  <2>2. made \in Seq(UNION {Block, {new}}) /\ new \in UNION {Block, {new}}
    <3>1. made \in Seq(Block) /\ Block \subseteq UNION {Block, {new}}
      BY DEF TypeOK
    <3> HIDE DEF Block
    <3> QED BY <3>1
  <2>3. /\ Len(made) \in Nat /\ DOMAIN made = 1..Len(made)
        /\ DOMAIN Append(made, new) = 1..Len(made) + 1
        /\ \A c \in 1..Len(made) : Append(made, new)[c] = made[c]
    BY <2>2, AppendProperties, LenProperties
  <2> QED BY <2>1, <2>3 DEF Grows
<1> QED BY <1>1, <1>2

LEMMA OthersStay ==
  ASSUME TypeOK, NEW n \in Nodes, NodeStep(n), NEW m \in Nodes, m # n
  PROVE  Untouched(m)
<1> USE DEF TypeOK, Untouched, disk
<1>1. CASE Build(n)
  <2>1. UNCHANGED <<blocks, latestHeight, latestHash, up, sync>>
    BY <1>1 DEF Build
  <2>2. ran'[m] = ran[m] /\ apart'[m] = apart[m]
    BY <1>1 DEF Build, Begins
  <2>3. tip'[m] = tip[m] /\ saving'[m] = saving[m]
    <3>1. PICK b : /\ \E h : tip' = [tip EXCEPT ![n] = h]
                   /\ WriteBlock(n, "consensus", b)
      BY <1>1, Zenon DEF Build
    <3> QED BY <3>1 DEF WriteBlock
  <2> QED BY <2>1, <2>2, <2>3
<1>2. CASE Crash(n) \/ Restart(n)
  BY <1>2 DEF Crash, Restart
<1>3. ASSUME NEW a \in Actors, Put(n, a) PROVE Untouched(m)
  BY <1>3 DEF Put, PutBlock, PutHeight, PutHash
<1>4. ASSUME NEW t \in Tasks, StartSync(n, t) \/ TaskDies(n, t) PROVE Untouched(m)
  BY <1>4 DEF StartSync, TaskDies, Begins, SetTask
<1>5. ASSUME NEW t \in Tasks, AskHeight(n, t) \/ Pull(n, t) \/ LosePeer(n, t) \/ EndAnswer(n, t)
      PROVE  Untouched(m)
  <2>1. UNCHANGED <<made, disk, ran, taken, up, tip, saving, apart, crashes>>
    BY <1>5 DEF AskHeight, Pull, LosePeer, EndAnswer
  <2>2. PICK r : SetTask(n, t, r)
    BY <1>5, Zenon DEF AskHeight, Pull, LosePeer, EndAnswer
  <2> QED BY <2>1, <2>2 DEF SetTask
<1>6. ASSUME NEW t \in Tasks, Import(n, t) PROVE Untouched(m)
  <2>1. UNCHANGED <<made, disk, taken, up, tip, apart, crashes>>
    BY <1>6 DEF Import
  <2>2. PICK r, b : /\ SetTask(n, t, r)
                    /\ \/ UNCHANGED <<ran, saving>>
                       \/ /\ ran' = [ran EXCEPT ![n] = Append(@, made[b].batch)]
                          /\ WriteBlock(n, t, b)
    BY <1>6, Zenon DEF Import
  <2> QED BY <2>1, <2>2 DEF SetTask, WriteBlock
<1>7. ASSUME NEW t \in Tasks, Reload(n, t) PROVE Untouched(m)
  BY <1>7 DEF Reload, SetTask
<1> QED BY <1>1, <1>2, <1>3, <1>4, <1>5, <1>6, <1>7 DEF NodeStep

\* What the operators that move a task on leave in its record.
LEMMA TaskFields ==
  ASSUME NEW s \in Task
  PROVE  /\ Leave(s).at = "peers" /\ Leave(s).base = s.base /\ Leave(s).final = s.final
         /\ Leave(s).todo = s.todo /\ Leave(s).peer = {}
         /\ \A p : LET w == Without(s, p)
                   IN  /\ w.at = s.at /\ w.base = s.base /\ w.final = s.final
                       /\ w.current = s.current /\ w.last = s.last
                       /\ w.todo = s.todo \ {p} /\ w.peer = s.peer
         /\ \A p : LET w == Pulling(s, p)
                   IN  /\ w.at = "pull" /\ w.base = s.base /\ w.final = s.final
                       /\ w.current = s.base /\ w.last = s.base
                       /\ w.todo = s.todo \ {p} /\ w.peer = {p}
         /\ \A got : LET w == Importing(s, got)
                     IN  /\ w.at = "import" /\ w.base = s.base /\ w.final = s.final
                         /\ w.current = s.current /\ w.last = s.last
                         /\ w.todo = s.todo /\ w.peer = s.peer
BY DEF Task, Leave, Stopped, Without, Pulling, Importing

\* One block of got for each height from r + 1 to the highest.
Ascending(got, r) ==
  /\ \A b \in got : made[b].height > r
  /\ \A b, c \in got : made[b].height = made[c].height => b = c
  /\ \A b \in got, h \in Heights : r < h /\ h <= made[b].height => \E c \in got : made[c].height = h

\* The height a task has reached, with the block it is saving.
Reached(n, t) == IF IsSaving(n, t) THEN made[saving[n][t].block].height ELSE sync[n][t].last

\* A task saves the next block above the last; what is left of the answer goes on top of it.
TaskInOrder(n, t) ==
  /\ IsSaving(n, t) => /\ sync[n][t].at = "import"
                       /\ made[saving[n][t].block].height = sync[n][t].last + 1
  /\ sync[n][t].at = "pull" => sync[n][t].current = sync[n][t].last
  /\ sync[n][t].at = "import" => sync[n][t].current <= sync[n][t].last
  /\ sync[n][t].got # {} => sync[n][t].at = "import"
  /\ Ascending(sync[n][t].got, Reached(n, t))

\* Every block on disk is at its height.
AtItsHeight ==
  \A n \in Nodes, h \in Heights : blocks[n][h] # Genesis => made[blocks[n][h]].height = h

\* Nothing is at work on a node that is down.
DownIsIdle ==
  \A n \in Nodes : ~up[n] =>
    (\A a \in Actors : ~IsSaving(n, a)) /\ (\A t \in Tasks : sync[n][t] = Stopped)

TasksInOrder == \A n \in Nodes, t \in Tasks : TaskInOrder(n, t)

\* The first block of a chain names none.
GenesisFirst ==
  /\ \A b \in DOMAIN made : made[b].height = 1 => made[b].prev = Genesis
  /\ \A n \in Nodes : tip[n].height = 0 => tip[n].hash = Genesis
  /\ \A n \in Nodes : latestHeight[n] = 0 =>
       latestHash[n] = Genesis /\ \A a \in Actors : saving[n][a].put # "hash"

ImportInv == AtItsHeight /\ DownIsIdle /\ GenesisFirst /\ TasksInOrder

LEMMA MadeBlock ==
  ASSUME TypeOK, NEW b \in DOMAIN made
  PROVE  /\ made[b] \in Block /\ made[b].height \in Heights /\ made[b].prev \in Nat
         /\ made[b].batch \in Nat /\ b \in Nat /\ b # Genesis
<1>1. b \in 1..Len(made) /\ Len(made) \in Nat
  BY LenProperties DEF TypeOK
<1>2. made[b] \in Block
  BY <1>1, ElementOfSeq DEF TypeOK
<1> QED BY <1>1, <1>2 DEF Block, Hash

LEMMA AnswerAscends ==
  ASSUME TypeOK, NoGaps, AtItsHeight, NEW p \in Nodes, NEW from \in Nat
  PROVE  Ascending(Answer(p, from), from)
<1> DEFINE hs == {g \in Heights : from < g /\ g <= from + BatchLimit /\ g <= latestHeight[p]}
           got == Answer(p, from)
<1>1. \A h \in hs : blocks[p][h] \in got /\ made[blocks[p][h]].height = h
  <2> TAKE h \in hs
  <2>1. latestHeight[p] \in 0..MaxHeight /\ h \in 1..latestHeight[p]
    BY BoundsAssumption DEF TypeOK, Heights
  <2>2. blocks[p][h] # Genesis
    BY <2>1 DEF NoGaps
  <2> QED BY <2>2 DEF Answer, AtItsHeight
<1>2. \A b \in got : \E h \in hs : b = blocks[p][h]
  BY DEF Answer
<1>3. \A h \in hs, g \in Heights : from < g /\ g <= h => g \in hs
  BY BoundsAssumption DEF Heights, TypeOK
<1>4. \A h \in hs : h > from
  BY DEF Heights
<1> HIDE DEF hs, got
<1>5. Ascending(got, from)
  BY <1>1, <1>2, <1>3, <1>4 DEF Ascending
<1> QED BY <1>5 DEF got

\* The lowest block of an answer is the next one; the rest goes on top of it.
LEMMA LowestFirst ==
  ASSUME NEW got, NEW r \in Nat, Ascending(got, r), NEW b \in got,
         \A c \in got : made[c].height \in Heights /\ made[b].height <= made[c].height
  PROVE  made[b].height = r + 1 /\ Ascending(got \ {b}, r + 1)
<1> DEFINE k == made[b].height
<1>1. k \in Nat /\ k > r /\ k \in Heights
  BY DEF Ascending, Heights
<1>2. k = r + 1
  <2> SUFFICES ASSUME k # r + 1 PROVE FALSE
    OBVIOUS
  <2>1. r + 1 \in Heights /\ r < r + 1 /\ r + 1 <= k
    BY <1>1, BoundsAssumption DEF Heights
  <2>2. PICK c \in got : made[c].height = r + 1
    BY <2>1 DEF Ascending
  <2> QED BY <1>1, <2>1, <2>2
<1> HIDE DEF k
<1>3. \A c \in got \ {b} : made[c].height > r + 1
  <2> TAKE c \in got \ {b}
  <2>1. made[c].height # k /\ made[c].height >= k /\ made[c].height \in Nat
    BY DEF Ascending, k, Heights
  <2> QED BY <1>1, <1>2, <2>1
<1>4. ASSUME NEW d \in got \ {b}, NEW h \in Heights, r + 1 < h, h <= made[d].height
      PROVE  \E c \in got \ {b} : made[c].height = h
  <2>1. h \in Nat /\ r < h /\ h # k
    BY <1>2, <1>4 DEF Heights
  <2>2. PICK c \in got : made[c].height = h
    BY <1>4, <2>1 DEF Ascending
  <2> QED BY <2>1, <2>2 DEF k
<1> QED BY <1>2, <1>3, <1>4 DEF Ascending, k

\* A task stays in order when it is left alone, whatever blocks are made.
LEMMA TaskLeftAlone ==
  ASSUME TypeOK, Grows, NEW n \in Nodes, NEW t \in Tasks, TaskInOrder(n, t),
         sync'[n][t] = sync[n][t],
         IsSaving(n, t)' <=> IsSaving(n, t),
         IsSaving(n, t) => saving'[n][t].block = saving[n][t].block
  PROVE  TaskInOrder(n, t)'
<1>1. IsSaving(n, t) => made'[saving[n][t].block] = made[saving[n][t].block]
  BY DEF TypeOK, Grows, Actors
<1>2. Reached(n, t)' = Reached(n, t)
  BY <1>1 DEF Reached
<1>3. sync[n][t].got \subseteq DOMAIN made
  BY DEF TypeOK
<1> DEFINE got == sync[n][t].got
           r == Reached(n, t)
<1>4. Ascending(got, r)
  BY DEF TaskInOrder
<1>5. Ascending(sync[n][t].got, Reached(n, t))'
  <2>1. got' = got /\ r' = r
    BY <1>2
  <2>2. \A b \in got : made'[b] = made[b]
    BY <1>3 DEF Grows
  <2> QED BY <1>4, <2>1, <2>2 DEF Ascending
<1> QED BY <1>1, <1>5 DEF TaskInOrder

LEMMA NothingAscends == \A r : Ascending({}, r)
  BY DEF Ascending

\* A task moves on while it saves nothing.
LEMMA InOrderMove ==
  ASSUME TypeOK, TasksInOrder, NEW n \in Nodes, NEW t \in Tasks, NEW r \in Task,
         SetTask(n, t, r), UNCHANGED <<made, saving>>, ~IsSaving(n, t),
         r.at = "pull" => r.current = r.last,
         r.at = "import" => r.current <= r.last,
         r.got # {} => r.at = "import",
         Ascending(r.got, r.last)
  PROVE  TasksInOrder'
<1>1. /\ sync'[n][t] = r
      /\ \A m \in Nodes, u \in Tasks : m # n \/ u # t => sync'[m][u] = sync[m][u]
  BY TaskSet DEF TypeOK
<1>2. Grows
  BY DEF Grows
<1>3. ASSUME NEW m \in Nodes, NEW u \in Tasks, m # n \/ u # t PROVE TaskInOrder(m, u)'
  <2>1. sync'[m][u] = sync[m][u] /\ TaskInOrder(m, u)
    BY <1>1, <1>3 DEF TasksInOrder
  <2>2. /\ IsSaving(m, u)' <=> IsSaving(m, u)
        /\ saving'[m][u].block = saving[m][u].block
    BY DEF IsSaving
  <2> QED BY <1>2, <2>1, <2>2, TaskLeftAlone
<1>4. TaskInOrder(n, t)'
  <2>1. ~IsSaving(n, t)'
    BY DEF IsSaving
  <2>2. Reached(n, t)' = r.last
    BY <1>1, <2>1 DEF Reached
  <2>3. Ascending(r.got, r.last)'
    BY DEF Ascending
  <2>4. Ascending(sync[n][t].got, Reached(n, t))'
    BY <1>1, <2>2, <2>3 DEF Ascending
  <2> QED BY <1>1, <2>1, <2>4 DEF TaskInOrder
<1> QED BY <1>3, <1>4 DEF TasksInOrder

LEMMA InOrderAsk ==
  ASSUME TypeOK, NoGaps, ImportInv, NEW n \in Nodes, NEW t \in Tasks,
         StartSync(n, t) \/ AskHeight(n, t) \/ Pull(n, t) \/ LosePeer(n, t) \/ TaskDies(n, t)
           \/ EndAnswer(n, t) \/ Reload(n, t)
  PROVE  TasksInOrder'
<1> DEFINE s == sync[n][t]
<1>1. /\ s \in Task /\ s.todo \in SUBSET Nodes /\ s.peer \in SUBSET Nodes
      /\ s.base \in 0..MaxHeight /\ s.current \in Nat /\ s.last \in Nat
      /\ s.got \subseteq DOMAIN made
  BY BoundsAssumption, SMTT(20) DEF TypeOK, Task
<1>2. TasksInOrder /\ AtItsHeight
  BY DEF ImportInv
<1>3. /\ IsSaving(n, t) => s.at = "import"
      /\ s.at = "pull" => s.current = s.last
      /\ s.got # {} => s.at = "import"
  BY <1>2 DEF TasksInOrder, TaskInOrder
<1>4. UNCHANGED <<made, saving>>
  BY DEF StartSync, AskHeight, Pull, LosePeer, TaskDies, EndAnswer, Reload
<1>5. ~IsSaving(n, t)
  BY <1>3 DEF StartSync, AskHeight, Pull, LosePeer, TaskDies, AwaitsAnswer, EndAnswer, Reload
<1>6. latestHeight \in [Nodes -> 0..MaxHeight]
  BY DEF TypeOK
<1>7. CASE StartSync(n, t)
  <2> DEFINE r == [Stopped EXCEPT !.at = "peers", !.base = latestHeight[n],
                                  !.final = latestHeight[n], !.todo = PeersOf[n]]
  <2>1. r \in Task /\ r.got = {} /\ r.at = "peers"
    BY <1>6, RecordTypes, NodesAssumption DEF Task, Stopped
  <2>2. SetTask(n, t, r)
    BY <1>7 DEF StartSync
  <2> HIDE DEF r
  <2> QED BY <1>2, <1>4, <1>5, <2>1, <2>2, NothingAscends, InOrderMove
<1>8. CASE AskHeight(n, t)
  <2>1. PICK p \in s.todo : SetTask(n, t, Pulling(s, p)) \/ SetTask(n, t, Without(s, p))
    BY <1>8 DEF AskHeight
  <2>2. p \in Nodes /\ latestHeight[p] \in 0..MaxHeight /\ s.at = "peers" /\ s.got = {}
    BY <1>1, <1>3, <1>6, <1>8 DEF AskHeight
  <2> HIDE DEF s
  <2>3. PICK r \in Task : /\ SetTask(n, t, r) /\ r.got = {}
                          /\ r.at \in {"peers", "pull"} /\ (r.at = "pull" => r.current = r.last)
    BY <1>1, <2>1, <2>2, TaskUpdates, TaskFields
  <2> QED BY <1>2, <1>4, <1>5, <2>3, NothingAscends, InOrderMove
<1>9. CASE Pull(n, t)
  <2>1. PICK p \in s.peer :
          \/ SetTask(n, t, Leave(s))
          \/ SetTask(n, t, Importing(s, Answer(p, s.current)))
    BY <1>9 DEF Pull
  <2>2. p \in Nodes /\ s.current = s.last
    BY <1>1, <1>3, <1>9 DEF Pull
  <2>3. /\ Ascending(Answer(p, s.current), s.current)
        /\ Answer(p, s.current) \in SUBSET Hash
    BY <1>1, <1>2, <2>2, AnswerAscends, AnswerTypes
  <2> HIDE DEF s
  <2>4. CASE SetTask(n, t, Leave(s))
    <3> DEFINE r == Leave(s)
    <3>1. r \in Task /\ r.got = {} /\ r.at = "peers"
      BY <1>1, RecordTypes, TaskFields
    <3> HIDE DEF r
    <3> QED BY <1>2, <1>4, <1>5, <2>4, <3>1, NothingAscends, InOrderMove DEF r
  <2>5. CASE SetTask(n, t, Importing(s, Answer(p, s.current)))
    <3> DEFINE got == Answer(p, s.current)
               r == Importing(s, got)
    <3>1. r \in Task /\ r.got = got /\ r.at = "import" /\ r.current = s.current /\ r.last = s.last
      BY <1>1, <2>3, TaskUpdates, TaskFields
    <3>2. SetTask(n, t, r) /\ Ascending(r.got, r.last) /\ r.current <= r.last
      BY <1>1, <2>2, <2>3, <2>5, <3>1
    <3> HIDE DEF r, got
    <3> QED BY <1>2, <1>4, <1>5, <3>1, <3>2, InOrderMove
  <2> QED BY <2>1, <2>4, <2>5
<1>10. CASE LosePeer(n, t)
  <2>1. \/ s.at = "peers" /\ \E p : SetTask(n, t, Without(s, p))
        \/ SetTask(n, t, Leave(s))
    BY <1>10 DEF LosePeer
  <2> HIDE DEF s
  <2>2. PICK r \in Task : SetTask(n, t, r) /\ r.got = {} /\ r.at = "peers"
    <3>1. CASE SetTask(n, t, Leave(s))
      BY <1>1, <3>1, RecordTypes, TaskFields
    <3>2. CASE s.at = "peers" /\ \E p : SetTask(n, t, Without(s, p))
      <4>1. PICK p : SetTask(n, t, Without(s, p))
        BY <3>2
      <4>2. Without(s, p) \in Task /\ Without(s, p).got = {} /\ Without(s, p).at = "peers"
        BY <1>1, <1>3, <3>2, TaskUpdates, TaskFields
      <4> QED BY <4>1, <4>2
    <3> QED BY <2>1, <3>1, <3>2
  <2> QED BY <1>2, <1>4, <1>5, <2>2, NothingAscends, InOrderMove
<1>13. CASE TaskDies(n, t)
  <2> DEFINE r == [Stopped EXCEPT !.at = "done"]
  <2>1. r \in Task /\ r.got = {} /\ r.at = "done"
    BY RecordTypes DEF Task, Stopped
  <2>2. SetTask(n, t, r)
    BY <1>13 DEF TaskDies
  <2> HIDE DEF r
  <2> QED BY <1>2, <1>4, <1>5, <2>1, <2>2, NothingAscends, InOrderMove
<1>11. CASE EndAnswer(n, t)
  <2> DEFINE more == [s EXCEPT !.at = "pull", !.current = s.last, !.final = s.last]
  <2>1. s.last \in 0..MaxHeight /\ s.goal \in 0..MaxHeight
    BY <1>1 DEF Task
  <2>2. /\ more \in Task /\ more.got = {} /\ more.at = "pull" /\ more.current = more.last
        /\ SetTask(n, t, Leave(s)) \/ SetTask(n, t, more) \/ SetTask(n, t, Leave(more))
    BY <1>1, <1>11, <2>1 DEF EndAnswer, Task
  <2> HIDE DEF s, more
  <2>3. PICK r \in Task : /\ SetTask(n, t, r) /\ r.got = {}
                          /\ r.at \in {"peers", "pull"} /\ (r.at = "pull" => r.current = r.last)
    BY <1>1, <2>2, RecordTypes, TaskFields
  <2> QED BY <1>2, <1>4, <1>5, <2>3, NothingAscends, InOrderMove
<1>12. CASE Reload(n, t)
  <2> DEFINE r == [Stopped EXCEPT !.at = IF t = "initial" THEN "done" ELSE "idle"]
  <2>1. r \in Task /\ r.got = {} /\ r.at \in {"done", "idle"}
    BY RecordTypes DEF Task
  <2>2. SetTask(n, t, r)
    BY <1>12 DEF Reload
  <2> HIDE DEF r
  <2> QED BY <1>2, <1>4, <1>5, <2>1, <2>2, NothingAscends, InOrderMove
<1> QED BY <1>7, <1>8, <1>9, <1>10, <1>11, <1>12, <1>13

\* What Import does: the lowest block of the answer fits, is executed and is about to be put,
\* or does not, and the answer is dropped.
LEMMA ImportEffect ==
  ASSUME TypeOK, TasksInOrder, NEW n \in Nodes, NEW t \in Tasks, Import(n, t)
  PROVE  \E b \in sync[n][t].got :
           /\ made[b].height = sync[n][t].last + 1
           /\ \/ /\ Fits(n, b) /\ WriteBlock(n, t, b)
                 /\ ran' = [ran EXCEPT ![n] = Append(ran[n], made[b].batch)]
                 /\ SetTask(n, t, [sync[n][t] EXCEPT !.got = sync[n][t].got \ {b}])
                 /\ Ascending(sync[n][t].got \ {b}, sync[n][t].last + 1)
              \/ /\ UNCHANGED <<ran, saving>>
                 /\ SetTask(n, t, [sync[n][t] EXCEPT !.got = {}])
<1> DEFINE s == sync[n][t]
<1>1. s \in Task /\ s.got \subseteq DOMAIN made /\ s.last \in Nat
  BY BoundsAssumption, SMTT(20) DEF TypeOK, Task
<1>2. Ascending(s.got, s.last)
  <2>1. ~IsSaving(n, t)
    BY DEF Import
  <2> QED BY <2>1 DEF TasksInOrder, TaskInOrder, Reached
<1>3. PICK b \in s.got :
        /\ \A c \in s.got : made[b].height <= made[c].height
        /\ \/ /\ Fits(n, b) /\ WriteBlock(n, t, b)
              /\ ran' = [ran EXCEPT ![n] = Append(ran[n], made[b].batch)]
              /\ SetTask(n, t, [s EXCEPT !.got = s.got \ {b}])
           \/ /\ UNCHANGED <<ran, saving>>
              /\ SetTask(n, t, [s EXCEPT !.got = {}])
  BY DEF Import
<1>4. \A c \in s.got : made[c].height \in Heights
  BY <1>1, MadeBlock
<1> HIDE DEF s
<1>5. made[b].height = s.last + 1 /\ Ascending(s.got \ {b}, s.last + 1)
  BY <1>1, <1>2, <1>3, <1>4, LowestFirst
<1> QED BY <1>3, <1>5 DEF s

LEMMA InOrderImport ==
  ASSUME TypeOK, TasksInOrder, NEW n \in Nodes, NEW t \in Tasks, Import(n, t)
  PROVE  TasksInOrder'
<1> DEFINE s == sync[n][t]
<1>1. s \in Task /\ s.got \subseteq DOMAIN made /\ s.last \in Nat
  BY BoundsAssumption, SMTT(20) DEF TypeOK, Task
<1>2. made' = made /\ s.at = "import" /\ ~IsSaving(n, t) /\ t \in Actors
  BY DEF Import, Actors
<1>3. s.current <= s.last
  BY <1>2 DEF TasksInOrder, TaskInOrder
<1>4. PICK b \in s.got :
        /\ made[b].height = s.last + 1
        /\ \/ /\ WriteBlock(n, t, b)
              /\ SetTask(n, t, [s EXCEPT !.got = s.got \ {b}])
              /\ Ascending(s.got \ {b}, s.last + 1)
           \/ /\ UNCHANGED saving
              /\ SetTask(n, t, [s EXCEPT !.got = {}])
  BY ImportEffect
<1>5. \A q \in SUBSET Hash : LET w == [s EXCEPT !.got = q]
                             IN  /\ w \in Task /\ w.at = s.at /\ w.got = q
                                 /\ w.current = s.current /\ w.last = s.last
  <2> HIDE DEF s
  <2> QED BY <1>1 DEF Task
<1>6. s.got \ {b} \in SUBSET Hash /\ {} \in SUBSET Hash /\ b \in Hash /\ b \in DOMAIN made
  BY <1>1 DEF Task
<1> HIDE DEF s
<1>7. CASE UNCHANGED saving /\ SetTask(n, t, [s EXCEPT !.got = {}])
  <2> DEFINE r == [s EXCEPT !.got = {}]
  <2>1. r \in Task /\ r.at = "import" /\ r.got = {} /\ r.current <= r.last
    BY <1>2, <1>3, <1>5, <1>6
  <2> HIDE DEF r
  <2> QED BY <1>2, <1>7, <2>1, NothingAscends, InOrderMove DEF r
<1>8. CASE /\ WriteBlock(n, t, b) /\ SetTask(n, t, [s EXCEPT !.got = s.got \ {b}])
           /\ Ascending(s.got \ {b}, s.last + 1)
  <2> DEFINE r == [s EXCEPT !.got = s.got \ {b}]
  <2>1. /\ r \in Task /\ r.at = "import" /\ r.got = s.got \ {b} /\ r.current <= r.last
        /\ r.last = s.last
    BY <1>2, <1>3, <1>5, <1>6
  <2>2. SetTask(n, t, r)
    BY <1>8
  <2> HIDE DEF r
  <2>3. /\ sync'[n][t] = r
        /\ \A m \in Nodes, u \in Tasks : m # n \/ u # t => sync'[m][u] = sync[m][u]
    BY <2>1, <2>2, TaskSet DEF TypeOK
  <2>4. /\ saving'[n][t] = [block |-> b, put |-> "block"]
        /\ \A m \in Nodes, c \in Actors : m # n \/ c # t => saving'[m][c] = saving[m][c]
    BY <1>2, <1>6, <1>8, SaveSet DEF TypeOK
  <2>5. ASSUME NEW m \in Nodes, NEW u \in Tasks, m # n \/ u # t PROVE TaskInOrder(m, u)'
    <3>1. u \in Actors /\ Grows
      BY <1>2 DEF Actors, Grows
    <3>2. sync'[m][u] = sync[m][u] /\ saving'[m][u] = saving[m][u] /\ TaskInOrder(m, u)
      BY <2>3, <2>4, <2>5, <3>1 DEF TasksInOrder
    <3> QED BY <3>1, <3>2, TaskLeftAlone DEF IsSaving
  <2>6. TaskInOrder(n, t)'
    <3>1. IsSaving(n, t)' /\ saving'[n][t].block = b
      BY <2>4 DEF IsSaving, NoSave
    <3>2. made'[saving'[n][t].block].height = s.last + 1
      BY <1>2, <1>4, <3>1
    <3>3. Reached(n, t)' = s.last + 1
      BY <3>1, <3>2 DEF Reached
    <3>4. Ascending(sync[n][t].got, Reached(n, t))'
      BY <1>2, <1>8, <2>1, <2>3, <3>3 DEF Ascending
    <3> QED BY <1>2, <2>1, <2>3, <3>1, <3>2, <3>4 DEF TaskInOrder
  <2> QED BY <2>5, <2>6 DEF TasksInOrder
<1> QED BY <1>4, <1>7, <1>8

LEMMA InOrderPut ==
  ASSUME TypeOK, TasksInOrder, NEW n \in Nodes, NEW a \in Actors, Put(n, a)
  PROVE  TasksInOrder'
<1> DEFINE b == saving[n][a].block
<1>1. saving[n][a].put # "none" /\ made' = made /\ IsSaving(n, a)
  BY DEF Put, PutBlock, PutHeight, PutHash, IsSaving, NoSave
<1>2. Grows
  BY <1>1 DEF Grows
<1>3. \A m \in Nodes, c \in Actors : m # n \/ c # a => saving'[m][c] = saving[m][c]
  BY DEF Put, PutBlock, PutHeight, PutHash, TypeOK
<1>4. CASE PutBlock(n, a) \/ PutHeight(n, a)
  <2>1. sync' = sync
    BY <1>4 DEF PutBlock, PutHeight
  <2>2. saving'[n][a].put # "none" /\ saving'[n][a].block = b
    <3>1. saving \in [Nodes -> [Actors -> Save]]
      BY DEF TypeOK
    <3>2. \/ saving' = [saving EXCEPT ![n][a].put = "height"]
          \/ saving' = [saving EXCEPT ![n][a].put = "hash"]
      BY <1>4 DEF PutBlock, PutHeight
    <3> QED BY <3>1, <3>2 DEF Save
  <2>3. ASSUME NEW m \in Nodes, NEW u \in Tasks
        PROVE  /\ IsSaving(m, u)' <=> IsSaving(m, u)
               /\ saving'[m][u].block = saving[m][u].block
    BY <1>1, <1>3, <2>2 DEF IsSaving, NoSave, Actors
  <2> QED BY <1>2, <2>1, <2>3, TaskLeftAlone DEF TasksInOrder
<1>5. CASE PutHash(n, a)
  <2>1. saving'[n][a] = NoSave
    BY <1>5 DEF PutHash, TypeOK
  <2>2. ASSUME NEW m \in Nodes, NEW u \in Tasks, m # n \/ u # a PROVE TaskInOrder(m, u)'
    <3>1. u \in Actors
      BY DEF Actors
    <3>2. sync'[m][u] = sync[m][u] /\ saving'[m][u] = saving[m][u]
      BY <1>3, <1>5, <2>2, <3>1 DEF PutHash, TypeOK
    <3> QED BY <1>2, <3>2, TaskLeftAlone DEF IsSaving, TasksInOrder
  <2>3. ASSUME a \in Tasks PROVE TaskInOrder(n, a)'
    <3> DEFINE s == sync[n][a]
               k == made[b].height
    <3>1. s \in Task /\ b \in DOMAIN made
      BY <1>1, <2>3, SavedBlock DEF TypeOK
    <3>2. /\ s.at = "import" /\ k = s.last + 1 /\ s.current <= s.last /\ Ascending(s.got, k)
      BY <1>1, <2>3 DEF TasksInOrder, TaskInOrder, Reached
    <3>3. s.last \in Nat /\ s.current \in Nat
      BY <3>1, BoundsAssumption DEF Task
    <3>4. sync'[n][a] = [s EXCEPT !.last = k]
      BY <1>5, <2>3 DEF PutHash, TypeOK
    <3> HIDE DEF s, k
    <3>5. /\ sync'[n][a].at = "import" /\ sync'[n][a].last = k /\ sync'[n][a].current = s.current
          /\ sync'[n][a].got = s.got
      BY <3>1, <3>2, <3>4 DEF Task
    <3>6. ~IsSaving(n, a)' /\ Reached(n, a)' = k
      BY <2>1, <3>5 DEF IsSaving, Reached
    <3>7. Ascending(sync[n][a].got, Reached(n, a))'
      BY <1>1, <3>2, <3>5, <3>6 DEF Ascending
    <3> QED BY <3>2, <3>3, <3>5, <3>6, <3>7 DEF TaskInOrder
  <2> QED BY <2>2, <2>3 DEF TasksInOrder
<1> QED BY <1>4, <1>5 DEF Put

LEMMA InOrderOther ==
  ASSUME TypeOK, TasksInOrder, NEW n \in Nodes, Build(n) \/ Crash(n) \/ Restart(n)
  PROVE  TasksInOrder'
<1>1. Grows
  BY MadeGrows DEF NodeStep
<1>2. CASE Build(n)
  <2>1. PICK b : WriteBlock(n, "consensus", b) /\ sync' = sync
    BY <1>2, Zenon DEF Build
  <2>2. \A m \in Nodes, u \in Tasks : saving'[m][u] = saving[m][u]
    BY <2>1 DEF WriteBlock, TypeOK, Tasks, Actors
  <2> QED BY <1>1, <2>1, <2>2, TaskLeftAlone DEF IsSaving, TasksInOrder
<1>3. CASE Crash(n)
  <2>1. ASSUME NEW m \in Nodes, NEW u \in Tasks, m # n PROVE TaskInOrder(m, u)'
    <3>1. sync'[m] = sync[m] /\ saving'[m] = saving[m]
      BY <1>3, <2>1 DEF Crash, TypeOK
    <3> QED BY <1>1, <3>1, TaskLeftAlone DEF IsSaving, TasksInOrder
  <2>2. ASSUME NEW u \in Tasks PROVE TaskInOrder(n, u)'
    <3>1. sync'[n][u] = Stopped /\ saving'[n][u] = NoSave
      BY <1>3 DEF Crash, TypeOK, Actors
    <3>2. Stopped.at = "idle" /\ Stopped.got = {}
      BY DEF Stopped
    <3>3. Ascending({}, Reached(n, u))'
      BY DEF Ascending
    <3> QED BY <3>1, <3>2, <3>3 DEF TaskInOrder, IsSaving
  <2> QED BY <2>1, <2>2 DEF TasksInOrder
<1>4. CASE Restart(n)
  BY <1>1, <1>4, TaskLeftAlone DEF Restart, IsSaving, TasksInOrder
<1> QED BY <1>2, <1>3, <1>4

LEMMA AtItsHeightKept ==
  ASSUME TypeOK, AtItsHeight, NEW n \in Nodes, NodeStep(n)
  PROVE  AtItsHeight'
<1>1. Grows
  BY MadeGrows
<1>2. \A m \in Nodes, h \in Heights : blocks[m][h] # Genesis => blocks[m][h] \in DOMAIN made
  BY LenProperties, SMTT(20) DEF TypeOK
<1>3. CASE blocks' = blocks
  BY <1>1, <1>2, <1>3 DEF AtItsHeight, Grows
<1>4. ASSUME NEW a \in Actors, PutBlock(n, a) PROVE AtItsHeight'
  <2> DEFINE b == saving[n][a].block
  <2>1. made' = made /\ blocks' = [blocks EXCEPT ![n][made[b].height] = b]
    BY <1>4 DEF PutBlock
  <2>2. made[b].height \in Heights
    BY <1>4, SavedBlock DEF PutBlock
  <2> HIDE DEF b
  <2> QED BY <2>1, <2>2 DEF AtItsHeight, TypeOK
<1>5. blocks' = blocks \/ \E a \in Actors : PutBlock(n, a)
  BY DEF NodeStep, Build, Crash, Restart, Put, PutHeight, PutHash, StartSync, AskHeight, Pull,
         LosePeer, TaskDies, Import, EndAnswer, Reload, disk
<1> QED BY <1>3, <1>4, <1>5

LEMMA BuildEffect ==
  ASSUME TypeOK, NEW n \in Nodes, Build(n)
  PROVE  \E b \in DOMAIN made' :
           /\ made'[b].height = tip[n].height + 1 /\ made'[b].prev = tip[n].hash
           /\ made'[b].batch = taken[n] + 1
           /\ tip'[n].height = tip[n].height + 1 /\ tip'[n].hash = b
           /\ saving'[n]["consensus"].block = b /\ saving'[n]["consensus"].put = "block"
           /\ \A a \in Actors : a # "consensus" => saving'[n][a] = saving[n][a]
           /\ ran'[n] = Append(ran[n], taken[n] + 1)
           /\ \A c \in DOMAIN made' : c = b \/ (c \in DOMAIN made /\ made'[c] = made[c])
<1> DEFINE new == [height |-> tip[n].height + 1, prev |-> tip[n].hash, batch |-> taken[n] + 1]
<1>1. PICK b \in 1..Len(made) + 1 :
        /\ IF b \in DOMAIN made THEN made[b] = new /\ UNCHANGED made
                                ELSE made' = Append(made, new)
        /\ tip' = [tip EXCEPT ![n] = [height |-> new.height, hash |-> b]]
        /\ WriteBlock(n, "consensus", b)
  BY Zenon DEF Build
<1>2. Len(made) \in Nat /\ DOMAIN made = 1..Len(made) /\ made \in Seq(Block)
  BY LenProperties DEF TypeOK
<1>3. /\ made'[b] = new /\ b \in DOMAIN made'
      /\ \A c \in DOMAIN made' : c = b \/ (c \in DOMAIN made /\ made'[c] = made[c])
  <2>1. CASE b \in DOMAIN made
    BY <1>1, <2>1
  <2>2. CASE b \notin DOMAIN made
    <3>1. made' = Append(made, new) /\ b = Len(made) + 1
      BY <1>1, <1>2, <2>2
    <3>2. new \in UNION {Block, {new}} /\ made \in Seq(UNION {Block, {new}})
      BY <1>2
    <3> HIDE DEF new
    <3>3. /\ Append(made, new)[Len(made) + 1] = new
          /\ DOMAIN Append(made, new) = 1..Len(made) + 1
          /\ \A c \in 1..Len(made) : Append(made, new)[c] = made[c]
      BY <3>2, AppendProperties, LenProperties
    <3> QED BY <1>2, <3>1, <3>3
  <2> QED BY <2>1, <2>2
<1>4. tip'[n] = [height |-> new.height, hash |-> b]
  BY <1>1 DEF TypeOK
<1>5. b \in Hash /\ "consensus" \in Actors
  BY <1>2 DEF Hash, Actors
<1>6. /\ saving'[n]["consensus"] = [block |-> b, put |-> "block"]
      /\ \A m \in Nodes, c \in Actors : m # n \/ c # "consensus" => saving'[m][c] = saving[m][c]
  BY <1>1, <1>5, SaveSet DEF TypeOK
<1>7. ran'[n] = Append(ran[n], taken[n] + 1)
  BY DEF Build, TypeOK
<1> QED BY <1>3, <1>4, <1>6, <1>7

LEMMA GenesisFirstKept ==
  ASSUME TypeOK, GenesisFirst, NEW n \in Nodes, NodeStep(n)
  PROVE  GenesisFirst'
<1>1. ASSUME NEW m \in Nodes, m # n
      PROVE  /\ tip'[m].height = 0 => tip'[m].hash = Genesis
             /\ latestHeight'[m] = 0 =>
                  latestHash'[m] = Genesis /\ \A a \in Actors : saving'[m][a].put # "hash"
  BY <1>1, OthersStay DEF Untouched, GenesisFirst
<1>2. CASE Build(n)
  <2>1. PICK b \in DOMAIN made' :
          /\ made'[b].height = tip[n].height + 1 /\ made'[b].prev = tip[n].hash
          /\ tip'[n].height = tip[n].height + 1
          /\ saving'[n]["consensus"].put = "block"
          /\ \A a \in Actors : a # "consensus" => saving'[n][a] = saving[n][a]
          /\ \A c \in DOMAIN made' : c = b \/ (c \in DOMAIN made /\ made'[c] = made[c])
    BY <1>2, BuildEffect
  <2>2. tip[n].height \in Nat
    BY BoundsAssumption DEF TypeOK
  <2>3. UNCHANGED <<latestHeight, latestHash>>
    BY <1>2 DEF Build, disk
  <2>4. \A c \in DOMAIN made' : made'[c].height = 1 => made'[c].prev = Genesis
    BY <2>1, <2>2 DEF GenesisFirst
  <2>5. \A a \in Actors : saving'[n][a].put = saving[n][a].put \/ saving'[n][a].put = "block"
    BY <2>1
  <2>6. /\ tip'[n].height = 0 => tip'[n].hash = Genesis
        /\ latestHeight'[n] = 0 =>
             latestHash'[n] = Genesis /\ \A a \in Actors : saving'[n][a].put # "hash"
    BY <2>1, <2>2, <2>3, <2>5 DEF GenesisFirst
  <2> QED BY <1>1, <2>4, <2>6 DEF GenesisFirst
<1>3. ASSUME NEW a \in Actors, Put(n, a) PROVE GenesisFirst'
  <2>1. made' = made /\ tip' = tip
    BY <1>3 DEF Put, PutBlock, PutHeight, PutHash
  <2>2. \A c \in Actors : c # a => saving'[n][c] = saving[n][c]
    BY <1>3 DEF Put, PutBlock, PutHeight, PutHash, TypeOK
  <2>3. made[saving[n][a].block].height \in Heights
    BY <1>3, SavedBlock DEF Put, PutBlock, PutHeight, PutHash
  <2>4. latestHeight'[n] = 0 =>
          latestHash'[n] = Genesis /\ \A c \in Actors : saving'[n][c].put # "hash"
    <3>1. CASE PutBlock(n, a)
      <4>1. saving'[n][a].put = "height" /\ UNCHANGED <<latestHeight, latestHash>>
        BY <3>1 DEF PutBlock, TypeOK
      <4> QED BY <2>2, <4>1 DEF GenesisFirst
    <3>2. CASE PutHeight(n, a)
      BY <2>3, <3>2 DEF PutHeight, TypeOK, Heights
    <3>3. CASE PutHash(n, a)
      BY <3>3 DEF PutHash, GenesisFirst
    <3> QED BY <1>3, <3>1, <3>2, <3>3 DEF Put
  <2> QED BY <1>1, <2>1, <2>4 DEF GenesisFirst
<1>4. ASSUME NEW t \in Tasks, Import(n, t) PROVE GenesisFirst'
  <2>1. UNCHANGED <<made, latestHeight, latestHash, tip>>
    BY <1>4 DEF Import, disk
  <2>2. PICK b : saving' = saving \/ WriteBlock(n, t, b)
    BY <1>4, Zenon DEF Import
  <2>3. \A a \in Actors : saving'[n][a] = saving[n][a] \/ saving'[n][a].put = "block"
    BY <2>2 DEF WriteBlock, TypeOK, Actors
  <2> QED BY <1>1, <2>1, <2>3 DEF GenesisFirst
<1>5. CASE Crash(n)
  <2>1. /\ UNCHANGED <<made, latestHeight, latestHash>> /\ tip'[n].hash = Genesis
        /\ \A a \in Actors : saving'[n][a].put = "none"
    BY <1>5 DEF Crash, disk, TypeOK, NoSave
  <2> QED BY <1>1, <2>1 DEF GenesisFirst
<1>6. CASE \/ Restart(n)
           \/ \E t \in Tasks : StartSync(n, t) \/ AskHeight(n, t) \/ Pull(n, t) \/ LosePeer(n, t) \/ TaskDies(n, t)
                                 \/ EndAnswer(n, t) \/ Reload(n, t)
  <2>1. UNCHANGED <<made, latestHeight, latestHash, saving>>
    BY <1>6 DEF Restart, StartSync, AskHeight, Pull, LosePeer, TaskDies, EndAnswer, Reload, disk
  <2>2. tip' = tip \/ tip' = [tip EXCEPT ![n] = [height |-> latestHeight[n], hash |-> latestHash[n]]]
    BY <1>6 DEF Restart, StartSync, AskHeight, Pull, LosePeer, TaskDies, EndAnswer, Reload
  <2>3. tip'[n] = tip[n] \/ (tip'[n].height = latestHeight[n] /\ tip'[n].hash = latestHash[n])
    BY <2>2 DEF TypeOK
  <2> QED BY <1>1, <2>1, <2>3 DEF GenesisFirst
<1> QED BY <1>2, <1>3, <1>4, <1>5, <1>6 DEF NodeStep

LEMMA DownIsIdleKept ==
  ASSUME TypeOK, DownIsIdle, NEW n \in Nodes, NodeStep(n)
  PROVE  DownIsIdle'
<1>1. ASSUME NEW m \in Nodes, m # n, ~up'[m]
      PROVE  (\A a \in Actors : ~IsSaving(m, a)') /\ (\A t \in Tasks : sync'[m][t] = Stopped)
  BY <1>1, OthersStay DEF Untouched, DownIsIdle, IsSaving
<1>2. CASE Crash(n)
  <2>1. /\ \A a \in Actors : saving'[n][a] = NoSave
        /\ \A t \in Tasks : sync'[n][t] = Stopped
    BY <1>2 DEF Crash, TypeOK
  <2> QED BY <1>1, <2>1 DEF DownIsIdle, IsSaving
<1>3. CASE ~Crash(n)
  <2>1. CASE ~up[n]
    <3>1. /\ \A a \in Actors : saving[n][a].put = "none"
          /\ \A t \in Tasks : sync[n][t].at = "idle"
      BY <2>1 DEF DownIsIdle, IsSaving, NoSave, Stopped
    <3>2. Restart(n)
      BY <1>3, <2>1, <3>1 DEF NodeStep, Build, Put, PutBlock, PutHeight, PutHash, StartSync,
        AskHeight, Pull, LosePeer, TaskDies, AwaitsAnswer, Import, EndAnswer, Reload
    <3> QED BY <1>1, <3>2 DEF Restart, TypeOK, DownIsIdle
  <2>2. CASE up[n]
    <3>1. up' = up
      BY <1>3, <2>2 DEF NodeStep, Build, Restart, Put, PutBlock, PutHeight, PutHash, StartSync,
        AskHeight, Pull, LosePeer, TaskDies, AwaitsAnswer, Import, EndAnswer, Reload
    <3> QED BY <1>1, <2>2, <3>1 DEF DownIsIdle
  <2> QED BY <2>1, <2>2
<1> QED BY <1>2, <1>3

LEMMA NextIsNodeStep == Next <=> \E n \in Nodes : NodeStep(n)
  BY DEF Next, NodeStep

LEMMA ImportInvariant == Spec => []ImportInv
<1>1. Init => ImportInv
  <2> SUFFICES ASSUME Init PROVE ImportInv
    OBVIOUS
  <2>1. ASSUME NEW n \in Nodes, NEW t \in Tasks PROVE TaskInOrder(n, t)
    <3>1. sync[n][t] = Stopped /\ ~IsSaving(n, t)
      BY DEF Init, IsSaving, Actors
    <3> QED BY <3>1, NothingAscends DEF TaskInOrder, Stopped
  <2>2. AtItsHeight /\ DownIsIdle /\ GenesisFirst
    BY DEF Init, AtItsHeight, DownIsIdle, GenesisFirst, NoSave
  <2> QED BY <2>1, <2>2 DEF ImportInv, TasksInOrder
<1>2. TypeOK /\ NoGaps /\ ImportInv /\ [Next]_vars => ImportInv'
  <2> SUFFICES ASSUME TypeOK, NoGaps, ImportInv, [Next]_vars PROVE ImportInv'
    OBVIOUS
  <2>1. AtItsHeight /\ DownIsIdle /\ GenesisFirst /\ TasksInOrder
    BY DEF ImportInv
  <2>2. CASE UNCHANGED vars
    <3>1. UNCHANGED <<made, blocks, latestHeight, latestHash, tip, up, saving, sync>>
      BY <2>2 DEF vars, disk
    <3>2. AtItsHeight' /\ DownIsIdle' /\ GenesisFirst'
      BY <2>1, <3>1 DEF AtItsHeight, DownIsIdle, IsSaving, GenesisFirst
    <3>3. TasksInOrder'
      <4>1. Grows
        BY <3>1 DEF Grows
      <4> QED BY <2>1, <3>1, <4>1, TaskLeftAlone DEF TasksInOrder, IsSaving
    <3> QED BY <3>2, <3>3 DEF ImportInv
  <2>3. ASSUME NEW n \in Nodes, NodeStep(n) PROVE ImportInv'
    <3>1. AtItsHeight' /\ DownIsIdle' /\ GenesisFirst'
      BY <2>1, <2>3, AtItsHeightKept, DownIsIdleKept, GenesisFirstKept
    <3>2. CASE Build(n) \/ Crash(n) \/ Restart(n)
      BY <2>1, <3>1, <3>2, InOrderOther DEF ImportInv
    <3>3. ASSUME NEW a \in Actors, Put(n, a) PROVE ImportInv'
      BY <2>1, <3>1, <3>3, InOrderPut DEF ImportInv
    <3>4. ASSUME NEW t \in Tasks, Import(n, t) PROVE ImportInv'
      BY <2>1, <3>1, <3>4, InOrderImport DEF ImportInv
    <3>5. ASSUME NEW t \in Tasks,
                 StartSync(n, t) \/ AskHeight(n, t) \/ Pull(n, t) \/ LosePeer(n, t) \/ TaskDies(n, t)
                   \/ EndAnswer(n, t) \/ Reload(n, t)
          PROVE  ImportInv'
      BY <3>1, <3>5, InOrderAsk DEF ImportInv
    <3> QED BY <2>3, <3>2, <3>3, <3>4, <3>5 DEF NodeStep
  <2> QED BY <2>2, <2>3, NextIsNodeStep
<1> QED BY <1>1, <1>2, TypeCorrect, ChainHasNoGaps, PTL DEF Spec

-----------------------------------------------------------------------------
(* One chain.  While one actor at a time is at work, the blocks up to the      *)
(* height on disk name each other, what is being saved goes on top of them,    *)
(* and the tip in memory is the one on disk, or will be raised to it.          *)

\* The hash that a block above height h has to name.
Top(n, h) == IF h = 0 THEN Genesis ELSE blocks[n][h]

Linked(n, k) ==
  \A h \in 1..k : /\ blocks[n][h] # Genesis
                  /\ made[blocks[n][h]].height = h
                  /\ made[blocks[n][h]].prev = Top(n, h - 1)

Quiet(n)  == \A a \in Actors : ~IsSaving(n, a)
OnDisk(n) == tip[n].height = latestHeight[n] /\ tip[n].hash = latestHash[n]

OneAtWork(n) == \A a, b \in AtWork(n) : a = b

SavedHeight(n, a) == made[saving[n][a].block].height

\* A block being saved names the one below, as far as its puts have gone.
SaveFits(n, a) ==
  IsSaving(n, a) =>
    /\ SavedHeight(n, a) - 1 <= latestHeight[n]
    /\ Linked(n, SavedHeight(n, a) - 1)
    /\ made[saving[n][a].block].prev = Top(n, SavedHeight(n, a) - 1)
    /\ saving[n][a].put # "block" => blocks[n][SavedHeight(n, a)] = saving[n][a].block
    /\ saving[n][a].put = "hash" => latestHeight[n] = SavedHeight(n, a)

Settled(n) ==
  Quiet(n) => Linked(n, latestHeight[n]) /\ latestHash[n] = Top(n, latestHeight[n])

\* The tip in memory: with nobody at work, while the consensus saves, and while a task runs,
\* which leaves it where the task started, and which will see that there is more on disk.
IdleTip(n) == up[n] /\ AtWork(n) = {} => OnDisk(n)

ConsensusTip(n) ==
  IsSaving(n, "consensus") =>
    /\ tip[n].height = SavedHeight(n, "consensus")
    /\ tip[n].hash = saving[n]["consensus"].block

TaskTip(n, t) ==
  Running(n, t) =>
    /\ sync[n][t].base = tip[n].height /\ sync[n][t].base <= latestHeight[n]
    /\ sync[n][t].at \in {"pull", "import"} =>
         /\ sync[n][t].base <= sync[n][t].current /\ sync[n][t].current <= sync[n][t].last
         /\ sync[n][t].last <= latestHeight[n]
    /\ \/ OnDisk(n) \/ IsSaving(n, t)
       \/ latestHeight[n] > sync[n][t].base /\ sync[n][t].final > 0
       \/ /\ latestHeight[n] > sync[n][t].base
          /\ sync[n][t].at = "import" /\ sync[n][t].last > sync[n][t].current

OneChain(n) ==
  /\ OneAtWork(n) /\ Settled(n) /\ (\A a \in Actors : SaveFits(n, a))
  /\ IdleTip(n) /\ ConsensusTip(n) /\ (\A t \in Tasks : TaskTip(n, t))

ApartInv == \A n \in Nodes : apart[n] => OneChain(n)

\* Another node's step, or a stutter, changes nothing of this.
LEMMA LinkedKept ==
  ASSUME TypeOK, Grows, NEW n \in Nodes, NEW k \in Int, k <= MaxHeight, Linked(n, k),
         \A h \in 1..k : blocks'[n][h] = blocks[n][h]
  PROVE  Linked(n, k)'
<1>1. ASSUME NEW h \in 1..k PROVE blocks[n][h] \in DOMAIN made
  <2>1. h \in Heights
    BY BoundsAssumption DEF Heights
  <2>2. blocks[n][h] \in 0..Len(made) /\ blocks[n][h] # 0
    BY <2>1 DEF TypeOK, Linked
  <2>3. Len(made) \in Nat /\ DOMAIN made = 1..Len(made)
    BY LenProperties DEF TypeOK
  <2> QED BY <2>2, <2>3
<1>2. \A h \in 1..k : made'[blocks[n][h]] = made[blocks[n][h]]
  BY <1>1 DEF Grows
<1>3. \A h \in 1..k : Top(n, h - 1)' = Top(n, h - 1)
  BY DEF Top
<1> QED BY <1>2, <1>3 DEF Linked

LEMMA OneChainKept ==
  ASSUME TypeOK, Grows, NEW m \in Nodes, Untouched(m), OneChain(m)
  PROVE  OneChain(m)'
<1> USE DEF Untouched
<1>1. latestHeight[m] \in Int /\ latestHeight[m] <= MaxHeight
  BY BoundsAssumption DEF TypeOK
<1>2. \A a \in Actors : IsSaving(m, a)' <=> IsSaving(m, a)
  BY DEF IsSaving
<1>3. ASSUME NEW a \in Actors, IsSaving(m, a)
      PROVE  /\ made'[saving[m][a].block] = made[saving[m][a].block]
             /\ SavedHeight(m, a)' = SavedHeight(m, a)
             /\ SavedHeight(m, a) \in Heights
  <2>1. saving[m][a].block \in DOMAIN made
    BY <1>3 DEF TypeOK
  <2> QED BY <2>1, MadeBlock DEF Grows, SavedHeight
<1>4. \A k \in Int : k <= MaxHeight /\ Linked(m, k) => Linked(m, k)'
  BY LinkedKept
<1>5. \A k : Top(m, k)' = Top(m, k)
  BY DEF Top
<1>6. AtWork(m)' = AtWork(m) /\ \A t \in Tasks : Running(m, t)' <=> Running(m, t)
  BY DEF AtWork, IsSaving, Running
<1>7. OneAtWork(m)' /\ IdleTip(m)'
  BY <1>6 DEF OneChain, OneAtWork, IdleTip, OnDisk
<1>8. Settled(m)'
  <2> DEFINE k == latestHeight[m]
  <2>1. Quiet(m)' => Quiet(m)
    BY <1>2 DEF Quiet
  <2>2. Quiet(m) => Linked(m, k) /\ latestHash[m] = Top(m, k)
    BY DEF OneChain, Settled
  <2>3. k' = k /\ latestHash'[m] = latestHash[m] /\ Top(m, k)' = Top(m, k)
    BY <1>5
  <2>4. Linked(m, k) => Linked(m, k)'
    BY <1>1, <1>4
  <2> QED BY <2>1, <2>2, <2>3, <2>4 DEF Settled
<1>9. ASSUME NEW a \in Actors PROVE SaveFits(m, a)'
  <2>1. CASE IsSaving(m, a)
    <3> DEFINE k == SavedHeight(m, a)
    <3>1. k \in Nat /\ k - 1 \in Int /\ k - 1 <= MaxHeight /\ k' = k
      BY <1>3, <2>1, BoundsAssumption DEF Heights
    <3>2. SaveFits(m, a)
      BY DEF OneChain
    <3>3. Linked(m, k - 1) /\ made[saving[m][a].block].prev = Top(m, k - 1)
      BY <2>1, <3>2 DEF SaveFits
    <3>4. Linked(m, k - 1)'
      BY <1>4, <3>1, <3>3
    <3> QED BY <1>3, <1>5, <2>1, <3>1, <3>2, <3>3, <3>4 DEF SaveFits
  <2>2. CASE ~IsSaving(m, a)
    BY <1>2, <2>2 DEF SaveFits
  <2> QED BY <2>1, <2>2
<1>10. ConsensusTip(m)'
  <2>1. "consensus" \in Actors
    BY DEF Actors
  <2> QED BY <1>2, <1>3, <2>1 DEF OneChain, ConsensusTip
<1>11. \A t \in Tasks : TaskTip(m, t)'
  <2>1. \A t \in Tasks : t \in Actors
    BY DEF Actors
  <2> QED BY <1>2, <1>6, <2>1 DEF OneChain, TaskTip, OnDisk
<1> QED BY <1>7, <1>8, <1>9, <1>10, <1>11 DEF OneChain

\* The consensus builds, nobody else at work.
LEMMA OneChainBuild ==
  ASSUME TypeOK, NEW n \in Nodes, Build(n), apart'[n], apart[n] => OneChain(n)
  PROVE  OneChain(n)'
<1>1. AtWork(n) = {} /\ apart[n] /\ up[n] /\ UNCHANGED <<blocks, latestHeight, latestHash, sync>>
  BY DEF Build, Begins, disk, TypeOK
<1>2. Grows
  BY MadeGrows DEF NodeStep
<1>3. Quiet(n) /\ \A t \in Tasks : ~Running(n, t)
  BY <1>1 DEF AtWork, Quiet
<1>0. PICK k : k = latestHeight[n]
  OBVIOUS
<1>4. /\ tip[n].height = k /\ tip[n].hash = latestHash[n]
      /\ Linked(n, k) /\ latestHash[n] = Top(n, k)
  BY <1>0, <1>1, <1>3 DEF OneChain, IdleTip, OnDisk, Settled
<1>5. k \in Int /\ k <= MaxHeight /\ k >= 0
  BY <1>0, BoundsAssumption DEF TypeOK
<1>6. PICK b \in DOMAIN made' :
           /\ made'[b].height = k + 1 /\ made'[b].prev = Top(n, k)
           /\ tip'[n].height = k + 1 /\ tip'[n].hash = b
           /\ saving'[n]["consensus"].block = b /\ saving'[n]["consensus"].put = "block"
           /\ \A a \in Actors : a # "consensus" => saving'[n][a] = saving[n][a]
  BY <1>4, BuildEffect
<1>7. Linked(n, k)' /\ Top(n, k)' = Top(n, k)
  BY <1>1, <1>2, <1>4, <1>5, LinkedKept DEF Top
<1>8. /\ IsSaving(n, "consensus")' /\ "consensus" \in Actors
      /\ \A a \in Actors : IsSaving(n, a)' => a = "consensus"
      /\ \A t \in Tasks : ~Running(n, t)' /\ t # "consensus"
  BY <1>1, <1>3, <1>6 DEF IsSaving, NoSave, Quiet, Running, Actors, Tasks
<1>9. AtWork(n)' = {"consensus"}
  BY <1>8 DEF AtWork
<1>10. SavedHeight(n, "consensus")' = k + 1
  BY <1>6 DEF SavedHeight
<1>11. OneAtWork(n)' /\ IdleTip(n)' /\ Settled(n)'
  BY <1>8, <1>9 DEF OneAtWork, IdleTip, Settled, Quiet
<1>12. ConsensusTip(n)' /\ \A t \in Tasks : TaskTip(n, t)'
  BY <1>6, <1>8, <1>10 DEF ConsensusTip, TaskTip
<1>13. ASSUME NEW a \in Actors PROVE SaveFits(n, a)'
  <2>1. CASE a = "consensus"
    <3>1. SavedHeight(n, a)' - 1 = k /\ latestHeight'[n] = k
      BY <1>0, <1>1, <1>5, <1>10, <2>1
    <3>2. /\ made'[saving'[n][a].block].prev = Top(n, k)' /\ saving'[n][a].put = "block"
          /\ Linked(n, k)'
      BY <1>6, <1>7, <2>1
    <3> QED BY <1>5, <3>1, <3>2 DEF SaveFits
  <2>2. CASE a # "consensus"
    BY <1>8, <2>2 DEF SaveFits
  <2> QED BY <2>1, <2>2
<1> QED BY <1>11, <1>12, <1>13 DEF OneChain

\* The first put: the block lies on disk, above those it has been linked to.
LEMMA OneChainPut ==
  ASSUME TypeOK, ImportInv, NEW n \in Nodes, NEW a \in Actors, Put(n, a), OneChain(n)
  PROVE  OneChain(n)'
<1>0. PICK b, k : b = saving[n][a].block /\ k = SavedHeight(n, a)
  OBVIOUS
<1>1. /\ saving[n][a].put # "none" /\ IsSaving(n, a) /\ UNCHANGED <<made, up, tip>>
  BY DEF Put, PutBlock, PutHeight, PutHash, IsSaving, NoSave
<1>2. Grows
  BY <1>1 DEF Grows
<1>3. b \in DOMAIN made /\ b # Genesis /\ k \in Heights /\ k \in Int /\ k - 1 \in Int /\ k <= MaxHeight
      /\ k >= 1 /\ k - 1 <= MaxHeight /\ MaxHeight \in Nat
  BY <1>1, SavedBlock, <1>0, BoundsAssumption DEF SavedHeight, Heights
<1>4. /\ k - 1 <= latestHeight[n] /\ Linked(n, k - 1) /\ made[b].prev = Top(n, k - 1)
      /\ saving[n][a].put # "block" => blocks[n][k] = b
      /\ saving[n][a].put = "hash" => latestHeight[n] = k
  <2>1. SaveFits(n, a)
    BY DEF OneChain
  <2> QED BY <1>0, <1>1, <2>1 DEF SaveFits
<1>5. a \in AtWork(n) /\ (\A c \in Actors : c # a => ~IsSaving(n, c))
      /\ (\A t \in Tasks : t # a => ~Running(n, t))
  BY <1>1 DEF AtWork, OneChain, OneAtWork
<1>6. \A c \in Actors : c # a => saving'[n][c] = saving[n][c]
  BY DEF Put, PutBlock, PutHeight, PutHash, TypeOK
<1>7. \A c \in Actors : c # a => ~IsSaving(n, c)'
  BY <1>5, <1>6 DEF IsSaving
<1>8. \A c \in Actors : c # a => SaveFits(n, c)'
  BY <1>7 DEF SaveFits
<1>9. "consensus" \in Actors /\ \A t \in Tasks : t \in Actors /\ t # "consensus"
  BY DEF Actors, Tasks
<1>10. a \in Tasks => /\ sync[n][a].at = "import" /\ k = sync[n][a].last + 1
                      /\ sync[n][a].current <= sync[n][a].last /\ Running(n, a)
                      /\ sync[n][a].base \in Int /\ sync[n][a].current \in Int
                      /\ sync[n][a].last \in Int
  <2> SUFFICES ASSUME a \in Tasks
               PROVE  /\ sync[n][a].at = "import" /\ k = sync[n][a].last + 1
                      /\ sync[n][a].current <= sync[n][a].last /\ Running(n, a)
                      /\ sync[n][a].base \in Int /\ sync[n][a].current \in Int
                      /\ sync[n][a].last \in Int
    OBVIOUS
  <2>1. TaskInOrder(n, a) /\ sync[n][a] \in Task
    BY DEF ImportInv, TasksInOrder, TypeOK
  <2>2. sync[n][a].at = "import" /\ k = sync[n][a].last + 1
    BY <1>0, <1>1, <2>1 DEF TaskInOrder, SavedHeight
  <2> QED BY <2>1, <2>2 DEF TaskInOrder, Task, Running
<1>11. /\ a = "consensus" => tip[n].height = k /\ tip[n].hash = b
       /\ a \in Tasks => TaskTip(n, a)
  BY <1>0, <1>1 DEF OneChain, ConsensusTip
<1>12. CASE PutBlock(n, a)
  <2>1. /\ UNCHANGED <<latestHeight, latestHash, sync>>
        /\ blocks' = [blocks EXCEPT ![n][k] = b]
        /\ saving[n][a].put = "block"
    BY <1>0, <1>12 DEF PutBlock, SavedHeight
  <2>2. saving'[n][a].put = "height" /\ saving'[n][a].block = b
    BY <1>0, <1>12 DEF PutBlock, TypeOK, Save
  <2>3. blocks'[n][k] = b /\ \A h \in Heights : h # k => blocks'[n][h] = blocks[n][h]
    BY <1>3, <2>1 DEF TypeOK
  <2>4. \A h \in 1..k - 1 : blocks'[n][h] = blocks[n][h]
    BY <1>3, <2>3 DEF Heights
  <2>5. Linked(n, k - 1)' /\ Top(n, k - 1)' = Top(n, k - 1)
    <3>1. Linked(n, k - 1)'
      BY <1>2, <1>3, <1>4, <2>4, LinkedKept
    <3> QED BY <1>3, <2>4, <3>1 DEF Top
  <2>6. IsSaving(n, a)' /\ SavedHeight(n, a)' = k
    BY <1>0, <1>1, <2>2 DEF IsSaving, NoSave, SavedHeight
  <2>7. SaveFits(n, a)'
    BY <1>1, <1>4, <2>1, <2>2, <2>3, <2>5, <2>6 DEF SaveFits
  <2>8. AtWork(n)' = AtWork(n)
    BY <1>1, <1>5, <1>7, <2>1, <2>6 DEF AtWork, Running
  <2>9. OneAtWork(n)' /\ Settled(n)' /\ IdleTip(n)'
    BY <1>5, <2>6, <2>8 DEF OneChain, OneAtWork, Settled, Quiet, IdleTip
  <2>10. ConsensusTip(n)'
    BY <1>1, <1>7, <1>9, <1>11, <2>2, <2>6 DEF ConsensusTip
  <2>11. \A t \in Tasks : TaskTip(n, t)'
    BY <1>1, <1>5, <1>11, <2>1, <2>6 DEF TaskTip, Running, OnDisk
  <2> QED BY <1>8, <2>7, <2>9, <2>10, <2>11 DEF OneChain
<1>13. CASE PutHeight(n, a)
  <2>1. /\ UNCHANGED <<blocks, latestHash, sync>>
        /\ latestHeight' = [latestHeight EXCEPT ![n] = k]
        /\ saving[n][a].put = "height"
    BY <1>0, <1>13 DEF PutHeight, SavedHeight
  <2>2. saving'[n][a].put = "hash" /\ saving'[n][a].block = b
    BY <1>0, <1>13 DEF PutHeight, TypeOK, Save
  <2>3. latestHeight'[n] = k
    BY <2>1 DEF TypeOK
  <2>4. Linked(n, k - 1)' /\ Top(n, k - 1)' = Top(n, k - 1)
    <3>1. Linked(n, k - 1)'
      BY <1>2, <1>3, <1>4, <2>1, LinkedKept
    <3> QED BY <2>1, <3>1 DEF Top
  <2>5. IsSaving(n, a)' /\ SavedHeight(n, a)' = k
    BY <1>0, <1>1, <2>2 DEF IsSaving, NoSave, SavedHeight
  <2>6. SaveFits(n, a)'
    BY <1>1, <1>3, <1>4, <2>1, <2>2, <2>3, <2>4, <2>5 DEF SaveFits
  <2>7. AtWork(n)' = AtWork(n)
    BY <1>1, <1>5, <1>7, <2>1, <2>5 DEF AtWork, Running
  <2>8. OneAtWork(n)' /\ Settled(n)' /\ IdleTip(n)'
    BY <1>5, <2>5, <2>7 DEF OneChain, OneAtWork, Settled, Quiet, IdleTip
  <2>9. ConsensusTip(n)'
    BY <1>1, <1>7, <1>9, <1>11, <2>2, <2>5 DEF ConsensusTip
  <2>10. ASSUME NEW t \in Tasks, t = a PROVE TaskTip(n, t)'
    <3>1. /\ sync[n][t].base = tip[n].height /\ sync[n][t].base <= sync[n][t].current
          /\ sync[n][t].current <= sync[n][t].last /\ k = sync[n][t].last + 1
          /\ sync[n][t].base \in Int /\ sync[n][t].current \in Int /\ sync[n][t].last \in Int
      BY <1>10, <1>11, <2>10 DEF TaskTip
    <3> QED BY <1>1, <2>1, <2>3, <2>5, <2>10, <3>1 DEF TaskTip
  <2>11. \A t \in Tasks : TaskTip(n, t)'
    BY <1>5, <2>1, <2>10 DEF TaskTip, Running
  <2> QED BY <1>8, <2>6, <2>8, <2>9, <2>11 DEF OneChain
<1>14. CASE PutHash(n, a)
  <2>1. /\ UNCHANGED <<blocks, latestHeight>> /\ latestHash'[n] = b
        /\ saving'[n][a] = NoSave /\ saving[n][a].put = "hash"
    BY <1>0, <1>14 DEF PutHash, TypeOK
  <2>2. ~IsSaving(n, a)'
    BY <2>1 DEF IsSaving
  <2>3. Quiet(n)'
    BY <1>7, <2>2 DEF Quiet
  <2>4. \A t \in Tasks : t # a => sync'[n][t] = sync[n][t]
    BY <1>0, <1>14 DEF PutHash, TypeOK
  <2>5. a \in Tasks => /\ sync'[n][a].at = "import" /\ sync'[n][a].last = k
                       /\ sync'[n][a].base = sync[n][a].base
                       /\ sync'[n][a].current = sync[n][a].current
    <3>1. ASSUME a \in Tasks PROVE sync'[n][a] = [sync[n][a] EXCEPT !.last = k] /\ sync[n][a] \in Task
      BY <1>0, <1>14, <3>1 DEF PutHash, TypeOK, SavedHeight
    <3> QED BY <1>10, <3>1 DEF Task
  <2>6. latestHeight[n] = k /\ blocks[n][k] = b
    BY <1>4, <2>1
  <2>7. Linked(n, k - 1)' /\ Top(n, k - 1)' = Top(n, k - 1)
    <3>1. Linked(n, k - 1)'
      BY <1>2, <1>3, <1>4, <2>1, LinkedKept
    <3> QED BY <2>1, <3>1 DEF Top
  <2>8. Linked(n, k)'
    <3>1. made[b].height = k
      BY <1>0 DEF SavedHeight
    <3>2. ASSUME NEW h \in 1..k, h # k PROVE h \in 1..k - 1
      BY <1>3, <3>2
    <3> QED BY <1>1, <1>3, <1>4, <2>1, <2>6, <2>7, <3>1, <3>2 DEF Linked
  <2>9. Settled(n)'
    BY <1>3, <2>1, <2>6, <2>8 DEF Settled, Top
  <2>10. SaveFits(n, a)'
    BY <2>2 DEF SaveFits
  <2>11. OneAtWork(n)' /\ IdleTip(n)'
    <3>1. AtWork(n)' \subseteq {a}
      BY <1>5, <2>3, <2>4 DEF AtWork, Quiet, Running
    <3>2. CASE a = "consensus"
      BY <1>1, <1>11, <2>1, <2>6, <3>1, <3>2 DEF OneAtWork, IdleTip, OnDisk
    <3>3. CASE a \in Tasks
      <4>1. a \in AtWork(n)'
        BY <2>5, <3>3 DEF AtWork, Running
      <4> QED BY <3>1, <4>1 DEF OneAtWork, IdleTip
    <3> QED BY <3>2, <3>3 DEF Actors
  <2>12. ConsensusTip(n)'
    BY <1>9, <2>3 DEF ConsensusTip, Quiet
  <2>13. ASSUME NEW t \in Tasks, t = a PROVE TaskTip(n, t)'
    <3>1. /\ sync[n][t].base = tip[n].height /\ sync[n][t].base <= sync[n][t].current
          /\ sync[n][t].current <= sync[n][t].last /\ k = sync[n][t].last + 1
          /\ sync[n][t].base \in Int /\ sync[n][t].current \in Int /\ sync[n][t].last \in Int
      BY <1>10, <1>11, <2>13 DEF TaskTip
    <3>2. /\ sync'[n][t].at = "import" /\ sync'[n][t].last = k
          /\ sync'[n][t].base = sync[n][t].base /\ sync'[n][t].current = sync[n][t].current
          /\ latestHeight'[n] = k /\ tip'[n] = tip[n]
      BY <1>1, <2>1, <2>5, <2>6, <2>13
    <3> QED BY <3>1, <3>2 DEF TaskTip
  <2>14. \A t \in Tasks : TaskTip(n, t)'
    BY <1>5, <2>4, <2>13 DEF TaskTip, Running
  <2> QED BY <1>8, <2>9, <2>10, <2>11, <2>12, <2>14 DEF OneChain
<1> QED BY <1>12, <1>13, <1>14 DEF Put

\* While nothing is being saved and the disk stays as it is, its chain is left alone.
LEMMA QuietChain ==
  ASSUME TypeOK, NEW n \in Nodes, UNCHANGED <<made, blocks, latestHeight, latestHash>>,
         Quiet(n), Quiet(n)', Settled(n)
  PROVE  Settled(n)' /\ (\A a \in Actors : SaveFits(n, a)') /\ ConsensusTip(n)'
<1>1. Linked(n, latestHeight[n])' /\ latestHash'[n] = Top(n, latestHeight[n])'
  <2>0. PICK k : k = latestHeight[n]
    OBVIOUS
  <2>1. k \in Int /\ k <= MaxHeight /\ Grows
    BY <2>0, BoundsAssumption DEF TypeOK, Grows
  <2>2. Linked(n, k) /\ latestHash[n] = Top(n, k)
    BY <2>0 DEF Settled
  <2>3. Linked(n, k)' /\ Top(n, k)' = Top(n, k)
    BY <2>1, <2>2, LinkedKept DEF Top
  <2>4. latestHeight'[n] = k
    BY <2>0
  <2> QED BY <2>2, <2>3, <2>4
<1>2. \A a \in Actors : ~IsSaving(n, a)'
  BY DEF Quiet
<1>3. "consensus" \in Actors
  BY DEF Actors
<1> QED BY <1>1, <1>2, <1>3 DEF Settled, SaveFits, ConsensusTip

\* While a task runs and saves nothing, nobody else is at work.
LEMMA RunsAlone ==
  ASSUME TypeOK, NEW n \in Nodes, NEW t \in Tasks, Running(n, t), ~IsSaving(n, t), OneAtWork(n)
  PROVE  Quiet(n) /\ \A u \in Tasks : u # t => ~Running(n, u)
<1>1. t \in AtWork(n) /\ t \in Actors
  BY DEF AtWork, Actors
<1> QED BY <1>1 DEF AtWork, OneAtWork, Quiet

\* A task moves on, or starts, with nobody else at work.
LEMMA OneChainMove ==
  ASSUME TypeOK, NEW n \in Nodes, NEW t \in Tasks, NEW r \in Task, SetTask(n, t, r),
         UNCHANGED <<made, blocks, latestHeight, latestHash, tip, saving>>,
         Quiet(n), \A u \in Tasks : u # t => ~Running(n, u), Settled(n),
         r.at \notin {"idle", "done"}, r.base = tip[n].height, r.base <= latestHeight[n],
         r.at \in {"pull", "import"} =>
           r.base <= r.current /\ r.current <= r.last /\ r.last <= latestHeight[n],
         \/ OnDisk(n)
         \/ latestHeight[n] > r.base /\ r.final > 0
         \/ latestHeight[n] > r.base /\ r.at = "import" /\ r.last > r.current
  PROVE  OneChain(n)'
<1>1. /\ sync'[n][t] = r
      /\ \A u \in Tasks : u # t => sync'[n][u] = sync[n][u]
  BY TaskSet DEF TypeOK
<1>2. Quiet(n)' /\ (OnDisk(n)' <=> OnDisk(n))
  BY DEF Quiet, IsSaving, OnDisk
<1>3. Settled(n)' /\ (\A a \in Actors : SaveFits(n, a)') /\ ConsensusTip(n)'
  BY <1>2, QuietChain
<1>4. AtWork(n)' = {t} /\ \A u \in Tasks : Running(n, u)' => u = t
  BY <1>1, <1>2 DEF AtWork, Quiet, Running
<1>5. OneAtWork(n)' /\ IdleTip(n)'
  BY <1>4 DEF OneAtWork, IdleTip
<1>6. \A u \in Tasks : TaskTip(n, u)'
  BY <1>1, <1>2, <1>4 DEF TaskTip
<1> QED BY <1>3, <1>5, <1>6 DEF OneChain

LEMMA OneChainStart ==
  ASSUME TypeOK, NEW n \in Nodes, NEW t \in Tasks, StartSync(n, t), apart'[n],
         apart[n] => OneChain(n)
  PROVE  OneChain(n)'
<1> DEFINE k == latestHeight[n]
           r == [Stopped EXCEPT !.at = "peers", !.base = k, !.final = k, !.todo = PeersOf[n]]
<1>1. /\ AtWork(n) = {} /\ apart[n] /\ up[n] /\ SetTask(n, t, r)
      /\ UNCHANGED <<made, blocks, latestHeight, latestHash, tip, saving>>
  BY DEF StartSync, Begins, disk, TypeOK
<1>2. Quiet(n) /\ \A u \in Tasks : ~Running(n, u)
  BY <1>1 DEF AtWork, Quiet
<1>3. OnDisk(n) /\ Settled(n)
  BY <1>1 DEF OneChain, IdleTip
<1>4. r \in Task /\ r.at = "peers" /\ r.base = k
  <2>1. k \in 0..MaxHeight /\ 0 \in 0..MaxHeight /\ PeersOf[n] \in SUBSET Nodes
    BY BoundsAssumption, NodesAssumption DEF TypeOK
  <2> HIDE DEF k
  <2> QED BY <2>1 DEF Task, Stopped
<1>5. k \in Int
  BY DEF TypeOK
<1> HIDE DEF r
<1>6. r.base = tip[n].height /\ r.base <= latestHeight[n]
  BY <1>3, <1>4, <1>5 DEF OnDisk
<1> QED BY <1>1, <1>2, <1>3, <1>4, <1>6, OneChainMove

LEMMA OneChainAsk ==
  ASSUME TypeOK, ImportInv, NEW n \in Nodes, NEW t \in Tasks,
         AskHeight(n, t) \/ Pull(n, t) \/ LosePeer(n, t) \/ EndAnswer(n, t), OneChain(n)
  PROVE  OneChain(n)'
<1>0. PICK s : s = sync[n][t]
  OBVIOUS
<1>1. s \in Task /\ TaskInOrder(n, t)
  BY <1>0 DEF TypeOK, ImportInv, TasksInOrder
<1>2. s.at \in {"peers", "pull", "import"} /\ Running(n, t) /\ ~IsSaving(n, t)
  BY <1>0, <1>1 DEF AskHeight, Pull, LosePeer, EndAnswer, Running, TaskInOrder
<1>3. UNCHANGED <<made, blocks, latestHeight, latestHash, tip, saving>>
  BY DEF AskHeight, Pull, LosePeer, EndAnswer, disk
<1>4. Quiet(n) /\ (\A u \in Tasks : u # t => ~Running(n, u)) /\ Settled(n)
  BY <1>2, RunsAlone DEF OneChain
<1>5. /\ s.base \in Int /\ s.current \in Int /\ s.last \in Int /\ s.final \in Int /\ s.goal \in Int
      /\ latestHeight[n] \in Int /\ s.base >= 0 /\ s.last <= MaxHeight
  BY <1>1, BoundsAssumption DEF Task, TypeOK
<1>6. /\ s.base = tip[n].height /\ s.base <= latestHeight[n]
      /\ s.at \in {"pull", "import"} =>
           s.base <= s.current /\ s.current <= s.last /\ s.last <= latestHeight[n]
      /\ \/ OnDisk(n)
         \/ latestHeight[n] > s.base /\ s.final > 0
         \/ latestHeight[n] > s.base /\ s.at = "import" /\ s.last > s.current
  <2>1. TaskTip(n, t)
    BY DEF OneChain
  <2> QED BY <1>0, <1>2, <2>1 DEF TaskTip
\* Everything that is asked of the record the task moves to.
<1> DEFINE Good(r) ==
      /\ r.at \notin {"idle", "done"} /\ r.base = s.base
      /\ r.at \in {"pull", "import"} =>
           r.base <= r.current /\ r.current <= r.last /\ r.last <= latestHeight[n]
      /\ \/ OnDisk(n)
         \/ latestHeight[n] > r.base /\ r.final > 0
         \/ latestHeight[n] > r.base /\ r.at = "import" /\ r.last > r.current
<1>7. ASSUME NEW r \in Task, SetTask(n, t, r), Good(r) PROVE OneChain(n)'
  BY <1>3, <1>4, <1>6, <1>7, OneChainMove
<1>8. ASSUME s.at \in {"peers", "pull"} \/ (s.at = "import" /\ s.last <= s.current)
      PROVE  /\ Good(Leave(s))
             /\ \A p : s.at = "peers" => Good(Without(s, p)) /\ Good(Pulling(s, p))
             /\ \A got : s.at = "pull" => Good(Importing(s, got))
  BY <1>1, <1>5, <1>6, <1>8, TaskFields
<1> HIDE DEF Good
<1>9. CASE AskHeight(n, t)
  <2>1. PICK p \in s.todo : SetTask(n, t, Pulling(s, p)) \/ SetTask(n, t, Without(s, p))
    BY <1>0, <1>9 DEF AskHeight
  <2>2. p \in Nodes /\ latestHeight[p] \in 0..MaxHeight /\ s.at = "peers"
    BY <1>0, <1>1, <1>9 DEF AskHeight, Task, TypeOK
  <2>3. Pulling(s, p) \in Task /\ Without(s, p) \in Task
    BY <1>1, <2>2, TaskUpdates
  <2> QED BY <1>7, <1>8, <2>1, <2>2, <2>3
<1>10. CASE Pull(n, t)
  <2>1. PICK p \in s.peer :
          SetTask(n, t, Leave(s)) \/ SetTask(n, t, Importing(s, Answer(p, s.current)))
    BY <1>0, <1>10 DEF Pull
  <2>2. p \in Nodes /\ s.at = "pull"
    BY <1>0, <1>1, <1>10 DEF Pull, Task
  <2>3. Leave(s) \in Task /\ Importing(s, Answer(p, s.current)) \in Task
    BY <1>1, <2>2, RecordTypes, TaskUpdates, AnswerTypes
  <2> QED BY <1>7, <1>8, <2>1, <2>2, <2>3
<1>11. CASE LosePeer(n, t)
  <2>1. \/ s.at = "peers" /\ \E p : SetTask(n, t, Without(s, p))
        \/ s.at = "pull" /\ SetTask(n, t, Leave(s))
    BY <1>0, <1>11 DEF LosePeer
  <2>2. Leave(s) \in Task /\ \A p : Without(s, p) \in Task
    BY <1>1, RecordTypes, TaskUpdates
  <2> QED BY <1>7, <1>8, <2>1, <2>2
<1>12. CASE EndAnswer(n, t)
  <2> DEFINE more == [s EXCEPT !.at = "pull", !.current = s.last, !.final = s.last]
  <2>1. s.at = "import"
    BY <1>0, <1>12 DEF EndAnswer
  <2>2. \/ s.last <= s.current /\ SetTask(n, t, Leave(s))
        \/ s.last > s.current /\ (SetTask(n, t, more) \/ SetTask(n, t, Leave(more)))
    BY <1>0, <1>5, <1>12 DEF EndAnswer
  <2>3. /\ more \in Task /\ more.at = "pull" /\ more.base = s.base /\ more.current = s.last
        /\ more.last = s.last /\ more.final = s.last
    BY <1>1 DEF Task
  <2> HIDE DEF more
  <2>4. Leave(s) \in Task /\ Leave(more) \in Task
    BY <1>1, <2>3, RecordTypes
  <2>5. s.last > s.current => Good(more) /\ Good(Leave(more))
    BY <1>5, <1>6, <2>1, <2>3, TaskFields DEF Good
  <2> QED BY <1>7, <1>8, <2>1, <2>2, <2>3, <2>4, <2>5
<1> QED BY <1>9, <1>10, <1>11, <1>12

LEMMA OneChainImport ==
  ASSUME TypeOK, ImportInv, NEW n \in Nodes, NEW t \in Tasks, Import(n, t), OneChain(n)
  PROVE  OneChain(n)'
<1>0. PICK s, k : s = sync[n][t] /\ k = s.last + 1
  OBVIOUS
<1>1. s \in Task /\ TaskInOrder(n, t) /\ TasksInOrder /\ s.got \subseteq DOMAIN made
  BY <1>0 DEF TypeOK, ImportInv, TasksInOrder
<1>2. s.at = "import" /\ ~IsSaving(n, t) /\ Running(n, t)
  BY <1>0 DEF Import, Running
<1>3. UNCHANGED <<made, blocks, latestHeight, latestHash, tip, up>>
  BY DEF Import, disk
<1>4. Quiet(n) /\ (\A u \in Tasks : u # t => ~Running(n, u)) /\ Settled(n)
  BY <1>2, RunsAlone DEF OneChain
<1>5. /\ s.base \in Int /\ s.current \in Int /\ s.last \in Int /\ k \in Int /\ k >= 1
      /\ latestHeight[n] \in Int /\ latestHeight[n] <= MaxHeight /\ MaxHeight \in Int
  BY <1>0, <1>1, BoundsAssumption DEF Task, TypeOK
<1>6. /\ s.base = tip[n].height /\ s.base <= latestHeight[n]
      /\ s.base <= s.current /\ s.current <= s.last /\ s.last <= latestHeight[n]
      /\ \/ OnDisk(n)
         \/ latestHeight[n] > s.base /\ s.final > 0
         \/ latestHeight[n] > s.base /\ s.last > s.current
  <2>1. TaskTip(n, t)
    BY DEF OneChain
  <2> QED BY <1>0, <1>2, <2>1 DEF TaskTip
<1>7. PICK b \in s.got :
        /\ made[b].height = k
        /\ \/ /\ Fits(n, b) /\ WriteBlock(n, t, b)
              /\ SetTask(n, t, [s EXCEPT !.got = s.got \ {b}])
           \/ UNCHANGED saving /\ SetTask(n, t, [s EXCEPT !.got = {}])
  BY <1>0, <1>1, ImportEffect
<1>8. \A q \in SUBSET Hash : LET w == [s EXCEPT !.got = q]
                             IN  /\ w \in Task /\ w.at = s.at /\ w.base = s.base
                                 /\ w.current = s.current /\ w.last = s.last /\ w.final = s.final
  BY <1>1 DEF Task
<1>9. s.got \ {b} \in SUBSET Hash /\ {} \in SUBSET Hash /\ b \in DOMAIN made
  BY <1>1 DEF Task
<1>10. CASE UNCHANGED saving /\ SetTask(n, t, [s EXCEPT !.got = {}])
  <2> DEFINE r == [s EXCEPT !.got = {}]
  <2>1. /\ r \in Task /\ r.at = "import" /\ r.base = s.base /\ r.current = s.current
        /\ r.last = s.last /\ r.final = s.final /\ SetTask(n, t, r)
    BY <1>2, <1>8, <1>9, <1>10
  <2> HIDE DEF r
  <2> QED BY <1>3, <1>4, <1>6, <1>10, <2>1, OneChainMove
<1>11. CASE Fits(n, b) /\ WriteBlock(n, t, b) /\ SetTask(n, t, [s EXCEPT !.got = s.got \ {b}])
  <2> DEFINE r == [s EXCEPT !.got = s.got \ {b}]
  <2>1. /\ r \in Task /\ r.at = "import" /\ r.base = s.base /\ r.current = s.current
        /\ r.last = s.last /\ r.final = s.final /\ SetTask(n, t, r)
    BY <1>2, <1>8, <1>9, <1>11
  <2> HIDE DEF r
  <2>2. sync'[n][t] = r /\ \A u \in Tasks : u # t => sync'[n][u] = sync[n][u]
    BY <2>1, TaskSet DEF TypeOK
  <2>3. t \in Actors /\ t # "consensus" /\ "consensus" \in Actors /\ b \in Hash
    BY <1>9, MadeBlock DEF Actors, Tasks, Hash
  <2>4. /\ saving'[n][t] = [block |-> b, put |-> "block"]
        /\ \A c \in Actors : c # t => saving'[n][c] = saving[n][c]
    BY <1>11, <2>3, SaveSet DEF TypeOK
  <2>5. /\ IsSaving(n, t)' /\ saving'[n][t].block = b /\ saving'[n][t].put = "block"
        /\ \A c \in Actors : c # t => ~IsSaving(n, c)'
    BY <1>4, <2>4 DEF IsSaving, NoSave, Quiet
  <2>6. AtWork(n)' = {t} /\ \A u \in Tasks : Running(n, u)' => u = t
    BY <1>4, <2>1, <2>2, <2>3, <2>5 DEF AtWork, Running
  <2>7. SavedHeight(n, t)' = k
    BY <1>3, <1>7, <2>5 DEF SavedHeight
  <2>8. Linked(n, k - 1) /\ k - 1 = s.last /\ k - 1 <= MaxHeight
    <3>1. k - 1 = s.last /\ k - 1 <= latestHeight[n] /\ Linked(n, latestHeight[n])
      BY <1>0, <1>4, <1>5, <1>6 DEF Settled
    <3> QED BY <1>5, <3>1 DEF Linked
  <2>9. made[b].prev = Top(n, k - 1)
    <3>1. CASE k = 1
      BY <1>7, <1>9, <3>1 DEF ImportInv, GenesisFirst, Top
    <3>2. CASE k # 1
      <4>1. k - 1 \in 1..k - 1 /\ made[b].height > 1 /\ k - 1 # 0
        BY <1>5, <1>7, <3>2
      <4>2. blocks[n][k - 1] # Genesis
        BY <2>8, <4>1 DEF Linked
      <4> QED BY <1>7, <1>11, <4>1, <4>2 DEF Fits, LocalHash, Top
    <3> QED BY <3>1, <3>2
  <2>10. Linked(n, k - 1)' /\ Top(n, k - 1)' = Top(n, k - 1)
    <3>1. Grows /\ k - 1 \in Int
      BY <1>3, <1>5 DEF Grows
    <3>2. Linked(n, k - 1)'
      BY <1>3, <2>8, <3>1, LinkedKept
    <3> QED BY <1>3, <3>2 DEF Top
  <2>11. SaveFits(n, t)'
    BY <1>3, <1>6, <2>5, <2>7, <2>8, <2>9, <2>10 DEF SaveFits
  <2>12. \A c \in Actors : SaveFits(n, c)'
    <3>1. \A c \in Actors : c # t => SaveFits(n, c)'
      BY <2>5 DEF SaveFits
    <3> QED BY <2>11, <3>1
  <2>13. OneAtWork(n)' /\ IdleTip(n)' /\ Settled(n)' /\ ConsensusTip(n)'
    BY <2>3, <2>5, <2>6 DEF OneAtWork, IdleTip, Settled, Quiet, ConsensusTip
  <2>14. \A u \in Tasks : TaskTip(n, u)'
    BY <1>3, <1>6, <2>1, <2>2, <2>5, <2>6 DEF TaskTip
  <2> QED BY <2>12, <2>13, <2>14 DEF OneChain
<1> QED BY <1>7, <1>10, <1>11

\* The task takes the lock of the consensus and raises its tip.
LEMMA OneChainReload ==
  ASSUME TypeOK, ImportInv, NEW n \in Nodes, NEW t \in Tasks, Reload(n, t), OneChain(n)
  PROVE  OneChain(n)'
<1> DEFINE s == sync[n][t]
           r == [Stopped EXCEPT !.at = IF t = "initial" THEN "done" ELSE "idle"]
<1>1. s.at = "peers" /\ Running(n, t) /\ TaskInOrder(n, t) /\ SetTask(n, t, r)
  BY DEF Reload, Running, ImportInv, TasksInOrder
<1>2. ~IsSaving(n, t)
  BY <1>1 DEF TaskInOrder
<1>3. Quiet(n) /\ (\A u \in Tasks : u # t => ~Running(n, u)) /\ Settled(n)
  BY <1>1, <1>2, RunsAlone DEF OneChain
<1>4. UNCHANGED <<made, blocks, latestHeight, latestHash, saving>>
  BY DEF Reload, disk
<1>5. Quiet(n)'
  BY <1>3, <1>4 DEF Quiet, IsSaving
<1>6. Settled(n)' /\ (\A a \in Actors : SaveFits(n, a)') /\ ConsensusTip(n)'
  BY <1>3, <1>4, <1>5, QuietChain
<1>7. r \in Task /\ r.at \in {"idle", "done"}
  BY RecordTypes DEF Task
<1>8. AtWork(n)' = {} /\ \A u \in Tasks : ~Running(n, u)'
  <2> HIDE DEF r
  <2>1. sync'[n][t] = r /\ \A u \in Tasks : u # t => sync'[n][u] = sync[n][u]
    BY <1>1, <1>7, TaskSet DEF TypeOK
  <2>2. \A u \in Tasks : ~Running(n, u)'
    BY <1>3, <1>7, <2>1 DEF Running
  <2> QED BY <1>5, <2>2 DEF AtWork, Quiet
<1>9. OnDisk(n)'
  <2>1. /\ s.base = tip[n].height /\ s.base <= latestHeight[n]
        /\ OnDisk(n) \/ (latestHeight[n] > s.base /\ s.final > 0)
    BY <1>1, <1>2 DEF OneChain, TaskTip
  <2>2. s.base \in Int /\ latestHeight[n] \in Int /\ tip[n].height \in Int
    BY BoundsAssumption DEF TypeOK, Task
  <2>3. CASE s.final > 0 /\ latestHeight[n] > tip[n].height
    <3>1. tip' = [tip EXCEPT ![n] = [height |-> latestHeight[n], hash |-> latestHash[n]]]
      BY <2>3 DEF Reload
    <3>2. tip'[n] = [height |-> latestHeight[n], hash |-> latestHash[n]]
      BY <3>1 DEF TypeOK
    <3> QED BY <1>4, <3>2 DEF OnDisk
  <2>4. CASE ~(s.final > 0 /\ latestHeight[n] > tip[n].height)
    <3>1. tip' = tip /\ OnDisk(n)
      BY <2>1, <2>4 DEF Reload
    <3> QED BY <1>4, <3>1 DEF OnDisk
  <2> QED BY <2>3, <2>4
<1>10. OneAtWork(n)' /\ IdleTip(n)' /\ \A u \in Tasks : TaskTip(n, u)'
  BY <1>8, <1>9 DEF OneAtWork, IdleTip, TaskTip
<1> QED BY <1>6, <1>10 DEF OneChain

\* A task that dies with its tip on disk leaves what it would have left had it ended.
LEMMA OneChainDies ==
  ASSUME TypeOK, ImportInv, NEW n \in Nodes, NEW t \in Tasks, TaskDies(n, t), apart'[n],
         apart[n] => OneChain(n)
  PROVE  apart[n] /\ OneChain(n)'
<1>0. PICK s : s = sync[n][t]
  OBVIOUS
<1>1. s \in Task /\ TaskInOrder(n, t)
  BY <1>0 DEF TypeOK, ImportInv, TasksInOrder
<1>2. s.at \in {"peers", "pull"} /\ Running(n, t) /\ ~IsSaving(n, t)
  BY <1>0, <1>1 DEF TaskDies, AwaitsAnswer, Running, TaskInOrder
<1>3. /\ UNCHANGED <<made, blocks, latestHeight, latestHash, tip, saving>>
      /\ apart[n] /\ latestHeight[n] = tip[n].height
  BY DEF TaskDies, disk, TypeOK
<1>4. Quiet(n) /\ (\A u \in Tasks : u # t => ~Running(n, u)) /\ Settled(n)
  BY <1>2, <1>3, RunsAlone DEF OneChain
<1>5. Quiet(n)'
  BY <1>3, <1>4 DEF Quiet, IsSaving
<1>6. Settled(n)' /\ (\A a \in Actors : SaveFits(n, a)') /\ ConsensusTip(n)'
  BY <1>3, <1>4, <1>5, QuietChain
<1>7. PICK r \in Task : r.at = "done" /\ SetTask(n, t, r)
  BY RecordTypes DEF TaskDies, Task, Stopped
<1>8. AtWork(n)' = {} /\ \A u \in Tasks : ~Running(n, u)'
  <2>1. sync'[n][t] = r /\ \A u \in Tasks : u # t => sync'[n][u] = sync[n][u]
    BY <1>7, TaskSet DEF TypeOK
  <2>2. \A u \in Tasks : ~Running(n, u)'
    BY <1>4, <1>7, <2>1 DEF Running
  <2> QED BY <1>5, <2>2 DEF AtWork, Quiet
<1>9. OnDisk(n)'
  <2>1. /\ s.base = tip[n].height
        /\ OnDisk(n) \/ latestHeight[n] > s.base
    BY <1>0, <1>2, <1>3 DEF OneChain, TaskTip
  <2>2. s.base \in Int /\ latestHeight[n] \in Int
    BY <1>1 DEF TypeOK, Task
  <2> QED BY <1>3, <2>1, <2>2 DEF OnDisk
<1>10. OneAtWork(n)' /\ IdleTip(n)' /\ \A u \in Tasks : TaskTip(n, u)'
  BY <1>8, <1>9 DEF OneAtWork, IdleTip, TaskTip
<1> QED BY <1>3, <1>6, <1>10 DEF OneChain

\* Stopping with nothing half written, and starting from the disk.
LEMMA OneChainStops ==
  ASSUME TypeOK, ImportInv, NEW n \in Nodes, Crash(n) \/ Restart(n), apart'[n],
         apart[n] => OneChain(n)
  PROVE  OneChain(n)'
<1>1. UNCHANGED <<made, blocks, latestHeight, latestHash>>
  BY DEF Crash, Restart, disk
<1>2. CASE Crash(n)
  <2>1. apart[n] /\ Quiet(n)
    BY <1>2 DEF Crash, TypeOK, Quiet
  <2>2. /\ ~up'[n] /\ (\A a \in Actors : saving'[n][a] = NoSave)
        /\ \A u \in Tasks : sync'[n][u] = Stopped
    BY <1>2 DEF Crash, TypeOK
  <2>3. Quiet(n)' /\ \A u \in Tasks : ~Running(n, u)'
    BY <2>2 DEF Quiet, IsSaving, Running, Stopped
  <2>4. AtWork(n)' = {}
    BY <2>3 DEF AtWork, Quiet
  <2>5. Settled(n)' /\ (\A a \in Actors : SaveFits(n, a)') /\ ConsensusTip(n)'
    BY <1>1, <2>1, <2>3, QuietChain DEF OneChain
  <2> QED BY <2>2, <2>3, <2>4, <2>5 DEF OneChain, OneAtWork, IdleTip, TaskTip
<1>3. CASE Restart(n)
  <2>1. apart[n] /\ ~up[n] /\ UNCHANGED <<saving, sync>>
        /\ tip' = [tip EXCEPT ![n] = [height |-> latestHeight[n], hash |-> latestHash[n]]]
    BY <1>3 DEF Restart
  <2>2. Quiet(n) /\ \A u \in Tasks : ~Running(n, u)
    BY <2>1 DEF ImportInv, DownIsIdle, Quiet, Running, Stopped
  <2>3. Quiet(n)' /\ \A u \in Tasks : ~Running(n, u)'
    BY <2>1, <2>2 DEF Quiet, IsSaving, Running
  <2>4. AtWork(n)' = {}
    BY <2>3 DEF AtWork, Quiet
  <2>5. Settled(n)' /\ (\A a \in Actors : SaveFits(n, a)') /\ ConsensusTip(n)'
    BY <1>1, <2>1, <2>2, <2>3, QuietChain DEF OneChain
  <2>6. OnDisk(n)'
    <3>1. tip'[n] = [height |-> latestHeight[n], hash |-> latestHash[n]]
      BY <2>1 DEF TypeOK
    <3> QED BY <1>1, <3>1 DEF OnDisk
  <2> QED BY <2>3, <2>4, <2>5, <2>6 DEF OneChain, OneAtWork, IdleTip, TaskTip
<1> QED BY <1>2, <1>3

LEMMA ApartInvariant == Spec => []ApartInv
<1>1. Init => ApartInv
  <2> SUFFICES ASSUME Init, NEW n \in Nodes PROVE OneChain(n)
    BY DEF ApartInv
  <2>1. /\ latestHeight[n] = 0 /\ latestHash[n] = Genesis
        /\ tip[n].height = 0 /\ tip[n].hash = Genesis
        /\ (\A a \in Actors : ~IsSaving(n, a)) /\ (\A t \in Tasks : ~Running(n, t))
    BY DEF Init, IsSaving, Running, Stopped
  <2>2. AtWork(n) = {} /\ "consensus" \in Actors
    BY <2>1 DEF AtWork, Actors
  <2>3. Linked(n, 0) /\ Top(n, 0) = Genesis
    BY DEF Linked, Top
  <2> QED BY <2>1, <2>2, <2>3 DEF OneChain, OneAtWork, Settled, SaveFits, IdleTip, OnDisk,
                                  ConsensusTip, TaskTip
<1>2. TypeOK /\ ImportInv /\ ApartInv /\ [Next]_vars => ApartInv'
  <2> SUFFICES ASSUME TypeOK, ImportInv, ApartInv, [Next]_vars, NEW m \in Nodes, apart'[m]
               PROVE  OneChain(m)'
    BY DEF ApartInv
  <2>1. CASE UNCHANGED vars
    <3>1. Grows /\ Untouched(m)
      BY <2>1 DEF vars, disk, Grows, Untouched
    <3>2. OneChain(m)
      BY <3>1 DEF ApartInv, Untouched
    <3> QED BY <3>1, <3>2, OneChainKept
  <2>2. ASSUME NEW n \in Nodes, NodeStep(n), m # n PROVE OneChain(m)'
    <3>1. Grows /\ Untouched(m)
      BY <2>2, MadeGrows, OthersStay
    <3>2. OneChain(m)
      BY <3>1 DEF ApartInv, Untouched
    <3> QED BY <3>1, <3>2, OneChainKept
  <2>3. ASSUME NodeStep(m) PROVE OneChain(m)'
    <3>1. apart[m] => OneChain(m)
      BY DEF ApartInv
    <3>2. CASE Build(m)
      BY <3>1, <3>2, OneChainBuild
    <3>3. CASE Crash(m) \/ Restart(m)
      BY <3>1, <3>3, OneChainStops
    <3>4. ASSUME NEW a \in Actors, Put(m, a) PROVE OneChain(m)'
      <4>1. apart' = apart
        BY <3>4 DEF Put, PutBlock, PutHeight, PutHash
      <4> QED BY <3>1, <3>4, <4>1, OneChainPut
    <3>5. ASSUME NEW t \in Tasks, StartSync(m, t) PROVE OneChain(m)'
      BY <3>1, <3>5, OneChainStart
    <3>6. ASSUME NEW t \in Tasks, AskHeight(m, t) \/ Pull(m, t) \/ LosePeer(m, t) \/ EndAnswer(m, t)
          PROVE  OneChain(m)'
      <4>1. apart' = apart
        BY <3>6 DEF AskHeight, Pull, LosePeer, EndAnswer
      <4> QED BY <3>1, <3>6, <4>1, OneChainAsk
    <3>7. ASSUME NEW t \in Tasks, Import(m, t) PROVE OneChain(m)'
      <4>1. apart' = apart
        BY <3>7 DEF Import
      <4> QED BY <3>1, <3>7, <4>1, OneChainImport
    <3>8. ASSUME NEW t \in Tasks, Reload(m, t) PROVE OneChain(m)'
      <4>1. apart' = apart
        BY <3>8 DEF Reload
      <4> QED BY <3>1, <3>8, <4>1, OneChainReload
    <3>9. ASSUME NEW t \in Tasks, TaskDies(m, t) PROVE OneChain(m)'
      BY <3>1, <3>9, OneChainDies
    <3> QED BY <2>3, <3>2, <3>3, <3>4, <3>5, <3>6, <3>7, <3>8, <3>9 DEF NodeStep
  <2> QED BY <2>1, <2>2, <2>3, NextIsNodeStep
<1> QED BY <1>1, <1>2, TypeCorrect, ImportInvariant, PTL DEF Spec

\* ApartKeepsChain, for any nodes and peers, any bounds and any interleaving of the others: a
\* node whose actors have worked one at a time, none of them cut off by a crash or a hang-up,
\* holds a
\* chain of blocks that name each other, and its disk and its consensus agree on the tip.
THEOREM ChainKeptApart == Spec => []ApartKeepsChain
<1>1. TypeOK /\ ApartInv => ApartKeepsChain
  <2> SUFFICES ASSUME TypeOK, ApartInv, NEW n \in Nodes, apart[n], Quiet(n)
               PROVE  /\ \A h \in 1..latestHeight[n] :
                           /\ made[blocks[n][h]].height = h
                           /\ made[blocks[n][h]].prev = IF h = 1 THEN Genesis ELSE blocks[n][h - 1]
                      /\ latestHash[n] = IF latestHeight[n] = 0 THEN Genesis
                                                                ELSE blocks[n][latestHeight[n]]
                      /\ up[n] /\ AtWork(n) = {} =>
                           tip[n] = [height |-> latestHeight[n], hash |-> latestHash[n]]
    BY DEF ApartKeepsChain, Quiet
  <2>1. Linked(n, latestHeight[n]) /\ latestHash[n] = Top(n, latestHeight[n]) /\ IdleTip(n)
    BY DEF ApartInv, OneChain, Settled
  <2>2. ASSUME NEW h \in 1..latestHeight[n]
        PROVE  /\ made[blocks[n][h]].height = h
               /\ made[blocks[n][h]].prev = IF h = 1 THEN Genesis ELSE blocks[n][h - 1]
    BY <2>1 DEF Linked, Top
  <2>3. up[n] /\ AtWork(n) = {} => tip[n] = [height |-> latestHeight[n], hash |-> latestHash[n]]
    <3>1. tip[n] = [height |-> tip[n].height, hash |-> tip[n].hash]
      BY DEF TypeOK
    <3> QED BY <2>1, <3>1 DEF IdleTip, OnDisk
  <2> QED BY <2>1, <2>2, <2>3 DEF Top
<1> QED BY <1>1, TypeCorrect, ApartInvariant, PTL

-----------------------------------------------------------------------------
(* The state and the chain.  With one peer a task asks once, so that whatever  *)
(* it is given goes on top of what is on disk; with two it starts at the       *)
(* second from where it started at the first, and executes blocks again.       *)

OnePeer == \A n \in Nodes : \E p \in Nodes : PeersOf[n] \subseteq {p}

Batch(n, h) == made[blocks[n][h]].batch

\* The state has the effects of the first k blocks on disk.
Executed(n, k) == \A h \in 1..k : ran[n][h] = Batch(n, h)

\* What is being saved has been executed, on top of what is on disk.
SaveExecuted(n, a) ==
  IsSaving(n, a) =>
    /\ latestHeight[n] = IF saving[n][a].put = "hash" THEN SavedHeight(n, a)
                                                      ELSE SavedHeight(n, a) - 1
    /\ Len(ran[n]) = SavedHeight(n, a)
    /\ ran[n][SavedHeight(n, a)] = made[saving[n][a].block].batch
    /\ Executed(n, SavedHeight(n, a) - 1)

DiskExecuted(n) == Quiet(n) => Len(ran[n]) = latestHeight[n] /\ Executed(n, latestHeight[n])

\* A task that has a peer to ask is still where it started; one that has asked has no other
\* to ask, and has got as far as the disk.
TaskOnTop(n, t) ==
  /\ sync[n][t].at = "peers" /\ sync[n][t].todo # {} => sync[n][t].base = latestHeight[n]
  /\ sync[n][t].at \in {"pull", "import"} =>
       sync[n][t].todo = {} /\ (~IsSaving(n, t) => sync[n][t].last = latestHeight[n])

RanOf(n) ==
  /\ DiskExecuted(n) /\ (\A a \in Actors : SaveExecuted(n, a))
  /\ \A t \in Tasks : TaskOnTop(n, t)

PeersKnown == \A n \in Nodes, t \in Tasks : sync[n][t].todo \subseteq PeersOf[n]

RanInv == \A n \in Nodes : apart[n] => RanOf(n)

LEMMA ExecutedKept ==
  ASSUME TypeOK, Grows, NEW n \in Nodes, NEW k \in Int, k <= MaxHeight, Linked(n, k),
         \A h \in 1..k : blocks'[n][h] = blocks[n][h]
  PROVE  \A h \in 1..k : Batch(n, h)' = Batch(n, h)
<1>1. ASSUME NEW h \in 1..k PROVE blocks[n][h] \in DOMAIN made
  <2>1. h \in Heights
    BY BoundsAssumption DEF Heights
  <2>2. blocks[n][h] \in 0..Len(made) /\ blocks[n][h] # 0
    BY <2>1 DEF TypeOK, Linked
  <2>3. Len(made) \in Nat /\ DOMAIN made = 1..Len(made)
    BY LenProperties DEF TypeOK
  <2> QED BY <2>2, <2>3
<1> QED BY <1>1 DEF Grows, Batch

LEMMA RanKept ==
  ASSUME TypeOK, Grows, NEW m \in Nodes, Untouched(m), OneChain(m), RanOf(m)
  PROVE  RanOf(m)'
<1> USE DEF Untouched
<1>1. latestHeight[m] \in Int /\ latestHeight[m] <= MaxHeight
  BY BoundsAssumption DEF TypeOK
<1>2. \A a \in Actors : IsSaving(m, a)' <=> IsSaving(m, a)
  BY DEF IsSaving
<1>3. DiskExecuted(m)'
  <2> SUFFICES ASSUME Quiet(m)' PROVE (Len(ran[m]) = latestHeight[m] /\ Executed(m, latestHeight[m]))'
    BY DEF DiskExecuted
  <2>0. PICK k : k = latestHeight[m]
    OBVIOUS
  <2>1. Quiet(m)
    BY <1>2 DEF Quiet
  <2>2. Linked(m, k) /\ Len(ran[m]) = k /\ Executed(m, k)
    BY <2>0, <2>1 DEF OneChain, Settled, RanOf, DiskExecuted
  <2>3. \A h \in 1..k : Batch(m, h)' = Batch(m, h)
    BY <1>1, <2>0, <2>2, ExecutedKept
  <2> QED BY <2>0, <2>2, <2>3 DEF Executed
<1>4. ASSUME NEW a \in Actors PROVE SaveExecuted(m, a)'
  <2> SUFFICES ASSUME IsSaving(m, a) PROVE SaveExecuted(m, a)'
    BY <1>2 DEF SaveExecuted
  <2>0. PICK b, k : b = saving[m][a].block /\ k = SavedHeight(m, a)
    OBVIOUS
  <2>1. b \in DOMAIN made
    BY <2>0 DEF TypeOK
  <2>2. made'[b] = made[b] /\ k = made[b].height /\ k \in Heights
    BY <2>0, <2>1, MadeBlock DEF Grows, SavedHeight
  <2>3. k - 1 \in Int /\ k - 1 <= MaxHeight
    BY <2>2, BoundsAssumption DEF Heights
  <2>4. Linked(m, k - 1)
    BY <2>0 DEF OneChain, SaveFits
  <2>5. \A h \in 1..k - 1 : Batch(m, h)' = Batch(m, h)
    BY <2>3, <2>4, ExecutedKept
  <2>6. SavedHeight(m, a)' = k
    BY <2>0, <2>2 DEF SavedHeight
  <2>7. /\ latestHeight[m] = IF saving[m][a].put = "hash" THEN k ELSE k - 1
        /\ Len(ran[m]) = k /\ ran[m][k] = made[b].batch /\ Executed(m, k - 1)
    BY <2>0 DEF RanOf, SaveExecuted
  <2> QED BY <2>0, <2>2, <2>5, <2>6, <2>7 DEF SaveExecuted, Executed
<1>5. ASSUME NEW t \in Tasks PROVE TaskOnTop(m, t)'
  <2>1. t \in Actors /\ TaskOnTop(m, t)
    BY DEF Actors, RanOf
  <2> QED BY <1>2, <2>1 DEF TaskOnTop
<1> QED BY <1>3, <1>4, <1>5 DEF RanOf

\* A batch is executed on top of k others.
LEMMA RanAppend ==
  ASSUME TypeOK, NEW n \in Nodes, NEW x, NEW k \in Nat, Len(ran[n]) = k,
         ran' = [ran EXCEPT ![n] = Append(ran[n], x)], x \in Nat
  PROVE  /\ Len(ran'[n]) = k + 1 /\ ran'[n][k + 1] = x
         /\ \A h \in 1..k : ran'[n][h] = ran[n][h]
<1>1. ran[n] \in Seq(Nat) /\ ran'[n] = Append(ran[n], x)
  BY DEF TypeOK
<1> QED BY <1>1, AppendProperties, LenProperties

LEMMA RanBuild ==
  ASSUME TypeOK, NEW n \in Nodes, Build(n), apart'[n], apart[n] => OneChain(n) /\ RanOf(n)
  PROVE  RanOf(n)'
<1>1. AtWork(n) = {} /\ apart[n] /\ up[n] /\ UNCHANGED <<blocks, latestHeight, latestHash, sync>>
  BY DEF Build, Begins, disk, TypeOK
<1>2. Grows
  BY MadeGrows DEF NodeStep
<1>3. Quiet(n) /\ \A t \in Tasks : ~Running(n, t)
  BY <1>1 DEF AtWork, Quiet
<1>0. PICK k : k = latestHeight[n]
  OBVIOUS
<1>4. tip[n].height = k /\ Linked(n, k) /\ Len(ran[n]) = k /\ Executed(n, k)
  BY <1>0, <1>1, <1>3 DEF OneChain, IdleTip, OnDisk, Settled, RanOf, DiskExecuted
<1>5. k \in Nat /\ k <= MaxHeight /\ k \in Int
  BY <1>0, BoundsAssumption DEF TypeOK
<1>6. PICK b \in DOMAIN made' :
           /\ made'[b].height = k + 1 /\ made'[b].batch = taken[n] + 1
           /\ saving'[n]["consensus"].block = b /\ saving'[n]["consensus"].put = "block"
           /\ \A a \in Actors : a # "consensus" => saving'[n][a] = saving[n][a]
  BY <1>4, BuildEffect
<1>7. /\ Len(ran'[n]) = k + 1 /\ ran'[n][k + 1] = taken[n] + 1
      /\ \A h \in 1..k : ran'[n][h] = ran[n][h]
  <2>1. ran' = [ran EXCEPT ![n] = Append(ran[n], taken[n] + 1)] /\ taken[n] + 1 \in Nat
BY SMTT(20) DEF Build, TypeOK
  <2> QED BY <1>4, <1>5, <2>1, RanAppend
<1>8. \A h \in 1..k : Batch(n, h)' = Batch(n, h)
  BY <1>1, <1>2, <1>4, <1>5, ExecutedKept
<1>9. Executed(n, k)'
  BY <1>4, <1>7, <1>8 DEF Executed
<1>10. /\ IsSaving(n, "consensus")' /\ "consensus" \in Actors
       /\ \A a \in Actors : IsSaving(n, a)' => a = "consensus"
       /\ \A t \in Tasks : sync'[n][t].at \in {"idle", "done"}
  <2>1. saving'[n]["consensus"] # NoSave
    BY <1>6 DEF NoSave
  <2>2. \A a \in Actors : a # "consensus" => saving'[n][a] = NoSave
    BY <1>3, <1>6 DEF Quiet, IsSaving
  <2>3. \A t \in Tasks : sync'[n][t].at \in {"idle", "done"}
    BY <1>1, <1>3 DEF Running
  <2> QED BY <2>1, <2>2, <2>3 DEF IsSaving, Actors
<1>11. /\ SavedHeight(n, "consensus")' = k + 1 /\ SavedHeight(n, "consensus")' - 1 = k
       /\ latestHeight'[n] = k
  BY <1>0, <1>1, <1>5, <1>6 DEF SavedHeight
<1>12. SaveExecuted(n, "consensus")'
  <2>0. PICK j : j = SavedHeight(n, "consensus")'
    OBVIOUS
  <2>1. j = k + 1 /\ j - 1 = k
    BY <1>11, <2>0
  <2>2. Len(ran'[n]) = j /\ ran'[n][j] = made'[saving'[n]["consensus"].block].batch
    BY <1>6, <1>7, <2>1
  <2>3. Executed(n, k)' <=> \A h \in 1..j - 1 : ran'[n][h] = Batch(n, h)'
    BY <2>1 DEF Executed
  <2>4. Executed(n, SavedHeight(n, "consensus") - 1)'
    BY <1>9, <2>0, <2>3 DEF Executed
  <2>5. saving'[n]["consensus"].put # "hash" /\ latestHeight'[n] = j - 1
    BY <1>6, <1>11, <2>1
  <2> QED BY <2>0, <2>2, <2>4, <2>5, Zenon DEF SaveExecuted
<1>13. DiskExecuted(n)' /\ \A t \in Tasks : TaskOnTop(n, t)'
  BY <1>10 DEF DiskExecuted, Quiet, TaskOnTop
<1> QED BY <1>10, <1>12, <1>13 DEF RanOf, SaveExecuted

\* The disk, the state and the saves stay; the task may move on.
LEMMA RanMove ==
  ASSUME TypeOK, NEW n \in Nodes, UNCHANGED <<made, blocks, latestHeight, ran>>,
         Quiet(n), Quiet(n)', RanOf(n), \A t \in Tasks : TaskOnTop(n, t)'
  PROVE  RanOf(n)'
<1>1. \A h : Batch(n, h)' = Batch(n, h)
  BY DEF Batch
<1>2. DiskExecuted(n)'
  BY <1>1 DEF RanOf, DiskExecuted, Executed
<1>3. \A a \in Actors : SaveExecuted(n, a)'
  BY DEF Quiet, SaveExecuted
<1> QED BY <1>2, <1>3 DEF RanOf

LEMMA RanTask ==
  ASSUME TypeOK, NEW n \in Nodes, NEW t \in Tasks, NEW r \in Task, SetTask(n, t, r),
         UNCHANGED <<made, blocks, latestHeight, ran, saving>>, Quiet(n), RanOf(n),
         r.at = "peers" /\ r.todo # {} => r.base = latestHeight[n],
         r.at \in {"pull", "import"} => r.todo = {} /\ r.last = latestHeight[n]
  PROVE  RanOf(n)'
<1>1. sync'[n][t] = r /\ \A u \in Tasks : u # t => sync'[n][u] = sync[n][u]
  BY TaskSet DEF TypeOK
<1>2. Quiet(n)' /\ \A a \in Actors : ~IsSaving(n, a) /\ ~IsSaving(n, a)'
  BY DEF Quiet, IsSaving
<1>3. ASSUME NEW u \in Tasks PROVE TaskOnTop(n, u)'
  <2>1. TaskOnTop(n, u) /\ u \in Actors
    BY DEF RanOf, Actors
  <2> QED BY <1>1, <1>2, <2>1 DEF TaskOnTop
<1> QED BY <1>2, <1>3, RanMove

LEMMA RanAsk ==
  ASSUME TypeOK, ImportInv, PeersKnown, OnePeer, NEW n \in Nodes, NEW t \in Tasks,
         \/ StartSync(n, t) \/ AskHeight(n, t) \/ Pull(n, t) \/ LosePeer(n, t) \/ TaskDies(n, t)
         \/ EndAnswer(n, t) \/ Reload(n, t),
         apart'[n], apart[n] => OneChain(n) /\ RanOf(n)
  PROVE  RanOf(n)'
<1>0. PICK s : s = sync[n][t]
  OBVIOUS
<1>1. s \in Task /\ TaskInOrder(n, t)
  BY <1>0 DEF TypeOK, ImportInv, TasksInOrder
<1>2. UNCHANGED <<made, blocks, latestHeight, ran, saving>>
  BY DEF StartSync, AskHeight, Pull, LosePeer, TaskDies, EndAnswer, Reload, disk
<1>3. apart[n] /\ OneChain(n) /\ RanOf(n)
  BY DEF StartSync, Begins, AskHeight, Pull, LosePeer, TaskDies, EndAnswer, Reload, TypeOK
<1>4. /\ s.base \in Int /\ s.current \in Int /\ s.last \in Int
      /\ latestHeight \in [Nodes -> 0..MaxHeight] /\ latestHeight[n] \in Int
  BY <1>1, BoundsAssumption DEF Task, TypeOK
<1>5. CASE StartSync(n, t)
  <2> DEFINE r == [Stopped EXCEPT !.at = "peers", !.base = latestHeight[n],
                                  !.final = latestHeight[n], !.todo = PeersOf[n]]
  <2>1. r \in Task /\ r.at = "peers" /\ r.base = latestHeight[n]
    BY <1>4, RecordTypes, NodesAssumption DEF Task, Stopped
  <2>2. SetTask(n, t, r) /\ Quiet(n)
    BY <1>5, <1>3 DEF StartSync, Begins, AtWork, Quiet, TypeOK
  <2> HIDE DEF r
  <2> QED BY <1>2, <1>3, <2>1, <2>2, RanTask
<1>6. ASSUME ~StartSync(n, t)
      PROVE  Running(n, t) /\ ~IsSaving(n, t) /\ Quiet(n) /\ s.at \in {"peers", "pull", "import"}
  <2>1. /\ s.at \in {"peers", "pull", "import"} /\ Running(n, t)
        /\ s.at = "import" => ~IsSaving(n, t)
    BY <1>0, <1>6 DEF AskHeight, Pull, LosePeer, TaskDies, AwaitsAnswer, EndAnswer, Reload, Running
  <2>2. ~IsSaving(n, t)
    BY <1>0, <1>1, <2>1 DEF TaskInOrder
  <2> QED BY <1>3, <2>1, <2>2, RunsAlone DEF OneChain
<1>7. ASSUME ~StartSync(n, t)
      PROVE  /\ s.at = "peers" /\ s.todo # {} => s.base = latestHeight[n]
             /\ s.at \in {"pull", "import"} => s.todo = {} /\ s.last = latestHeight[n]
             /\ s.todo \subseteq PeersOf[n]
  BY <1>0, <1>3, <1>6, <1>7 DEF RanOf, TaskOnTop, PeersKnown
\* What is asked of the record the task moves to.
<1> DEFINE Good(r) ==
      /\ r.at = "peers" /\ r.todo # {} => r.base = latestHeight[n]
      /\ r.at \in {"pull", "import"} => r.todo = {} /\ r.last = latestHeight[n]
<1>8. ASSUME ~StartSync(n, t), NEW r \in Task, SetTask(n, t, r), Good(r) PROVE RanOf(n)'
  BY <1>2, <1>3, <1>6, <1>8, RanTask
<1>9. ASSUME ~StartSync(n, t)
      PROVE  /\ s.at \in {"pull", "import"} => Good(Leave(s))
             /\ s.at = "pull" => \A got : Good(Importing(s, got))
             /\ s.at = "peers" => \A p \in s.todo : Good(Without(s, p)) /\ Good(Pulling(s, p))
  <2>1. ASSUME NEW p \in s.todo PROVE s.todo \ {p} = {}
    BY <1>7, <1>9, <2>1 DEF OnePeer
  <2>2. s.at = "pull" => \A got : Good(Importing(s, got))
    BY <1>1, <1>7, <1>9, TaskFields
  <2>3. s.at \in {"pull", "import"} => Good(Leave(s))
    BY <1>1, <1>7, <1>9, TaskFields
  <2>4. ASSUME s.at = "peers", NEW p \in s.todo PROVE Good(Without(s, p)) /\ Good(Pulling(s, p))
    <3>1. s.base = latestHeight[n]
      BY <1>7, <1>9, <2>4
    <3>2. Without(s, p).at = "peers" /\ Without(s, p).todo = {}
      BY <1>1, <2>1, <2>4, TaskFields
    <3>3. /\ Pulling(s, p).at = "pull" /\ Pulling(s, p).todo = {}
          /\ Pulling(s, p).last = s.base
      BY <1>1, <2>1, <2>4, TaskFields
    <3> QED BY <3>1, <3>2, <3>3
  <2> QED BY <2>2, <2>3, <2>4
<1> HIDE DEF Good
<1>10. CASE AskHeight(n, t) /\ ~StartSync(n, t)
  <2>1. PICK p \in s.todo : SetTask(n, t, Pulling(s, p)) \/ SetTask(n, t, Without(s, p))
    BY <1>0, <1>10 DEF AskHeight
  <2>2. p \in Nodes /\ latestHeight[p] \in 0..MaxHeight /\ s.at = "peers"
    BY <1>0, <1>1, <1>10 DEF AskHeight, Task, TypeOK
  <2>3. Pulling(s, p) \in Task /\ Without(s, p) \in Task
    BY <1>1, <2>2, TaskUpdates
  <2> QED BY <1>8, <1>9, <1>10, <2>1, <2>2, <2>3
<1>11. CASE Pull(n, t) /\ ~StartSync(n, t)
  <2>1. PICK p \in s.peer :
          SetTask(n, t, Leave(s)) \/ SetTask(n, t, Importing(s, Answer(p, s.current)))
    BY <1>0, <1>11 DEF Pull
  <2>2. p \in Nodes /\ s.at = "pull"
    BY <1>0, <1>1, <1>11 DEF Pull, Task
  <2>3. Leave(s) \in Task /\ Importing(s, Answer(p, s.current)) \in Task
    BY <1>1, <2>2, RecordTypes, TaskUpdates, AnswerTypes
  <2> QED BY <1>8, <1>9, <1>11, <2>1, <2>2, <2>3
<1>12. CASE LosePeer(n, t) /\ ~StartSync(n, t)
  <2>1. \/ s.at = "peers" /\ \E p \in s.todo : SetTask(n, t, Without(s, p))
        \/ s.at = "pull" /\ SetTask(n, t, Leave(s))
    BY <1>0, <1>12 DEF LosePeer
  <2>2. Leave(s) \in Task /\ \A p : Without(s, p) \in Task
    BY <1>1, RecordTypes, TaskUpdates
  <2> QED BY <1>8, <1>9, <1>12, <2>1, <2>2
<1>13. CASE EndAnswer(n, t) /\ ~StartSync(n, t)
  <2> DEFINE more == [s EXCEPT !.at = "pull", !.current = s.last, !.final = s.last]
  <2>1. s.at = "import"
    BY <1>0, <1>13 DEF EndAnswer
  <2>2. SetTask(n, t, Leave(s)) \/ SetTask(n, t, more) \/ SetTask(n, t, Leave(more))
    BY <1>0, <1>13 DEF EndAnswer
  <2>3. more \in Task /\ more.at = "pull" /\ more.last = s.last /\ more.todo = s.todo
    BY <1>1 DEF Task
  <2> HIDE DEF more
  <2>4. Leave(s) \in Task /\ Leave(more) \in Task
    BY <1>1, <2>3, RecordTypes
  <2>5. Good(more) /\ Good(Leave(more))
    BY <1>7, <1>13, <2>1, <2>3, TaskFields DEF Good
  <2> QED BY <1>8, <1>9, <1>13, <2>1, <2>2, <2>3, <2>4, <2>5
<1>14. CASE Reload(n, t) /\ ~StartSync(n, t)
  <2> DEFINE r == [Stopped EXCEPT !.at = IF t = "initial" THEN "done" ELSE "idle"]
  <2>1. r \in Task /\ r.at \in {"done", "idle"}
    BY RecordTypes DEF Task
  <2>2. SetTask(n, t, r)
    BY <1>14 DEF Reload
  <2> HIDE DEF r
  <2>3. Good(r)
    BY <2>1 DEF Good
  <2> QED BY <1>8, <1>14, <2>1, <2>2, <2>3
<1>15. CASE TaskDies(n, t) /\ ~StartSync(n, t)
  <2> DEFINE r == [Stopped EXCEPT !.at = "done"]
  <2>1. r \in Task /\ r.at = "done"
    BY RecordTypes DEF Task, Stopped
  <2>2. SetTask(n, t, r)
    BY <1>15 DEF TaskDies
  <2> HIDE DEF r
  <2>3. Good(r)
    BY <2>1 DEF Good
  <2> QED BY <1>8, <1>15, <2>1, <2>2, <2>3
<1> QED BY <1>5, <1>10, <1>11, <1>12, <1>13, <1>14, <1>15

LEMMA RanStops ==
  ASSUME TypeOK, ImportInv, NEW n \in Nodes, Crash(n) \/ Restart(n), apart'[n],
         apart[n] => RanOf(n)
  PROVE  RanOf(n)'
<1>1. UNCHANGED <<made, blocks, latestHeight, ran>>
  BY DEF Crash, Restart, disk
<1>2. CASE Crash(n)
  <2>1. apart[n] /\ Quiet(n)
    BY <1>2 DEF Crash, TypeOK, Quiet
  <2>2. /\ \A a \in Actors : saving'[n][a] = NoSave
        /\ \A u \in Tasks : sync'[n][u].at = "idle"
    BY <1>2 DEF Crash, TypeOK, Stopped
  <2>3. Quiet(n)' /\ \A u \in Tasks : TaskOnTop(n, u)'
    BY <2>2 DEF Quiet, IsSaving, TaskOnTop
  <2> QED BY <1>1, <2>1, <2>3, RanMove
<1>3. CASE Restart(n)
  <2>1. apart[n] /\ ~up[n] /\ UNCHANGED <<saving, sync>>
    BY <1>3 DEF Restart
  <2>2. Quiet(n) /\ \A u \in Tasks : sync[n][u].at = "idle"
    BY <2>1 DEF ImportInv, DownIsIdle, Quiet, Stopped
  <2>3. Quiet(n)' /\ \A u \in Tasks : TaskOnTop(n, u)'
    BY <2>1, <2>2 DEF Quiet, IsSaving, TaskOnTop
  <2> QED BY <1>1, <2>1, <2>2, <2>3, RanMove
<1> QED BY <1>2, <1>3

LEMMA RanImport ==
  ASSUME TypeOK, ImportInv, NEW n \in Nodes, NEW t \in Tasks, Import(n, t), OneChain(n), RanOf(n)
  PROVE  RanOf(n)'
<1>0. PICK s, k : s = sync[n][t] /\ k = latestHeight[n]
  OBVIOUS
<1>1. s \in Task /\ TasksInOrder /\ s.got \subseteq DOMAIN made
  BY <1>0 DEF TypeOK, ImportInv
<1>2. s.at = "import" /\ ~IsSaving(n, t) /\ Running(n, t)
  BY <1>0 DEF Import, Running
<1>3. UNCHANGED <<made, blocks, latestHeight>>
  BY DEF Import, disk
<1>4. Quiet(n) /\ (\A u \in Tasks : u # t => ~Running(n, u))
  BY <1>2, RunsAlone DEF OneChain
<1>5. k \in Nat
  BY <1>0, BoundsAssumption DEF TypeOK
<1>6. s.todo = {} /\ s.last = k /\ Len(ran[n]) = k /\ Executed(n, k)
  BY <1>0, <1>2, <1>4 DEF RanOf, TaskOnTop, DiskExecuted
<1>7. PICK b \in s.got :
        /\ made[b].height = k + 1
        /\ \/ /\ WriteBlock(n, t, b)
              /\ ran' = [ran EXCEPT ![n] = Append(ran[n], made[b].batch)]
              /\ SetTask(n, t, [s EXCEPT !.got = s.got \ {b}])
           \/ UNCHANGED <<ran, saving>> /\ SetTask(n, t, [s EXCEPT !.got = {}])
  BY <1>0, <1>1, <1>6, ImportEffect
<1>8. \A q \in SUBSET Hash : LET w == [s EXCEPT !.got = q]
                             IN  /\ w \in Task /\ w.at = s.at /\ w.todo = s.todo /\ w.last = s.last
  BY <1>1 DEF Task
<1>9. s.got \ {b} \in SUBSET Hash /\ {} \in SUBSET Hash /\ b \in DOMAIN made
  BY <1>1 DEF Task
<1>10. CASE UNCHANGED <<ran, saving>> /\ SetTask(n, t, [s EXCEPT !.got = {}])
  <2> DEFINE r == [s EXCEPT !.got = {}]
  <2>1. r \in Task /\ r.at = "import" /\ r.todo = {} /\ r.last = k /\ SetTask(n, t, r)
    BY <1>2, <1>6, <1>8, <1>9, <1>10
  <2> HIDE DEF r
  <2> QED BY <1>0, <1>3, <1>4, <1>10, <2>1, RanTask
<1>11. CASE /\ WriteBlock(n, t, b) /\ ran' = [ran EXCEPT ![n] = Append(ran[n], made[b].batch)]
            /\ SetTask(n, t, [s EXCEPT !.got = s.got \ {b}])
  <2> DEFINE r == [s EXCEPT !.got = s.got \ {b}]
  <2>1. r \in Task /\ r.at = "import" /\ r.todo = {} /\ SetTask(n, t, r)
    BY <1>2, <1>6, <1>8, <1>9, <1>11
  <2> HIDE DEF r
  <2>2. sync'[n][t] = r /\ \A u \in Tasks : u # t => sync'[n][u] = sync[n][u]
    BY <2>1, TaskSet DEF TypeOK
  <2>3. t \in Actors /\ b \in Hash /\ made[b].batch \in Nat
    BY <1>9, MadeBlock DEF Actors, Hash
  <2>4. /\ saving'[n][t] = [block |-> b, put |-> "block"]
        /\ \A c \in Actors : c # t => saving'[n][c] = saving[n][c]
    BY <1>11, <2>3, SaveSet DEF TypeOK
  <2>5. /\ IsSaving(n, t)' /\ saving'[n][t].block = b /\ saving'[n][t].put = "block"
        /\ \A c \in Actors : c # t => ~IsSaving(n, c)'
    BY <1>4, <2>4 DEF IsSaving, NoSave, Quiet
  <2>6. /\ Len(ran'[n]) = k + 1 /\ ran'[n][k + 1] = made[b].batch
        /\ \A h \in 1..k : ran'[n][h] = ran[n][h]
    BY <1>5, <1>6, <1>11, <2>3, RanAppend, ZenonT(40)
  <2>7. SavedHeight(n, t)' = k + 1 /\ SavedHeight(n, t)' - 1 = k /\ latestHeight'[n] = k
    BY <1>0, <1>3, <1>5, <1>7, <2>5 DEF SavedHeight
  <2>8. Executed(n, k)'
    BY <1>3, <1>6, <2>6 DEF Executed, Batch
  <2>9. SaveExecuted(n, t)'
    <3>0. PICK j : j = SavedHeight(n, t)'
      OBVIOUS
    <3>1. j = k + 1 /\ j - 1 = k
      BY <2>7, <3>0
    <3>2. Len(ran'[n]) = j /\ ran'[n][j] = made'[saving'[n][t].block].batch
      BY <1>3, <2>5, <2>6, <3>1
    <3>3. Executed(n, k)' <=> \A h \in 1..j - 1 : ran'[n][h] = Batch(n, h)'
      BY <3>1 DEF Executed
    <3>4. Executed(n, SavedHeight(n, t) - 1)'
      BY <2>8, <3>0, <3>3 DEF Executed
    <3>5. saving'[n][t].put # "hash" /\ latestHeight'[n] = j - 1
      BY <2>5, <2>7, <3>1
    <3> QED BY <3>0, <3>2, <3>4, <3>5, Zenon DEF SaveExecuted
  <2>10. \A c \in Actors : SaveExecuted(n, c)'
    <3>1. \A c \in Actors : c # t => SaveExecuted(n, c)'
      BY <2>5 DEF SaveExecuted
    <3> QED BY <2>9, <3>1
  <2>11. DiskExecuted(n)'
    BY <2>3, <2>5 DEF DiskExecuted, Quiet
  <2>12. ASSUME NEW u \in Tasks PROVE TaskOnTop(n, u)'
    BY <1>4, <2>1, <2>2, <2>5 DEF TaskOnTop, Running
  <2> QED BY <2>10, <2>11, <2>12 DEF RanOf
<1> QED BY <1>7, <1>10, <1>11

LEMMA RanPut ==
  ASSUME TypeOK, ImportInv, NEW n \in Nodes, NEW a \in Actors, Put(n, a), OneChain(n), RanOf(n)
  PROVE  RanOf(n)'
<1>0. PICK b, k : b = saving[n][a].block /\ k = SavedHeight(n, a)
  OBVIOUS
<1>1. saving[n][a].put # "none" /\ IsSaving(n, a) /\ UNCHANGED <<made, ran>>
  BY DEF Put, PutBlock, PutHeight, PutHash, IsSaving, NoSave
<1>2. b \in DOMAIN made /\ k = made[b].height /\ k \in Heights /\ k \in Int /\ k >= 1
  BY <1>1, SavedBlock, <1>0, BoundsAssumption DEF SavedHeight, Heights
<1>3. /\ latestHeight[n] = IF saving[n][a].put = "hash" THEN k ELSE k - 1
      /\ Len(ran[n]) = k /\ ran[n][k] = made[b].batch /\ Executed(n, k - 1)
  BY <1>0, <1>1 DEF RanOf, SaveExecuted
<1>4. saving[n][a].put # "block" => blocks[n][k] = b
  BY <1>0, <1>1 DEF OneChain, SaveFits
<1>5. a \in AtWork(n) /\ (\A c \in Actors : c # a => ~IsSaving(n, c))
      /\ (\A t \in Tasks : t # a => ~Running(n, t))
  BY <1>1 DEF AtWork, OneChain, OneAtWork
<1>6. \A c \in Actors : c # a => saving'[n][c] = saving[n][c]
  BY DEF Put, PutBlock, PutHeight, PutHash, TypeOK
<1>7. \A c \in Actors : c # a => ~IsSaving(n, c)' /\ SaveExecuted(n, c)'
  BY <1>5, <1>6 DEF IsSaving, SaveExecuted
<1>8. \A t \in Tasks : t \in Actors
  BY DEF Actors
<1>9. ASSUME NEW t \in Tasks, t # a PROVE TaskOnTop(n, t)'
  <2>1. sync'[n][t] = sync[n][t]
    BY <1>9, <1>8 DEF Put, PutBlock, PutHeight, PutHash, TypeOK
  <2> QED BY <1>5, <1>9, <2>1 DEF TaskOnTop, Running
<1>10. a \in Tasks => sync[n][a].at = "import" /\ sync[n][a].todo = {} /\ sync[n][a] \in Task
  <2> SUFFICES ASSUME a \in Tasks
               PROVE  sync[n][a].at = "import" /\ sync[n][a].todo = {} /\ sync[n][a] \in Task
    OBVIOUS
  <2>1. TaskInOrder(n, a) /\ TaskOnTop(n, a) /\ sync[n][a] \in Task
    BY DEF ImportInv, TasksInOrder, TypeOK, RanOf
  <2> QED BY <1>1, <2>1 DEF TaskInOrder, TaskOnTop
<1>11. CASE PutBlock(n, a) \/ PutHeight(n, a)
  <2>1. /\ UNCHANGED sync
        /\ \A h \in 1..k - 1 : blocks'[n][h] = blocks[n][h]
    <3>1. CASE PutBlock(n, a)
      <4>1. blocks' = [blocks EXCEPT ![n][k] = b]
        BY <1>0, <3>1 DEF PutBlock, SavedHeight
      <4>2. \A h \in 1..k - 1 : h # k
        BY <1>2
      <4> QED BY <3>1, <4>1, <4>2 DEF PutBlock, TypeOK
    <3>2. CASE PutHeight(n, a)
      BY <3>2 DEF PutHeight
    <3> QED BY <1>11, <3>1, <3>2
  <2>2. /\ saving'[n][a].block = b
        /\ \/ saving'[n][a].put = "height" /\ latestHeight'[n] = latestHeight[n]
              /\ saving[n][a].put = "block"
           \/ saving'[n][a].put = "hash" /\ latestHeight'[n] = k
    <3>0. saving[n][a] \in Save /\ saving \in [Nodes -> [Actors -> Save]]
      BY DEF TypeOK
    <3>1. CASE PutBlock(n, a)
      <4>1. saving' = [saving EXCEPT ![n][a].put = "height"] /\ saving[n][a].put = "block"
            /\ latestHeight' = latestHeight
        BY <3>1 DEF PutBlock
      <4> QED BY <1>0, <3>0, <4>1 DEF Save
    <3>2. CASE PutHeight(n, a)
      <4>1. saving' = [saving EXCEPT ![n][a].put = "hash"]
            /\ latestHeight' = [latestHeight EXCEPT ![n] = k]
        BY <1>0, <3>2 DEF PutHeight, SavedHeight
      <4>2. latestHeight'[n] = k
        BY <4>1 DEF TypeOK
      <4> QED BY <1>0, <3>0, <4>1, <4>2 DEF Save
    <3> QED BY <1>11, <3>1, <3>2
  <2>3. IsSaving(n, a)' /\ SavedHeight(n, a)' = k
    BY <1>1, <1>2, <2>2 DEF IsSaving, NoSave, SavedHeight
  <2>4. Executed(n, k - 1)'
    BY <1>1, <1>3, <2>1 DEF Executed, Batch
  <2>5. latestHeight'[n] = IF saving'[n][a].put = "hash" THEN k ELSE k - 1
    BY <1>3, <2>2
  <2>6. SaveExecuted(n, a)'
    BY <1>1, <1>3, <2>2, <2>3, <2>4, <2>5 DEF SaveExecuted
  <2>7. DiskExecuted(n)'
    BY <2>3 DEF DiskExecuted, Quiet
  <2>8. a \in Tasks => TaskOnTop(n, a)'
    BY <1>10, <2>1, <2>3 DEF TaskOnTop
  <2> QED BY <1>7, <1>9, <2>6, <2>7, <2>8 DEF RanOf
<1>12. CASE PutHash(n, a)
  <2>1. /\ UNCHANGED <<blocks, latestHeight>>
        /\ saving'[n][a] = NoSave /\ saving[n][a].put = "hash"
    BY <1>12 DEF PutHash, TypeOK
  <2>2. ~IsSaving(n, a)'
    BY <2>1 DEF IsSaving
  <2>3. latestHeight'[n] = k /\ blocks'[n][k] = b
    BY <1>3, <1>4, <2>1
  <2>4. ASSUME NEW h \in 1..k PROVE ran[n][h] = Batch(n, h)
    <3>1. CASE h = k
      BY <1>3, <2>1, <2>3, <3>1 DEF Batch
    <3>2. CASE h # k
      <4>1. h \in 1..k - 1
        BY <1>2, <3>2
      <4> QED BY <1>3, <4>1 DEF Executed
    <3> QED BY <3>1, <3>2
  <2>5. Executed(n, k)'
    BY <1>1, <2>1, <2>4 DEF Executed, Batch
  <2>6. DiskExecuted(n)'
    BY <1>1, <1>3, <2>3, <2>5 DEF DiskExecuted
  <2>7. SaveExecuted(n, a)'
    BY <2>2 DEF SaveExecuted
  <2>8. a \in Tasks => TaskOnTop(n, a)'
    <3>1. ASSUME a \in Tasks PROVE sync'[n][a] = [sync[n][a] EXCEPT !.last = k]
      BY <1>0, <1>12, <3>1 DEF PutHash, TypeOK, SavedHeight
    <3>2. a \in Tasks => /\ sync'[n][a].at = "import" /\ sync'[n][a].todo = {}
                         /\ sync'[n][a].last = k
      BY <1>10, <3>1 DEF Task
    <3> QED BY <2>3, <3>2 DEF TaskOnTop
  <2> QED BY <1>7, <1>9, <2>6, <2>7, <2>8 DEF RanOf
<1> QED BY <1>11, <1>12 DEF Put

LEMMA PeersKnownKept ==
  ASSUME TypeOK, PeersKnown, NEW n \in Nodes, NodeStep(n)
  PROVE  PeersKnown'
<1>1. ASSUME NEW t \in Tasks, NEW r \in Task, SetTask(n, t, r),
             r.todo \subseteq sync[n][t].todo \cup PeersOf[n]
      PROVE  PeersKnown'
  <2>1. /\ sync'[n][t] = r
        /\ \A m \in Nodes, u \in Tasks : m # n \/ u # t => sync'[m][u] = sync[m][u]
    BY <1>1, TaskSet DEF TypeOK
  <2> QED BY <1>1, <2>1 DEF PeersKnown
<1>2. CASE UNCHANGED sync
  BY <1>2 DEF PeersKnown
<1>3. ASSUME NEW a \in Actors, PutHash(n, a), ~UNCHANGED sync PROVE PeersKnown'
  <2>1. a \in Tasks /\ sync[n][a] \in Task
    BY <1>3 DEF PutHash, TypeOK
  <2>2. sync' = [sync EXCEPT ![n][a].last = SavedHeight(n, a)]
    BY <1>3, <2>1 DEF PutHash, SavedHeight
  <2>3. \A m \in Nodes, u \in Tasks : sync'[m][u].todo = sync[m][u].todo
    BY <2>1, <2>2 DEF TypeOK, Task
  <2> QED BY <2>3 DEF PeersKnown
<1>4. CASE Crash(n)
  <2>1. \A m \in Nodes, u \in Tasks : sync'[m][u] = IF m = n THEN Stopped ELSE sync[m][u]
    BY <1>4 DEF Crash, TypeOK
  <2> QED BY <2>1 DEF PeersKnown, Stopped
<1>5. ASSUME NEW t \in Tasks,
             StartSync(n, t) \/ AskHeight(n, t) \/ Pull(n, t) \/ LosePeer(n, t) \/ TaskDies(n, t)
               \/ Import(n, t) \/ EndAnswer(n, t) \/ Reload(n, t)
      PROVE  PeersKnown'
  <2>0. PICK s : s = sync[n][t]
    OBVIOUS
  <2>1. s \in Task /\ s.last \in 0..MaxHeight /\ s.peer \subseteq Nodes /\ s.todo \subseteq Nodes
    BY <2>0 DEF TypeOK, Task
  <2>2. CASE StartSync(n, t)
    <3> DEFINE r == [Stopped EXCEPT !.at = "peers", !.base = latestHeight[n],
                                    !.final = latestHeight[n], !.todo = PeersOf[n]]
    <3>1. r \in Task /\ r.todo = PeersOf[n]
      <4>1. latestHeight[n] \in 0..MaxHeight
        BY DEF TypeOK
      <4> QED BY <4>1, RecordTypes, NodesAssumption DEF Task, Stopped
    <3>2. SetTask(n, t, r)
      BY <2>2 DEF StartSync
    <3> HIDE DEF r
    <3> QED BY <1>1, <3>1, <3>2
  <2>3. CASE AskHeight(n, t)
    <3>1. PICK p \in s.todo : SetTask(n, t, Pulling(s, p)) \/ SetTask(n, t, Without(s, p))
      BY <2>0, <2>3 DEF AskHeight
    <3>2. p \in Nodes /\ latestHeight[p] \in 0..MaxHeight
      BY <2>1 DEF TypeOK
    <3>3. /\ Pulling(s, p) \in Task /\ Without(s, p) \in Task
          /\ Pulling(s, p).todo \subseteq s.todo /\ Without(s, p).todo \subseteq s.todo
      BY <2>1, <3>2, TaskUpdates, TaskFields
    <3> QED BY <1>1, <2>0, <3>1, <3>3
  <2>4. CASE Pull(n, t)
    <3>1. PICK p \in s.peer :
            SetTask(n, t, Leave(s)) \/ SetTask(n, t, Importing(s, Answer(p, s.current)))
      BY <2>0, <2>4 DEF Pull
    <3>2. /\ Leave(s) \in Task /\ Importing(s, Answer(p, s.current)) \in Task
          /\ Leave(s).todo = s.todo /\ Importing(s, Answer(p, s.current)).todo = s.todo
      BY <2>1, RecordTypes, TaskUpdates, TaskFields, AnswerTypes
    <3> QED BY <1>1, <2>0, <3>1, <3>2
  <2>5. CASE LosePeer(n, t)
    <3>1. (\E p : SetTask(n, t, Without(s, p))) \/ SetTask(n, t, Leave(s))
      BY <2>0, <2>5 DEF LosePeer
    <3>2. /\ Leave(s) \in Task /\ Leave(s).todo = s.todo
          /\ \A p : Without(s, p) \in Task /\ Without(s, p).todo \subseteq s.todo
      BY <2>1, RecordTypes, TaskUpdates, TaskFields
    <3> QED BY <1>1, <2>0, <3>1, <3>2
  <2>9. CASE TaskDies(n, t)
    <3> DEFINE r == [Stopped EXCEPT !.at = "done"]
    <3>1. r \in Task /\ r.todo = {}
      BY RecordTypes DEF Task, Stopped
    <3>2. SetTask(n, t, r)
      BY <2>9 DEF TaskDies
    <3> HIDE DEF r
    <3> QED BY <1>1, <3>1, <3>2
  <2>6. CASE Import(n, t)
    <3>1. PICK q \in SUBSET s.got : SetTask(n, t, [s EXCEPT !.got = q])
      BY <2>0, <2>6 DEF Import
    <3>2. [s EXCEPT !.got = q] \in Task /\ [s EXCEPT !.got = q].todo = s.todo
      BY <2>1 DEF Task
    <3> QED BY <1>1, <2>0, <3>1, <3>2
  <2>7. CASE EndAnswer(n, t)
    <3> DEFINE more == [s EXCEPT !.at = "pull", !.current = s.last, !.final = s.last]
    <3>1. SetTask(n, t, Leave(s)) \/ SetTask(n, t, more) \/ SetTask(n, t, Leave(more))
      BY <2>0, <2>7 DEF EndAnswer
    <3>2. more \in Task /\ more.todo = s.todo
      BY <2>1 DEF Task
    <3> HIDE DEF more
    <3>3. /\ Leave(s) \in Task /\ Leave(more) \in Task
          /\ Leave(s).todo = s.todo /\ Leave(more).todo = s.todo
      BY <2>1, <3>2, RecordTypes, TaskFields
    <3> QED BY <1>1, <2>0, <3>1, <3>2, <3>3
  <2>8. CASE Reload(n, t)
    <3> DEFINE r == [Stopped EXCEPT !.at = IF t = "initial" THEN "done" ELSE "idle"]
    <3>1. r \in Task /\ r.todo = {}
      BY RecordTypes DEF Task, Stopped
    <3>2. SetTask(n, t, r)
      BY <2>8 DEF Reload
    <3> HIDE DEF r
    <3> QED BY <1>1, <3>1, <3>2
  <2> QED BY <1>5, <2>2, <2>3, <2>4, <2>5, <2>6, <2>7, <2>8, <2>9
<1>6. Build(n) \/ Restart(n) \/ (\E a \in Actors : PutBlock(n, a) \/ PutHeight(n, a)) => UNCHANGED sync
  BY DEF Build, Restart, PutBlock, PutHeight
<1> QED BY <1>2, <1>3, <1>4, <1>5, <1>6 DEF NodeStep, Put

LEMMA PeersInvariant == Spec => []PeersKnown
<1>1. Init => PeersKnown
  BY DEF Init, PeersKnown, Stopped
<1>2. TypeOK /\ PeersKnown /\ [Next]_vars => PeersKnown'
  <2> SUFFICES ASSUME TypeOK, PeersKnown, [Next]_vars PROVE PeersKnown'
    OBVIOUS
  <2>1. CASE UNCHANGED vars
    BY <2>1 DEF vars, PeersKnown
  <2>2. ASSUME NEW n \in Nodes, NodeStep(n) PROVE PeersKnown'
    BY <2>2, PeersKnownKept
  <2> QED BY <2>1, <2>2, NextIsNodeStep
<1> QED BY <1>1, <1>2, TypeCorrect, PTL DEF Spec

LEMMA RanInvariant ==
  ASSUME OnePeer
  PROVE  Spec => []RanInv
<1>1. Init => RanInv
  <2> SUFFICES ASSUME Init, NEW n \in Nodes PROVE RanOf(n)
    BY DEF RanInv
  <2>1. /\ latestHeight[n] = 0 /\ ran[n] = <<>>
        /\ (\A a \in Actors : ~IsSaving(n, a)) /\ (\A t \in Tasks : sync[n][t].at = "idle")
    BY DEF Init, IsSaving, Stopped
  <2> QED BY <2>1 DEF RanOf, DiskExecuted, Executed, SaveExecuted, TaskOnTop
<1>2. TypeOK /\ ImportInv /\ PeersKnown /\ ApartInv /\ RanInv /\ [Next]_vars => RanInv'
  <2> SUFFICES ASSUME TypeOK, ImportInv, PeersKnown, ApartInv, RanInv, [Next]_vars,
                      NEW m \in Nodes, apart'[m]
               PROVE  RanOf(m)'
    BY DEF RanInv
  <2>1. apart[m] => OneChain(m) /\ RanOf(m)
    BY DEF ApartInv, RanInv
  <2>2. ASSUME Grows, Untouched(m) PROVE RanOf(m)'
    <3>1. apart[m]
      BY <2>2 DEF Untouched
    <3> QED BY <2>1, <2>2, <3>1, RanKept
  <2>3. CASE UNCHANGED vars
    BY <2>2, <2>3 DEF vars, disk, Grows, Untouched
  <2>4. ASSUME NEW n \in Nodes, NodeStep(n), m # n PROVE RanOf(m)'
    BY <2>2, <2>4, MadeGrows, OthersStay
  <2>5. ASSUME NodeStep(m) PROVE RanOf(m)'
    <3>1. CASE Build(m)
      BY <2>1, <3>1, RanBuild
    <3>2. CASE Crash(m) \/ Restart(m)
      BY <2>1, <3>2, RanStops
    <3>3. ASSUME NEW a \in Actors, Put(m, a) PROVE RanOf(m)'
      <4>1. apart' = apart
        BY <3>3 DEF Put, PutBlock, PutHeight, PutHash
      <4> QED BY <2>1, <3>3, <4>1, RanPut
    <3>4. ASSUME NEW t \in Tasks, Import(m, t) PROVE RanOf(m)'
      <4>1. apart' = apart
        BY <3>4 DEF Import
      <4> QED BY <2>1, <3>4, <4>1, RanImport
    <3>5. ASSUME NEW t \in Tasks,
                 StartSync(m, t) \/ AskHeight(m, t) \/ Pull(m, t) \/ LosePeer(m, t) \/ TaskDies(m, t)
                   \/ EndAnswer(m, t) \/ Reload(m, t)
          PROVE  RanOf(m)'
      BY <2>1, <3>5, RanAsk
    <3> QED BY <2>5, <3>1, <3>2, <3>3, <3>4, <3>5 DEF NodeStep
  <2> QED BY <2>3, <2>4, <2>5, NextIsNodeStep
<1> QED BY <1>1, <1>2, TypeCorrect, ImportInvariant, PeersInvariant, ApartInvariant, PTL DEF Spec

\* StateIsOfChain, for any nodes of which each imports from one peer at most, any bounds and
\* any interleaving: the state of a node that has kept its actors apart is that of its chain
\* executed once.  With two peers it is not: the two may bring the same block.
THEOREM StateOfOnePeerIsOfChain ==
  ASSUME OnePeer
  PROVE  Spec => []StateIsOfChain
<1>1. TypeOK /\ RanInv => StateIsOfChain
  <2> SUFFICES ASSUME TypeOK, RanInv, NEW n \in Nodes, apart[n], Quiet(n)
               PROVE  ran[n] = [h \in 1..latestHeight[n] |-> made[blocks[n][h]].batch]
    BY DEF StateIsOfChain, Quiet
  <2>1. Len(ran[n]) = latestHeight[n] /\ \A h \in 1..latestHeight[n] : ran[n][h] = Batch(n, h)
    BY DEF RanInv, RanOf, DiskExecuted, Executed
  <2>2. ran[n] \in Seq(Nat)
    BY DEF TypeOK
  <2>3. ran[n] = [h \in 1..Len(ran[n]) |-> ran[n][h]]
    BY <2>2
  <2> QED BY <2>1, <2>3, Zenon DEF Batch
<1> QED BY <1>1, TypeCorrect, RanInvariant, PTL
=============================================================================
