---------------------------- MODULE Telemetry_proofs ----------------------------
(***************************************************************************)
(* Proofs about Telemetry, for any sectors, units and runs and any number  *)
(* of ticks, steps back and starts: agents never jump back, and what is    *)
(* recommended is for units the backend knows.  Both rest on the one queue *)
(* a kind of agents has.                                                   *)
(***************************************************************************)
EXTENDS Telemetry, SequenceTheorems, TLAPS

(***************************************************************************)
(* The times an agent was where a message or the backend says: the number  *)
(* of starts and steps back before, and its age.                           *)
(***************************************************************************)
Count == Nat \ {0}
Now == <<epoch, age>>
Message == [age : Count, epoch : Count]
Said(m) == <<m.epoch, m.age>>

AgentsTypeOK ==
    /\ epoch \in Count /\ age \in Count
    /\ past \in Seq([Sectors -> Nat] \X Count) /\ level \in [Sectors -> Nat]
    /\ batch \in [Units -> Seq(Message)]
    /\ agents \in [Units -> Nat \X Nat]

(***************************************************************************)
(* What the backend shows is not newer than anything in the queue, which   *)
(* is in order itself, and nothing there is newer than the simulation.     *)
(***************************************************************************)
QueueInOrder(q, shown, now) ==
    /\ NotOlder(shown, now)
    /\ \A i \in 1..Len(q) : NotOlder(shown, Said(q[i])) /\ NotOlder(Said(q[i]), now)
    /\ \A i, j \in 1..Len(q) : i < j => NotOlder(Said(q[i]), Said(q[j]))

InOrder == \A u \in Units : QueueInOrder(batch[u], agents[u], Now)

AgentsIInv == AgentsTypeOK /\ InOrder /\ RecommendedAreKnown

\* Being not older is a preorder on times.
LEMMA NotOlderTransitive ==
    ASSUME NEW a \in Nat \X Nat, NEW b \in Nat \X Nat, NEW c \in Nat \X Nat,
           NotOlder(a, b), NotOlder(b, c)
    PROVE  NotOlder(a, c)
BY DEF NotOlder

\* A queue in order stays so while the simulation goes on.
LEMMA LaterInOrder ==
    ASSUME NEW q \in Seq(Message), NEW shown \in Nat \X Nat,
           NEW now \in Nat \X Nat, NEW later \in Nat \X Nat,
           QueueInOrder(q, shown, now), NotOlder(now, later)
    PROVE  QueueInOrder(q, shown, later)
<1>1. \A i \in 1..Len(q) : Said(q[i]) \in Nat \X Nat
  <2>1. \A i \in 1..Len(q) : q[i] \in Message
    BY ElementOfSeq
  <2>2. \A m \in Message : Said(m) \in Nat \X Nat
    BY DEF Said, Message, Count
  <2>3. QED  BY <2>1, <2>2
<1>2. NotOlder(shown, later)
  BY NotOlderTransitive DEF QueueInOrder
<1>3. ASSUME NEW i \in 1..Len(q)
      PROVE  NotOlder(Said(q[i]), later)
  <2>1. NotOlder(Said(q[i]), now) /\ Said(q[i]) \in Nat \X Nat
    BY <1>1 DEF QueueInOrder
  <2>2. QED  BY <2>1, NotOlderTransitive
<1>4. QED  BY <1>2, <1>3 DEF QueueInOrder

\* What a tick or a step back publishes is the newest of all.
LEMMA AppendInOrder ==
    ASSUME NEW q \in Seq(Message), NEW shown \in Nat \X Nat, NEW m \in Message,
           QueueInOrder(q, shown, Said(m))
    PROVE  Append(q, m) \in Seq(Message) /\ QueueInOrder(Append(q, m), shown, Said(m))
<1> DEFINE r == Append(q, m)
<1>1. r \in Seq(Message) /\ Len(r) = Len(q) + 1 /\ r[Len(q) + 1] = m
      /\ \A i \in 1..Len(q) : r[i] = q[i]
  BY AppendProperties
<1>2. NotOlder(Said(m), Said(m))
  BY DEF NotOlder, Said, Message, Count
<1>3. Len(q) \in Nat
  BY LenProperties
<1> HIDE DEF r
<1>4. \A i \in 1..Len(r) : NotOlder(shown, Said(r[i])) /\ NotOlder(Said(r[i]), Said(m))
  <2>1. TAKE i \in 1..Len(r)
  <2>2. CASE i \in 1..Len(q)
    BY <1>1, <2>2 DEF QueueInOrder
  <2>3. CASE i = Len(q) + 1
    BY <1>1, <1>2, <2>3 DEF QueueInOrder
  <2>4. QED  BY <1>1, <1>3, <2>2, <2>3
<1>5. \A i, j \in 1..Len(r) : i < j => NotOlder(Said(r[i]), Said(r[j]))
  <2>1. TAKE i, j \in 1..Len(r)
  <2>2. HAVE i < j
  <2>3. i \in 1..Len(q)
    BY <1>1, <1>3, <2>2
  <2>4. CASE j \in 1..Len(q)
    BY <1>1, <2>2, <2>3, <2>4 DEF QueueInOrder
  <2>5. CASE j = Len(q) + 1
    BY <1>1, <2>3, <2>5 DEF QueueInOrder
  <2>6. QED  BY <1>1, <1>3, <2>4, <2>5
<1>6. QED  BY <1>1, <1>4, <1>5 DEF QueueInOrder, r

\* The backend takes the oldest message, and the others are newer.
LEMMA TailInOrder ==
    ASSUME NEW q \in Seq(Message), NEW shown \in Nat \X Nat, NEW now \in Nat \X Nat,
           q # <<>>, QueueInOrder(q, shown, now)
    PROVE  /\ Head(q) \in Message /\ Tail(q) \in Seq(Message)
           /\ NotOlder(shown, Said(Head(q)))
           /\ QueueInOrder(Tail(q), Said(Head(q)), now)
<1> DEFINE r == Tail(q)
<1>1. /\ Head(q) \in Message /\ r \in Seq(Message) /\ Len(r) = Len(q) - 1
      /\ \A i \in 1..Len(r) : r[i] = q[i + 1]
  BY HeadTailProperties
<1>2. Len(q) \in Nat /\ Len(q) # 0 /\ Head(q) = q[1]
  BY EmptySeq, LenProperties
<1>3. 1 \in 1..Len(q) /\ \A i \in 1..Len(r) : i + 1 \in 1..Len(q) /\ 1 < i + 1
  BY <1>1, <1>2
<1> HIDE DEF r
<1>4. NotOlder(shown, Said(q[1])) /\ NotOlder(Said(q[1]), now)
  BY <1>3 DEF QueueInOrder
<1>5. \A i \in 1..Len(r) : NotOlder(Said(q[1]), Said(r[i])) /\ NotOlder(Said(r[i]), now)
  BY <1>1, <1>3 DEF QueueInOrder
<1>6. \A i, j \in 1..Len(r) : i < j => NotOlder(Said(r[i]), Said(r[j]))
  <2>1. TAKE i, j \in 1..Len(r)
  <2>2. HAVE i < j
  <2>3. i + 1 \in 1..Len(q) /\ j + 1 \in 1..Len(q) /\ i + 1 < j + 1
    BY <1>1, <1>2, <2>2
  <2>4. NotOlder(Said(q[i + 1]), Said(q[j + 1]))
    BY <2>3 DEF QueueInOrder
  <2>5. QED  BY <1>1, <2>4
<1>7. QED  BY <1>1, <1>2, <1>4, <1>5, <1>6 DEF QueueInOrder, r

------------------------------------------------------------------------------
(* The steps *)

\* A publication adds the agents of some units to the end of their queues.
LEMMA PublishBatch ==
    ASSUME NEW before, NEW now, Publish(before, now, age')
    PROVE  \/ UNCHANGED batch
           \/ \E S \in SUBSET Units :
                 batch' = [u \in Units |-> IF u \in S THEN Append(batch[u], BatchOf(age', epoch'))
                                           ELSE batch[u]]
<1>1. CASE UNCHANGED queues
  BY <1>1 DEF queues
<1>2. ASSUME NEW k,
             batch' = [u \in Units |-> IF \E n \in 1..k : SetToSeq(RunUnits[run])[n] = u
                                       THEN Append(batch[u], BatchOf(age', epoch')) ELSE batch[u]]
      PROVE  \E S \in SUBSET Units :
                batch' = [u \in Units |-> IF u \in S THEN Append(batch[u], BatchOf(age', epoch'))
                                          ELSE batch[u]]
  <2> DEFINE S == {u \in Units : \E n \in 1..k : SetToSeq(RunUnits[run])[n] = u}
  <2>1. S \in SUBSET Units
    OBVIOUS
  <2>2. \A u \in Units : u \in S <=> \E n \in 1..k : SetToSeq(RunUnits[run])[n] = u
    OBVIOUS
  <2>3. batch' = [u \in Units |-> IF u \in S THEN Append(batch[u], BatchOf(age', epoch'))
                                  ELSE batch[u]]
    BY <1>2, <2>2
  <2>4. QED  BY <2>1, <2>3
<1>3. QED  BY <1>1, <1>2 DEF Publish

\* The simulation goes on in time and may publish: a queue in order stays so.
LEMMA PublishInOrder ==
    ASSUME AgentsTypeOK, InOrder,
           NEW before, NEW now, Publish(before, now, age'),
           epoch' \in Count, age' \in Count, NotOlder(Now, Now'), UNCHANGED agents
    PROVE  batch' \in [Units -> Seq(Message)] /\ InOrder'
<1>1. \A u \in Units : QueueInOrder(batch[u], agents[u], Now')
  <2>1. Now \in Nat \X Nat /\ Now' \in Nat \X Nat
    BY DEF Now, AgentsTypeOK, Count
  <2>2. QED  BY <2>1, LaterInOrder DEF InOrder, AgentsTypeOK
<1>2. CASE UNCHANGED batch
  BY <1>1, <1>2 DEF InOrder, AgentsTypeOK
<1>3. ASSUME NEW S \in SUBSET Units,
             batch' = [u \in Units |-> IF u \in S THEN Append(batch[u], BatchOf(age', epoch'))
                                       ELSE batch[u]]
      PROVE  batch' \in [Units -> Seq(Message)] /\ InOrder'
  <2> DEFINE m == BatchOf(age', epoch')
  <2>1. m \in Message /\ Said(m) = Now'
    BY DEF BatchOf, Message, Said, Now
  <2> HIDE DEF m
  <2>2. ASSUME NEW u \in Units
        PROVE  Append(batch[u], m) \in Seq(Message)
               /\ QueueInOrder(Append(batch[u], m), agents[u], Now')
    BY <1>1, <2>1, AppendInOrder DEF AgentsTypeOK
  <2>3. batch' \in [Units -> Seq(Message)]
    BY <1>3, <2>2 DEF AgentsTypeOK, m
  <2>4. \A u \in Units : QueueInOrder(batch'[u], agents'[u], Now')
    BY <1>1, <1>3, <2>2 DEF m
  <2>5. QED  BY <2>3, <2>4 DEF InOrder
<1>4. \/ UNCHANGED batch
      \/ \E S \in SUBSET Units :
            batch' = [u \in Units |-> IF u \in S THEN Append(batch[u], BatchOf(age', epoch'))
                                      ELSE batch[u]]
  BY PublishBatch
<1>5. QED  BY <1>2, <1>3, <1>4

\* The simulator's steps: ticks, steps back and starts only add to the queues.
LEMMA SimulatorStep ==
    ASSUME AgentsIInv, Tick \/ StepBack \/ StartRun
    PROVE  AgentsIInv' /\ UNCHANGED agents
<1> USE DEF AgentsIInv
<1>1. UNCHANGED agents /\ UNCHANGED recommended
  BY DEF Tick, StepBack, StartRun, state
<1>2. RecommendedAreKnown'
  BY <1>1 DEF RecommendedAreKnown, Known
<1>3. CASE Tick
  <2>1. epoch' \in Count /\ age' \in Count /\ NotOlder(Now, Now')
    BY <1>3 DEF Tick, AgentsTypeOK, NotOlder, Now, Count
  <2>2. batch' \in [Units -> Seq(Message)] /\ InOrder'
    BY <1>1, <1>3, <2>1, PublishInOrder DEF Tick
  <2>3. level' \in [Sectors -> Nat]
    BY <1>3 DEF Tick, AgentsTypeOK
  <2>4. past' \in Seq([Sectors -> Nat] \X Count)
    BY <1>3, AppendProperties DEF Tick, AgentsTypeOK
  <2>5. QED  BY <1>1, <1>2, <2>1, <2>2, <2>3, <2>4 DEF AgentsTypeOK
<1>4. CASE StepBack
  <2>1. PICK n \in 1..Len(past) :
            level' = past[n][1] /\ age' = past[n][2] /\ past' = SubSeq(past, 1, n - 1)
    BY <1>4 DEF StepBack
  <2>2. past[n] \in [Sectors -> Nat] \X Count
    BY <2>1, ElementOfSeq DEF AgentsTypeOK
  <2>3. epoch' = epoch + 1
    BY <1>4 DEF StepBack
  <2>4. epoch' \in Count /\ age' \in Count /\ NotOlder(Now, Now')
    BY <2>1, <2>2, <2>3 DEF AgentsTypeOK, NotOlder, Now, Count
  <2>5. batch' \in [Units -> Seq(Message)] /\ InOrder'
    BY <1>1, <1>4, <2>4, PublishInOrder DEF StepBack
  <2>6. past' \in Seq([Sectors -> Nat] \X Count)
    <3>1. Len(past) \in Nat
      BY LenProperties DEF AgentsTypeOK
    <3>2. \A i \in 1..(n - 1) : past[i] \in [Sectors -> Nat] \X Count
      BY <3>1, ElementOfSeq DEF AgentsTypeOK
    <3>3. QED  BY <2>1, <3>1, <3>2, SubSeqProperties
  <2>7. QED  BY <1>1, <1>2, <2>1, <2>2, <2>4, <2>5, <2>6 DEF AgentsTypeOK
<1>5. CASE StartRun
  <2>1. epoch' = epoch + 1 /\ age' = 1 /\ past' = <<>> /\ UNCHANGED batch
        /\ level' = [s \in Sectors |-> 1]
    BY <1>5 DEF StartRun, queues
  <2>2. epoch' \in Count /\ age' \in Count /\ NotOlder(Now, Now')
    BY <2>1 DEF AgentsTypeOK, NotOlder, Now, Count
  <2>3. Now \in Nat \X Nat /\ Now' \in Nat \X Nat
    BY <2>2 DEF Now, AgentsTypeOK, Count
  <2>4. InOrder'
    BY <1>1, <2>1, <2>2, <2>3, LaterInOrder DEF InOrder, AgentsTypeOK
  <2>5. past' \in Seq([Sectors -> Nat] \X Count)
    BY <2>1, EmptySeq
  <2>6. level' \in [Sectors -> Nat]
    BY <2>1
  <2>7. QED  BY <1>1, <1>2, <2>1, <2>2, <2>4, <2>5, <2>6 DEF AgentsTypeOK
<1>6. QED  BY <1>1, <1>3, <1>4, <1>5

\* The backend takes an agent's oldest message.
LEMMA ConsumeBatchStep ==
    ASSUME AgentsIInv, NEW u \in Units, ConsumeBatch(u)
    PROVE  AgentsIInv' /\ \A v \in Units : NotOlder(agents[v], agents'[v])
<1> USE DEF AgentsIInv
<1> DEFINE q == batch[u]
           m == Head(q)
<1>1. /\ q \in Seq(Message) /\ q # <<>> /\ batch' = [batch EXCEPT ![u] = Tail(q)]
      /\ agents' = [agents EXCEPT ![u] = Said(m)]
      /\ UNCHANGED <<epoch, age, past, level, recommended>>
  BY DEF ConsumeBatch, AgentsAfter, Said, sim, AgentsTypeOK
<1>2. Now \in Nat \X Nat /\ Now' = Now
  BY <1>1 DEF Now, AgentsTypeOK, Count
<1>3. /\ m \in Message /\ Tail(q) \in Seq(Message) /\ NotOlder(agents[u], Said(m))
      /\ QueueInOrder(Tail(q), Said(m), Now)
  BY <1>1, <1>2, TailInOrder DEF InOrder, AgentsTypeOK
<1> HIDE DEF q, m
<1>4. Said(m) \in Nat \X Nat /\ Said(m)[2] # 0
  BY <1>3 DEF Said, Message, Count
<1>5. AgentsTypeOK'
  BY <1>1, <1>3, <1>4 DEF AgentsTypeOK
<1>6. InOrder'
  BY <1>1, <1>2, <1>3 DEF InOrder, AgentsTypeOK
<1>7. RecommendedAreKnown'
  BY <1>1, <1>4 DEF RecommendedAreKnown, Known, Absent, AgentsTypeOK
<1>8. \A v \in Units : NotOlder(agents[v], agents'[v])
  BY <1>1, <1>3 DEF NotOlder, AgentsTypeOK
<1>9. QED  BY <1>5, <1>6, <1>7, <1>8

\* The other subscribers leave the agents alone.
LEMMA OtherStep ==
    ASSUME AgentsIInv, ConsumeFull \/ ConsumeFast \/ ConsumeRecommendation \/ UNCHANGED vars
    PROVE  AgentsIInv' /\ UNCHANGED agents
<1>1. UNCHANGED <<epoch, age, past, level, batch, agents>>
  BY DEF ConsumeFull, ConsumeFast, ConsumeRecommendation, vars, sim, queues, state
<1>2. recommended' \subseteq Known
  BY DEF ConsumeFull, ConsumeFast, ConsumeRecommendation, vars, state,
         AgentsIInv, RecommendedAreKnown
<1>3. RecommendedAreKnown'
  BY <1>1, <1>2 DEF RecommendedAreKnown, Known
<1>4. QED
  BY <1>1, <1>3 DEF AgentsIInv, AgentsTypeOK, InOrder, Now

\* A reset shows the configured agents, older than anything the simulator says.
LEMMA ResetStep ==
    ASSUME AgentsIInv, Reset
    PROVE  AgentsIInv'
<1> USE DEF AgentsIInv
<1>1. UNCHANGED <<epoch, age, past, level, batch>> /\ agents' = ConfiguredAgents(run)
      /\ recommended' = {}
  BY DEF Reset, sim, queues
<1>2. \A u \in Units : agents'[u] \in Nat \X Nat /\ agents'[u][1] = 0
  BY <1>1 DEF ConfiguredAgents, Absent
<1>3. agents' \in [Units -> Nat \X Nat]
  BY <1>1 DEF ConfiguredAgents, Absent
<1>4. ASSUME NEW u \in Units
      PROVE  QueueInOrder(batch[u], agents'[u], Now)
  <2>1. NotOlder(agents'[u], Now)
    BY <1>2 DEF NotOlder, Now, AgentsTypeOK, Count
  <2>2. \A i \in 1..Len(batch[u]) : NotOlder(agents'[u], Said(batch[u][i]))
    <3>1. TAKE i \in 1..Len(batch[u])
    <3>2. batch[u][i] \in Message
      BY DEF AgentsTypeOK
    <3>3. Said(batch[u][i])[1] > 0
      BY <3>2 DEF Said, Message, Count
    <3>4. QED  BY <1>2, <3>3 DEF NotOlder
  <2>3. QED  BY <2>1, <2>2 DEF InOrder, QueueInOrder
<1>5. QED
  BY <1>1, <1>3, <1>4 DEF AgentsTypeOK, InOrder, Now, RecommendedAreKnown

\* Before the first tick the queues are empty.
LEMMA InitAgents == Init => AgentsIInv
<1> SUFFICES ASSUME Init PROVE AgentsIInv
  OBVIOUS
<1>1. agents \in [Units -> Nat \X Nat] /\ \A u \in Units : agents[u][1] = 0
  BY DEF Init, ConfiguredAgents, Absent
<1>2. AgentsTypeOK
  <2>1. past \in Seq([Sectors -> Nat] \X Count) /\ batch \in [Units -> Seq(Message)]
    BY EmptySeq DEF Init
  <2>2. QED  BY <1>1, <2>1 DEF Init, AgentsTypeOK, Count
<1>3. InOrder
  BY <1>1 DEF Init, InOrder, QueueInOrder, NotOlder, Now
<1>4. QED  BY <1>2, <1>3 DEF AgentsIInv, Init, RecommendedAreKnown

\* Every step keeps the invariant, and all but a reset move the agents on.
LEMMA AgentsStep ==
    ASSUME AgentsIInv, [Next]_vars
    PROVE  AgentsIInv' /\ (Reset \/ \A u \in Units : NotOlder(agents[u], agents'[u]))
<1>1. ASSUME UNCHANGED agents
      PROVE  \A u \in Units : NotOlder(agents[u], agents'[u])
  BY <1>1 DEF NotOlder, AgentsIInv, AgentsTypeOK
<1>2. CASE Tick \/ StepBack \/ StartRun
  BY <1>1, <1>2, SimulatorStep
<1>3. ASSUME NEW u \in Units, ConsumeBatch(u)
      PROVE  AgentsIInv' /\ \A v \in Units : NotOlder(agents[v], agents'[v])
  BY <1>3, ConsumeBatchStep
<1>4. CASE ConsumeFull \/ ConsumeFast \/ ConsumeRecommendation \/ UNCHANGED vars
  BY <1>1, <1>4, OtherStep
<1>5. CASE Reset
  BY <1>5, ResetStep
<1>6. QED  BY <1>2, <1>3, <1>4, <1>5 DEF Next

\* The invariant holds throughout.
LEMMA AgentsInvariant == Spec => []AgentsIInv
<1>1. QED  BY InitAgents, AgentsStep, PTL DEF Spec

\* The frontend is only offered recommendations for units the backend knows, whatever
\* runs, resets and late messages there are.
THEOREM RecommendationsAreKnown == Spec => []RecommendedAreKnown
<1>1. AgentsIInv => RecommendedAreKnown
  BY DEF AgentsIInv
<1>2. QED  BY <1>1, AgentsInvariant, PTL

\* No message takes an agent back to where it was, through steps back, new runs and
\* publications that fail; only a reset starts anew.
THEOREM AgentsMoveOn == Spec => AgentsNeverGoBack
<1>1. AgentsIInv /\ [Next]_vars
        => [Reset \/ \A u \in Units : NotOlder(agents[u], agents'[u])]_vars
  BY AgentsStep
<1>2. QED  BY <1>1, AgentsInvariant, PTL DEF Spec, AgentsNeverGoBack
================================================================================
