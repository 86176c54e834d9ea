------------------------- MODULE SimulationView_proofs -------------------------
(***************************************************************************)
(* Proofs about what the browser shows of a simulation, for any units,     *)
(* places, sectors and levels and any number of messages.  SimulationView: *)
(* types, and that the recommendations shown are all of those in the last  *)
(* full state taken.  AgentPositions, the map over the same buffer: that   *)
(* trails are complete, and that every step is a step of PositionFeed or   *)
(* changes nothing there; that the map catches up (Catches) is left to the *)
(* model checker.                                                          *)
(***************************************************************************)
EXTENDS SimulationView, AgentPositions, SequenceTheorems, TLAPS

(***************************************************************************)
(* The stores                                                              *)
(***************************************************************************)

Store == [units : [Units -> [at : Places \cup {Null}, state : States]],
          levels : [Sectors -> Levels]]

\* The support service recommends one action for a unit.
OnePerUnit(actions) == \A a, b \in actions : a.unit = b.unit => a = b

(***************************************************************************)
(* A full state passes through two copies before it is taken: the one the  *)
(* timer builds, and the message.  What is taken names a unit once because *)
(* every copy does.                                                        *)
(***************************************************************************)
AdviceFits ==
    /\ OnePerUnit(advice) /\ OnePerUnit(accepted)
    /\ built # Null => OnePerUnit(built.advice)
    /\ \A i \in 1..Len(wire) : wire[i].kind = "state" => OnePerUnit(wire[i].body.advice)

IInv ==
    /\ TypeOK
    /\ wire \in Seq(Messages) /\ store \in Store
    /\ AdviceFits
    /\ recommendations = Recommended(accepted)

------------------------------------------------------------------------------
(* The operators *)

\* What is written to the buffer keeps it a buffer.
LEMMA WriteAllType ==
    ASSUME NEW f \in Partial(Units, Pos), NEW says \in Partial(Units, Reported)
    PROVE  WriteAll(f, says) \in Partial(Units, Pos)
<1>1. PICK R \in SUBSET Units : f \in [R -> Pos]
  BY DEF Partial
<1>2. PICK S \in SUBSET Units : says \in [S -> Reported]
  BY DEF Partial
<1>3. ASSUME NEW u \in Usable(says)
      PROVE  u \in S /\ says[u] \in Pos
  BY <1>2 DEF Usable, Reported, Pos
<1>4. DOMAIN f = R /\ Usable(says) \subseteq S
  BY <1>1, <1>3
<1>5. WriteAll(f, says) \in [R \cup Usable(says) -> Pos]
  BY <1>1, <1>3, <1>4 DEF WriteAll
<1>6. R \cup Usable(says) \in SUBSET Units
  BY <1>4
<1>7. QED  BY <1>5, <1>6 DEF Partial

\* Locations are locations, usable or not.
LEMMA PosIsReported ==
    ASSUME NEW says \in Partial(Units, Pos)
    PROVE  says \in Partial(Units, Reported)
<1>1. PICK S \in SUBSET Units : says \in [S -> Pos]
  BY DEF Partial
<1>2. Pos \subseteq Reported
  BY DEF Pos, Reported
<1>3. says \in [S -> Reported]
  BY <1>1, <1>2
<1>4. QED  BY <1>3 DEF Partial

\* The recommendations of a full state are sectors for units.
LEMMA RecommendedType ==
    ASSUME NEW actions \in SUBSET Actions
    PROVE  Recommended(actions) \in Partial(Units, Sectors)
<1> DEFINE named == {a.unit : a \in actions}
<1>1. named \in SUBSET Units
  BY DEF Actions
<1>2. ASSUME NEW u \in named
      PROVE  (CHOOSE a \in actions : a.unit = u).sector \in Sectors
  <2>1. \E a \in actions : a.unit = u
    OBVIOUS
  <2>2. (CHOOSE a \in actions : a.unit = u) \in actions
    BY <2>1
  <2>3. QED  BY <2>2 DEF Actions
<1>3. Recommended(actions) \in [named -> Sectors]
  BY <1>2 DEF Recommended
<1>4. QED  BY <1>1, <1>3 DEF Partial

\* With one action for a unit, the unit is recommended the sector of that action.
LEMMA RecommendedAll ==
    ASSUME NEW actions \in SUBSET Actions, OnePerUnit(actions)
    PROVE  /\ DOMAIN Recommended(actions) = {a.unit : a \in actions}
           /\ \A a \in actions : Recommended(actions)[a.unit] = a.sector
<1>1. DOMAIN Recommended(actions) = {a.unit : a \in actions}
  BY DEF Recommended
<1>2. ASSUME NEW a \in actions
      PROVE  Recommended(actions)[a.unit] = a.sector
  <2>1. PICK b : b = CHOOSE c \in actions : c.unit = a.unit
    OBVIOUS
  <2>2. b \in actions /\ b.unit = a.unit
    BY <2>1
  <2>3. b = a
    BY <2>2 DEF OnePerUnit
  <2>4. QED  BY <2>1, <2>3 DEF Recommended
<1>3. QED  BY <1>1, <1>2

\* An update makes a store of a store, wherever its locations come from.
LEMMA UpdateConfigurationType ==
    ASSUME NEW s \in Store, NEW u, NEW l,
           DOMAIN u \subseteq Units, DOMAIN l \subseteq Sectors,
           \A v \in DOMAIN u : u[v] \in [at : Places \cup {Null}, state : States],
           \A n \in DOMAIN l : l[n] \in Levels
    PROVE  UpdateConfiguration(s, [units |-> u, levels |-> l]) \in Store
BY DEF UpdateConfiguration, Store

\* A message is dropped, or joins those under way.
LEMMA EmitType ==
    ASSUME wire \in Seq(Messages), Len(wire) <= MaxWire, NEW m \in Messages, Emit(m)
    PROVE  /\ wire' \in Seq(Messages) /\ Len(wire') <= MaxWire
           /\ \A i \in 1..Len(wire') : wire'[i] = m \/ \E j \in 1..Len(wire) : wire'[i] = wire[j]
<1>1. CASE wire' = wire
  BY <1>1, LenProperties
<1>2. CASE Len(wire) < MaxWire /\ wire' = Append(wire, m)
  <2>1. /\ wire' \in Seq(Messages) /\ Len(wire') = Len(wire) + 1
        /\ \A i \in 1..Len(wire) : wire'[i] = wire[i]
        /\ wire'[Len(wire) + 1] = m
    BY <1>2, AppendProperties
  <2>2. Len(wire) \in Nat  BY LenProperties
  <2>3. QED  BY <1>2, <2>1, <2>2, ViewAssumption
<1>3. QED  BY <1>1, <1>2 DEF Emit

\* The message that arrives is the first, and the others stay.
LEMMA ReceiveType ==
    ASSUME wire \in Seq(Messages), Len(wire) <= MaxWire, NEW kind, Receive(kind)
    PROVE  /\ Head(wire) \in Messages /\ Head(wire).kind = kind /\ Head(wire) = wire[1]
           /\ 1 \in 1..Len(wire)
           /\ wire' \in Seq(Messages) /\ Len(wire') <= MaxWire
           /\ \A i \in 1..Len(wire') : \E j \in 1..Len(wire) : wire'[i] = wire[j]
<1>1. wire # <<>> /\ Head(wire).kind = kind /\ wire' = Tail(wire)
  BY DEF Receive
<1>2. Len(wire) \in Nat \ {0}
  BY <1>1, LenProperties, EmptySeq
<1>3. /\ Head(wire) \in Messages /\ Head(wire) = wire[1]
      /\ wire' \in Seq(Messages) /\ Len(wire') = Len(wire) - 1
      /\ \A i \in 1..Len(wire') : wire'[i] = wire[i + 1]
  BY <1>1, HeadTailProperties
<1>4. \A i \in 1..Len(wire') : i + 1 \in 1..Len(wire)
  BY <1>2, <1>3
<1>5. QED  BY <1>1, <1>2, <1>3, <1>4, ViewAssumption

------------------------------------------------------------------------------
(* The steps *)

\* A browser that has just been opened shows the configuration.
LEMMA InitInv == Init => IInv
<1> SUFFICES ASSUME Init PROVE IInv
  OBVIOUS
<1>1. wire = <<>> /\ wire \in Seq(Messages) /\ Len(wire) = 0
  BY EmptySeq DEF Init
<1>2. Base \in Places /\ Idle \in States
  BY ViewAssumption DEF Base, Idle
<1>3. /\ units \in [Units -> Reported] /\ levels \in [Sectors -> Levels]
      /\ store \in Store
  BY <1>2, ViewAssumption DEF Init, Reported, Store
<1>4. positions = <<>> /\ recommendations = <<>>
  BY DEF Init, BufferInit
<1>5. \A S, T : <<>> \in Partial(S, T)
  BY DEF Partial
<1>6. /\ advice = {} /\ accepted = {} /\ ordered = {} /\ built = Null /\ changes = 0
      /\ autoApply \in BOOLEAN /\ ready = Throttles
  BY DEF Init
<1>7. TypeOK
  BY <1>1, <1>3, <1>4, <1>5, <1>6, ViewAssumption DEF TypeOK, BufferTypeOK, Store
<1>8. AdviceFits
  BY <1>1, <1>6 DEF AdviceFits, OnePerUnit
<1>9. Recommended({}) = <<>>
  BY DEF Recommended
<1>10. QED  BY <1>1, <1>3, <1>4, <1>6, <1>7, <1>8, <1>9 DEF IInv

\* The simulation changes and tells of it; no full state is made.
LEMMA ReportStep ==
    ASSUME IInv, UnitsReport \/ SectorReport \/ Chat
    PROVE  IInv'
<1> USE DEF IInv, TypeOK
<1>1. PICK m \in Messages : m.kind # "state" /\ Emit(m)
  <2>1. CASE UnitsReport
    <3>1. PICK u \in Units, p \in Pos :
              Emit([kind |-> "positions", units |-> [v \in {u} |-> p]])
      <4> DEFINE told(u, at, s) ==
              [kind |-> "positions", units |-> [v \in {u} |-> [at |-> at, state |-> s]]]
      <4>1. PICK u \in Units, at \in Places, s \in States : Emit(told(u, at, s))
        <5>1. \E type \in {"fireBrigade", "foresterPatrol"} : \E u \in Units :
                /\ u[1] = type
                /\ \E at \in Places, s \in States :
                      /\ units' = [units EXCEPT ![u] = [at |-> at, state |-> s]]
                      /\ Emit(told(u, at, s))
          BY <2>1 DEF UnitsReport
        <5> HIDE DEF told
        <5>2. QED  BY <5>1
      <4>2. PICK p : p = [at |-> at, state |-> s]
        OBVIOUS
      <4>3. p \in Pos
        BY <4>2 DEF Pos
      <4>4. Emit([kind |-> "positions", units |-> [v \in {u} |-> p]])
        BY <4>1, <4>2
      <4>5. QED  BY <4>3, <4>4
    <3>2. [v \in {u} |-> p] \in [{u} -> Pos] /\ {u} \in SUBSET Units
      OBVIOUS
    <3>3. [v \in {u} |-> p] \in Partial(Units, Pos)
      BY <3>2 DEF Partial
    <3>4. QED  BY <3>1, <3>3 DEF Messages
  <2>2. CASE SectorReport
    BY <2>2 DEF SectorReport, Messages
  <2>3. CASE Chat
    BY <2>3 DEF Chat, Messages
  <2>4. QED  BY <2>1, <2>2, <2>3
<1>2. /\ wire' \in Seq(Messages) /\ Len(wire') <= MaxWire
      /\ \A i \in 1..Len(wire') : wire'[i] = m \/ \E j \in 1..Len(wire) : wire'[i] = wire[j]
  BY <1>1, EmitType
<1>3. units' \in [Units -> Reported] /\ levels' \in [Sectors -> Levels]
  <2>1. CASE UnitsReport
    <3>1. PICK u \in Units, at \in Places, s \in States :
              units' = [units EXCEPT ![u] = [at |-> at, state |-> s]]
      BY <2>1 DEF UnitsReport
    <3>2. [at |-> at, state |-> s] \in Reported
      BY DEF Reported
    <3>3. QED  BY <2>1, <3>1, <3>2 DEF UnitsReport
  <2>2. CASE SectorReport  BY <2>2 DEF SectorReport
  <2>3. CASE Chat  BY <2>3 DEF Chat
  <2>4. QED  BY <2>1, <2>2, <2>3
<1>4. changes' \in 0..MaxChanges
  BY ViewAssumption DEF UnitsReport, SectorReport, Chat, Change
<1>5. UNCHANGED <<positions, advice, built, ready, stores>>
  BY DEF UnitsReport, SectorReport, Chat
<1>6. TypeOK'
  BY <1>2, <1>3, <1>4, <1>5, LenProperties DEF BufferTypeOK, stores
<1>7. AdviceFits'
  BY <1>1, <1>2, <1>5 DEF AdviceFits, stores, OnePerUnit
<1>8. QED  BY <1>2, <1>5, <1>6, <1>7 DEF stores, Recommended

\* New advice names a unit once.
LEMMA RecommendStep ==
    ASSUME IInv, Recommend
    PROVE  IInv'
<1>1. advice' \in SUBSET Actions /\ OnePerUnit(advice')
  BY DEF Recommend, OnePerUnit
<1>2. changes' \in 0..MaxChanges
  BY ViewAssumption DEF Recommend, Change, IInv, TypeOK
<1>3. UNCHANGED <<positions, units, levels, built, wire, ready, stores>>
  BY DEF Recommend
<1>4. TypeOK'
  BY <1>1, <1>2, <1>3 DEF IInv, TypeOK, BufferTypeOK, stores
<1>5. AdviceFits'
  BY <1>1, <1>3 DEF IInv, AdviceFits, stores, OnePerUnit
<1>6. QED  BY <1>3, <1>4, <1>5 DEF IInv, stores, Recommended

\* The copy of the state is built, and sent, with the advice as it was.
LEMMA StateStep ==
    ASSUME IInv, BuildState \/ SendState
    PROVE  IInv'
<1>1. CASE BuildState
  <2>1. built' = [units |-> units, levels |-> levels, advice |-> advice]
    BY <1>1 DEF BuildState
  <2>2. built' \in FullState /\ OnePerUnit(built'.advice)
    BY <2>1 DEF IInv, TypeOK, FullState, AdviceFits
  <2>3. UNCHANGED <<positions, units, levels, advice, changes, wire, ready, stores>>
    BY <1>1 DEF BuildState
  <2>4. TypeOK'
    BY <2>2, <2>3 DEF IInv, TypeOK, BufferTypeOK, stores
  <2>5. AdviceFits'
    BY <2>2, <2>3 DEF IInv, AdviceFits, stores, OnePerUnit
  <2>6. QED  BY <2>3, <2>4, <2>5 DEF IInv, stores, Recommended
<1>2. CASE SendState
  <2> DEFINE m == [kind |-> "state", body |-> built]
  <2>1. built \in FullState /\ OnePerUnit(built.advice) /\ m \in Messages
    BY <1>2 DEF SendState, IInv, TypeOK, AdviceFits, Messages
  <2>2. m.kind = "state" /\ m.body = built
    OBVIOUS
  <2> HIDE DEF m
  <2>3. Emit(m) /\ built' = Null
    BY <1>2 DEF SendState, Emit, m
  <2>4. /\ wire' \in Seq(Messages) /\ Len(wire') <= MaxWire
        /\ \A i \in 1..Len(wire') :
              wire'[i] = m \/ \E j \in 1..Len(wire) : wire'[i] = wire[j]
    BY <2>1, <2>3, EmitType DEF IInv, TypeOK
  <2>5. UNCHANGED <<positions, units, levels, advice, changes, ready, stores>>
    BY <1>2 DEF SendState
  <2>6. TypeOK'
    BY <2>3, <2>4, <2>5, LenProperties DEF IInv, TypeOK, BufferTypeOK, stores
  <2>7. AdviceFits'
    BY <2>1, <2>2, <2>3, <2>4, <2>5 DEF IInv, AdviceFits, stores, OnePerUnit
  <2>8. QED  BY <2>4, <2>5, <2>6, <2>7 DEF IInv, stores, Recommended
<1>3. QED  BY <1>1, <1>2

\* A message that arrives leaves advice and the other messages as they are.
LEMMA ArrivalKeeps ==
    ASSUME IInv, NEW kind, Receive(kind), UNCHANGED backend
    PROVE  /\ wire' \in Seq(Messages)
           /\ Len(wire') <= MaxWire /\ \A i \in DOMAIN wire' : wire'[i] \in Messages
           /\ \A i \in 1..Len(wire') :
                 wire'[i].kind = "state" => OnePerUnit(wire'[i].body.advice)
           /\ UNCHANGED <<units, levels, advice, changes, built>>
<1>1. /\ wire' \in Seq(Messages) /\ Len(wire') <= MaxWire
      /\ \A i \in 1..Len(wire') : \E j \in 1..Len(wire) : wire'[i] = wire[j]
  BY ReceiveType DEF IInv, TypeOK
<1>2. \A i \in DOMAIN wire' : wire'[i] \in Messages
  BY <1>1, LenProperties
<1>3. QED  BY <1>1, <1>2 DEF IInv, AdviceFits, backend

\* Positions, a fast update and a chat event touch the buffer and the store only.
LEMMA SmallArrivalStep ==
    ASSUME IInv, ReceivePositions \/ ReceiveFast \/ ReceiveChat
    PROVE  IInv'
<1>1. /\ wire' \in Seq(Messages)
      /\ Len(wire') <= MaxWire /\ \A i \in DOMAIN wire' : wire'[i] \in Messages
      /\ \A i \in 1..Len(wire') :
            wire'[i].kind = "state" => OnePerUnit(wire'[i].body.advice)
      /\ UNCHANGED <<units, levels, advice, changes, built>>
  BY ArrivalKeeps DEF ReceivePositions, ReceiveFast, ReceiveChat
<1>2. UNCHANGED <<recommendations, autoApply, ordered, accepted>>
  BY DEF ReceivePositions, ReceiveFast, ReceiveChat, stores
<1>3. positions' \in Partial(Units, Pos)
  <2>1. CASE ReceivePositions
    <3>1. Head(wire) \in Messages /\ Head(wire).kind = "positions"
      BY <2>1, ReceiveType DEF ReceivePositions, IInv, TypeOK
    <3>2. Head(wire).units \in Partial(Units, Pos)
      BY <3>1 DEF Messages
    <3>3. QED
      BY <2>1, <3>2, WriteAllType, PosIsReported
      DEF ReceivePositions, ParseAndWriteRaw, IInv, TypeOK, BufferTypeOK
  <2>2. CASE ReceiveFast \/ ReceiveChat
    BY <2>2 DEF ReceiveFast, ReceiveChat, IInv, TypeOK, BufferTypeOK
  <2>3. QED  BY <2>1, <2>2
<1>4. ready' \in SUBSET Throttles
  BY DEF ReceivePositions, ReceiveFast, ReceiveChat, IInv, TypeOK
<1>5. store' \in Store
  <2>1. CASE ReceivePositions  BY <2>1 DEF ReceivePositions, stores, IInv
  <2>2. CASE ReceiveFast
    <3>1. Head(wire) \in Messages /\ Head(wire).kind = "fast"
      BY <2>2, ReceiveType DEF ReceiveFast, IInv, TypeOK
    <3>2. Head(wire).sector \in Sectors /\ Head(wire).level \in Levels
      BY <3>1 DEF Messages
    <3>3. PICK n \in Sectors, l \in Levels :
              store' = UpdateSectorStatesFast(store, n, l) \/ store' = store
      BY <2>2, <3>2 DEF ReceiveFast
    <3>4. QED  BY <3>3 DEF UpdateSectorStatesFast, Store, IInv
  <2>3. CASE ReceiveChat
    <3>1. UpdateConfiguration(store, [units |-> <<>>, levels |-> <<>>]) \in Store
      BY UpdateConfigurationType DEF IInv
    <3>2. QED  BY <2>3, <3>1 DEF ReceiveChat, IInv
  <2>4. QED  BY <2>1, <2>2, <2>3
<1>6. TypeOK'
  BY <1>1, <1>2, <1>3, <1>4, <1>5 DEF IInv, TypeOK, BufferTypeOK, Store
<1>7. AdviceFits'
  BY <1>1, <1>2 DEF IInv, AdviceFits, OnePerUnit
<1>8. QED  BY <1>1, <1>2, <1>5, <1>6, <1>7 DEF IInv, Recommended

\* A full state that is taken brings all its recommendations, for each unit one.
LEMMA StateArrivalStep ==
    ASSUME IInv, ReceiveState
    PROVE  IInv'
<1> DEFINE body == Head(wire).body
<1>1. /\ wire' \in Seq(Messages)
      /\ Len(wire') <= MaxWire /\ \A i \in DOMAIN wire' : wire'[i] \in Messages
      /\ \A i \in 1..Len(wire') :
            wire'[i].kind = "state" => OnePerUnit(wire'[i].body.advice)
      /\ UNCHANGED <<units, levels, advice, changes, built>>
  BY ArrivalKeeps DEF ReceiveState
<1>2. body \in FullState /\ OnePerUnit(body.advice)
  <2>1. /\ Head(wire) \in Messages /\ Head(wire).kind = "state"
        /\ Head(wire) = wire[1] /\ 1 \in 1..Len(wire)
    BY ReceiveType DEF ReceiveState, IInv, TypeOK
  <2>2. QED  BY <2>1 DEF Messages, IInv, AdviceFits
<1>3. body.advice \in SUBSET Actions /\ body.units \in [Units -> Reported]
      /\ body.levels \in [Sectors -> Levels]
  BY <1>2 DEF FullState
<1>4. CASE Passes("rec")
  <2>1. /\ ready' = ready \ {"rec", "agents"}
        /\ positions' = WriteAll(positions, body.units)
        /\ store' = UpdateConfiguration(store, ConfigurationUpdate(body))
        /\ recommendations' = Recommended(body.advice)
        /\ accepted' = body.advice
        /\ ordered' = (IF autoApply THEN AutoApplied(body.advice) ELSE {})
        /\ autoApply' = autoApply
    BY <1>4 DEF ReceiveState, WriteBatch
  <2>2. positions' \in Partial(Units, Pos)
    <3>1. body.units \in Partial(Units, Reported)
      BY <1>3 DEF Partial
    <3>2. QED  BY <2>1, <3>1, WriteAllType DEF IInv, TypeOK, BufferTypeOK
  <2>3. store' \in Store
    <3>1. ASSUME NEW u \in Units
          PROVE  UpdatedUnits(body)[u] \in [at : Places \cup {Null}, state : States]
      <4>1. body.units[u].state \in States
        BY <1>3 DEF Reported
      <4>2. u \in DOMAIN positions' => positions'[u].at \in Places
        BY <2>2 DEF Partial, Pos
      <4>3. QED  BY <4>1, <4>2 DEF UpdatedUnits
    <3>2. DOMAIN UpdatedUnits(body) = Units
      BY DEF UpdatedUnits
    <3>3. UpdateConfiguration(store, [units |-> UpdatedUnits(body), levels |-> body.levels])
              \in Store
      BY <1>3, <3>1, <3>2, UpdateConfigurationType DEF IInv
    <3>4. QED  BY <2>1, <3>3 DEF ConfigurationUpdate
  <2>4. /\ recommendations' \in Partial(Units, Sectors)
        /\ recommendations' = Recommended(accepted')
    BY <1>3, <2>1, RecommendedType
  <2>5. accepted' \in SUBSET Actions /\ ordered' \in SUBSET Actions /\ OnePerUnit(accepted')
    BY <1>2, <1>3, <2>1 DEF AutoApplied
  <2>6. TypeOK'
    BY <1>1, <2>1, <2>2, <2>3, <2>4, <2>5 DEF IInv, TypeOK, BufferTypeOK, Store
  <2>7. AdviceFits'
    BY <1>1, <2>5 DEF IInv, AdviceFits, OnePerUnit
  <2>8. QED  BY <1>1, <2>3, <2>4, <2>6, <2>7 DEF IInv
<1>5. CASE ~Passes("rec")
  <2>1. UNCHANGED <<ready, positions, store, recommendations, accepted, ordered, autoApply>>
    BY <1>5 DEF ReceiveState
  <2>2. TypeOK'
    BY <1>1, <2>1 DEF IInv, TypeOK, BufferTypeOK
  <2>3. AdviceFits'
    BY <1>1, <2>1 DEF IInv, AdviceFits, OnePerUnit
  <2>4. QED  BY <1>1, <2>1, <2>2, <2>3 DEF IInv, Recommended
<1>6. QED  BY <1>4, <1>5

\* Every step keeps the inductive invariant.
LEMMA NextInv ==
    ASSUME IInv, [Next]_vars
    PROVE  IInv'
<1>1. ASSUME UNCHANGED <<positions, backend, wire, store, recommendations, ordered, accepted>>,
             ready' \in SUBSET Throttles, autoApply' \in BOOLEAN
      PROVE  IInv'
  <2>1. TypeOK'
    BY <1>1 DEF IInv, TypeOK, BufferTypeOK, backend
  <2>2. AdviceFits'
    BY <1>1 DEF IInv, AdviceFits, backend, OnePerUnit
  <2>3. QED  BY <1>1, <2>1, <2>2 DEF IInv, Recommended
<1>2. ASSUME NEW t \in Throttles, Elapse(t)
      PROVE  IInv'
  BY <1>1, <1>2 DEF Elapse, stores, IInv, TypeOK
<1>3. CASE SetAutoApply
  BY <1>1, <1>3 DEF SetAutoApply, IInv, TypeOK
<1>4. CASE UNCHANGED vars
  BY <1>1, <1>4 DEF vars, stores, IInv, TypeOK
<1>5. QED
  BY <1>2, <1>3, <1>4, ReportStep, RecommendStep, StateStep, SmallArrivalStep, StateArrivalStep
  DEF Next

\* Whatever is received, dropped or throttled, the stores and the stream are well
\* typed and the recommendations are those of the last full state taken.
LEMMA Invariant == Spec => []IInv
<1>1. IInv /\ [Next]_vars => IInv'
  BY NextInv
<1>2. QED  BY InitInv, <1>1, PTL DEF Spec

\* The stores and the messages have the types they should have.
THEOREM TypeCorrect == Spec => []TypeOK
<1>1. IInv => TypeOK
  BY DEF IInv
<1>2. QED  BY Invariant, <1>1, PTL

\* The browser shows every recommendation of the last full state it took, for
\* any units, a brigade and a patrol of the same number too.
THEOREM RecommendationsAreComplete == Spec => []RecommendationsComplete
<1>1. ASSUME IInv
      PROVE  RecommendationsComplete
  BY <1>1, RecommendedAll DEF IInv, TypeOK, AdviceFits, RecommendationsComplete
<1>2. QED  BY Invariant, <1>1, PTL

(***************************************************************************)
(* The map                                                                 *)
(***************************************************************************)

(***************************************************************************)
(* The buffer holds places of units; a marker belongs to a unit of the     *)
(* buffer and is drawn on an open map only; what was last projected is the *)
(* end of the trail, in a view there has been; where nothing was, the      *)
(* trail's only place is where the marker was sent.                        *)
(***************************************************************************)
PositionsOK ==
    /\ DOMAIN positions \subseteq Units
    /\ positions \in [DOMAIN positions -> Pos]

MarkersOK ==
    /\ DOMAIN markers \subseteq DOMAIN positions
    /\ markers \in [DOMAIN markers -> Marker]
    /\ map # "open" => markers = <<>>
    /\ view \in 0..MaxViews

TrailEnds ==
    \A u \in DOMAIN markers :
        LET m == markers[u]
        IN  IF m.lastProj = Undefined THEN trails[u] = m.target
            ELSE /\ m.lastProj.at = trails[u] /\ m.lastProj.view <= view
                 /\ m.lastProj.view = view => Close(Project(m.target), m.lastProj)

MapIInv == PositionsOK /\ MarkersOK /\ TrailEnds

Targets == [u \in DOMAIN markers |-> markers[u].target]
Shown == [u \in DOMAIN markers |-> markers[u].shown]
Ats == [u \in DOMAIN positions |-> positions[u].at]

\* A projected place is a number of pixels.
LEMMA PixelsAreNumbers ==
    ASSUME NEW at \in Places, NEW v \in Nat
    PROVE  Pixel([at |-> at, view |-> v]) \in Nat
<1>1. at \in Nat
  BY BufferAssumption
<1>2. Scale(v) \in Nat
  BY DEF Scale
<1>3. QED  BY <1>1, <1>2 DEF Pixel

------------------------------------------------------------------------------
(* The buffer *)

\* Writing reports keeps every unit that was there, adds none but reported ones, and
\* leaves the units that were not reported as they were.
LEMMA WriteAllKeeps ==
    ASSUME NEW f, NEW R \in SUBSET Units, NEW says \in [R -> Reported],
           DOMAIN f \subseteq Units, f \in [DOMAIN f -> Pos]
    PROVE  LET g == WriteAll(f, says)
           IN  /\ DOMAIN f \subseteq DOMAIN g /\ DOMAIN g \subseteq DOMAIN f \cup R
               /\ g \in [DOMAIN g -> Pos]
               /\ \A u \in DOMAIN g \ R : g[u] = f[u]
<1>1. Usable(says) \subseteq R
  BY DEF Usable
<1>2. \A u \in Usable(says) : says[u] \in Pos
  BY <1>1 DEF Usable, Reported, Pos
<1>3. QED  BY <1>1, <1>2 DEF WriteAll

\* A message is a report of the feed and leaves the map alone.
LEMMA MapReportStep ==
    ASSUME MapIInv, Report
    PROVE  MapIInv' /\ Feed!Report
<1>1. UNCHANGED <<looping, map, markers, trails, view, toggles, history>>
  BY DEF Report
<1>2. PICK R \in SUBSET Units :
          /\ \E says \in [R -> Reported] : positions' = WriteAll(positions, says)
          /\ \/ R = Units
             \/ \E u \in Units : R \subseteq {v \in Units : v[1] = u[1]}
  <2>1. CASE \E type \in {"fireBrigade", "foresterPatrol"} :
                \E moved \in (SUBSET UnitsOfType(type)) \ {{}} :
                   \E says \in [moved -> Pos] : ParseAndWriteRaw(says)
    <3>1. PICK type \in {"fireBrigade", "foresterPatrol"} :
              \E moved \in (SUBSET UnitsOfType(type)) \ {{}} :
                 \E says \in [moved -> Pos] : ParseAndWriteRaw(says)
      BY <2>1
    <3>2. PICK moved \in SUBSET UnitsOfType(type) :
              moved # {} /\ \E says \in [moved -> Pos] : ParseAndWriteRaw(says)
      BY <3>1
    <3>3. PICK says \in [moved -> Pos] : ParseAndWriteRaw(says)
      BY <3>2
    <3>4. PICK u \in moved : TRUE
      BY <3>2
    <3>5. moved \subseteq {v \in Units : v[1] = u[1]} /\ u \in Units /\ moved \in SUBSET Units
      BY <3>2, <3>4 DEF UnitsOfType
    <3>6. says \in [moved -> Reported]
      BY <3>3 DEF Pos, Reported
    <3>7. QED  BY <3>3, <3>5, <3>6 DEF ParseAndWriteRaw
  <2>2. CASE \E says \in [Units -> Reported] : WriteBatch(says)
    BY <2>2 DEF WriteBatch
  <2>3. QED  BY <2>1, <2>2 DEF Report
<1>3. /\ DOMAIN positions \subseteq DOMAIN positions'
      /\ DOMAIN positions' \subseteq DOMAIN positions \cup R
      /\ positions' \in [DOMAIN positions' -> Pos]
      /\ \A u \in DOMAIN positions' \ R : positions'[u] = positions[u]
  BY <1>2, WriteAllKeeps DEF MapIInv, PositionsOK
<1>4. PositionsOK'
  BY <1>2, <1>3 DEF MapIInv, PositionsOK
<1>5. MarkersOK' /\ TrailEnds'
  BY <1>1, <1>3 DEF MapIInv, MarkersOK, TrailEnds, Close, Pixel, Project
<1>6. /\ DOMAIN Ats = DOMAIN positions /\ DOMAIN Ats' = DOMAIN positions'
      /\ \A u \in DOMAIN positions : Ats[u] = positions[u].at
      /\ \A u \in DOMAIN positions' : Ats'[u] = positions'[u].at /\ Ats'[u] \in Places
  BY <1>3 DEF Ats, Pos
<1>7. ASSUME NEW scope \in Feed!Scopes, R \subseteq scope
      PROVE  /\ DOMAIN Ats \subseteq DOMAIN Ats' /\ DOMAIN Ats' \subseteq DOMAIN Ats \cup scope
             /\ \A v \in DOMAIN Ats' :
                   IF v \in scope THEN Ats'[v] \in Places ELSE Ats'[v] = Ats[v]
  BY <1>3, <1>6, <1>7
<1>8. \E scope \in Feed!Scopes : R \subseteq scope
  BY <1>2 DEF Feed!Scopes
<1>9. UNCHANGED <<Targets, Shown, map>>
  BY <1>1 DEF Targets, Shown
<1>10. QED  BY <1>4, <1>5, <1>7, <1>8, <1>9 DEF MapIInv, Feed!Report, Ats, Targets, Shown

------------------------------------------------------------------------------
(* The map *)

\* A frame hands the whole buffer to the markers of an open map.
LEMMA FrameStep ==
    ASSUME MapIInv, Frame
    PROVE  MapIInv' /\ (Feed!Draw \/ UNCHANGED Feed!vars)
<1>1. UNCHANGED <<positions, looping, reports, map, view>>
  BY DEF Frame, buffer
<1>2. CASE map = "open"
  <2>1. markers' = DrawMarkers /\ trails' = RecordTrails
    BY <1>2 DEF Frame
  <2>2. ASSUME NEW u \in DOMAIN positions
        PROVE  /\ markers'[u] \in Marker /\ positions[u].at \in Places
               /\ markers'[u].target = positions[u].at
               /\ markers'[u].lastProj =
                    IF u \in DOMAIN markers THEN LastProj(markers[u], positions[u].at)
                    ELSE Undefined
               /\ \/ markers'[u].shown = positions[u].at
                  \/ u \in DOMAIN markers /\ markers'[u].shown = markers[u].shown
    <3>1. positions[u] \in Pos
      BY DEF MapIInv, PositionsOK
    <3>2. CASE u \in DOMAIN markers
      <4>1. markers[u] \in Marker
        BY <3>2 DEF MapIInv, MarkersOK
      <4>2. markers'[u] = UpdateMarker(markers[u], positions[u])
        BY <2>1, <3>2 DEF DrawMarkers
      <4>3. LastProj(markers[u], positions[u].at) \in Projections \cup {Undefined}
        BY <3>1, <4>1 DEF LastProj, Project, Projections, Marker, Pos, MapIInv, MarkersOK
      <4>4. QED  BY <3>1, <3>2, <4>1, <4>2, <4>3 DEF UpdateMarker, Marker, Pos
    <3>3. CASE u \notin DOMAIN markers
      BY <2>1, <3>1, <3>3 DEF DrawMarkers, CreateMarker, Marker, Pos
    <3>4. QED  BY <3>2, <3>3
  <2>3. DOMAIN markers' = DOMAIN positions
    BY <2>1 DEF DrawMarkers
  <2>4. markers' \in [DOMAIN markers' -> Marker]
    BY <2>1, <2>2, <2>3 DEF DrawMarkers
  <2>5. PositionsOK' /\ MarkersOK'
    BY <1>1, <1>2, <2>3, <2>4 DEF MapIInv, PositionsOK, MarkersOK
  <2>6. TrailEnds'
    <3>1. ASSUME NEW u \in DOMAIN positions
          PROVE  LET m == markers'[u]
                 IN  IF m.lastProj = Undefined THEN trails'[u] = m.target
                     ELSE /\ m.lastProj.at = trails'[u] /\ m.lastProj.view <= view
                          /\ m.lastProj.view = view => Close(Project(m.target), m.lastProj)
      <4>1. /\ markers'[u].target = positions[u].at /\ positions[u].at \in Places
            /\ Project(positions[u].at) # Undefined /\ view \in Nat
        BY <2>2, MapAssumption DEF Project, MapIInv, MarkersOK
      <4>2. CASE u \notin DOMAIN markers
        BY <2>1, <2>2, <4>1, <4>2 DEF RecordTrails
      <4>3. CASE u \in DOMAIN markers /\ IsRecorded(markers[u], positions[u].at)
        <5>1. markers'[u].lastProj = Project(positions[u].at) /\ trails'[u] = positions[u].at
          BY <2>1, <2>2, <4>3 DEF RecordTrails, LastProj
        <5>2. Close(Project(positions[u].at), Project(positions[u].at))
          BY <4>1, PixelsAreNumbers, MapAssumption DEF Close, Project
        <5>3. Project(positions[u].at).at = positions[u].at /\ Project(positions[u].at).view = view
          BY DEF Project
        <5>4. QED  BY <4>1, <5>1, <5>2, <5>3
      <4>4. CASE u \in DOMAIN markers /\ ~IsRecorded(markers[u], positions[u].at)
        <5>1. markers'[u].lastProj = markers[u].lastProj /\ trails'[u] = trails[u]
          BY <2>1, <2>2, <4>4 DEF RecordTrails, LastProj
        <5>2. /\ markers[u].lastProj # Undefined
              /\ Close(Project(positions[u].at), markers[u].lastProj)
          BY <4>4 DEF IsRecorded
        <5>3. markers[u].lastProj.at = trails[u] /\ markers[u].lastProj.view <= view
          BY <4>4, <5>2 DEF MapIInv, TrailEnds
        <5>4. QED  BY <4>1, <5>1, <5>2, <5>3
      <4>5. QED  BY <4>2, <4>3, <4>4
    <3>2. QED  BY <1>1, <2>3, <3>1 DEF TrailEnds, Close, Project, Pixel
  <2>7. Feed!Follows(Targets, Targets', Ats)
    BY <2>2, <2>3 DEF Feed!Follows, Targets, Ats, MapIInv, MarkersOK
  <2>8. Feed!Follows(Shown, Shown', Targets')
    BY <2>2, <2>3 DEF Feed!Follows, Targets, Shown, MapIInv, MarkersOK
  <2>9. UNCHANGED Ats
    BY <1>1 DEF Ats
  <2>10. QED
    BY <1>1, <1>2, <2>5, <2>6, <2>7, <2>8, <2>9 DEF MapIInv, Feed!Draw, Targets, Shown, Ats
<1>3. CASE map # "open"
  <2>1. UNCHANGED <<markers, trails>>
    BY <1>3 DEF Frame
  <2>2. TrailEnds'
    BY <1>1, <2>1 DEF MapIInv, TrailEnds, Close, Project, Pixel
  <2>3. QED
    BY <1>1, <2>1, <2>2 DEF MapIInv, PositionsOK, MarkersOK, Feed!vars
<1>4. QED  BY <1>2, <1>3

\* The markers of an open map reach the places they were sent to.
LEMMA AnimateStep ==
    ASSUME MapIInv, Animate
    PROVE  MapIInv' /\ Feed!Draw
<1>1. /\ UNCHANGED <<positions, map, trails, view>>
      /\ markers' = [u \in DOMAIN markers |-> [markers[u] EXCEPT !.shown = markers[u].target]]
  BY DEF Animate, buffer
<1>2. map = "open"
  <2>1. markers # <<>>
    BY DEF Animate
  <2>2. QED  BY <2>1 DEF MapIInv, MarkersOK
<1>3. ASSUME NEW u \in DOMAIN markers
      PROVE  /\ markers'[u] \in Marker
             /\ markers'[u].target = markers[u].target
             /\ markers'[u].shown = markers[u].target
             /\ markers'[u].lastProj = markers[u].lastProj
  <2>1. markers[u] \in Marker
    BY DEF MapIInv, MarkersOK
  <2>2. QED  BY <1>1, <2>1 DEF Marker
<1>4. DOMAIN markers' = DOMAIN markers
  BY <1>1
<1>5. MapIInv'
  <2>1. markers' \in [DOMAIN markers' -> Marker]
    BY <1>1, <1>3, <1>4
  <2>2. PositionsOK' /\ MarkersOK'
    BY <1>1, <1>2, <1>4, <2>1 DEF MapIInv, PositionsOK, MarkersOK
  <2>3. TrailEnds'
    BY <1>1, <1>3, <1>4 DEF MapIInv, TrailEnds, Close, Project, Pixel
  <2>4. QED  BY <2>2, <2>3 DEF MapIInv
<1>6. Feed!Follows(Targets, Targets', Ats)
  BY <1>3, <1>4 DEF Feed!Follows, Targets, Ats, MapIInv, MarkersOK
<1>7. Feed!Follows(Shown, Shown', Targets')
  BY <1>3, <1>4 DEF Feed!Follows, Targets, Shown
<1>8. UNCHANGED Ats
  BY <1>1 DEF Ats
<1>9. QED  BY <1>1, <1>2, <1>5, <1>6, <1>7, <1>8 DEF Feed!Draw, Targets, Shown, Ats

\* Zooming touches no marker; what was projected before it is of an older view.
LEMMA ZoomStep ==
    ASSUME MapIInv, Zoom
    PROVE  MapIInv' /\ UNCHANGED Feed!vars
<1>1. /\ UNCHANGED <<positions, map, markers, trails>>
      /\ view \in 0..MaxViews /\ view < MaxViews /\ view' = view + 1
  BY DEF Zoom, buffer, MapIInv, MarkersOK
<1>2. PositionsOK' /\ MarkersOK'
  BY <1>1, MapAssumption DEF MapIInv, PositionsOK, MarkersOK
<1>3. TrailEnds'
  <2>1. ASSUME NEW u \in DOMAIN markers, markers[u].lastProj # Undefined
        PROVE  /\ markers[u].lastProj.at = trails[u]
               /\ markers[u].lastProj.view \in Nat /\ markers[u].lastProj.view <= view
    <3>1. markers[u].lastProj \in Projections
      BY <2>1 DEF MapIInv, MarkersOK, Marker
    <3>2. QED  BY <2>1, <3>1 DEF MapIInv, TrailEnds, Projections
  <2>2. ASSUME NEW u \in DOMAIN markers, markers[u].lastProj = Undefined
        PROVE  trails[u] = markers[u].target
    BY <2>2 DEF MapIInv, TrailEnds
  <2>3. QED  BY <1>1, <2>1, <2>2 DEF TrailEnds
<1>4. QED  BY <1>1, <1>2, <1>3 DEF MapIInv, Feed!vars

\* That a marker may change its state again shows nowhere.
LEMMA SettleStep ==
    ASSUME MapIInv, NEW u \in Units, Settle(u)
    PROVE  MapIInv' /\ UNCHANGED Feed!vars
<1>1. /\ UNCHANGED <<positions, map, trails, view>>
      /\ u \in DOMAIN markers /\ markers' = [markers EXCEPT ![u].settled = TRUE]
  BY DEF Settle, buffer
<1>2. DOMAIN markers' = DOMAIN markers
  BY <1>1
<1>3. ASSUME NEW v \in DOMAIN markers
      PROVE  /\ markers'[v] \in Marker
             /\ markers'[v].target = markers[v].target /\ markers'[v].shown = markers[v].shown
             /\ markers'[v].lastProj = markers[v].lastProj
  <2>1. markers[v] \in Marker
    BY DEF MapIInv, MarkersOK
  <2>2. QED  BY <1>1, <2>1 DEF Marker
<1>4. markers' \in [DOMAIN markers' -> Marker]
  BY <1>1, <1>2, <1>3
<1>5. map = "open"
  <2>1. markers # <<>>
    BY <1>1
  <2>2. QED  BY <2>1 DEF MapIInv, MarkersOK
<1>6. PositionsOK' /\ MarkersOK' /\ TrailEnds'
  BY <1>1, <1>2, <1>3, <1>4, <1>5
  DEF MapIInv, PositionsOK, MarkersOK, TrailEnds, Close, Project, Pixel
<1>7. UNCHANGED <<Targets, Shown, Ats>>
  BY <1>1, <1>2, <1>3 DEF Targets, Shown, Ats
<1>8. QED  BY <1>1, <1>6, <1>7 DEF MapIInv, Feed!vars, Targets, Shown, Ats

------------------------------------------------------------------------------
(* The page *)

\* Without markers there is nothing taken in and nothing drawn.
LEMMA NothingDrawn ==
    ASSUME markers = <<>>
    PROVE  Targets = <<>> /\ Shown = <<>>
BY DEF Targets, Shown

\* Entering the page and switching the history on and off leave the feed alone.
LEMMA PageStep ==
    ASSUME MapIInv, EnterPage \/ ToggleHistory \/ UNCHANGED mapVars
    PROVE  MapIInv' /\ UNCHANGED Feed!vars
<1>1. /\ UNCHANGED <<positions, markers, trails, view>>
      /\ map' = "open" <=> map = "open"
  BY DEF EnterPage, ToggleHistory, mapVars, buffer
<1>2. QED
  BY <1>1
  DEF MapIInv, PositionsOK, MarkersOK, TrailEnds, Close, Project, Pixel, Feed!vars

\* The map opens without markers.
LEMMA OpenStep ==
    ASSUME MapIInv, OpenMap
    PROVE  MapIInv' /\ Feed!Show
<1>1. UNCHANGED <<positions, markers, trails, view>> /\ map = "loading" /\ map' = "open"
  BY DEF OpenMap
<1>2. QED
  BY <1>1
  DEF MapIInv, PositionsOK, MarkersOK, TrailEnds, Close, Project, Pixel, Feed!Show

\* Its markers go with it.
LEMMA LeaveStep ==
    ASSUME MapIInv, LeavePage
    PROVE  MapIInv' /\ (Feed!Hide \/ UNCHANGED Feed!vars)
<1>1. UNCHANGED <<positions, view>> /\ map' = "closed" /\ markers' = <<>>
  BY DEF LeavePage, buffer
<1>2. DOMAIN markers' = {} /\ markers' \in [{} -> Marker]
  BY <1>1
<1>3. MapIInv'
  BY <1>1, <1>2 DEF MapIInv, PositionsOK, MarkersOK, TrailEnds
<1>4. Targets' = <<>> /\ Shown' = <<>>
  BY <1>1 DEF Targets, Shown
<1>5. CASE map = "open"
  BY <1>1, <1>3, <1>4, <1>5 DEF Feed!Hide, Targets, Shown
<1>6. CASE map # "open"
  <2>1. Targets = <<>> /\ Shown = <<>>
    BY <1>6, NothingDrawn DEF MapIInv, MarkersOK
  <2>2. QED  BY <1>1, <1>3, <1>4, <1>6, <2>1 DEF Feed!vars, Targets, Shown
<1>7. QED  BY <1>5, <1>6

------------------------------------------------------------------------------
(* The theorems *)

\* Nothing is reported and nothing is there at first.
LEMMA MapInitStep == MapInit => MapIInv /\ Feed!Init
<1> SUFFICES ASSUME MapInit PROVE MapIInv /\ Feed!Init
  OBVIOUS
<1>1. positions = <<>> /\ markers = <<>> /\ map = "closed" /\ view = 0
  BY DEF MapInit, BufferInit
<1>2. DOMAIN positions = {} /\ DOMAIN markers = {}
  BY <1>1
<1>3. MapIInv
  BY <1>1, <1>2, MapAssumption DEF MapIInv, PositionsOK, MarkersOK, TrailEnds
<1>4. Ats = <<>> /\ Targets = <<>> /\ Shown = <<>>
  BY <1>1 DEF Ats, Targets, Shown
<1>5. QED  BY <1>1, <1>3, <1>4 DEF Feed!Init, Ats, Targets, Shown

\* Every step keeps the invariant and is a step of the feed.
LEMMA MapNextStep ==
    ASSUME MapIInv, [MapNext]_mapVars
    PROVE  MapIInv' /\ [Feed!Next]_(Feed!vars)
<1>1. CASE Report
  BY <1>1, MapReportStep DEF Feed!Next
<1>2. CASE Frame
  BY <1>2, FrameStep DEF Feed!Next
<1>3. CASE Animate
  BY <1>3, AnimateStep DEF Feed!Next
<1>4. CASE \E u \in Units : Settle(u)
  BY <1>4, SettleStep
<1>5. CASE EnterPage \/ ToggleHistory \/ UNCHANGED mapVars
  BY <1>5, PageStep
<1>6. CASE OpenMap
  BY <1>6, OpenStep DEF Feed!Next
<1>7. CASE LeavePage
  BY <1>7, LeaveStep DEF Feed!Next
<1>8. CASE Zoom
  BY <1>8, ZoomStep
<1>9. QED  BY <1>1, <1>2, <1>3, <1>4, <1>5, <1>6, <1>7, <1>8 DEF MapNext

\* A marker's trail ends within a pixel of the place it was last sent to, whatever
\* pages, switches, reports and changes of zoom there are.
THEOREM TrailsAreComplete == MapSpec => []TrailsComplete
<1>1. ASSUME MapIInv
      PROVE  TrailsComplete
  <2>1. SUFFICES ASSUME NEW u \in DOMAIN markers,
                        markers[u].lastProj = Undefined \/ markers[u].lastProj.view = view
                 PROVE  Close(Project(markers[u].target), Project(trails[u]))
    BY DEF TrailsComplete
  <2>2. markers[u] \in Marker /\ view \in 0..MaxViews
    BY <1>1 DEF MapIInv, MarkersOK
  <2>3. CASE markers[u].lastProj = Undefined
    <3>1. trails[u] = markers[u].target /\ markers[u].target \in Places
      BY <1>1, <2>2, <2>3 DEF MapIInv, TrailEnds, Marker
    <3>2. QED
      BY <2>2, <3>1, PixelsAreNumbers, MapAssumption DEF Close, Project
  <2>4. CASE markers[u].lastProj # Undefined
    <3>1. /\ markers[u].lastProj.at = trails[u] /\ markers[u].lastProj.view = view
          /\ Close(Project(markers[u].target), markers[u].lastProj)
      BY <1>1, <2>1, <2>4 DEF MapIInv, TrailEnds
    <3>2. Pixel(Project(trails[u])) = Pixel(markers[u].lastProj)
      BY <3>1 DEF Pixel, Project
    <3>3. QED  BY <3>1, <3>2 DEF Close
  <2>5. QED  BY <2>3, <2>4
<1>2. MapIInv /\ [MapNext]_mapVars => MapIInv'
  BY MapNextStep
<1>3. QED  BY MapInitStep, <1>1, <1>2, PTL DEF MapSpec

\* The map implements the safety part of the position feed: it loses no unit, draws
\* reported places only, and never an older one after a newer.
THEOREM MapImplementsFeed == MapSpec => Feed!Safe
<1>1. MapIInv /\ [MapNext]_mapVars => MapIInv' /\ [Feed!Next]_(Feed!vars)
  BY MapNextStep
<1>2. QED  BY MapInitStep, <1>1, PTL DEF MapSpec, Feed!Safe
================================================================================
