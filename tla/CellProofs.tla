------------------------------ MODULE CellProofs ------------------------------
(***************************************************************************)
(* Proofs about five parts of a cell around its supervisor: the readiness  *)
(* loop, for every set of devices and queue depth; the behaviour tree that *)
(* the supervisor ticks, for every sequence of leaves and number of        *)
(* attempts; the operator API, for every set of requests; the headless     *)
(* executors, for every scenario and tree; and the simulated cell, for     *)
(* every script and tree.                                                  *)
(***************************************************************************)
EXTENDS CellReadiness, PenTree, OperatorApi, HeadlessCell, IsaacL2, SequenceTheorems,
        TLAPS

-----------------------------------------------------------------------------
\* The readiness loop.

\* A KEEP_LAST queue holds values of its type and never more than its depth.
LEMMA SendBounded ==
    ASSUME NEW S, NEW queue \in Seq(S), Len(queue) <= Depth, NEW m \in S
    PROVE  Send(queue, m) \in Seq(S) /\ Len(Send(queue, m)) <= Depth
<1>1. CASE Len(queue) < Depth
  BY <1>1, DepthAssumption DEF Send
<1>2. CASE ~(Len(queue) < Depth)
  <2>1. Len(queue) = Depth /\ queue # <<>>
    BY <1>2, DepthAssumption
  <2>2. Tail(queue) \in Seq(S) /\ Len(Tail(queue)) = Len(queue) - 1
    BY <2>1
  <2> QED BY <1>2, <2>1, <2>2, DepthAssumption DEF Send
<1> QED BY <1>1, <1>2

\* What arrives is what was on the queue, and the queue gets shorter.
LEMMA Delivered ==
    ASSUME NEW S, NEW queue \in Seq(S), Len(queue) <= Depth, queue # <<>>
    PROVE  /\ Head(queue) \in S
           /\ Tail(queue) \in Seq(S)
           /\ Len(Tail(queue)) <= Depth
BY DepthAssumption

LEMMA CellStateTyped ==
    ASSUME TypeOK
    PROVE  CellState \in CellStates
BY DEF TypeOK, CellState, DeviceCellState, CellStates, SupervisorStates, ExecutionStates

LEMMA InitTyped == Init => TypeOK
<1> SUFFICES ASSUME Init PROVE TypeOK
  OBVIOUS
<1>1. /\ <<>> \in Seq(Message) /\ Len(<<>>) = 0
      /\ <<>> \in Seq(SupervisorStates)
      /\ <<"IDLE">> \in Seq(SupervisorStates) /\ Len(<<"IDLE">>) = 1
  BY DEF SupervisorStates
<1>2. report = [d \in Devices |-> "offline"] /\ fresh = [d \in Devices |-> TRUE]
  BY DEF Init
<1>3. report \in [Devices -> Reports] /\ fresh \in [Devices -> BOOLEAN]
  BY <1>2 DEF Reports
<1>4. toSupervisor \in Seq(Message) /\ Len(toSupervisor) <= Depth
  BY <1>1, DepthAssumption DEF Init
<1>5. toAggregator \in Seq(SupervisorStates) /\ Len(toAggregator) <= Depth
  <2>1. toAggregator = <<>> \/ toAggregator = <<"IDLE">>
    BY DEF Init
  <2>2. CASE toAggregator = <<>>
    BY <1>1, <2>2, DepthAssumption
  <2>3. CASE toAggregator = <<"IDLE">>
    BY <1>1, <2>3, DepthAssumption
  <2> QED BY <2>1, <2>2, <2>3
<1> QED BY <1>3, <1>4, <1>5 DEF Init, TypeOK, SupervisorStates

LEMMA NextTyped == TypeOK /\ [Next]_vars => TypeOK'
<1> SUFFICES ASSUME TypeOK, [Next]_vars PROVE TypeOK'
  OBVIOUS
<1>1. CASE \E d \in Devices : OnDeviceState(d) \/ GoStale(d)
  BY <1>1 DEF OnDeviceState, GoStale, TypeOK, supervisor
<1>2. CASE OnSafetyState \/ SafetyGoesStale
  BY <1>2 DEF OnSafetyState, SafetyGoesStale, TypeOK, supervisor
<1>3. CASE PublishCellState
  <2>1. [state |-> CellState, safety |-> EffectiveHealthy, devices |-> AllRequiredReady]
            \in Message
    <3>1. EffectiveHealthy \in BOOLEAN /\ AllRequiredReady \in BOOLEAN
      BY DEF EffectiveHealthy, AllRequiredReady, TypeOK
    <3> QED BY <3>1, CellStateTyped DEF Message
  <2>2. toSupervisor' \in Seq(Message) /\ Len(toSupervisor') <= Depth
    BY <1>3, <2>1, SendBounded DEF PublishCellState, TypeOK
  <2> QED BY <1>3, <2>2 DEF PublishCellState, TypeOK, inputs, supervisor
<1>4. CASE OnSupervisorState
  <2>1. /\ Head(toAggregator) \in SupervisorStates
        /\ Tail(toAggregator) \in Seq(SupervisorStates)
        /\ Len(Tail(toAggregator)) <= Depth
    BY <1>4, Delivered DEF OnSupervisorState, TypeOK
  <2> QED BY <1>4, <2>1 DEF OnSupervisorState, TypeOK, inputs, supervisor
<1>5. CASE OnCellState
  <2>1. Tail(toSupervisor) \in Seq(Message) /\ Len(Tail(toSupervisor)) <= Depth
    BY <1>5, Delivered DEF OnCellState, TypeOK
  <2>2. cellReady' \in BOOLEAN
    BY <1>5, Delivered DEF OnCellState, Admissible, TypeOK, Message
  <2> QED BY <1>5, <2>1, <2>2 DEF OnCellState, TypeOK, inputs
<1>6. ASSUME NEW s \in SupervisorStates, TransitionState(s) PROVE TypeOK'
  <2>1. toAggregator' \in Seq(SupervisorStates) /\ Len(toAggregator') <= Depth
    BY <1>6, SendBounded DEF TransitionState, TypeOK
  <2> QED BY <1>6, <2>1 DEF TransitionState, TypeOK, inputs
<1>7. CASE StartJob \/ EndJob
  BY <1>6, <1>7 DEF StartJob, EndJob, SupervisorStates
<1>9. CASE Admit \/ RejectJob
  BY <1>9 DEF Admit, RejectJob, TypeOK, inputs
<1>8. CASE UNCHANGED vars
  BY <1>8 DEF TypeOK, vars, inputs, supervisor
<1> QED BY <1>1, <1>2, <1>3, <1>4, <1>5, <1>7, <1>8, <1>9 DEF Next

\* Every entry, queue and flag of the readiness loop stays of its type; the
\* queues of /cell/state and /cell/supervisor_state never exceed their depth.
THEOREM TypeCorrect == Spec => []TypeOK
BY InitTyped, NextTyped, PTL DEF Spec

-----------------------------------------------------------------------------

\* Once the fault is relayed, whatever the aggregator publishes is refused.
LEMMA LatchedPublishes ==
    ASSUME Latched
    PROVE  CellState = "RECOVERABLE_FAULT"
BY DEF Latched, CellState, ExecutionStates

LEMMA LatchedStep == TypeOK /\ Latched /\ [Next]_vars => Latched'
<1> SUFFICES ASSUME TypeOK, Latched, [Next]_vars PROVE Latched'
  OBVIOUS
<1>1. CASE \E d \in Devices : OnDeviceState(d) \/ GoStale(d)
  BY <1>1 DEF OnDeviceState, GoStale, Latched, Admissible, supervisor
<1>2. CASE OnSafetyState \/ SafetyGoesStale
  BY <1>2 DEF OnSafetyState, SafetyGoesStale, Latched, Admissible, supervisor
<1>3. CASE PublishCellState
  <2> DEFINE m == [state |-> CellState, safety |-> EffectiveHealthy,
                   devices |-> AllRequiredReady]
  <2>1. ~Admissible(m)
    BY LatchedPublishes DEF Admissible
  <2>2. toSupervisor \in Seq(Message)
    BY DEF TypeOK
  <2>3. \/ toSupervisor' = Append(toSupervisor, m)
        \/ /\ toSupervisor # <<>>
           /\ toSupervisor' = Append(Tail(toSupervisor), m)
    <3>1. toSupervisor' = Send(toSupervisor, m)
      BY <1>3 DEF PublishCellState
    <3>2. ~(Len(toSupervisor) < Depth) => toSupervisor # <<>>
      BY <2>2, DepthAssumption
    <3> HIDE DEF m
    <3>3. CASE Len(toSupervisor) < Depth
      <4>1. Send(toSupervisor, m) = Append(toSupervisor, m)
        BY <3>3, Zenon DEF Send
      <4> QED BY <3>1, <4>1, Zenon
    <3>4. CASE ~(Len(toSupervisor) < Depth)
      <4>1. Send(toSupervisor, m) = Append(Tail(toSupervisor), m)
        BY <3>4, Zenon DEF Send
      <4> QED BY <3>1, <3>2, <3>4, <4>1, Zenon
    <3> QED BY <3>3, <3>4
  <2>4. \A i \in DOMAIN toSupervisor' :
            \/ toSupervisor'[i] = m
            \/ \E j \in DOMAIN toSupervisor : toSupervisor'[i] = toSupervisor[j]
    <3> HIDE DEF m
    <3> QED BY <2>2, <2>3
  <2>5. \A i \in DOMAIN toSupervisor' : ~Admissible(toSupervisor'[i])
    BY <2>1, <2>4 DEF Latched
  <2> QED BY <1>3, <2>5 DEF PublishCellState, Latched, Admissible, supervisor
<1>4. CASE OnSupervisorState
  BY <1>4 DEF OnSupervisorState, Latched
<1>5. CASE OnCellState
  <2>1. toSupervisor \in Seq(Message) /\ toSupervisor # <<>>
    BY <1>5 DEF OnCellState, TypeOK
  <2>2. Head(toSupervisor) = toSupervisor[1] /\ 1 \in DOMAIN toSupervisor
    BY <2>1
  <2>3. \A i \in DOMAIN Tail(toSupervisor) :
            i + 1 \in DOMAIN toSupervisor /\ Tail(toSupervisor)[i] = toSupervisor[i + 1]
    BY <2>1
  <2>4. ~cellReady'
    BY <1>5, <2>2 DEF OnCellState, Latched
  <2>5. \A i \in DOMAIN toSupervisor' : ~Admissible(toSupervisor'[i])
    BY <1>5, <2>3 DEF OnCellState, Latched
  <2> QED BY <1>5, <2>4, <2>5 DEF OnCellState, Latched, Admissible
<1>6. CASE Admit \/ RejectJob \/ StartJob \/ EndJob
  BY <1>6 DEF Admit, RejectJob, StartJob, EndJob, Latched
<1>7. CASE UNCHANGED vars
  BY <1>7 DEF vars, Latched, Admissible, supervisor
<1> QED BY <1>1, <1>2, <1>3, <1>4, <1>5, <1>6, <1>7 DEF Next

\* A job fault that the aggregator has relayed keeps the supervisor refusing
\* jobs, whatever devices and safety report afterwards.
THEOREM FaultStaysLatched == Spec => FaultLatches
<1>1. TypeOK /\ [Next]_vars => [Latched => Latched']_vars
  BY LatchedStep
<1> QED BY <1>1, TypeCorrect, PTL DEF Spec, FaultLatches
-----------------------------------------------------------------------------
\* The behaviour tree.

USE TreeAssumption

States == [handle : {"none", "arrived", "rejected"}, result : Verdicts \cup {NoVerdict},
           requested : BOOLEAN, cancels : 0..1]

LEMMA TreeGoals ==
    /\ \A l \in Leaves : Attempts[l] \in Nat /\ Attempts[l] >= 1
    /\ \A l \in Leaves, n \in Nat : n >= 1 /\ n <= Attempts[l] => <<l, n>> \in Goals
    /\ \A g \in Goals : /\ g = <<g[1], g[2]>> /\ g[1] \in Leaves
                          /\ g[2] \in Nat /\ g[2] >= 1 /\ g[2] <= Attempts[g[1]]
    /\ Len(Tree) \in Nat /\ Len(Tree) >= 1
    /\ \A i \in 1..Len(Tree) : Tree[i] \in Leaves
<1>1. \A l \in Leaves : Attempts[l] \in Nat /\ Attempts[l] >= 1
    BY DEF IsPenTree
<1>2. \A l \in Leaves, n \in Nat : n >= 1 /\ n <= Attempts[l] => <<l, n>> \in Goals
    BY <1>1 DEF Goals
<1>3. \A g \in Goals : /\ g = <<g[1], g[2]>> /\ g[1] \in Leaves
                         /\ g[2] \in Nat /\ g[2] >= 1 /\ g[2] <= Attempts[g[1]]
    BY <1>1 DEF Goals
<1>4. Len(Tree) \in Nat /\ Len(Tree) >= 1
    BY DEF IsPenTree
<1>5. \A i \in 1..Len(Tree) : Tree[i] \in Leaves
    BY DEF Leaves
<1> QED
    BY <1>1, <1>2, <1>3, <1>4, <1>5

\* Where the tree goes when a leaf fails: the next attempt, or its end.
Stops(s) == status' = s /\ at' = at /\ due' = due
Goes(g) == at' = g /\ g \in Goals /\ due' = FALSE /\ status' = status

LEMMA FailGoes ==
    ASSUME at \in Goals, Fail
    PROVE  Stops("FAILURE") \/ \E g \in Goals : Goes(g) /\ g[1] = at[1]
<1>1. at[1] \in Leaves /\ at[2] \in Nat /\ at[2] >= 1 /\ at[2] <= Attempts[at[1]]
      /\ Attempts[at[1]] \in Nat
    BY TreeGoals
<1>2. CASE at[2] < Attempts[at[1]]
    <2>1. at[2] + 1 \in Nat /\ at[2] + 1 >= 1 /\ at[2] + 1 <= Attempts[at[1]]
        BY <1>1, <1>2
    <2>2. <<at[1], at[2] + 1>> \in Goals
        BY <1>1, <2>1, TreeGoals
    <2>3. StartLeaf(<<at[1], at[2] + 1>>)
        BY <1>2 DEF Fail
    <2>4. \/ Begin(<<at[1], at[2] + 1>>)
          \/ Ends("FAILURE")
        BY <2>3 DEF StartLeaf
    <2>5. <<at[1], at[2] + 1>>[1] = at[1]
        OBVIOUS
    <2> QED
        BY <2>2, <2>4, <2>5 DEF Begin, Ends, Stops, Goes
<1>3. CASE ~(at[2] < Attempts[at[1]])
    BY <1>3 DEF Fail, Ends, Stops
<1> QED
    BY <1>2, <1>3

\* When it succeeds: the first attempt of the leaf after it, or the end of the tree.
LEMMA SucceedGoes ==
    ASSUME at \in Goals, Succeed
    PROVE  \/ recorded' = recorded /\ Stops("FAILURE")
           \/ /\ recorded' = recorded
              /\ \E i \in 1..(Len(Tree) - 1) : \E g \in Goals :
                     Goes(g) /\ at[1] = Tree[i] /\ g[1] = Tree[i + 1]
           \/ recorded' = TRUE /\ Stops("SUCCESS") /\ at[1] = Tree[Len(Tree)]
<1>1. ASSUME NEW i \in 1..(Len(Tree) - 1), at[1] = Tree[i], StartLeaf(<<Tree[i + 1], 1>>)
      PROVE  Stops("FAILURE") \/ \E g \in Goals : Goes(g) /\ g[1] = Tree[i + 1]
    <2>1. i + 1 \in 1..Len(Tree)
        BY TreeGoals
    <2>2. Tree[i + 1] \in Leaves /\ 1 <= Attempts[Tree[i + 1]]
        BY <2>1, TreeGoals
    <2>3. <<Tree[i + 1], 1>> \in Goals
        BY <2>2, TreeGoals
    <2>4. <<Tree[i + 1], 1>>[1] = Tree[i + 1]
        OBVIOUS
    <2>5. Begin(<<Tree[i + 1], 1>>) \/ Ends("FAILURE")
        BY <1>1 DEF StartLeaf
    <2> QED
        BY <2>3, <2>4, <2>5 DEF Begin, Ends, Stops, Goes
<1>2. CASE \E i \in 1..(Len(Tree) - 1) :
               at[1] = Tree[i] /\ StartLeaf(<<Tree[i + 1], 1>>) /\ UNCHANGED recorded
    BY <1>1, <1>2
<1>3. CASE at[1] = Tree[Len(Tree)] /\ Ends("SUCCESS") /\ recorded' = TRUE
    BY <1>3 DEF Ends, Stops
<1> QED
    BY <1>2, <1>3 DEF Succeed

\* A cancellation marks the attempt, whatever it knows of its goal.
LEMMA Requested ==
    ASSUME state \in [Goals -> States], NEW g \in Goals, RequestCancellation(g)
    PROVE  /\ state' \in [Goals -> States]
           /\ \A h \in Goals \ {g} : state'[h] = state[h]
           /\ state'[g].handle = state[g].handle /\ state'[g].result = state[g].result
           /\ state'[g].requested = TRUE
           /\ state'[g].handle = "arrived" => state'[g].cancels = 1
<1> DEFINE c == IF state[g].handle = "arrived" THEN 1 ELSE state[g].cancels
           new == [state[g] EXCEPT !.requested = TRUE, !.cancels = c]
<1>1. state[g] \in States /\ c \in 0..1 /\ (state[g].handle = "arrived" => c = 1)
    BY DEF States
<1>3. state' = [state EXCEPT ![g] = new]
    BY DEF RequestCancellation
<1> HIDE DEF c
<1>2. /\ new \in States /\ new.handle = state[g].handle /\ new.result = state[g].result
      /\ new.requested = TRUE /\ (new.handle = "arrived" => new.cancels = 1)
    BY <1>1 DEF States
<1> HIDE DEF new
<1>4. state'[g] = new /\ \A h \in Goals \ {g} : state'[h] = state[h]
    BY <1>3
<1>5. state' \in [Goals -> States]
    BY <1>2, <1>3
<1> QED
    BY <1>2, <1>4, <1>5

\* What the invariant says of one attempt.
Tracked(g) ==
    /\ AttemptIsTrue(g)
    /\ Left(g) /\ state[g].handle = "arrived" /\ state[g].result = NoVerdict => state[g].cancels = 1
    /\ status = "FAILURE" /\ Unsettled(g) => unknown

LEMMA TreeParts ==
    TreeIInv <=> TreeTypeOK /\ (\A g \in Goals : Tracked(g)) /\ SequenceIsPassed
BY DEF TreeIInv, Tracked, LeftIsCancelled, UnprovenIsFlagged

LEMMA TreePartsNext ==
    ASSUME TreeTypeOK', \A g \in Goals : Tracked(g)', SequenceIsPassed'
    PROVE  TreeIInv'
BY DEF TreeIInv, Tracked, LeftIsCancelled, UnprovenIsFlagged

LEMMA TreeTypes ==
    ASSUME TreeTypeOK
    PROVE  /\ command \in [Goals -> {"none", "sent", "executing", "rejected", "done", "lost"}]
           /\ reported \in [Goals -> Verdicts \cup {NoVerdict}]
           /\ stopping \in [Goals -> BOOLEAN] /\ serving \in BOOLEAN
           /\ state \in [Goals -> States] /\ at \in Goals
           /\ due \in BOOLEAN /\ unknown \in BOOLEAN /\ recorded \in BOOLEAN
           /\ status \in {"RUNNING", "SUCCESS", "FAILURE", "HALTED", "ERROR", "TERMINATED"}
BY DEF TreeTypeOK, States

LEMMA TreeTypesNext ==
    ASSUME command' \in [Goals -> {"none", "sent", "executing", "rejected", "done", "lost"}],
           reported' \in [Goals -> Verdicts \cup {NoVerdict}],
           stopping' \in [Goals -> BOOLEAN], serving' \in BOOLEAN,
           state' \in [Goals -> States], at' \in Goals,
           due' \in BOOLEAN, unknown' \in BOOLEAN, recorded' \in BOOLEAN,
           status' \in {"RUNNING", "SUCCESS", "FAILURE", "HALTED", "ERROR", "TERMINATED"}
    PROVE  TreeTypeOK'
BY DEF TreeTypeOK, States

\* The sequence moves on over a leaf that has passed, and an attempt that passed stays so.
LEMMA SequenceMoves ==
    ASSUME SequenceIsPassed,
           \A g \in Goals : state[g].result = "ok" => state'[g].result = "ok",
           \/ recorded' = recorded /\ at'[1] = at[1]
           \/ /\ recorded' = recorded /\ Passed(at[1])
              /\ \E i \in 1..(Len(Tree) - 1) : at[1] = Tree[i] /\ at'[1] = Tree[i + 1]
           \/ at' = at /\ Passed(at[1]) /\ at[1] = Tree[Len(Tree)]
    PROVE  SequenceIsPassed'
<1>0. Len(Tree) \in Nat /\ Len(Tree) >= 1
    BY TreeGoals
<1>1. \A l \in Leaves : Passed(l) => Passed(l)'
    <2> SUFFICES ASSUME NEW l \in Leaves, NEW n \in 1..Attempts[l], state[<<l, n>>].result = "ok"
                 PROVE  state'[<<l, n>>].result = "ok"
        BY DEF Passed
    <2>1. <<l, n>> \in Goals
        BY TreeGoals
    <2> QED
        BY <2>1
<1> SUFFICES ASSUME NEW i \in 1..Len(Tree),
                    recorded' \/ \E j \in (i + 1)..Len(Tree) : at'[1] = Tree[j]
             PROVE  Passed(Tree[i])'
    BY DEF SequenceIsPassed
<1>2. Tree[i] \in Leaves
    BY TreeGoals
<1>3. recorded \/ (\E j \in (i + 1)..Len(Tree) : at[1] = Tree[j]) => Passed(Tree[i])
    BY DEF SequenceIsPassed
<1>4. CASE recorded' = recorded /\ at'[1] = at[1]
    BY <1>1, <1>2, <1>3, <1>4
<1>5. CASE /\ recorded' = recorded /\ Passed(at[1])
           /\ \E k \in 1..(Len(Tree) - 1) : at[1] = Tree[k] /\ at'[1] = Tree[k + 1]
    <2>1. PICK k \in 1..(Len(Tree) - 1) : at[1] = Tree[k] /\ at'[1] = Tree[k + 1]
        BY <1>5
    <2>2. CASE recorded
        BY <1>1, <1>2, <1>3, <2>2
    <2>3. CASE ~recorded
        <3>1. PICK j \in (i + 1)..Len(Tree) : at'[1] = Tree[j]
            BY <1>5, <2>3
        <3>2. j = k + 1
            <4>1. j \in 1..Len(Tree) /\ k + 1 \in 1..Len(Tree) /\ Tree[j] = Tree[k + 1]
                BY <1>0, <2>1, <3>1
            <4> QED
                BY <4>1 DEF IsPenTree
        <3>3. i = k \/ k \in (i + 1)..Len(Tree)
            BY <1>0, <3>1, <3>2
        <3> QED
            BY <1>1, <1>2, <1>3, <1>5, <2>1, <3>3
    <2> QED
        BY <2>2, <2>3
<1>6. CASE at' = at /\ Passed(at[1]) /\ at[1] = Tree[Len(Tree)]
    <2>1. i = Len(Tree) \/ Len(Tree) \in (i + 1)..Len(Tree)
        BY <1>0
    <2> QED
        BY <1>1, <1>2, <1>3, <1>6, <2>1
<1> QED
    BY <1>4, <1>5, <1>6

\* A step of the worker that leaves a leaf answers for that leaf alone.
LEMMA WorkerLeaves ==
    ASSUME TreeTypeOK, \A g \in Goals : Tracked(g), Ticking,
           command' = command, reported' = reported, unknown => unknown',
           \A g \in Goals \ {at} : state'[g] = state[g],
           state'[at].handle = state[at].handle, state'[at].result = state[at].result,
           Sent(at) /\ state[at].handle = "none" => state'[at].requested,
           Sent(at) /\ state[at].handle = "arrived" /\ state[at].result = NoVerdict
               => state'[at].cancels = 1,
           Unsettled(at) /\ status' \in {"RUNNING", "FAILURE"} => unknown'
    PROVE  \A g \in Goals : Tracked(g)'
<1> SUFFICES ASSUME NEW g \in Goals PROVE Tracked(g)'
    OBVIOUS
<1>1. Tracked(g)
    OBVIOUS
<1>2. Sent(g)' = Sent(g) /\ Unsettled(g)' = Unsettled(g)
    <2>1. state'[g].result = state[g].result
        OBVIOUS
    <2> QED
        BY <2>1 DEF Sent, Unsettled
<1>3. CASE g # at
    <2>1. state'[g] = state[g]
        BY <1>3
    <2>2. Left(g)' => Left(g)
        BY <1>2, <1>3 DEF Left
    <2> QED
        BY <1>1, <1>2, <1>3, <2>1, <2>2 DEF Tracked, AttemptIsTrue, Ticking
<1>4. CASE g = at
    <2>1. Left(g)' => Sent(at)
        BY <1>2, <1>4 DEF Left
    <2> QED
        BY <1>1, <1>2, <1>4, <2>1 DEF Tracked, AttemptIsTrue, Ticking
<1> QED
    BY <1>3, <1>4

LEMMA WorkerKeeps ==
    ASSUME TreeIInv, Ticking, UNCHANGED servers,
           \/ \E s \in {"SUCCESS", "FAILURE", "HALTED", "ERROR", "TERMINATED"} : Stops(s)
           \/ \E g \in Goals : Goes(g),
           unknown' \in BOOLEAN, recorded' \in BOOLEAN, unknown => unknown',
           state' \in [Goals -> States],
           \A g \in Goals \ {at} : state'[g] = state[g],
           state'[at].handle = state[at].handle, state'[at].result = state[at].result,
           Sent(at) /\ state[at].handle = "none" => state'[at].requested,
           Sent(at) /\ state[at].handle = "arrived" /\ state[at].result = NoVerdict
               => state'[at].cancels = 1,
           Unsettled(at) /\ status' \in {"RUNNING", "FAILURE"} => unknown',
           \/ recorded' = recorded /\ at'[1] = at[1]
           \/ /\ recorded' = recorded /\ Passed(at[1])
              /\ \E i \in 1..(Len(Tree) - 1) : at[1] = Tree[i] /\ at'[1] = Tree[i + 1]
           \/ at' = at /\ Passed(at[1]) /\ at[1] = Tree[Len(Tree)]
    PROVE  TreeIInv'
<1>1. TreeTypeOK /\ (\A g \in Goals : Tracked(g)) /\ SequenceIsPassed
    BY TreeParts
<1>2. command' = command /\ reported' = reported /\ stopping' = stopping /\ serving' = serving
    BY DEF servers
<1>3. at' \in Goals /\ due' \in BOOLEAN
      /\ status' \in {"RUNNING", "SUCCESS", "FAILURE", "HALTED", "ERROR", "TERMINATED"}
    BY <1>1, TreeTypes DEF Stops, Goes
<1>4. TreeTypeOK'
    BY <1>1, <1>2, <1>3, TreeTypes, TreeTypesNext
<1>5. \A g \in Goals : Tracked(g)'
    BY <1>1, <1>2, WorkerLeaves
<1>6. \A g \in Goals : state[g].result = "ok" => state'[g].result = "ok"
    OBVIOUS
<1>7. SequenceIsPassed'
    BY <1>1, <1>6, SequenceMoves
<1> QED
    BY <1>4, <1>5, <1>7, TreePartsNext

LEMMA RefuseKeeps == ASSUME TreeIInv, Refuse PROVE TreeIInv'
<1>1. Ticking /\ UNCHANGED servers /\ ~Sent(at) /\ Stops("FAILURE")
      /\ state' = state /\ unknown' = unknown /\ recorded' = recorded
    BY DEF Refuse, Ends, Stops, blackboard
<1>2. state \in [Goals -> States] /\ unknown \in BOOLEAN /\ recorded \in BOOLEAN
    BY TreeTypes, TreeParts
<1>3. ~Unsettled(at)
    BY <1>1 DEF Unsettled, Sent
<1>4. at'[1] = at[1] /\ \E s \in {"SUCCESS", "FAILURE", "HALTED", "ERROR", "TERMINATED"} : Stops(s)
    BY <1>1 DEF Stops
<1> QED
    BY <1>1, <1>2, <1>3, <1>4, WorkerKeeps

LEMMA RejectedKeeps == ASSUME TreeIInv, Rejected PROVE TreeIInv'
<1>1. Ticking /\ UNCHANGED servers /\ state[at].handle = "rejected" /\ Fail
      /\ state' = state /\ unknown' = unknown /\ recorded' = recorded
    BY DEF Rejected, blackboard
<1>2. state \in [Goals -> States] /\ unknown \in BOOLEAN /\ recorded \in BOOLEAN
      /\ at \in Goals
    BY TreeTypes, TreeParts
<1>3. ~Unsettled(at)
    BY <1>1, <1>2, TreeParts DEF Unsettled, Tracked, AttemptIsTrue
<1>4. Stops("FAILURE") \/ \E g \in Goals : Goes(g) /\ g[1] = at[1]
    BY <1>1, <1>2, FailGoes
<1>5. /\ at'[1] = at[1]
      /\ \/ \E s \in {"SUCCESS", "FAILURE", "HALTED", "ERROR", "TERMINATED"} : Stops(s)
         \/ \E g \in Goals : Goes(g)
    BY <1>4 DEF Stops, Goes
<1> QED
    BY <1>1, <1>2, <1>3, <1>5, WorkerKeeps

LEMMA DeadlineKeeps == ASSUME TreeIInv, Deadline PROVE TreeIInv'
<1>1. Ticking /\ UNCHANGED servers /\ RequestCancellation(at) /\ recorded' = recorded
    BY DEF Deadline
<1>2. state \in [Goals -> States] /\ unknown \in BOOLEAN /\ recorded \in BOOLEAN
      /\ at \in Goals
    BY TreeTypes, TreeParts
<1>3. /\ state' \in [Goals -> States]
      /\ \A h \in Goals \ {at} : state'[h] = state[h]
      /\ state'[at].handle = state[at].handle /\ state'[at].result = state[at].result
      /\ state'[at].requested = TRUE
      /\ state'[at].handle = "arrived" => state'[at].cancels = 1
    BY <1>1, <1>2, Requested
<1>4. \/ Ends("ERROR") /\ unknown' = unknown
      \/ Fail /\ HandleDeadline
    BY DEF Deadline
<1>5. unknown' \in BOOLEAN /\ (unknown => unknown')
      /\ (Unsettled(at) /\ status' \in {"RUNNING", "FAILURE"} => unknown')
    BY <1>2, <1>4 DEF HandleDeadline, Unsettled, Ends
<1>6. /\ at'[1] = at[1]
      /\ \/ \E s \in {"SUCCESS", "FAILURE", "HALTED", "ERROR", "TERMINATED"} : Stops(s)
         \/ \E g \in Goals : Goes(g)
    <2>1. CASE Ends("ERROR")
        BY <2>1 DEF Ends, Stops
    <2>2. CASE Fail
        BY <1>2, <2>2, FailGoes DEF Stops, Goes
    <2> QED
        BY <1>4, <2>1, <2>2
<1> QED
    BY <1>1, <1>2, <1>3, <1>5, <1>6, WorkerKeeps

LEMMA HaltKeeps == ASSUME TreeIInv, Halt PROVE TreeIInv'
<1>1. Ticking /\ UNCHANGED servers /\ RequestCancellation(at)
      /\ recorded' = recorded /\ unknown' = unknown
      /\ Ends(IF Throws(at) THEN "TERMINATED" ELSE "HALTED")
    BY DEF Halt, blackboard
<1>2. state \in [Goals -> States] /\ unknown \in BOOLEAN /\ recorded \in BOOLEAN
      /\ at \in Goals
    BY TreeTypes, TreeParts
<1>3. /\ state' \in [Goals -> States]
      /\ \A h \in Goals \ {at} : state'[h] = state[h]
      /\ state'[at].handle = state[at].handle /\ state'[at].result = state[at].result
      /\ state'[at].requested = TRUE
      /\ state'[at].handle = "arrived" => state'[at].cancels = 1
    BY <1>1, <1>2, Requested
<1>4. Stops("TERMINATED") \/ Stops("HALTED")
    BY <1>1 DEF Ends, Stops
<1>5. /\ at'[1] = at[1] /\ status' \notin {"RUNNING", "FAILURE"}
      /\ \E s \in {"SUCCESS", "FAILURE", "HALTED", "ERROR", "TERMINATED"} : Stops(s)
    BY <1>4 DEF Stops
<1> QED
    BY <1>1, <1>2, <1>3, <1>5, WorkerKeeps

LEMMA HandleResultKeeps == ASSUME TreeIInv, HandleResult PROVE TreeIInv'
<1>1. /\ Ticking /\ UNCHANGED servers /\ state' = state
      /\ state[at].result # NoVerdict
      /\ IF state[at].result = "ok" THEN Succeed ELSE Fail /\ UNCHANGED recorded
      /\ unknown' = (unknown \/ (at[1] = Process /\ state[at].result = "unproven"))
    BY DEF HandleResult
<1>2. state \in [Goals -> States] /\ unknown \in BOOLEAN /\ recorded \in BOOLEAN
      /\ at \in Goals
    BY TreeTypes, TreeParts
<1>3. state[at].handle = "arrived" /\ state[at].result \in Verdicts
    BY <1>1, <1>2, TreeParts DEF Tracked, AttemptIsTrue, States
<1>4. unknown' \in BOOLEAN /\ (unknown => unknown') /\ (Unsettled(at) => unknown')
    BY <1>1, <1>2, <1>3 DEF Unsettled, Verdicts
<1>5. CASE state[at].result # "ok"
    <2>1. Fail /\ recorded' = recorded
        BY <1>1, <1>5
    <2>2. Stops("FAILURE") \/ \E g \in Goals : Goes(g) /\ g[1] = at[1]
        BY <1>2, <2>1, FailGoes
    <2>3. /\ at'[1] = at[1]
          /\ \/ \E s \in {"SUCCESS", "FAILURE", "HALTED", "ERROR", "TERMINATED"} : Stops(s)
             \/ \E g \in Goals : Goes(g)
        BY <2>2 DEF Stops, Goes
    <2> QED
        BY <1>1, <1>2, <1>3, <1>4, <2>1, <2>3, WorkerKeeps
<1>6. CASE state[at].result = "ok"
    <2>1. Passed(at[1])
        <3>1. at = <<at[1], at[2]>> /\ at[2] \in 1..Attempts[at[1]]
            BY <1>2, TreeGoals
        <3> QED
            BY <1>6, <3>1 DEF Passed
    <2>2. \/ recorded' = recorded /\ Stops("FAILURE")
          \/ /\ recorded' = recorded
             /\ \E i \in 1..(Len(Tree) - 1) : \E g \in Goals :
                    Goes(g) /\ at[1] = Tree[i] /\ g[1] = Tree[i + 1]
          \/ recorded' = TRUE /\ Stops("SUCCESS") /\ at[1] = Tree[Len(Tree)]
        BY <1>1, <1>2, <1>6, SucceedGoes
    <2>3. \/ recorded' = recorded /\ at'[1] = at[1]
          \/ /\ recorded' = recorded
             /\ \E i \in 1..(Len(Tree) - 1) : at[1] = Tree[i] /\ at'[1] = Tree[i + 1]
          \/ at' = at /\ at[1] = Tree[Len(Tree)]
        BY <2>2 DEF Stops, Goes
    <2>4. /\ recorded' \in BOOLEAN
          /\ \/ \E s \in {"SUCCESS", "FAILURE", "HALTED", "ERROR", "TERMINATED"} : Stops(s)
             \/ \E g \in Goals : Goes(g)
        BY <1>2, <2>2
    <2> QED
        BY <1>1, <1>2, <1>3, <1>4, <2>1, <2>3, <2>4, WorkerKeeps
<1> QED
    BY <1>5, <1>6

\* A step beside the worker leaves the tree where it is.
LEMMA BesideKeeps ==
    ASSUME TreeIInv, at' = at, status' = status, unknown' = unknown,
           recorded' = recorded, due' \in BOOLEAN,
           command' \in [Goals -> {"none", "sent", "executing", "rejected", "done", "lost"}],
           reported' \in [Goals -> Verdicts \cup {NoVerdict}],
           stopping' \in [Goals -> BOOLEAN], serving' \in BOOLEAN,
           state' \in [Goals -> States],
           \A g \in Goals : Tracked(g)',
           \A g \in Goals : state[g].result = "ok" => state'[g].result = "ok"
    PROVE  TreeIInv'
<1>1. TreeTypeOK /\ SequenceIsPassed
    BY TreeParts
<1>2. TreeTypeOK'
    BY <1>1, TreeTypes, TreeTypesNext
<1>3. SequenceIsPassed'
    BY <1>1, SequenceMoves
<1> QED
    BY <1>2, <1>3, TreePartsNext

LEMMA SendGoalKeeps == ASSUME TreeIInv, SendCommand PROVE TreeIInv'
<1>1. /\ Ticking /\ command[at] = "none" /\ command' = [command EXCEPT ![at] = "sent"]
      /\ reported' = reported /\ stopping' = stopping /\ serving' = serving /\ state' = state /\ at' = at
      /\ due' = due /\ unknown' = unknown /\ recorded' = recorded /\ status' = status
    BY DEF SendCommand, Action!Submit, blackboard
<1>2. /\ TreeTypeOK /\ (\A g \in Goals : Tracked(g)) /\ state \in [Goals -> States]
      /\ command \in [Goals -> {"none", "sent", "executing", "rejected", "done", "lost"}]
      /\ at \in Goals
    BY TreeParts, TreeTypes
<1>3. command'[at] = "sent" /\ \A g \in Goals \ {at} : command'[g] = command[g]
    BY <1>1, <1>2
<1>4. ASSUME NEW g \in Goals PROVE Tracked(g)'
    <2>1. Tracked(g)
        BY <1>2
    <2>2. CASE g # at
        BY <1>1, <1>3, <2>1, <2>2 DEF Tracked, AttemptIsTrue, Left, Sent, Unsettled, Ticking
    <2>3. CASE g = at
        BY <1>1, <1>3, <2>1, <2>3 DEF Tracked, AttemptIsTrue, Left, Ticking
    <2> QED
        BY <2>2, <2>3
<1>5. command' \in [Goals -> {"none", "sent", "executing", "rejected", "done", "lost"}]
    BY <1>1, <1>2
<1> QED
    BY <1>1, <1>2, <1>4, <1>5, BesideKeeps, TreeTypes

LEMMA GoalResponseKeeps ==
    ASSUME TreeIInv, NEW h \in Goals, GoalResponse(h) PROVE TreeIInv'
<1>1. /\ command' = command /\ reported' = reported /\ stopping' = stopping /\ serving' = serving /\ at' = at
      /\ due' = due /\ unknown' = unknown /\ recorded' = recorded /\ status' = status
      /\ state[h].handle = "none"
    BY DEF GoalResponse, blackboard, servers
<1>2. /\ TreeTypeOK /\ (\A g \in Goals : Tracked(g)) /\ state \in [Goals -> States]
      /\ state[h] \in States
    BY TreeParts, TreeTypes
<1>3. state[h].result = NoVerdict
    BY <1>1, <1>2 DEF Tracked, AttemptIsTrue
<1>4. /\ state' \in [Goals -> States] /\ \A g \in Goals \ {h} : state'[g] = state[g]
      /\ state'[h].result = NoVerdict /\ state'[h].requested = state[h].requested
      /\ \/ state'[h].handle = "arrived" /\ (state[h].requested => state'[h].cancels = 1)
         \/ state'[h].handle = "rejected" /\ command[h] = "rejected"
    <2>1. CASE state' = [state EXCEPT ![h] = Accepted(h)]
        <3> DEFINE c == IF state[h].requested THEN 1 ELSE state[h].cancels
        <3>1. Accepted(h) = [state[h] EXCEPT !.handle = "arrived", !.cancels = c]
            BY DEF Accepted
        <3>2. c \in 0..1 /\ (state[h].requested => c = 1)
            BY <1>2 DEF States
        <3> HIDE DEF c
        <3>3. /\ Accepted(h) \in States /\ Accepted(h).handle = "arrived"
              /\ Accepted(h).result = state[h].result /\ Accepted(h).cancels = c
              /\ Accepted(h).requested = state[h].requested
            BY <1>2, <3>1, <3>2 DEF States
        <3>4. state'[h] = Accepted(h) /\ \A g \in Goals \ {h} : state'[g] = state[g]
            BY <1>2, <2>1
        <3>5. state' \in [Goals -> States]
            BY <1>2, <2>1, <3>3
        <3> QED
            BY <1>3, <3>2, <3>3, <3>4, <3>5
    <2>2. CASE command[h] = "rejected" /\ state' = [state EXCEPT ![h].handle = "rejected"]
        <3> DEFINE new == [state[h] EXCEPT !.handle = "rejected"]
        <3>1. /\ new \in States /\ new.handle = "rejected" /\ new.result = state[h].result
              /\ new.requested = state[h].requested
            BY <1>2 DEF States
        <3>2. state' = [state EXCEPT ![h] = new]
            BY <2>2
        <3> HIDE DEF new
        <3>3. state'[h] = new /\ \A g \in Goals \ {h} : state'[g] = state[g]
            BY <1>2, <3>2
        <3>4. state' \in [Goals -> States]
            BY <1>2, <3>1, <3>2
        <3> QED
            BY <1>3, <2>2, <3>1, <3>3, <3>4
    <2> QED
        BY <2>1, <2>2 DEF GoalResponse
<1>5. ASSUME NEW g \in Goals PROVE Tracked(g)'
    <2>1. Tracked(g) /\ Left(g)' = Left(g)
        BY <1>1, <1>2 DEF Left, Sent, Ticking
    <2>2. Unsettled(g)' => Unsettled(g)
        BY <1>1, <1>3, <1>4 DEF Unsettled
    <2>3. CASE g # h
        BY <1>1, <1>4, <2>1, <2>2, <2>3 DEF Tracked, AttemptIsTrue, Ticking
    <2>4. CASE g = h
        BY <1>1, <1>3, <1>4, <2>1, <2>2, <2>4 DEF Tracked, AttemptIsTrue, Ticking
    <2> QED
        BY <2>3, <2>4
<1>6. \A g \in Goals : state[g].result = "ok" => state'[g].result = "ok"
    BY <1>3, <1>4
<1> QED
    BY <1>1, <1>2, <1>4, <1>5, <1>6, BesideKeeps, TreeTypes

LEMMA ResultCallbackKeeps ==
    ASSUME TreeIInv, NEW h \in Goals, ResultCallback(h) PROVE TreeIInv'
<1>1. /\ command' = command /\ reported' = reported /\ stopping' = stopping /\ serving' = serving /\ at' = at
      /\ due' = due /\ unknown' = unknown /\ recorded' = recorded /\ status' = status
      /\ state[h].handle = "arrived" /\ state[h].result = NoVerdict
      /\ state' = [state EXCEPT ![h].result = reported[h]]
    BY DEF ResultCallback, blackboard, servers
<1>2. /\ TreeTypeOK /\ (\A g \in Goals : Tracked(g)) /\ state \in [Goals -> States]
      /\ state[h] \in States /\ reported[h] \in Verdicts \cup {NoVerdict}
    BY TreeParts, TreeTypes
<1>3. /\ state' \in [Goals -> States] /\ \A g \in Goals \ {h} : state'[g] = state[g]
      /\ state'[h].result = reported[h] /\ state'[h].requested = state[h].requested
      /\ state'[h].handle = "arrived" /\ state'[h].cancels = state[h].cancels
    <2> DEFINE new == [state[h] EXCEPT !.result = reported[h]]
    <2>1. /\ new \in States /\ new.handle = "arrived" /\ new.result = reported[h]
          /\ new.requested = state[h].requested /\ new.cancels = state[h].cancels
        BY <1>1, <1>2 DEF States
    <2>2. state' = [state EXCEPT ![h] = new]
        BY <1>1
    <2> HIDE DEF new
    <2>3. state'[h] = new /\ \A g \in Goals \ {h} : state'[g] = state[g]
        BY <1>2, <2>2
    <2>4. state' \in [Goals -> States]
        BY <1>2, <2>1, <2>2
    <2> QED
        BY <2>1, <2>3, <2>4
<1>4. NoVerdict \notin {"ok", "failed", "cancelled"}
    BY DEF IsPenTree
<1>5. ASSUME NEW g \in Goals PROVE Tracked(g)'
    <2>1. Tracked(g) /\ Left(g)' = Left(g)
        BY <1>1, <1>2 DEF Left, Sent, Ticking
    <2>2. Unsettled(g)' => Unsettled(g)
        BY <1>1, <1>3, <1>4 DEF Unsettled
    <2>3. CASE g # h
        BY <1>1, <1>3, <2>1, <2>2, <2>3 DEF Tracked, AttemptIsTrue, Ticking
    <2>4. CASE g = h
        BY <1>1, <1>3, <2>1, <2>2, <2>4 DEF Tracked, AttemptIsTrue, Ticking
    <2> QED
        BY <2>3, <2>4
<1>6. \A g \in Goals : state[g].result = "ok" => state'[g].result = "ok"
    BY <1>1, <1>3, <1>4
<1> QED
    BY <1>1, <1>2, <1>3, <1>5, <1>6, BesideKeeps, TreeTypes

\* What a client may rely on of any step of a server.
LEMMA ServerSteps ==
    ASSUME TreeTypeOK, \A g \in Goals : Tracked(g), Environment
    PROVE  /\ command' \in [Goals -> {"none", "sent", "executing", "rejected", "done", "lost"}]
           /\ reported' \in [Goals -> Verdicts \cup {NoVerdict}]
           /\ stopping' \in [Goals -> BOOLEAN] /\ serving' \in BOOLEAN
           /\ \A g \in Goals :
                 /\ command'[g] = "none" <=> command[g] = "none"
                 /\ command[g] = "rejected" => command'[g] = "rejected"
                 /\ command[g] \in {"done", "lost"} => command'[g] \in {"done", "lost"}
                 /\ reported'[g] = reported[g] \/ (command[g] = "executing" /\ command'[g] = "done")
<1>1. /\ command \in [Goals -> {"none", "sent", "executing", "rejected", "done", "lost"}]
      /\ reported \in [Goals -> Verdicts \cup {NoVerdict}]
      /\ stopping \in [Goals -> BOOLEAN] /\ serving \in BOOLEAN
    BY TreeTypes
<1>2. CASE \E h \in Goals : Action!Accept(h) \/ Action!Reject(h)
    BY <1>1, <1>2 DEF Action!Accept, Action!Reject
<1>3. CASE \E h \in Goals, c \in Verdicts : Action!Finish(h, c)
    BY <1>1, <1>3 DEF Action!Finish
<1>4. CASE \E h \in Goals : Action!Cancel(h)
    BY <1>1, <1>4 DEF Action!Cancel
<1>5. CASE Action!Crash
    BY <1>1, <1>5 DEF Action!Crash
<1> QED
    BY <1>2, <1>3, <1>4, <1>5 DEF Environment, ServerAnswers, StopArrives

LEMMA EnvironmentKeeps == ASSUME TreeIInv, Environment PROVE TreeIInv'
<1>1. /\ state' = state /\ at' = at /\ due' = due /\ unknown' = unknown /\ recorded' = recorded
      /\ status' = status
    BY DEF Environment, blackboard
<1>2. TreeTypeOK /\ (\A g \in Goals : Tracked(g))
    BY TreeParts
<1>3. /\ command' \in [Goals -> {"none", "sent", "executing", "rejected", "done", "lost"}]
      /\ reported' \in [Goals -> Verdicts \cup {NoVerdict}]
      /\ stopping' \in [Goals -> BOOLEAN] /\ serving' \in BOOLEAN
    BY <1>2, ServerSteps
<1>4. ASSUME NEW g \in Goals PROVE Tracked(g)'
    <2>1. /\ command'[g] = "none" <=> command[g] = "none"
          /\ command[g] = "rejected" => command'[g] = "rejected"
          /\ command[g] \in {"done", "lost"} => command'[g] \in {"done", "lost"}
          /\ reported'[g] = reported[g] \/ (command[g] = "executing" /\ command'[g] = "done")
        BY <1>2, ServerSteps
    <2>2. Tracked(g) /\ Left(g)' = Left(g)
        BY <1>1, <1>2, <2>1 DEF Left, Sent, Ticking
    <2>3. Unsettled(g)' => Unsettled(g)
        BY <1>1, <2>1 DEF Unsettled
    <2> QED
        BY <1>1, <2>1, <2>2, <2>3 DEF Tracked, AttemptIsTrue, Ticking
<1> QED
    BY <1>1, <1>2, <1>3, <1>4, BesideKeeps, TreeTypes

LEMMA RestKeeps ==
    ASSUME TreeIInv, Expire \/ UNCHANGED treeVars PROVE TreeIInv'
<1>1. /\ command' = command /\ reported' = reported /\ stopping' = stopping /\ serving' = serving
      /\ state' = state /\ at' = at /\ unknown' = unknown /\ recorded' = recorded
      /\ status' = status /\ due' \in {due, TRUE}
    BY DEF Expire, treeVars, servers, blackboard
<1>2. TreeTypeOK /\ (\A g \in Goals : Tracked(g))
    BY TreeParts
<1>3. ASSUME NEW g \in Goals PROVE Tracked(g)'
    BY <1>1, <1>2 DEF Tracked, AttemptIsTrue, Left, Sent, Unsettled, Ticking
<1> QED
    BY <1>1, <1>2, <1>3, BesideKeeps, TreeTypes

LEMMA TreeBegins == ASSUME TreeInit PROVE TreeIInv
<1>1. TreeTypeOK
    <2>1. NoState \in States
        BY DEF NoState, States
    <2>2. <<Tree[1], 1>> \in Goals
        BY TreeGoals
    <2> QED
        BY <2>1, <2>2 DEF TreeInit, TreeTypeOK, States
<1>2. ASSUME NEW g \in Goals PROVE Tracked(g)
    BY DEF TreeInit, NoState, Tracked, AttemptIsTrue, Left, Sent, Unsettled
<1>3. SequenceIsPassed
    <2> SUFFICES ASSUME NEW i \in 1..Len(Tree), NEW j \in (i + 1)..Len(Tree), at[1] = Tree[j]
                 PROVE  FALSE
        BY DEF TreeInit, SequenceIsPassed
    <2>1. Tree[j] = Tree[1] /\ j # 1 /\ j \in 1..Len(Tree) /\ 1 \in 1..Len(Tree)
        BY TreeGoals DEF TreeInit
    <2> QED
        BY <2>1 DEF IsPenTree
<1> QED
    BY <1>1, <1>2, <1>3, TreeParts

LEMMA TreeKeeps == TreeIInv /\ [TreeNext]_treeVars => TreeIInv'
<1> SUFFICES ASSUME TreeIInv, [TreeNext]_treeVars PROVE TreeIInv'
    OBVIOUS
<1>1. CASE Tick \/ Halt
    BY <1>1, RefuseKeeps, SendGoalKeeps, DeadlineKeeps, RejectedKeeps, HandleResultKeeps, HaltKeeps
       DEF Tick
<1>2. CASE \E g \in Goals : GoalResponse(g) \/ ResultCallback(g)
    BY <1>2, GoalResponseKeeps, ResultCallbackKeeps
<1>3. CASE Environment \/ Expire \/ UNCHANGED treeVars
    BY <1>3, EnvironmentKeeps, RestKeeps
<1> QED
    BY <1>1, <1>2, <1>3 DEF TreeNext

\* The four theorems below have the assumption of PenTree as a hypothesis: the leaves of the sequence
\* differ from each other, each has a number of attempts, and None is no result code.

\* The inductive invariant of the tree holds in every state of its clients and of their servers.
THEOREM TreeInvariance == TreeSpec => []TreeIInv
<1>1. TreeInit => TreeIInv
    BY TreeBegins
<1>2. TreeIInv /\ [TreeNext]_treeVars => TreeIInv'
    BY TreeKeeps
<1> QED
    BY <1>1, <1>2, PTL DEF TreeSpec

\* A command whose leaf was left, by its deadline or by a halt, has been asked to cancel once its goal
\* handle is there, whichever of the tree and the callback of the goal response comes first.
THEOREM LeftCommandsAreCancelled == TreeSpec => []LeftIsCancelled
<1>1. TreeIInv => LeftIsCancelled
    BY DEF TreeIInv
<1> QED
    BY <1>1, TreeInvariance, PTL

\* A tree that fails after its engraving may have happened has the unknown-outcome flag set: a
\* rejected answer, a lost one, a late one and one that proves nothing all come to the same.
THEOREM UnprovenProcessIsFlagged == TreeSpec => []UnprovenIsFlagged
<1>1. TreeIInv => UnprovenIsFlagged
    BY DEF TreeIInv
<1> QED
    BY <1>1, TreeInvariance, PTL

\* A part is recorded as good only when an attempt at engraving it and one at inspecting it were
\* answered with success by their servers.
THEOREM RecordedPartsAreInspected == TreeSpec => []RecordedIsInspected
<1>1. TreeIInv => RecordedIsInspected
    <2> SUFFICES ASSUME TreeIInv, recorded, NEW l \in {Process, Inspect}
                 PROVE  \E n \in 1..Attempts[l] :
                            reported[<<l, n>>] = "ok" /\ state[<<l, n>>].result = "ok"
        BY DEF RecordedIsInspected
    <2>1. PICK i \in 1..Len(Tree) : l = Tree[i]
        BY DEF IsPenTree, Leaves
    <2>2. PICK n \in 1..Attempts[l] : state[<<l, n>>].result = "ok"
        BY <2>1 DEF TreeIInv, SequenceIsPassed, Passed
    <2>3. <<l, n>> \in Goals
        BY <2>1, TreeGoals
    <2>4. "ok" # NoVerdict
        BY DEF IsPenTree, Verdicts
    <2>5. AttemptIsTrue(<<l, n>>)
        BY <2>3 DEF TreeIInv
    <2>6. reported[<<l, n>>] = "ok"
        BY <2>2, <2>4, <2>5 DEF AttemptIsTrue
    <2> QED
        BY <2>2, <2>6
<1> QED
    BY <1>1, TreeInvariance, PTL

HIDE TreeAssumption

-----------------------------------------------------------------------------
\* The operator API.

USE RequestsAssumption

\* What the invariant says of one request.
Honest(r) ==
    /\ RequestIsTrue(r)
    /\ r \notin Cancels => EntriesAreTrue(r)
    /\ ReplyIsJournalled(r)
    /\ reply[r] \in CertainCodes => Final(r)

LEMMA ApiParts == ApiIInv <=> ApiTypeOK /\ \A r \in Requests : Honest(r)
BY DEF AreRequests, Requests, ApiIInv, Honest, JournalIsTrue, AnsweredIsJournalled, CertainIsFinal

LEMMA ApiPartsNext ==
    ASSUME ApiTypeOK', \A r \in Requests : Honest(r)' PROVE ApiIInv'
BY DEF AreRequests, Requests, ApiIInv, Honest, JournalIsTrue, AnsweredIsJournalled, CertainIsFinal

\* The requests a step does not concern.
RequestSame(r) ==
    /\ http'[r] = http[r] /\ reply'[r] = reply[r] /\ journal'[r] = journal[r]
    /\ thread'[r] = thread[r] /\ result'[r] = result[r]

CellSame(r) ==
    /\ r \in Submissions => goal'[r] = goal[r] /\ answer'[r] = answer[r] /\ ran'[r] = ran[r]
    /\ r \in Recoveries => service'[r] = service[r]

LEMMA OthersKeep ==
    ASSUME NEW r \in Requests, Honest(r), RequestSame(r), CellSame(r)
    PROVE  Honest(r)'
<1>1. Final(r)' = Final(r)
    BY DEF Final, RequestSame, CellSame
<1>2. RequestIsTrue(r)'
    BY <1>1 DEF Honest, RequestIsTrue, RequestSame, CellSame
<1>3. r \notin Cancels => EntriesAreTrue(r)'
    <2> SUFFICES ASSUME r \notin Cancels PROVE EntriesAreTrue(r)'
        OBVIOUS
    <2>1. r \in Submissions \/ r \in Recoveries
        BY DEF Requests
    <2>2. Dispatched(r)' = Dispatched(r)
        BY <2>1 DEF Dispatched, CellSame
    <2> QED
        BY <2>1, <2>2 DEF Honest, EntriesAreTrue, RequestSame, CellSame
<1>4. ReplyIsJournalled(r)'
    BY DEF Honest, ReplyIsJournalled, Last, RequestSame
<1> QED
    BY <1>1, <1>2, <1>3, <1>4 DEF Honest, RequestSame

\* A thread that returns gives back what is certain only when the cell is done with its request.
LEMMA ReturnKeeps ==
    ASSUME ApiTypeOK, NEW r \in Requests, NEW answered \in Returns, Honest(r),
           thread[r] \notin {"none", "done"}, Return(r, answered), CellSame(r),
           http' = http, reply' = reply, journal' = journal,
           answered \in CertainCodes =>
               /\ r \in Submissions => goal[r] \notin {"sent", "executing"}
               /\ r \in Recoveries => service[r] # "called",
           answered = "ok" => r \in Submissions /\ answer[r] = "ok",
           answered = "accepted" => r \in Recoveries /\ service[r] = "accepted",
           answered = "cancel_accepted" => r \in Cancels
    PROVE  Honest(r)'
<1>1. thread'[r] = "done" /\ (result'[r] = answered \/ result'[r] = None)
    BY DEF ApiTypeOK, Return
<1>2. None \notin Replies /\ CertainCodes \subseteq Replies /\ Returns \subseteq Replies
    BY DEF AreRequests, Returns, Replies
<1>3. r \in Submissions /\ ran[r] = "running" => goal[r] = "executing"
    BY DEF Honest, RequestIsTrue
<1>4. result'[r] \in CertainCodes => Final(r)'
    BY <1>1, <1>2, <1>3 DEF Final, CellSame
<1>5. None \notin {"ok", "accepted", "cancel_accepted"}
    BY <1>2 DEF Replies, Returns, CertainCodes
<1>6. RequestIsTrue(r)'
    BY <1>1, <1>4, <1>5 DEF Honest, RequestIsTrue, CellSame
<1>7. reply[r] \notin CertainCodes
    BY DEF Honest, Final
<1>8. r \notin Cancels => EntriesAreTrue(r)'
    <2> SUFFICES ASSUME r \notin Cancels PROVE EntriesAreTrue(r)'
        OBVIOUS
    <2>1. r \in Submissions \/ r \in Recoveries
        BY DEF Requests
    <2>2. Dispatched(r)' = Dispatched(r)
        BY <2>1 DEF Dispatched, CellSame
    <2> QED
        BY <2>1, <2>2 DEF Honest, EntriesAreTrue, CellSame
<1>9. ReplyIsJournalled(r)'
    BY DEF Honest, ReplyIsJournalled, Last
<1> QED
    BY <1>6, <1>7, <1>8, <1>9 DEF Honest

Known == ApiTypeOK /\ \A r \in Requests : Honest(r)
Kept == ApiTypeOK' /\ \A r \in Requests : Honest(r)'

\* The coroutine's side: its state, its reply, the journal and what is left of the fault budget.
LoopTyped ==
    /\ http \in [Requests -> {"new", "waiting", "answered"}]
    /\ reply \in [Requests -> Replies \cup {None}]
    /\ journal \in [Requests -> Seq(Outcomes)]
    /\ faults \in 0..MaxFaults

ThreadTyped ==
    /\ thread \in [Requests -> {"none", "queued", "server", "response", "result", "done"}]
    /\ result \in [Requests -> Returns \cup {None}]
    /\ signalled \subseteq Requests

DisplayTyped ==
    /\ handles \in [Jobs -> Submissions \cup {None}]
    /\ active \in Jobs \cup {None}

CellTyped ==
    /\ goal \in [Submissions -> {"none", "sent", "executing", "rejected", "done"}]
    /\ answer \in [Submissions -> Codes \cup {None}]
    /\ cancelling \in [Submissions -> BOOLEAN] /\ up \in BOOLEAN
    /\ events \in Seq([started : BOOLEAN, job : Jobs]) /\ told \subseteq Jobs \cup {None}
    /\ ran \in [Submissions -> {"no", "running", "ended"}]
    /\ service \in [Recoveries -> {"idle", "called", "accepted", "refused"}]

AskedTyped == asked \in [Submissions -> {"no", "asked", "accepted", "refused"}]

LEMMA ApiTypes == ApiTypeOK <=> LoopTyped /\ ThreadTyped /\ DisplayTyped /\ CellTyped /\ AskedTyped
BY DEF ApiTypeOK, LoopTyped, ThreadTyped, DisplayTyped, CellTyped, AskedTyped

LEMMA ApiTypesNext ==
    ASSUME LoopTyped', ThreadTyped', DisplayTyped', CellTyped', AskedTyped' PROVE ApiTypeOK'
BY DEF ApiTypeOK, LoopTyped, ThreadTyped, DisplayTyped, CellTyped, AskedTyped

\* The event loop.

\* The entries a step of a coroutine may leave in the journal.
Adds(r, entries) ==
    /\ journal'[r] = entries
    /\ \A q \in Requests \ {r} : journal'[q] = journal[q]
    /\ journal' \in [Requests -> Seq(Outcomes)]
    /\ faults' \in 0..MaxFaults

LEMMA JournalAdds ==
    ASSUME LoopTyped, NEW r \in Requests, NEW outcome \in Outcomes, Journal(r, outcome)
    PROVE  Adds(r, Append(journal[r], outcome))
BY DEF LoopTyped, Journal, Adds

LEMMA FailureAdds ==
    ASSUME LoopTyped, NEW r \in Requests, JournalFails(r)
    PROVE  Adds(r, Append(journal[r], "DENIED")) \/ Adds(r, journal[r])
<1>1. faults \in Nat /\ MaxFaults \in Nat /\ "DENIED" \in Outcomes
    BY DEF LoopTyped, AreRequests, Outcomes
<1>2. faults' \in 0..MaxFaults
    BY <1>1 DEF JournalFails
<1>3. CASE journal' = [journal EXCEPT ![r] = Append(@, "DENIED")]
    BY <1>1, <1>2, <1>3 DEF LoopTyped, Adds
<1>4. CASE journal' = journal
    BY <1>2, <1>4 DEF LoopTyped, Adds
<1> QED
    BY <1>3, <1>4 DEF JournalFails

LEMMA AnswerTyped ==
    ASSUME LoopTyped, NEW r \in Requests, NEW answered \in Replies \cup {None}, Answer(r, answered)
    PROVE  /\ http' \in [Requests -> {"new", "waiting", "answered"}] /\ http'[r] = "answered"
           /\ reply' \in [Requests -> Replies \cup {None}] /\ reply'[r] = answered
           /\ \A q \in Requests \ {r} : http'[q] = http[q] /\ reply'[q] = reply[q]
BY DEF LoopTyped, Answer

\* A new request has left no trace.
LEMMA NewIsBlank ==
    ASSUME Known, NEW r \in Requests, http[r] = "new"
    PROVE  /\ journal[r] = << >> /\ reply[r] = None /\ thread[r] = "none"
           /\ r \in Submissions => goal[r] = "none"
           /\ r \in Recoveries => service[r] = "idle"
           /\ ~Final(r) /\ result[r] \notin CertainCodes
BY DEF Known, Honest, RequestIsTrue, Final

\* What is refused before its thread begins.
LEMMA RefusedKeeps ==
    ASSUME Known, NEW r \in Requests, http[r] = "new",
           NEW answered \in {"denied", "journal"}, Answer(r, answered),
           Adds(r, << >>) \/ Adds(r, <<"DENIED">>),
           UNCHANGED <<goal, answer, cancelling, up, ran, events, told, service>>,
           UNCHANGED <<thread, result, signalled, asked, handles, active>>
    PROVE  Kept
<1>1. LoopTyped /\ ThreadTyped /\ DisplayTyped /\ CellTyped /\ AskedTyped
    BY ApiTypes DEF Known
<1>2. answered \in Replies
    BY DEF Replies
<1>3. /\ http' \in [Requests -> {"new", "waiting", "answered"}] /\ http'[r] = "answered"
      /\ reply' \in [Requests -> Replies \cup {None}] /\ reply'[r] = answered
      /\ \A q \in Requests \ {r} : http'[q] = http[q] /\ reply'[q] = reply[q]
    BY <1>1, <1>2, AnswerTyped
<1>4. ApiTypeOK'
    <2>1. LoopTyped'
        BY <1>3 DEF LoopTyped, Adds
    <2>2. ThreadTyped' /\ DisplayTyped' /\ AskedTyped'
        BY <1>1 DEF ThreadTyped, DisplayTyped, AskedTyped
    <2>3. CellTyped'
        BY <1>1 DEF CellTyped
    <2> QED
        BY <2>1, <2>2, <2>3, ApiTypesNext
<1>5. ASSUME NEW q \in Requests \ {r} PROVE Honest(q)'
    <2>1. RequestSame(q) /\ CellSame(q)
        BY <1>3 DEF RequestSame, CellSame, Adds
    <2> QED
        BY <2>1, OthersKeep DEF Known
<1>6. Honest(r)'
    <2>1. /\ journal[r] = << >> /\ reply[r] = None /\ thread[r] = "none"
          /\ r \in Submissions => goal[r] = "none"
          /\ r \in Recoveries => service[r] = "idle"
          /\ result[r] \notin CertainCodes
        BY NewIsBlank
    <2>2. RequestIsTrue(r)'
        BY <1>3, <2>1 DEF Known, Honest, RequestIsTrue
    <2>3. r \notin Cancels => EntriesAreTrue(r)'
        BY <2>1 DEF Requests, EntriesAreTrue, Dispatched, Adds
    <2>4. ReplyIsJournalled(r)'
        BY <1>3 DEF ReplyIsJournalled
    <2>5. reply'[r] \notin CertainCodes
        BY <1>3 DEF CertainCodes
    <2> QED
        BY <2>2, <2>3, <2>4, <2>5 DEF Honest
<1> QED
    BY <1>4, <1>5, <1>6 DEF Kept

LEMMA DenyKeeps ==
    ASSUME Known, NEW r \in Requests, Deny(r) PROVE Kept
<1>1. http[r] = "new" /\ Answer(r, "denied")
    BY DEF Deny, Arrives
<1>2. LoopTyped
    BY ApiTypes DEF Known
<1>3. journal[r] = << >>
    BY <1>1, NewIsBlank
<1>4. Adds(r, << >>) \/ Adds(r, <<"DENIED">>)
    <2>1. CASE Journal(r, "DENIED")
        <3>1. Adds(r, Append(journal[r], "DENIED"))
            BY <1>2, <2>1, JournalAdds DEF Outcomes
        <3> QED
            BY <1>3, <3>1
    <2>2. CASE faults < MaxFaults /\ faults' = faults + 1 /\ UNCHANGED journal
        BY <1>2, <1>3, <2>2 DEF LoopTyped, Adds, AreRequests
    <2> QED
        BY <2>1, <2>2 DEF Deny
<1>5. /\ UNCHANGED <<goal, answer, cancelling, up, ran, events, told, service>>
      /\ UNCHANGED <<thread, result, signalled, asked, handles, active>>
    BY DEF Deny, cell, gateway, display
<1> QED
    BY <1>1, <1>4, <1>5, RefusedKeeps

LEMMA DispatchKeeps ==
    ASSUME Known, NEW r \in Requests, Dispatch(r) PROVE Kept
<1>1. LoopTyped /\ ThreadTyped /\ DisplayTyped /\ CellTyped /\ AskedTyped
    BY ApiTypes DEF Known
<1>2. /\ UNCHANGED <<goal, answer, cancelling, up, ran, events, told, service>>
      /\ UNCHANGED <<result, signalled, asked, handles, active>>
    BY DEF Dispatch, cell, gateway, display
<1>3. /\ http[r] = "new" /\ journal[r] = << >> /\ reply[r] = None /\ thread[r] = "none"
      /\ r \in Submissions => goal[r] = "none"
      /\ r \in Recoveries => service[r] = "idle"
      /\ ~Final(r) /\ result[r] \notin CertainCodes
    BY NewIsBlank DEF Dispatch, Arrives
<1>4. CASE JournalFails(r) /\ Answer(r, "journal") /\ UNCHANGED thread
    <2>1. Adds(r, Append(journal[r], "DENIED")) \/ Adds(r, journal[r])
        BY <1>1, <1>4, FailureAdds
    <2>2. Adds(r, << >>) \/ Adds(r, <<"DENIED">>)
        BY <1>3, <2>1
    <2> QED
        BY <1>2, <1>3, <1>4, <2>2, RefusedKeeps
<1>5. CASE Journal(r, "REQUESTED") /\ Enqueue(r)
    <2>1. Adds(r, <<"REQUESTED">>)
        <3>1. Adds(r, Append(journal[r], "REQUESTED"))
            BY <1>1, <1>5, JournalAdds DEF Outcomes
        <3> QED
            BY <1>3, <3>1
    <2>2. /\ http' = [http EXCEPT ![r] = "waiting"] /\ thread' = [thread EXCEPT ![r] = "queued"]
          /\ reply' = reply
        BY <1>5 DEF Enqueue
    <2>3. ApiTypeOK'
        <3>1. LoopTyped'
            BY <1>1, <2>1, <2>2 DEF LoopTyped, Adds
        <3>2. ThreadTyped'
            BY <1>1, <1>2, <2>2 DEF ThreadTyped
        <3>3. DisplayTyped' /\ CellTyped' /\ AskedTyped'
            BY <1>1, <1>2 DEF DisplayTyped, CellTyped, AskedTyped
        <3> QED
            BY <3>1, <3>2, <3>3, ApiTypesNext
    <2>4. ASSUME NEW q \in Requests \ {r} PROVE Honest(q)'
        <3>1. RequestSame(q) /\ CellSame(q)
            BY <1>1, <1>2, <2>1, <2>2 DEF RequestSame, CellSame, Adds
        <3> QED
            BY <3>1, OthersKeep DEF Known
    <2>5. Honest(r)'
        <3>1. http'[r] = "waiting" /\ thread'[r] = "queued" /\ journal'[r] = <<"REQUESTED">>
            BY <1>1, <2>1, <2>2 DEF LoopTyped, ThreadTyped, Adds
        <3>2. RequestIsTrue(r)'
            BY <1>2, <1>3, <2>2, <3>1 DEF Known, Honest, RequestIsTrue
        <3>3. r \notin Cancels => EntriesAreTrue(r)'
            BY <1>2, <1>3, <3>1 DEF Requests, EntriesAreTrue, Dispatched
        <3>4. ReplyIsJournalled(r)'
            BY <1>3, <2>2 DEF ReplyIsJournalled
        <3>5. reply'[r] \notin CertainCodes
            BY <1>3, <2>2 DEF AreRequests, Replies, Returns
        <3> QED
            BY <3>2, <3>3, <3>4, <3>5 DEF Honest
    <2> QED
        BY <2>3, <2>4, <2>5 DEF Kept
<1> QED
    BY <1>4, <1>5 DEF Dispatch

\* The entry and the reply of each way a request comes to its end.
Fits(outcome, answered) ==
    outcome = CASE answered = "timeout" -> "TIMED_OUT"
                [] answered = "gone" -> "CANCELLED"
                [] answered \in {"ok", "accepted", "cancel_accepted"} -> "COMPLETED"
                [] OTHER -> "FAILED"

\* A request has its REQUESTED entry and one more.
LEMMA Pairs ==
    ASSUME NEW x, NEW y
    PROVE  /\ Append(<<x>>, y) = <<x, y>>
           /\ <<x>> # << >> /\ Head(<<x>>) = x
           /\ <<x, y>> # << >> /\ Len(<<x, y>>) = 2 /\ Head(<<x, y>>) = x /\ <<x, y>>[2] = y
<1> DEFINE S == {x, y}
<1>1. <<x>> \in Seq(S) /\ <<x, y>> \in Seq(S) /\ y \in S
    OBVIOUS
<1>2. Append(<<x>>, y) = <<x, y>>
    <2> DEFINE a == Append(<<x>>, y)
    <2>1. a \in Seq(S) /\ Len(a) = 2 /\ a[1] = x /\ a[2] = y
        BY <1>1, AppendProperties
    <2>2. Len(<<x, y>>) = 2 /\ <<x, y>>[1] = x /\ <<x, y>>[2] = y
        OBVIOUS
    <2> HIDE DEF a
    <2>3. \A i \in 1..Len(a) : a[i] = <<x, y>>[i]
        BY <2>1, <2>2
    <2>4. a = <<x, y>>
        BY <1>1, <2>1, <2>2, <2>3, SeqEqual
    <2> QED
        BY <2>4 DEF a
<1>3. <<x>> # << >> /\ Head(<<x>>) = x
    OBVIOUS
<1>4. Len(<<x, y>>) = 2 /\ <<x, y>>[2] = y
    OBVIOUS
<1>5. <<x, y>> # << >> /\ Head(<<x, y>>) = x
    OBVIOUS
<1> QED
    BY <1>2, <1>3, <1>4, <1>5

LEMMA ConcludeKeeps ==
    ASSUME Known, NEW r \in Requests, http[r] = "waiting",
           NEW outcome \in Outcomes, NEW answered \in Replies \cup {None},
           Conclude(r, outcome, answered), Taken(r),
           thread' = thread \/ Withdraw(r),
           signalled' \in {signalled, signalled \cup {r}},
           UNCHANGED <<goal, answer, cancelling, up, ran, events, told, service, asked, handles, active>>,
           Fits(outcome, answered),
           answered \in CertainCodes => Final(r),
           outcome = "COMPLETED" /\ r \notin Cancels =>
               IF r \in Submissions THEN answer[r] = "ok" ELSE service[r] = "accepted"
    PROVE  Kept
<1>1. LoopTyped /\ ThreadTyped /\ DisplayTyped /\ CellTyped /\ AskedTyped
    BY ApiTypes DEF Known
<1>2. /\ journal[r] = <<"REQUESTED">> /\ reply[r] = None /\ thread[r] # "none" /\ Honest(r)
    BY DEF Known, Honest, RequestIsTrue
<1>3. PICK end \in Replies \cup {None} :
          /\ Answer(r, end)
          /\ \/ end = answered /\ Adds(r, <<"REQUESTED", outcome>>)
             \/ end = "journal" /\ (Adds(r, <<"REQUESTED">>) \/ Adds(r, <<"REQUESTED", "DENIED">>))
    <2>1. CASE Journal(r, outcome) /\ Answer(r, answered)
        <3>1. Adds(r, Append(journal[r], outcome))
            BY <1>1, <2>1, JournalAdds
        <3>2. Append(journal[r], outcome) = <<"REQUESTED", outcome>>
            BY <1>2, Pairs
        <3> QED
            BY <2>1, <3>1, <3>2
    <2>2. CASE JournalFails(r) /\ Answer(r, "journal")
        <3>1. Adds(r, Append(journal[r], "DENIED")) \/ Adds(r, journal[r])
            BY <1>1, <2>2, FailureAdds
        <3>2. Append(journal[r], "DENIED") = <<"REQUESTED", "DENIED">>
            BY <1>2, Pairs
        <3>3. "journal" \in Replies
            BY DEF Replies
        <3> QED
            BY <1>2, <2>2, <3>1, <3>2, <3>3
    <2> QED
        BY <2>1, <2>2 DEF Conclude
<1>4. /\ http' \in [Requests -> {"new", "waiting", "answered"}] /\ http'[r] = "answered"
      /\ reply' \in [Requests -> Replies \cup {None}] /\ reply'[r] = end
      /\ \A q \in Requests \ {r} : http'[q] = http[q] /\ reply'[q] = reply[q]
    BY <1>1, <1>3, AnswerTyped
<1>5. /\ journal' \in [Requests -> Seq(Outcomes)] /\ faults' \in 0..MaxFaults
      /\ \A q \in Requests \ {r} : journal'[q] = journal[q]
      /\ \/ end = answered /\ journal'[r] = <<"REQUESTED", outcome>>
         \/ end = "journal" /\ journal'[r] = <<"REQUESTED">>
         \/ end = "journal" /\ journal'[r] = <<"REQUESTED", "DENIED">>
    BY <1>3 DEF Adds
<1>6. /\ result' \in [Requests -> Returns \cup {None}] /\ result'[r] = None
      /\ \A q \in Requests \ {r} : result'[q] = result[q]
    BY <1>1 DEF ThreadTyped, Taken
<1>7. /\ thread' \in [Requests -> {"none", "queued", "server", "response", "result", "done"}]
      /\ thread'[r] = thread[r] \/ (thread[r] = "queued" /\ thread'[r] = "done")
      /\ \A q \in Requests \ {r} : thread'[q] = thread[q]
    BY <1>1 DEF ThreadTyped, Withdraw
<1>8. ApiTypeOK'
    <2>1. LoopTyped'
        BY <1>4, <1>5 DEF LoopTyped
    <2>2. ThreadTyped'
        BY <1>1, <1>6, <1>7 DEF ThreadTyped
    <2>3. DisplayTyped' /\ CellTyped' /\ AskedTyped'
        BY <1>1 DEF DisplayTyped, CellTyped, AskedTyped
    <2> QED
        BY <2>1, <2>2, <2>3, ApiTypesNext
<1>9. ASSUME NEW q \in Requests \ {r} PROVE Honest(q)'
    <2>1. RequestSame(q) /\ CellSame(q)
        BY <1>4, <1>5, <1>6, <1>7 DEF RequestSame, CellSame
    <2> QED
        BY <2>1, OthersKeep DEF Known
<1>10. Honest(r)'
    <2>1. None \notin CertainCodes /\ None \notin {"ok", "accepted", "cancel_accepted"}
        BY DEF AreRequests, Replies, Returns, CertainCodes
    <2>0. journal'[r] # << >> /\ Head(journal'[r]) = "REQUESTED"
        <3>1. CASE journal'[r] = <<"REQUESTED">>
            BY <3>1, Pairs
        <3>2. CASE journal'[r] = <<"REQUESTED", outcome>>
            BY <3>2, Pairs
        <3>3. CASE journal'[r] = <<"REQUESTED", "DENIED">>
            BY <3>3, Pairs
        <3> QED
            BY <1>5, <3>1, <3>2, <3>3
    <2>2. RequestIsTrue(r)'
        BY <1>2, <1>4, <1>6, <1>7, <2>0, <2>1 DEF Honest, RequestIsTrue
    <2>3. r \notin Cancels => EntriesAreTrue(r)'
        BY <1>5 DEF Requests, EntriesAreTrue, Dispatched
    <2>4. ReplyIsJournalled(r)'
        <3>1. CASE end = answered /\ journal'[r] = <<"REQUESTED", outcome>>
            <4>1. /\ Len(journal'[r]) = 2 /\ Head(journal'[r]) = "REQUESTED"
                  /\ Last(journal'[r]) = outcome
                BY <3>1, Pairs DEF Last
            <4> QED
                BY <1>4, <3>1, <4>1 DEF ReplyIsJournalled, Fits
        <3>2. CASE end = "journal"
            BY <1>4, <3>2 DEF ReplyIsJournalled
        <3> QED
            BY <1>5, <3>1, <3>2
    <2>5. reply'[r] \in CertainCodes => Final(r)'
        <3>1. end \in CertainCodes => end = answered /\ Final(r)
            BY <1>5 DEF CertainCodes
        <3> QED
            BY <1>4, <1>7, <3>1 DEF Final
    <2> QED
        BY <2>2, <2>3, <2>4, <2>5 DEF Honest
<1> QED
    BY <1>8, <1>9, <1>10 DEF Kept

LEMMA CompleteKeeps ==
    ASSUME Known, NEW r \in Requests, Complete(r) PROVE Kept
<1> DEFINE outcome == IF result[r] \in {"ok", "accepted", "cancel_accepted"} THEN "COMPLETED" ELSE "FAILED"
<1>1. /\ http[r] = "waiting" /\ Conclude(r, outcome, result[r]) /\ Taken(r) /\ thread' = thread
      /\ signalled' = signalled
      /\ UNCHANGED <<goal, answer, cancelling, up, ran, events, told, service, asked, handles, active>>
    BY DEF Complete, cell, gateway, display
<1>2. ThreadTyped /\ Honest(r)
    BY ApiTypes DEF Known
<1>3. result[r] \in Replies \cup {None} /\ outcome \in Outcomes
    BY <1>2 DEF ThreadTyped, Replies, Outcomes
<1>4. result[r] \in CertainCodes => Final(r)
    BY <1>2 DEF Honest, RequestIsTrue
<1>5. Fits(outcome, result[r])
    <2>1. result[r] # "timeout" /\ result[r] # "gone"
        <3>1. None # "timeout" /\ None # "gone"
            BY DEF AreRequests, Replies
        <3> QED
            BY <1>2, <3>1 DEF ThreadTyped, Returns, CertainCodes
    <2> QED
        BY <2>1 DEF Fits
<1>6. outcome = "COMPLETED" /\ r \notin Cancels =>
          IF r \in Submissions THEN answer[r] = "ok" ELSE service[r] = "accepted"
    BY <1>2 DEF Honest, RequestIsTrue, AreRequests
<1> HIDE DEF outcome
<1> QED
    BY <1>1, <1>3, <1>4, <1>5, <1>6, ConcludeKeeps

LEMMA GiveUpKeeps ==
    ASSUME Known, NEW r \in Requests, Timeout(r) \/ Abandon(r) PROVE Kept
<1>1. /\ http[r] = "waiting" /\ Taken(r) /\ Withdraw(r) /\ signalled' = signalled \cup {r}
      /\ UNCHANGED <<goal, answer, cancelling, up, ran, events, told, service, asked, handles, active>>
    BY DEF Timeout, Abandon, cell, gateway, display
<1>2. {"timeout", "gone"} \subseteq Replies /\ {"TIMED_OUT", "CANCELLED"} \subseteq Outcomes
    BY DEF Replies, Outcomes
<1>3. "timeout" \notin CertainCodes /\ "gone" \notin CertainCodes
    BY DEF CertainCodes
<1>4. Fits("TIMED_OUT", "timeout") /\ Fits("CANCELLED", "gone")
    BY DEF Fits
<1>5. CASE Conclude(r, "TIMED_OUT", "timeout")
    BY <1>1, <1>2, <1>3, <1>4, <1>5, ConcludeKeeps
<1>6. CASE Conclude(r, "CANCELLED", "gone")
    BY <1>1, <1>2, <1>3, <1>4, <1>6, ConcludeKeeps
<1> QED
    BY <1>5, <1>6 DEF Timeout, Abandon

\* The worker threads.

\* A thread step leaves the coroutines alone, and moves one thread.
Moves(r) ==
    /\ http' = http /\ reply' = reply /\ journal' = journal /\ faults' = faults
    /\ \A q \in Requests \ {r} : thread'[q] = thread[q] /\ result'[q] = result[q]
    /\ ThreadTyped'

LEMMA ReturnMoves ==
    ASSUME ApiTypeOK, NEW r \in Requests, NEW answered \in Returns, Return(r, answered),
           UNCHANGED <<http, reply, journal, faults, signalled>>
    PROVE  Moves(r)
BY DEF ApiTypeOK, Moves, ThreadTyped, Return

LEMMA ProceedMoves ==
    ASSUME ApiTypeOK, NEW r \in Requests, NEW point \in {"server", "response", "result"},
           Proceed(r, point), UNCHANGED <<http, reply, journal, faults, signalled>>
    PROVE  Moves(r) /\ thread'[r] = point /\ result'[r] = result[r]
BY DEF ApiTypeOK, Moves, ThreadTyped, Proceed

\* What every thread step has in common.
LEMMA MoveKeeps ==
    ASSUME Known, NEW r \in Requests, Moves(r),
           DisplayTyped', CellTyped', AskedTyped',
           \A q \in Requests \ {r} : CellSame(q), Honest(r)'
    PROVE  Kept
<1>1. LoopTyped /\ ThreadTyped
    BY ApiTypes DEF Known
<1>2. ApiTypeOK'
    <2>1. LoopTyped'
        BY <1>1 DEF LoopTyped, Moves
    <2> QED
        BY <2>1, ApiTypesNext DEF Moves
<1>3. ASSUME NEW q \in Requests \ {r} PROVE Honest(q)'
    <2>1. RequestSame(q) /\ CellSame(q)
        BY DEF Moves, RequestSame
    <2> QED
        BY <2>1, OthersKeep DEF Known
<1> QED
    BY <1>2, <1>3 DEF Kept

\* A thread that goes on to its next wait without touching the cell.
LEMMA ProceedKeeps ==
    ASSUME Known, NEW r \in Requests, NEW point \in {"server", "response", "result"},
           Proceed(r, point), UNCHANGED <<http, reply, journal, faults, signalled>>,
           UNCHANGED <<goal, answer, cancelling, up, ran, events, told, service>>,
           DisplayTyped', AskedTyped', thread[r] \notin {"none", "done"},
           r \in Submissions => goal[r] = "none" \/ point # "server",
           r \in Recoveries => service[r] = "idle" /\ point # "result"
    PROVE  Kept
<1>1. Moves(r) /\ thread'[r] = point /\ result'[r] = result[r]
    BY ProceedMoves DEF Known
<1>2. CellTyped'
    BY ApiTypes DEF Known, CellTyped
<1>3. ASSUME NEW q \in Requests PROVE CellSame(q)
    BY DEF CellSame
<1>4. Honest(r)'
    <2>1. Honest(r) /\ ~Final(r)
        BY DEF Known, Final
    <2>2. RequestIsTrue(r)'
        BY <1>1, <2>1 DEF Honest, RequestIsTrue
    <2>3. r \notin Cancels => EntriesAreTrue(r)'
        <3> SUFFICES ASSUME r \notin Cancels PROVE EntriesAreTrue(r)'
            OBVIOUS
        <3>1. Dispatched(r)' = Dispatched(r)
            BY DEF Requests, Dispatched
        <3> QED
            BY <2>1, <3>1 DEF Honest, EntriesAreTrue
    <2>4. ReplyIsJournalled(r)'
        BY <2>1 DEF Honest, ReplyIsJournalled, Last
    <2>5. reply'[r] \notin CertainCodes
        BY <2>1 DEF Honest
    <2> QED
        BY <2>2, <2>3, <2>4, <2>5 DEF Honest
<1> QED
    BY <1>1, <1>2, <1>3, <1>4, MoveKeeps

\* A thread that returns.
LEMMA ThreadReturns ==
    ASSUME Known, NEW r \in Requests, NEW answered \in Returns, Return(r, answered),
           UNCHANGED <<http, reply, journal, faults, signalled>>,
           UNCHANGED <<goal, answer, cancelling, up, ran, events, told, service>>,
           DisplayTyped', AskedTyped', thread[r] \notin {"none", "done"},
           answered \in CertainCodes =>
               /\ r \in Submissions => goal[r] \notin {"sent", "executing"}
               /\ r \in Recoveries => service[r] # "called",
           answered = "ok" => r \in Submissions /\ answer[r] = "ok",
           answered = "accepted" => r \in Recoveries /\ service[r] = "accepted",
           answered = "cancel_accepted" => r \in Cancels
    PROVE  Kept
<1>1. Moves(r)
    BY ReturnMoves DEF Known
<1>2. CellTyped'
    BY ApiTypes DEF Known, CellTyped
<1>3. ASSUME NEW q \in Requests PROVE CellSame(q)
    BY DEF CellSame
<1>4. Honest(r)'
    BY <1>3, ReturnKeeps DEF Known
<1> QED
    BY <1>1, <1>2, <1>3, <1>4, MoveKeeps

\* Where a thread stands, the cell knows no more than what it has sent.
LEMMA ThreadKnows ==
    ASSUME Known, NEW r \in Requests
    PROVE  /\ thread[r] \in {"queued", "server"} =>
                  /\ r \in Submissions => goal[r] = "none"
                  /\ r \in Recoveries => service[r] = "idle"
           /\ r \in Recoveries => thread[r] # "result"
           /\ r \in Submissions /\ goal[r] = "done" => answer[r] \in Codes
<1>1. Honest(r) /\ CellTyped
    BY ApiTypes DEF Known
<1>2. r \in Submissions => answer[r] \in Codes \cup {None}
    BY <1>1 DEF CellTyped
<1> QED
    BY <1>1, <1>2 DEF Honest, RequestIsTrue

LEMMA SameDisplay ==
    ASSUME Known, UNCHANGED <<handles, active>> PROVE DisplayTyped'
BY ApiTypes DEF Known, DisplayTyped

LEMMA SameAsked ==
    ASSUME Known, UNCHANGED asked PROVE AskedTyped'
BY ApiTypes DEF Known, AskedTyped

LEMMA StartThreadKeeps ==
    ASSUME Known, NEW r \in Requests, StartThread(r) PROVE Kept
<1>1. /\ thread[r] = "queued" /\ UNCHANGED <<http, reply, journal, faults, signalled>>
      /\ UNCHANGED <<goal, answer, cancelling, up, ran, events, told, service, handles, active>>
    BY DEF StartThread, cell, gateway, coroutines, display
<1>2. /\ r \in Submissions => goal[r] = "none"
      /\ r \in Recoveries => service[r] = "idle"
    BY <1>1, ThreadKnows
<1>3. DisplayTyped' /\ DisplayTyped
    BY <1>1, SameDisplay, ApiTypes DEF Known
<1>4. CASE r \notin Cancels /\ Proceed(r, "server") /\ UNCHANGED asked
    BY <1>1, <1>2, <1>3, <1>4, ProceedKeeps, SameAsked
<1>5. CASE Return(r, "not_active") /\ UNCHANGED asked
    <2>1. "not_active" \in Returns
        BY DEF Returns, CertainCodes
    <2> QED
        BY <1>1, <1>2, <1>3, <1>5, <2>1, ThreadReturns, SameAsked
<1>6. CASE /\ r \in Cancels /\ handles[JobOf[r]] # None /\ Proceed(r, "response")
           /\ asked' = [asked EXCEPT ![handles[JobOf[r]]] = IF @ = "no" THEN "asked" ELSE @]
    <2>1. r \notin Submissions /\ r \notin Recoveries
        BY <1>6 DEF AreRequests
    <2>2. AskedTyped'
        BY ApiTypes, <1>6 DEF Known, AskedTyped
    <2> QED
        BY <1>1, <1>3, <1>6, <2>1, <2>2, ProceedKeeps
<1> QED
    BY <1>4, <1>5, <1>6 DEF StartThread

LEMMA GiveUpWaitKeeps ==
    ASSUME Known, NEW r \in Requests, GiveUpServer(r) \/ GiveUpResponse(r)
    PROVE  Kept
<1>1. /\ UNCHANGED <<http, reply, journal, faults, signalled>>
      /\ UNCHANGED <<goal, answer, cancelling, up, ran, events, told, service, handles, active>>
      /\ UNCHANGED asked
    BY DEF GiveUpServer, GiveUpResponse, cell, gateway, coroutines, display
<1>2. DisplayTyped' /\ AskedTyped'
    BY <1>1, SameDisplay, SameAsked
<1>3. {"unavailable", "failure", "unknown"} \subseteq Returns
    BY DEF Returns, CertainCodes
<1>4. "failure" \notin CertainCodes /\ "unknown" \notin CertainCodes
    BY DEF CertainCodes
<1>5. CASE thread[r] = "server" /\ Return(r, "unavailable")
    <2>1. /\ r \in Submissions => goal[r] = "none"
          /\ r \in Recoveries => service[r] = "idle"
        BY <1>5, ThreadKnows
    <2> QED
        BY <1>1, <1>2, <1>3, <1>5, <2>1, ThreadReturns
<1>6. CASE thread[r] = "server" /\ Return(r, "failure")
    BY <1>1, <1>2, <1>3, <1>4, <1>6, ThreadReturns
<1>7. CASE thread[r] = "response" /\ Return(r, "unknown")
    BY <1>1, <1>2, <1>3, <1>4, <1>7, ThreadReturns
<1> QED
    BY <1>5, <1>6, <1>7 DEF GiveUpServer, GiveUpResponse

\* A thread that hands its request to the cell.
LEMMA SubmitKeeps ==
    ASSUME Known, NEW s \in Submissions, SendGoal(s) PROVE Kept
<1>1. /\ thread[s] = "server" /\ Proceed(s, "response") /\ Gateway!Submit(s)
      /\ UNCHANGED <<http, reply, journal, faults, signalled>>
      /\ UNCHANGED <<ran, events, told, service, handles, active, asked>>
    BY DEF SendGoal, coroutines, display
<1>2. s \in Requests /\ s \notin Cancels /\ s \notin Recoveries
    BY DEF Requests, AreRequests
<1>3. Moves(s) /\ thread'[s] = "response" /\ result'[s] = result[s]
    BY <1>1, <1>2, ProceedMoves DEF Known
<1>4. CellTyped
    BY ApiTypes DEF Known
<1>5. /\ goal' = [goal EXCEPT ![s] = "sent"] /\ answer' = answer
      /\ cancelling' = cancelling /\ up' = up /\ goal[s] = "none"
    BY <1>1 DEF Gateway!Submit
<1>6. goal'[s] = "sent"
    BY <1>4, <1>5 DEF CellTyped
<1>7. CellTyped'
    BY <1>1, <1>4, <1>5 DEF CellTyped
<1>8. ASSUME NEW q \in Requests \ {s} PROVE CellSame(q)
    BY <1>1, <1>4, <1>5 DEF CellSame, CellTyped
<1>9. DisplayTyped' /\ AskedTyped'
    BY <1>1, SameDisplay, SameAsked
<1>10. Honest(s)'
    <2>1. Honest(s) /\ ~Final(s)
        BY <1>1, <1>2 DEF Known, Final
    <2>2. RequestIsTrue(s)'
        BY <1>1, <1>2, <1>3, <1>5, <1>6, <2>1 DEF Honest, RequestIsTrue
    <2>3. EntriesAreTrue(s)'
        BY <1>1, <1>2, <1>5, <2>1 DEF Honest, EntriesAreTrue, RequestIsTrue
    <2>4. ReplyIsJournalled(s)'
        BY <1>1, <2>1 DEF Honest, ReplyIsJournalled, Last
    <2>5. reply'[s] \notin CertainCodes
        BY <1>1, <2>1 DEF Honest
    <2> QED
        BY <2>2, <2>3, <2>4, <2>5 DEF Honest
<1> QED
    BY <1>2, <1>3, <1>7, <1>8, <1>9, <1>10, MoveKeeps

LEMMA CallServiceKeeps ==
    ASSUME Known, NEW r \in Recoveries, CallService(r) PROVE Kept
<1>1. /\ thread[r] = "server" /\ Proceed(r, "response")
      /\ UNCHANGED <<http, reply, journal, faults, signalled>>
      /\ UNCHANGED <<goal, answer, cancelling, up, ran, events, told, handles, active, asked>>
      /\ service' = [service EXCEPT ![r] = "called"]
    BY DEF CallService, coroutines, gateway, display
<1>2. r \in Requests /\ r \notin Cancels /\ r \notin Submissions
    BY DEF Requests, AreRequests
<1>3. Moves(r) /\ thread'[r] = "response" /\ result'[r] = result[r]
    BY <1>1, <1>2, ProceedMoves DEF Known
<1>4. CellTyped
    BY ApiTypes DEF Known
<1>5. CellTyped' /\ service'[r] = "called"
    BY <1>1, <1>4 DEF CellTyped
<1>6. service[r] = "idle"
    BY <1>1, <1>2, ThreadKnows
<1>7. ASSUME NEW q \in Requests \ {r} PROVE CellSame(q)
    BY <1>1, <1>4 DEF CellSame, CellTyped
<1>8. DisplayTyped' /\ AskedTyped'
    BY <1>1, SameDisplay, SameAsked
<1>9. Honest(r)'
    <2>1. Honest(r) /\ ~Final(r)
        BY <1>1, <1>2 DEF Known, Final
    <2>2. RequestIsTrue(r)'
        BY <1>1, <1>2, <1>3, <1>5, <1>6, <2>1 DEF Honest, RequestIsTrue
    <2>3. EntriesAreTrue(r)'
        BY <1>1, <1>2, <1>5, <1>6, <2>1 DEF Honest, EntriesAreTrue, RequestIsTrue
    <2>4. ReplyIsJournalled(r)'
        BY <1>1, <2>1 DEF Honest, ReplyIsJournalled, Last
    <2>5. reply'[r] \notin CertainCodes
        BY <1>1, <2>1 DEF Honest
    <2> QED
        BY <2>2, <2>3, <2>4, <2>5 DEF Honest
<1> QED
    BY <1>2, <1>3, <1>5, <1>7, <1>8, <1>9, MoveKeeps

LEMMA AwaitResponseKeeps ==
    ASSUME Known, NEW s \in Submissions, AwaitResponse(s) PROVE Kept
<1>1. /\ thread[s] = "response"
      /\ UNCHANGED <<http, reply, journal, faults, signalled>>
      /\ UNCHANGED <<goal, answer, cancelling, up, ran, events, told, service>>
      /\ UNCHANGED asked
    BY DEF AwaitResponse, cell, gateway, coroutines
<1>2. s \in Requests /\ s \notin Cancels /\ s \notin Recoveries
    BY DEF Requests, AreRequests
<1>3. AskedTyped'
    BY <1>1, SameAsked
<1>4. CASE goal[s] = "rejected" /\ Return(s, "rejected") /\ UNCHANGED <<handles, active>>
    <2>1. "rejected" \in Returns
        BY DEF Returns, CertainCodes
    <2>2. DisplayTyped'
        BY <1>4, SameDisplay
    <2> QED
        BY <1>1, <1>2, <1>3, <1>4, <2>1, <2>2, ThreadReturns
<1>5. CASE /\ handles' = [handles EXCEPT ![JobOf[s]] = s] /\ active' = JobOf[s]
           /\ Proceed(s, "result")
    <2>1. JobOf[s] \in Jobs
        BY DEF Jobs
    <2>2. DisplayTyped'
        BY <1>5, <2>1, ApiTypes DEF Known, DisplayTyped
    <2> QED
        BY <1>1, <1>2, <1>3, <1>5, <2>2, ProceedKeeps
<1> QED
    BY <1>4, <1>5 DEF AwaitResponse, display

LEMMA TakeResultKeeps ==
    ASSUME Known, NEW s \in Submissions, TakeResult(s) PROVE Kept
<1>1. /\ thread[s] = "result" /\ goal[s] = "done" /\ Return(s, answer[s])
      /\ handles' = [handles EXCEPT ![JobOf[s]] = None] /\ active' = active
      /\ UNCHANGED <<http, reply, journal, faults, signalled>>
      /\ UNCHANGED <<goal, answer, cancelling, up, ran, events, told, service>>
      /\ UNCHANGED asked
    BY DEF TakeResult, cell, gateway, coroutines
<1>2. s \in Requests /\ s \notin Cancels /\ s \notin Recoveries
    BY DEF Requests, AreRequests
<1>3. answer[s] \in {"ok", "failed", "cancelled", "unknown"}
    BY <1>1, <1>2, ThreadKnows DEF AreRequests
<1>4. answer[s] \in Returns
    BY <1>3 DEF Returns, CertainCodes
<1>5. DisplayTyped' /\ AskedTyped'
    BY <1>1, ApiTypes, SameAsked DEF Known, DisplayTyped
<1> QED
    BY <1>1, <1>2, <1>3, <1>4, <1>5, ThreadReturns

LEMMA RequestCancelKeeps ==
    ASSUME Known, NEW s \in Submissions, RequestCancel(s) PROVE Kept
<1>1. /\ thread[s] = "result" /\ Return(s, "cancel_requested")
      /\ asked' = [asked EXCEPT ![s] = IF @ = "no" THEN "asked" ELSE @]
      /\ UNCHANGED <<http, reply, journal, faults, signalled>>
      /\ UNCHANGED <<goal, answer, cancelling, up, ran, events, told, service, handles, active>>
    BY DEF RequestCancel, cell, gateway, coroutines, display
<1>2. s \in Requests
    BY DEF Requests
<1>3. "cancel_requested" \in Returns /\ "cancel_requested" \notin CertainCodes
    BY DEF Returns, CertainCodes
<1>4. AskedTyped'
    BY <1>1, ApiTypes DEF Known, AskedTyped
<1>5. DisplayTyped'
    BY <1>1, SameDisplay
<1> QED
    BY <1>1, <1>2, <1>3, <1>4, <1>5, ThreadReturns

LEMMA AwaitCancelKeeps ==
    ASSUME Known, NEW c \in Cancels, AwaitCancel(c) PROVE Kept
<1>1. /\ thread[c] = "response"
      /\ UNCHANGED <<http, reply, journal, faults, signalled>>
      /\ UNCHANGED <<goal, answer, cancelling, up, ran, events, told, service, handles, active>>
      /\ UNCHANGED asked
    BY DEF AwaitCancel, cell, gateway, coroutines, display
<1>2. c \in Requests
    BY DEF Requests
<1>3. {"cancel_accepted", "cancel_rejected"} \subseteq Returns
    BY DEF Returns
<1>4. "cancel_accepted" \notin CertainCodes /\ "cancel_rejected" \notin CertainCodes
    BY DEF CertainCodes
<1>5. DisplayTyped' /\ AskedTyped'
    BY <1>1, SameDisplay, SameAsked
<1>6. CASE Return(c, "cancel_accepted")
    BY <1>1, <1>2, <1>3, <1>4, <1>5, <1>6, ThreadReturns
<1>7. CASE Return(c, "cancel_rejected")
    BY <1>1, <1>2, <1>3, <1>4, <1>5, <1>7, ThreadReturns
<1> QED
    BY <1>6, <1>7 DEF AwaitCancel

LEMMA AwaitServiceKeeps ==
    ASSUME Known, NEW r \in Recoveries, AwaitService(r) PROVE Kept
<1>1. /\ thread[r] = "response" /\ service[r] \in {"accepted", "refused"} /\ Return(r, service[r])
      /\ UNCHANGED <<http, reply, journal, faults, signalled>>
      /\ UNCHANGED <<goal, answer, cancelling, up, ran, events, told, service, handles, active>>
      /\ UNCHANGED asked
    BY DEF AwaitService, cell, gateway, coroutines, display
<1>2. r \in Requests /\ r \notin Submissions
    BY DEF Requests, AreRequests
<1>3. service[r] \in Returns
    BY <1>1 DEF Returns, CertainCodes
<1>4. DisplayTyped' /\ AskedTyped'
    BY <1>1, SameDisplay, SameAsked
<1> QED
    BY <1>1, <1>2, <1>3, <1>4, ThreadReturns

LEMMA ThreadStepKeeps ==
    ASSUME Known, NEW r \in Requests, ThreadStep(r) PROVE Kept
<1>1. CASE StartThread(r) \/ GiveUpServer(r) \/ GiveUpResponse(r)
    BY <1>1, StartThreadKeeps, GiveUpWaitKeeps
<1>2. CASE r \in Submissions /\ (SendGoal(r) \/ AwaitResponse(r) \/ TakeResult(r) \/ RequestCancel(r))
    <2>1. CASE SendGoal(r)
        BY <1>2, <2>1, SubmitKeeps
    <2>2. CASE AwaitResponse(r)
        BY <1>2, <2>2, AwaitResponseKeeps
    <2>3. CASE TakeResult(r)
        BY <1>2, <2>3, TakeResultKeeps
    <2>4. CASE RequestCancel(r)
        BY <1>2, <2>4, RequestCancelKeeps
    <2> QED
        BY <1>2, <2>1, <2>2, <2>3, <2>4
<1>3. CASE r \in Cancels /\ AwaitCancel(r)
    BY <1>3, AwaitCancelKeeps
<1>4. CASE r \in Recoveries /\ (CallService(r) \/ AwaitService(r))
    BY <1>4, CallServiceKeeps, AwaitServiceKeeps
<1> QED
    BY <1>1, <1>2, <1>3, <1>4 DEF ThreadStep

\* The subscriptions and the cell.

\* A step of the cell, or of a subscription, leaves coroutines and threads alone.  Whatever it
\* does to a request happens to one that is not final.
Beside ==
    /\ http' = http /\ reply' = reply /\ journal' = journal /\ faults' = faults
    /\ thread' = thread /\ result' = result /\ signalled' = signalled

CellMoves(r) ==
    /\ ~Final(r)
    /\ r \in Submissions =>
          /\ goal'[r] = "none" <=> goal[r] = "none"
          /\ goal'[r] = "done" <=> answer'[r] # None
          /\ ran'[r] = "running" => goal'[r] = "executing"
          /\ answer[r] = answer'[r] \/ answer[r] = None
    /\ r \in Recoveries =>
          /\ service'[r] = "idle" <=> service[r] = "idle"
          /\ service[r] # "accepted"

LEMMA CellKeeps ==
    ASSUME Known, Beside, DisplayTyped', CellTyped', AskedTyped',
           \A r \in Requests : CellSame(r) \/ CellMoves(r)
    PROVE  Kept
<1>1. LoopTyped /\ ThreadTyped
    BY ApiTypes DEF Known
<1>2. ApiTypeOK'
    <2>1. LoopTyped' /\ ThreadTyped'
        BY <1>1 DEF LoopTyped, ThreadTyped, Beside
    <2> QED
        BY <2>1, ApiTypesNext
<1>3. ASSUME NEW r \in Requests, CellSame(r) PROVE Honest(r)'
    <2>1. RequestSame(r)
        BY DEF Beside, RequestSame
    <2> QED
        BY <1>3, <2>1, OthersKeep DEF Known
<1>4. ASSUME NEW r \in Requests, CellMoves(r) PROVE Honest(r)'
    <2>1. Honest(r) /\ ~Final(r)
        BY <1>4 DEF Known, CellMoves
    <2>2. None # "ok"
        BY DEF AreRequests, Replies, Returns, CertainCodes
    <2>3. result[r] \notin CertainCodes /\ reply[r] \notin CertainCodes
        BY <2>1 DEF Honest, RequestIsTrue
    <2>4. result[r] # "ok" /\ result[r] # "accepted"
        BY <2>3 DEF CertainCodes
    <2>5. RequestIsTrue(r)'
        BY <1>4, <2>1, <2>3, <2>4 DEF Honest, RequestIsTrue, Beside, CellMoves
    <2>6. r \notin Cancels => EntriesAreTrue(r)'
        <3> SUFFICES ASSUME r \notin Cancels PROVE EntriesAreTrue(r)'
            OBVIOUS
        <3>1. r \in Submissions \/ (r \in Recoveries /\ r \notin Submissions)
            BY DEF Requests, AreRequests
        <3>2. Dispatched(r)' = Dispatched(r)
            BY <1>4, <3>1 DEF Dispatched, CellMoves
        <3>3. (\E i \in DOMAIN journal[r] : journal[r][i] = "COMPLETED") => r \in Submissions /\ answer'[r] = "ok"
            BY <1>4, <2>1, <2>2, <3>1 DEF Honest, EntriesAreTrue, CellMoves
        <3> QED
            BY <2>1, <3>2, <3>3 DEF Honest, EntriesAreTrue, Beside
    <2>7. ReplyIsJournalled(r)'
        BY <2>1 DEF Honest, ReplyIsJournalled, Last, Beside
    <2> QED
        BY <2>3, <2>5, <2>6, <2>7 DEF Honest, Beside
<1> QED
    BY <1>2, <1>3, <1>4 DEF Kept

LEMMA SubscriptionKeeps ==
    ASSUME Known, OnShownState \/ OnJobEvent \/ CellStatePublished \/ UNCHANGED apiVars
    PROVE  Kept
<1>1. /\ Beside
      /\ UNCHANGED <<goal, answer, cancelling, up, ran, service, handles, asked>>
    BY DEF OnShownState, OnJobEvent, CellStatePublished, Beside, apiVars, cell, gateway,
           coroutines, display, Untouched
<1>2. DisplayTyped /\ CellTyped
    BY ApiTypes DEF Known
<1>3. /\ active' \in Jobs \cup {None} /\ told' \subseteq Jobs \cup {None}
      /\ events' \in Seq([started : BOOLEAN, job : Jobs])
    <2>1. CASE OnShownState
        BY <1>2, <2>1 DEF OnShownState, DisplayTyped, CellTyped
    <2>2. CASE OnJobEvent
        <3>1. Head(events) \in [started : BOOLEAN, job : Jobs]
              /\ Tail(events) \in Seq([started : BOOLEAN, job : Jobs])
            <4> DEFINE S == [started : BOOLEAN, job : Jobs]
            <4>1. events \in Seq(S) /\ events # << >>
                BY <1>2, <2>2 DEF OnJobEvent, CellTyped
            <4> HIDE DEF S
            <4>2. Head(events) \in S /\ Tail(events) \in Seq(S)
                BY <4>1
            <4> QED
                BY <4>2 DEF S
        <3>2. Head(events).job \in Jobs
            BY <3>1
        <3> QED
            BY <1>2, <2>2, <3>1, <3>2 DEF OnJobEvent, DisplayTyped, CellTyped
    <2>3. CASE CellStatePublished
        <3>1. \A s \in Running : JobOf[s] \in Jobs
            BY DEF Running, Jobs
        <3> QED
            BY <1>2, <2>3, <3>1 DEF CellStatePublished, Untouched, display, DisplayTyped, CellTyped
    <2>4. CASE UNCHANGED apiVars
        BY <1>2, <2>4 DEF apiVars, cell, display, DisplayTyped, CellTyped
    <2> QED
        BY <2>1, <2>2, <2>3, <2>4
<1>4. DisplayTyped' /\ CellTyped' /\ AskedTyped'
    BY <1>1, <1>2, <1>3, SameAsked DEF DisplayTyped, CellTyped
<1>5. ASSUME NEW r \in Requests PROVE CellSame(r)
    BY <1>1 DEF CellSame
<1> QED
    BY <1>1, <1>4, <1>5, CellKeeps

\* What the invariant knows of a submission's goal.
LEMMA GoalKnown ==
    ASSUME Known, NEW s \in Submissions
    PROVE  /\ s \in Requests
           /\ goal[s] = "done" <=> answer[s] # None
           /\ ran[s] = "running" => goal[s] = "executing"
           /\ goal[s] \in {"sent", "executing"} => ~Final(s)
<1>1. s \in Requests
    BY DEF Requests
<1> QED
    BY <1>1 DEF Known, Honest, RequestIsTrue, Final

LEMMA GatewayKeeps ==
    ASSUME Known, NEW s \in Submissions,
           \/ GatewayAccepts(s)
           \/ CancelArrives(s)
           \/ \E c \in Codes : GatewayAnswers(s, c)
    PROVE  Kept
<1>1. Beside /\ UNCHANGED <<ran, events, told, service, handles, active>>
    BY DEF GatewayAccepts, CancelArrives, GatewayAnswers, Beside, Untouched, coroutines, display
<1>2. CellTyped /\ AskedTyped
    BY ApiTypes DEF Known
<1>3. DisplayTyped'
    BY <1>1, SameDisplay
<1>4. None \notin Codes
    BY DEF AreRequests, Replies, Returns, CertainCodes
<1>5. s \notin Recoveries
    BY DEF AreRequests
<1>6. CASE GatewayAccepts(s)
    <2>1. /\ goal[s] = "sent" /\ UNCHANGED <<answer, cancelling, up, asked>>
          /\ \/ goal' = [goal EXCEPT ![s] = "executing"]
             \/ goal' = [goal EXCEPT ![s] = "rejected"]
        BY <1>6 DEF GatewayAccepts, Gateway!Accept, Gateway!Reject
    <2>2. /\ goal' \in [Submissions -> {"none", "sent", "executing", "rejected", "done"}]
          /\ goal'[s] \in {"executing", "rejected"}
          /\ \A q \in Submissions \ {s} : goal'[q] = goal[q]
        BY <1>2, <2>1 DEF CellTyped
    <2>3. CellTyped' /\ AskedTyped'
        BY <1>1, <1>2, <2>1, <2>2, SameAsked DEF CellTyped
    <2>4. CellMoves(s)
        BY <1>1, <1>5, <2>1, <2>2, GoalKnown DEF CellMoves
    <2>5. ASSUME NEW q \in Requests \ {s} PROVE CellSame(q)
        BY <1>1, <2>1, <2>2 DEF CellSame
    <2> QED
        BY <1>1, <1>3, <2>3, <2>4, <2>5, CellKeeps
<1>7. CASE CancelArrives(s)
    <2>1. /\ goal' = goal /\ answer' = answer /\ up' = up
          /\ cancelling' \in [Submissions -> BOOLEAN]
          /\ asked' \in [Submissions -> {"no", "asked", "accepted", "refused"}]
        BY <1>2, <1>7 DEF CancelArrives, Gateway!Cancel, gateway, CellTyped, AskedTyped
    <2>2. CellTyped' /\ AskedTyped'
        BY <1>1, <1>2, <2>1 DEF CellTyped, AskedTyped
    <2>3. ASSUME NEW q \in Requests PROVE CellSame(q)
        BY <1>1, <2>1 DEF CellSame
    <2> QED
        BY <1>1, <1>3, <2>2, <2>3, CellKeeps
<1>8. CASE \E c \in Codes : GatewayAnswers(s, c)
    <2>1. PICK c \in Codes : GatewayAnswers(s, c)
        BY <1>8
    <2>2. /\ goal[s] = "executing" /\ ran[s] # "running" /\ UNCHANGED <<up, asked>>
          /\ goal' = [goal EXCEPT ![s] = "done"]
          /\ answer' = [answer EXCEPT ![s] = c]
          /\ cancelling' = [cancelling EXCEPT ![s] = FALSE]
        BY <2>1 DEF GatewayAnswers, Gateway!Finish
    <2>3. /\ goal' \in [Submissions -> {"none", "sent", "executing", "rejected", "done"}]
          /\ answer' \in [Submissions -> Codes \cup {None}]
          /\ cancelling' \in [Submissions -> BOOLEAN]
          /\ goal'[s] = "done" /\ answer'[s] = c
          /\ \A q \in Submissions \ {s} : goal'[q] = goal[q] /\ answer'[q] = answer[q]
        BY <1>2, <2>2 DEF CellTyped
    <2>4. CellTyped' /\ AskedTyped'
        BY <1>1, <1>2, <2>2, <2>3, SameAsked DEF CellTyped
    <2>5. CellMoves(s)
        BY <1>1, <1>4, <1>5, <2>2, <2>3, GoalKnown DEF CellMoves
    <2>6. ASSUME NEW q \in Requests \ {s} PROVE CellSame(q)
        BY <1>1, <2>3 DEF CellSame
    <2> QED
        BY <1>1, <1>3, <2>4, <2>5, <2>6, CellKeeps
<1> QED
    BY <1>6, <1>7, <1>8

LEMMA JobKeeps ==
    ASSUME Known, NEW s \in Submissions, JobStarts(s) \/ JobEnds(s)
    PROVE  Kept
<1> DEFINE point == IF JobStarts(s) THEN "running" ELSE "ended"
           started == JobStarts(s)
<1>1. /\ Beside
      /\ UNCHANGED <<goal, answer, cancelling, up, told, service, handles, active>>
      /\ UNCHANGED asked
    BY DEF JobStarts, JobEnds, Beside, Untouched, gateway, coroutines, display
<1>2. DisplayTyped' /\ AskedTyped' /\ CellTyped
    BY <1>1, SameDisplay, SameAsked, ApiTypes DEF Known
<1>3. /\ goal[s] = "executing"
      /\ goal[s] = "done" <=> answer[s] # None
      /\ ~Final(s)
    BY GoalKnown DEF JobStarts, JobEnds
<1>4. s \notin Recoveries
    BY DEF AreRequests
<1>5. /\ ran' \in [Submissions -> {"no", "running", "ended"}]
      /\ \A q \in Submissions \ {s} : ran'[q] = ran[q]
    BY <1>2 DEF JobStarts, JobEnds, CellTyped
<1>6. events' \in Seq([started : BOOLEAN, job : Jobs])
    <2> DEFINE S == [started : BOOLEAN, job : Jobs]
    <2>1. JobOf[s] \in Jobs
        BY DEF Jobs
    <2>2. \A b \in BOOLEAN : [started |-> b, job |-> JobOf[s]] \in S
        BY <2>1
    <2>3. events \in Seq(S)
        BY <1>2 DEF CellTyped
    <2> HIDE DEF S
    <2>4. \A b \in BOOLEAN : Append(events, [started |-> b, job |-> JobOf[s]]) \in Seq(S)
        BY <2>2, <2>3
    <2>5. events' \in Seq(S)
        BY <2>4 DEF JobStarts, JobEnds
    <2> QED
        BY <2>5 DEF S
<1>7. CellTyped'
    BY <1>1, <1>2, <1>5, <1>6 DEF CellTyped
<1>8. CellMoves(s)
    BY <1>1, <1>3, <1>4 DEF CellMoves
<1>9. ASSUME NEW q \in Requests \ {s} PROVE CellSame(q)
    BY <1>1, <1>5 DEF CellSame
<1> QED
    BY <1>1, <1>2, <1>7, <1>8, <1>9, CellKeeps

LEMMA CoordinatorKeeps ==
    ASSUME Known, NEW r \in Recoveries, CoordinatorAnswers(r) PROVE Kept
<1>1. /\ Beside /\ service[r] = "called"
      /\ UNCHANGED <<goal, answer, cancelling, up, ran, events, told, handles, active>>
      /\ UNCHANGED asked
    BY DEF CoordinatorAnswers, Beside, Untouched, gateway, coroutines, display
<1>2. DisplayTyped' /\ AskedTyped' /\ CellTyped
    BY <1>1, SameDisplay, SameAsked, ApiTypes DEF Known
<1>3. /\ service' \in [Recoveries -> {"idle", "called", "accepted", "refused"}]
      /\ service'[r] \in {"accepted", "refused"}
      /\ \A q \in Recoveries \ {r} : service'[q] = service[q]
    BY <1>2 DEF CoordinatorAnswers, CellTyped
<1>4. CellTyped'
    BY <1>1, <1>2, <1>3 DEF CellTyped
<1>5. CellMoves(r)
    BY <1>1, <1>3 DEF CellMoves, Final, AreRequests
<1>6. ASSUME NEW q \in Requests \ {r} PROVE CellSame(q)
    BY <1>1, <1>3 DEF CellSame
<1> QED
    BY <1>1, <1>2, <1>4, <1>5, <1>6, CellKeeps

LEMMA ApiBegins == ASSUME ApiInit PROVE ApiIInv
<1>1. ApiTypeOK
    <2>1. 0 \in 0..MaxFaults
        BY DEF AreRequests
    <2>2. << >> \in Seq([started : BOOLEAN, job : Jobs]) /\ << >> \in Seq(Outcomes)
        OBVIOUS
    <2> QED
        BY <2>1, <2>2 DEF ApiInit, Gateway!Init, ApiTypeOK
<1>2. ASSUME NEW r \in Requests PROVE Honest(r)
    <2>1. /\ http[r] = "new" /\ reply[r] = None /\ thread[r] = "none" /\ result[r] = None
          /\ journal[r] = << >>
          /\ r \in Submissions => goal[r] = "none" /\ answer[r] = None /\ ran[r] = "no"
          /\ r \in Recoveries => service[r] = "idle"
        BY DEF ApiInit, Gateway!Init
    <2>2. None \notin CertainCodes /\ None \notin {"ok", "accepted", "cancel_accepted"}
        BY DEF AreRequests, Replies, Returns, CertainCodes
    <2>3. RequestIsTrue(r)
        BY <2>1, <2>2 DEF RequestIsTrue
    <2>4. r \notin Cancels => EntriesAreTrue(r)
        BY <2>1 DEF Requests, EntriesAreTrue, Dispatched
    <2>5. ReplyIsJournalled(r)
        BY <2>1 DEF ReplyIsJournalled
    <2> QED
        BY <2>1, <2>2, <2>3, <2>4, <2>5 DEF Honest
<1> QED
    BY <1>1, <1>2, ApiParts

LEMMA ApiKeeps == ApiIInv /\ [ApiNext]_apiVars => ApiIInv'
<1> SUFFICES ASSUME ApiIInv, [ApiNext]_apiVars PROVE ApiIInv'
    OBVIOUS
<1>1. Known
    BY ApiParts DEF Known
<1>2. ASSUME NEW r \in Requests,
             Deny(r) \/ Dispatch(r) \/ Complete(r) \/ Timeout(r) \/ Abandon(r) \/ ThreadStep(r)
      PROVE  Kept
    BY <1>1, <1>2, DenyKeeps, DispatchKeeps, CompleteKeeps, GiveUpKeeps, ThreadStepKeeps
<1>3. ASSUME OnShownState \/ OnJobEvent \/ CellStatePublished \/ UNCHANGED apiVars
      PROVE  Kept
    BY <1>1, <1>3, SubscriptionKeeps
<1>4. ASSUME NEW s \in Submissions,
             \/ GatewayAccepts(s) \/ JobStarts(s) \/ JobEnds(s) \/ CancelArrives(s)
             \/ \E c \in Codes : GatewayAnswers(s, c)
      PROVE  Kept
    BY <1>1, <1>4, GatewayKeeps, JobKeeps
<1>5. ASSUME NEW r \in Recoveries, CoordinatorAnswers(r) PROVE Kept
    BY <1>1, <1>5, CoordinatorKeeps
<1>6. Kept
    BY <1>2, <1>3, <1>4, <1>5 DEF ApiNext
<1> QED
    BY <1>6, ApiPartsNext DEF Kept

\* The theorems below have the assumption of OperatorApi as a hypothesis: a request is of one kind,
\* the gateway answers with one of its four outcomes, and None is no reply.

\* The inductive invariant of the operator API holds whatever coroutines, threads, cell and journal do.
THEOREM ApiInvariance == ApiSpec => []ApiIInv
<1>1. ApiInit => ApiIInv
    BY ApiBegins
<1>2. ApiIInv /\ [ApiNext]_apiVars => ApiIInv'
    BY ApiKeeps
<1> QED
    BY <1>1, <1>2, PTL DEF ApiSpec

\* Nothing reaches the cell whose request the journal does not hold, and a COMPLETED entry stands only
\* for a job that ended well or a recovery that was accepted, whichever journal writes fail.
THEOREM JournalStaysTrue == ApiSpec => []JournalIsTrue
<1>1. ApiIInv => JournalIsTrue
    BY DEF ApiIInv
<1> QED
    BY <1>1, ApiInvariance, PTL

\* A caller who is given an outcome finds it in the journal, behind its REQUESTED entry, however the
\* deadline of the coroutine and the return of its thread meet.
THEOREM AnswersAreJournalled == ApiSpec => []AnsweredIsJournalled
<1>1. ApiIInv => AnsweredIsJournalled
    BY DEF ApiIInv
<1> QED
    BY <1>1, ApiInvariance, PTL

\* An outcome that is reported as certain stays so: no thread is left that could still send the goal,
\* and the cell holds neither goal nor call.
THEOREM CertainOutcomesAreFinal == ApiSpec => []CertainIsFinal
<1>1. ApiIInv => CertainIsFinal
    BY DEF ApiIInv
<1> QED
    BY <1>1, ApiInvariance, PTL

-----------------------------------------------------------------------------
\* The headless executors.

Contracted ==
    {"move", "open", "close", "clamp", "release", "verify", "locate", "inspect", "select", "cycle"}

\* Of the leaves' commands: they are sequences, no leaf both takes and leaves, and an inspection
\* is the only command of its leaf (LoadFixture and UnloadProduct are the leaves with two).
LEMMA WorkShape ==
    ASSUME NEW leaf \in DOMAIN Work
    PROVE  /\ Work[leaf] \in Seq(Contracted)
           /\ \A s, t \in 1..Len(Work[leaf]) :
                 /\ ~(Work[leaf][s] = "open" /\ Work[leaf][t] = "close")
                 /\ ~(Work[leaf][s] = "release" /\ Work[leaf][t] = "clamp")
           /\ \A s \in 1..Len(Work[leaf]) : Work[leaf][s] = "inspect" => s = Len(Work[leaf])
<1>1. Work[leaf] \in {<<>>, <<"clamp">>, <<"locate">>, <<"move", "close">>, <<"move", "open">>,
                      <<"inspect">>, <<"verify">>, <<"release">>, <<"close">>, <<"move", "clamp">>,
                      <<"move">>, <<"select">>, <<"cycle">>, <<"release", "open">>}
  BY DEF Work
<1>2. CASE Work[leaf] = <<>>
  BY <1>2 DEF Contracted
<1>3. CASE \E c \in Contracted : Work[leaf] = <<c>>
  BY <1>3 DEF Contracted
<1>4. CASE Work[leaf] \in {<<"move", "close">>, <<"move", "open">>, <<"move", "clamp">>,
                           <<"release", "open">>}
  <2>1. PICK c \in {"move", "release"}, d \in {"close", "open", "clamp"} :
           /\ Work[leaf] = <<c, d>>
           /\ c = "release" => d = "open"
    BY <1>4
  <2> QED  BY <2>1 DEF Contracted
<1> QED  BY <1>1, <1>2, <1>3, <1>4 DEF Contracted

CommandOutcomes == {"ok", "fault", "unknown", "refused"}
EventsUpTo(m) == [at : 1..m, step : Nat, outcome : CommandOutcomes]

\* Of the scenario at work: the tree is a sequence of elements, whose leaves are known.
LEMMA TreeShape ==
    ASSUME AreScenarios, HeadlessIInv
    PROVE  /\ Len(scenario.tree) \in Nat /\ DOMAIN scenario.tree = 1..Len(scenario.tree)
           /\ \A i \in 1..Len(scenario.tree) :
                 /\ scenario.tree[i].leaf \in DOMAIN Work
                 /\ Work[scenario.tree[i].leaf] \in Seq(Contracted)
           /\ position \in 1..Len(scenario.tree) /\ step \in 0..Len(Work[Element.leaf])
           /\ scenario.cycle \in {"ok", "fault", "unknown"} /\ scenario.accepted \in BOOLEAN
           /\ results \in Seq(EventsUpTo(position))
<1>1. scenario \in Scenarios /\ position \in DOMAIN scenario.tree /\ step \in 0..Len(Work[Element.leaf])
  BY DEF HeadlessIInv, Ordered
<1>2. scenario.tree \in Seq({scenario.tree[i] : i \in DOMAIN scenario.tree})
  BY <1>1 DEF AreScenarios
<1>3. Len(scenario.tree) \in Nat /\ DOMAIN scenario.tree = 1..Len(scenario.tree)
  BY <1>2
<1>4. \A i \in DOMAIN scenario.tree : scenario.tree[i].leaf \in DOMAIN Work
  BY <1>1 DEF AreScenarios
<1>5. scenario.cycle \in {"ok", "fault", "unknown"} /\ scenario.accepted \in BOOLEAN
  BY <1>1 DEF AreScenarios
<1>6. results \in Seq(EventsUpTo(position))
  BY DEF HeadlessIInv, Ordered, EventsUpTo, CommandOutcomes
<1> QED  BY <1>1, <1>3, <1>4, <1>5, <1>6, WorkShape

\* An event that is not of element i leaves what was done of it whole; what an event found whole
\* before it stays so in any case.
LEMMA WholeStays ==
    ASSUME NEW S, results \in Seq(S), NEW e \in S, results' = Append(results, e),
           UNCHANGED scenario, NEW i, Size(i) \in Nat
    PROVE  /\ \A k \in 1..(Len(results) + 1) : Whole(i, k) => Whole(i, k)'
           /\ e.at # i /\ Whole(i, Len(results) + 1) =>
                 \A m : m = Len(results) + 2 => Whole(i, m)'
<1> DEFINE n == Size(i)
<1>1. /\ Len(results) \in Nat /\ Len(results') = Len(results) + 1
      /\ \A k \in 1..Len(results) : results'[k] = results[k]
      /\ results'[Len(results) + 1] = e
  OBVIOUS
<1>2. n \in Nat /\ Size(i)' = n
  BY DEF Size
<1>3. \A k : Whole(i, k) <=>
        \E p \in 0..(k - 1 - n) :
           /\ \A s \in 1..n : results[p + s] = [at |-> i, step |-> s, outcome |-> "ok"]
           /\ \A q \in (p + n + 1)..(k - 1) : results[q].at # i
  BY DEF Whole
<1>4. \A k : Whole(i, k)' <=>
        \E p \in 0..(k - 1 - n) :
           /\ \A s \in 1..n : results'[p + s] = [at |-> i, step |-> s, outcome |-> "ok"]
           /\ \A q \in (p + n + 1)..(k - 1) : results'[q].at # i
  BY <1>2 DEF Whole
<1> HIDE DEF n
<1>6. ASSUME NEW k \in 1..(Len(results) + 1), Whole(i, k)
      PROVE  Whole(i, k)'
  <2>1. PICK p \in 0..(k - 1 - n) :
           /\ \A s \in 1..n : results[p + s] = [at |-> i, step |-> s, outcome |-> "ok"]
           /\ \A q \in (p + n + 1)..(k - 1) : results[q].at # i
    BY <1>3, <1>6
  <2>2. \A s \in 1..n : p + s \in 1..Len(results)
    BY <1>1, <1>2
  <2>3. \A q \in (p + n + 1)..(k - 1) : q \in 1..Len(results)
    BY <1>1, <1>2
  <2>4. /\ \A s \in 1..n : results'[p + s] = [at |-> i, step |-> s, outcome |-> "ok"]
        /\ \A q \in (p + n + 1)..(k - 1) : results'[q].at # i
    BY <2>1, <2>2, <2>3, <1>1
  <2> QED  BY <2>4, <1>4
<1>7. ASSUME NEW k, k = Len(results) + 1, e.at # i, Whole(i, k)
      PROVE  \A m : m = k + 1 => Whole(i, m)'
  <2>1. PICK p \in 0..(k - 1 - n) :
           /\ \A s \in 1..n : results[p + s] = [at |-> i, step |-> s, outcome |-> "ok"]
           /\ \A q \in (p + n + 1)..(k - 1) : results[q].at # i
    BY <1>3, <1>7
  <2>2. ASSUME NEW m, m = k + 1
        PROVE  p \in 0..(m - 1 - n)
    BY <1>1, <1>2, <1>7, <2>2
  <2>3. \A s \in 1..n : p + s \in 1..Len(results)
    BY <1>1, <1>2, <1>7
  <2>4. \A q \in (p + n + 1)..k :
           (q \in 1..Len(results) /\ q \in (p + n + 1)..(k - 1)) \/ q = Len(results) + 1
    BY <1>1, <1>2, <1>7
  <2>5. \A q \in (p + n + 1)..k : results'[q].at # i
    BY <2>1, <2>4, <1>1, <1>7
  <2>6. \A s \in 1..n : results'[p + s] = [at |-> i, step |-> s, outcome |-> "ok"]
    BY <2>1, <2>3, <1>1
  <2>7. ASSUME NEW m, m = k + 1
        PROVE  Whole(i, m)'
    <3>1. m - 1 = k
      BY <1>1, <1>7, <2>7
    <3>2. \A q \in (p + n + 1)..(m - 1) : results'[q].at # i
      BY <3>1, <2>5
    <3>3. p \in 0..(m - 1 - n)
      BY <2>2, <2>7
    <3> QED  BY <3>2, <3>3, <2>6, <1>4
  <2> QED  BY <2>7
<1> QED  BY <1>6, <1>7

\* What is done is judged by the tree and the events alone.
LEMMA Frame ==
    ASSUME UNCHANGED <<scenario, results>>
    PROVE  /\ \A i, k : Whole(i, k)' <=> Whole(i, k)
           /\ \A i : Done(i)' <=> Done(i)
           /\ \A i, c : Does(i, c)' <=> Does(i, c)
<1>1. \A i, k : Whole(i, k)' <=> Whole(i, k)
  BY DEF Whole, Size
<1>2. \A i : Done(i)' <=> Done(i)
  BY DEF Done, Whole, Size
<1>3. \A i, c : Does(i, c)' <=> Does(i, c)
  BY DEF Does
<1> QED  BY <1>1, <1>2, <1>3

\* What an element does depends on the tree only, and what is pending after it on its leaves.
LEMMA TreeStays ==
    ASSUME UNCHANGED scenario
    PROVE  /\ \A i, c : Does(i, c)' <=> Does(i, c)
           /\ \A m, c, d : Pending(m, c, d)' <=> Pending(m, c, d)
<1>1. \A i, c : Does(i, c)' <=> Does(i, c)
  BY DEF Does
<1>2. \A m, c, d : Pending(m, c, d)' <=> Pending(m, c, d)
  BY DEF Does, Pending
<1> QED  BY <1>1, <1>2

\* The invariant says nothing of the devices, the attempts and the faults.
LEMMA Unmoved ==
    ASSUME HeadlessIInv,
           UNCHANGED <<scenario, position, step, jaw, clamped, board, results, final>>
    PROVE  HeadlessIInv'
<1>3. Begun' <=> Begun
  BY DEF Begun, Element
<1>4. OutcomeIsEarned' <=> OutcomeIsEarned
  BY Frame DEF OutcomeIsEarned
<1>5. /\ Performed(position - 1)' <=> Performed(position - 1)
      /\ Performed(position)' <=> Performed(position)
  BY Frame DEF Performed
<1>6. /\ Grasped(position - 1)' <=> Grasped(position - 1)
      /\ Grasped(position)' <=> Grasped(position)
      /\ Held(position - 1)' <=> Held(position - 1)
      /\ Held(position)' <=> Held(position)
  BY DEF Grasped, Held, Pending, Does
<1>7. /\ Does(position, "close")' <=> Does(position, "close")
      /\ Does(position, "clamp")' <=> Does(position, "clamp")
  BY DEF Does
<1> QED  BY <1>3, <1>4, <1>5, <1>6, <1>7 DEF HeadlessIInv, Ordered, Element

\* An event of the element at work: all that was done of the elements ahead of it stays done, and
\* was done when it happened.
LEMMA Recorded ==
    ASSUME AreScenarios, HeadlessIInv, UNCHANGED scenario, NEW m, m = position,
           NEW e \in EventsUpTo(m), e.at = m, results' = Append(results, e),
           final = Undecided
    PROVE  /\ results' \in Seq(EventsUpTo(m))
           /\ Len(results') = Len(results) + 1 /\ Len(results) \in Nat
           /\ \A k \in 1..Len(results) : results'[k] = results[k]
           /\ results'[Len(results) + 1] = e
           /\ \A i \in 1..(m - 1) : Done(i)'
           /\ \A k \in 1..Len(results') : \A i \in 1..(results'[k].at - 1) : Whole(i, k)'
           /\ \A k \in 1..Len(results') : results'[k].outcome = "unknown" =>
                 k = Len(results') /\ e.outcome = "unknown"
<1> DEFINE S == EventsUpTo(m)
<1>1. results \in Seq(S) /\ m \in 1..Len(scenario.tree) /\ Len(scenario.tree) \in Nat
  BY TreeShape
<1>2. \A i \in 1..Len(scenario.tree) : Size(i) \in Nat
  BY TreeShape DEF Size
<1>3. \A x \in S : x.at \in 1..m
  BY DEF EventsUpTo
<1>4. /\ \A k \in 1..Len(results) : \A i \in 1..(results[k].at - 1) : Whole(i, k)
      /\ \A i \in 1..(m - 1) : Done(i)
      /\ \A k \in 1..Len(results) : results[k].outcome # "unknown"
  <2>1. OutcomeIsEarned /\ Performed(position - 1) /\ Undecided # "OUTCOME_UNKNOWN"
    BY DEF HeadlessIInv, Ordered, AreScenarios
  <2> QED  BY <2>1, <1>1 DEF OutcomeIsEarned, Performed
<1>5. e \in S /\ e.at = m
  OBVIOUS
<1> HIDE DEF S
<1>6. /\ results' \in Seq(S) /\ Len(results') = Len(results) + 1 /\ Len(results) \in Nat
      /\ \A k \in 1..Len(results) : results'[k] = results[k]
      /\ results'[Len(results) + 1] = e
  BY <1>1, <1>5
<1>7. ASSUME NEW i \in 1..(m - 1)
      PROVE  Done(i)' /\ \A k : k = Len(results) + 1 => Whole(i, k)'
  <2>1. i \in 1..Len(scenario.tree) /\ m # i
    BY <1>1
  <2>2. Whole(i, Len(results) + 1)
    BY <1>4 DEF Done
  <2>3. /\ \A k \in 1..(Len(results) + 1) : Whole(i, k) => Whole(i, k)'
        /\ e.at # i /\ Whole(i, Len(results) + 1) => \A k : k = Len(results) + 2 => Whole(i, k)'
    BY <1>1, <1>2, <1>5, <2>1, WholeStays
  <2>4. PICK k : k = Len(results) + 2
    OBVIOUS
  <2>5. Whole(i, k)' /\ k = Len(results') + 1
    BY <2>1, <2>2, <2>3, <2>4, <1>5, <1>6
  <2>6. Done(i)'
    BY <2>5 DEF Done, Whole
  <2>7. Len(results) + 1 \in 1..(Len(results) + 1)
    BY <1>6
  <2> QED  BY <2>2, <2>3, <2>6, <2>7
<1>8. ASSUME NEW k \in 1..Len(results'), NEW i \in 1..(results'[k].at - 1)
      PROVE  Whole(i, k)'
  <2>1. CASE k \in 1..Len(results)
    <3>1. results'[k] = results[k] /\ results[k] \in S /\ Whole(i, k)
      BY <1>1, <1>4, <1>6, <1>8, <2>1
    <3>2. i \in 1..Len(scenario.tree) /\ k \in 1..(Len(results) + 1)
      BY <1>1, <1>3, <1>6, <1>8, <2>1, <3>1
    <3> QED  BY <1>1, <1>2, <1>5, <3>1, <3>2, WholeStays
  <2>2. CASE k = Len(results) + 1
    BY <2>2, <1>5, <1>6, <1>7, <1>8
  <2> QED  BY <1>6, <1>8, <2>1, <2>2
<1>9. ASSUME NEW k \in 1..Len(results'), results'[k].outcome = "unknown"
      PROVE  k = Len(results') /\ e.outcome = "unknown"
  BY <1>4, <1>6, <1>9
<1> QED  BY <1>6, <1>7, <1>8, <1>9 DEF S

\* The leaf at work ends: with success the tree moves on past it, without it stands where it was
\* or the job is over.
LEMMA Concluded ==
    ASSUME AreScenarios, HeadlessIInv, UNCHANGED scenario, final = Undecided, NEW m, m = position,
           NEW verdict \in {"SUCCESS", "FAILURE", "REJECTED", "OUTCOME_UNKNOWN"}, NEW devices,
           Propagate(verdict, devices),
           jaw' \in {"open", "closed"}, clamped' \in BOOLEAN, results' \in Seq(EventsUpTo(m)),
           Performed(m - 1)',
           Grasped(m - 1)' \/ Does(m, "close"),
           Held(m - 1)' \/ Does(m, "clamp"),
           verdict = "SUCCESS" => Performed(m)' /\ Grasped(m)' /\ Held(m)',
           \A k \in 1..Len(results') : \A i \in 1..(results'[k].at - 1) : Whole(i, k)',
           \A k \in 1..Len(results') : results'[k].outcome = "unknown" =>
              k = Len(results') /\ verdict = "OUTCOME_UNKNOWN"
    PROVE  HeadlessIInv'
<1> DEFINE end == Len(scenario.tree)
<1>0. /\ m \in 1..end /\ end \in Nat /\ DOMAIN scenario.tree = 1..end
      /\ \A i \in 1..end : Work[scenario.tree[i].leaf] \in Seq(Contracted)
  BY TreeShape
<1>1. \/ verdict = "SUCCESS" /\ m < end /\ position' = m + 1 /\ step' = 0 /\ final' = Undecided
      \/ verdict = "FAILURE" /\ position' = m /\ step' = 0 /\ final' = Undecided
      \/ /\ position' = m /\ step' = step
         /\ final' = (IF verdict = "FAILURE" THEN "RECOVERABLE_FAULT" ELSE verdict)
         /\ ~(verdict = "SUCCESS" /\ m < end)
  BY DEF Propagate, Move, Finish, place
<1>2. final' = Undecided \/ final' \in {"RECOVERABLE_FAULT", "SUCCESS", "REJECTED", "OUTCOME_UNKNOWN"}
  BY <1>1
<1>3. Undecided \notin {"RECOVERABLE_FAULT", "SUCCESS", "REJECTED", "OUTCOME_UNKNOWN"}
  BY DEF AreScenarios
<1>4. position' \in 1..end /\ (final' = "SUCCESS" => position' = end /\ m = end /\ verdict = "SUCCESS")
  BY <1>0, <1>1, <1>3
<1>5. step' \in 0..Len(Work[scenario.tree[position'].leaf])
  <2>1. step \in 0..Len(Work[scenario.tree[position].leaf])
    BY TreeShape DEF Element
  <2>2. Len(Work[scenario.tree[position'].leaf]) \in Nat
    BY <1>0, <1>4
  <2> QED  BY <1>1, <2>1, <2>2
<1>6. results' \in Seq([at : 1..position', step : Nat,
                         outcome : {"ok", "fault", "unknown", "refused"}])
  <2> DEFINE A == EventsUpTo(m)
             B == [at : 1..position', step : Nat, outcome : {"ok", "fault", "unknown", "refused"}]
  <2>1. 1..m \subseteq 1..position'
    BY <1>0, <1>1
  <2>2. A \subseteq B
    BY <2>1 DEF EventsUpTo, CommandOutcomes
  <2>3. results' \in Seq(A)
    OBVIOUS
  <2> HIDE DEF A, B
  <2>4. results' \in Seq(B)
    BY <2>2, <2>3
  <2> QED  BY <2>4 DEF B
<1>7. PICK n, o : n = position' /\ o = n - 1
  OBVIOUS
<1>8. /\ (o = m /\ verdict = "SUCCESS") \/ (n = m /\ o = m - 1)
      /\ final' = "SUCCESS" => n = m /\ verdict = "SUCCESS"
  <2>1. position' = m \/ (position' = m + 1 /\ verdict = "SUCCESS")
    BY <1>1
  <2>2. m + 1 - 1 = m
    BY <1>0
  <2>3. final' = "SUCCESS" => n = m /\ verdict = "SUCCESS"
    BY <1>4, <1>7
  <2>4. (n = m /\ o = m - 1) \/ (o = m /\ verdict = "SUCCESS")
    <3>1. CASE position' = m
      BY <3>1, <1>7
    <3>2. CASE position' = m + 1 /\ verdict = "SUCCESS"
      <4>1. o = m + 1 - 1
        BY <3>2, <1>0, <1>7
      <4> QED  BY <3>2, <4>1, <2>2
    <3> QED  BY <2>1, <3>1, <3>2
  <2> QED  BY <2>3, <2>4
<1>9. Performed(o)' /\ (final' = "SUCCESS" => Performed(n)')
  BY <1>8
<1>10. (Grasped(o)' \/ Does(n, "close")) /\ (final' = "SUCCESS" => Grasped(n)')
  BY <1>8
<1>11. (Held(o)' \/ Does(n, "clamp")) /\ (final' = "SUCCESS" => Held(n)')
  BY <1>8
<1>12. ~(final' = Undecided /\ step' > 0)
  BY <1>1, <1>3
<1>13. OutcomeIsEarned'
  <2>1. ASSUME NEW k \in DOMAIN results', NEW i \in 1..(results'[k].at - 1)
        PROVE  Whole(i, k)'
    <3>1. DOMAIN results' = 1..Len(results')
      BY <1>6
    <3> QED  BY <2>1, <3>1
  <2>2. ASSUME NEW k \in DOMAIN results', results'[k].outcome = "unknown"
        PROVE  k = Len(results') /\ final' = "OUTCOME_UNKNOWN"
    <3>1. k \in 1..Len(results')
      BY <2>2, <1>6
    <3>2. k = Len(results') /\ verdict = "OUTCOME_UNKNOWN"
      BY <2>2, <3>1
    <3> QED  BY <3>2, <1>1
  <2>3. ASSUME final' = "SUCCESS"
        PROVE  /\ \A i \in DOMAIN scenario.tree : Done(i)'
               /\ board'.accepted /\ jaw' = "open" /\ ~clamped'
    <3>1. n = end /\ Performed(n)' /\ Grasped(n)' /\ Held(n)'
      BY <2>3, <1>4, <1>7, <1>9, <1>10, <1>11
    <3>2. /\ \A i \in 1..n : Done(i)'
          /\ (\E i \in 1..n : Does(i, "inspect")') => board'.accepted
      BY <3>1 DEF Performed
    <3>3. scenario \in Scenarios
      BY DEF HeadlessIInv
    <3>4. /\ \E i \in DOMAIN scenario.tree : Does(i, "inspect")
          /\ \A i \in DOMAIN scenario.tree : Does(i, "close") =>
                \E j \in DOMAIN scenario.tree : i < j /\ Does(j, "open")
          /\ \A i \in DOMAIN scenario.tree : Does(i, "clamp") =>
                \E j \in DOMAIN scenario.tree : i < j /\ Does(j, "release")
      BY <3>3 DEF AreScenarios, Does
    <3>5. ~Pending(n, "close", "open") /\ ~Pending(n, "clamp", "release")
      <4>1. \A i, j \in 1..n : i < j => j \in (i + 1)..n
        BY <3>1, <1>0
      <4>2. DOMAIN scenario.tree = 1..n
        BY <3>1, <1>0
      <4>3. ~Pending(n, "close", "open")
        BY <3>4, <4>1, <4>2 DEF Pending
      <4>4. ~Pending(n, "clamp", "release")
        BY <3>4, <4>1, <4>2 DEF Pending
      <4> QED  BY <4>3, <4>4
    <3>6. jaw' = "open" /\ ~clamped'
      BY <3>1, <3>5, TreeStays DEF Grasped, Held
    <3>7. board'.accepted
      BY <3>1, <3>2, <3>4, <1>0, TreeStays
    <3> QED  BY <3>1, <3>2, <3>6, <3>7, <1>0
  <2> QED  BY <2>1, <2>2, <2>3 DEF OutcomeIsEarned
<1>14. /\ Performed(position - 1)' /\ (final' = "SUCCESS" => Performed(position)')
       /\ (Grasped(position - 1)' \/ Does(position, "close")') /\ (final' = "SUCCESS" => Grasped(position)')
       /\ (Held(position - 1)' \/ Does(position, "clamp")') /\ (final' = "SUCCESS" => Held(position)')
  <2>1. (Performed(o)' => Performed(position - 1)') /\ (Performed(n)' => Performed(position)')
    BY <1>7 DEF Performed
  <2>2. (Grasped(o)' => Grasped(position - 1)') /\ (Grasped(n)' => Grasped(position)')
    BY <1>7 DEF Grasped, Pending
  <2>3. (Held(o)' => Held(position - 1)') /\ (Held(n)' => Held(position)')
    BY <1>7 DEF Held, Pending
  <2>4. /\ Does(n, "close") => Does(position, "close")'
        /\ Does(n, "clamp") => Does(position, "clamp")'
    BY <1>7 DEF Does
  <2> QED  BY <1>9, <1>10, <1>11, <2>1, <2>2, <2>3, <2>4
<1>15. /\ scenario' \in Scenarios /\ position' \in DOMAIN scenario'.tree
       /\ step' \in 0..Len(Work[scenario'.tree[position'].leaf])
       /\ final' = "SUCCESS" => position' = Len(scenario'.tree)
  BY <1>0, <1>4, <1>5 DEF HeadlessIInv
<1> HIDE DEF end
<1> QED  BY <1>6, <1>12, <1>13, <1>14, <1>15 DEF HeadlessIInv, Ordered, Element

\* What was grasped, or clamped, is pending after the leaf at work, unless that leaf let go of it.
LEMMA PendingAfter ==
    ASSUME NEW m \in Nat \ {0}, NEW take, NEW leave, ~Does(m, leave),
           Pending(m - 1, take, leave) \/ Does(m, take)
    PROVE  Pending(m, take, leave)
<1>1. CASE Does(m, take)
  <2>1. m \in 1..m /\ \A j \in (m + 1)..m : FALSE
    OBVIOUS
  <2> QED  BY <1>1, <2>1 DEF Pending
<1>2. CASE Pending(m - 1, take, leave)
  <2>1. PICK i \in 1..(m - 1) : Does(i, take) /\ \A j \in (i + 1)..(m - 1) : ~Does(j, leave)
    BY <1>2 DEF Pending
  <2>2. i \in 1..m /\ \A j \in (i + 1)..m : j \in (i + 1)..(m - 1) \/ j = m
    OBVIOUS
  <2>3. \A j \in (i + 1)..m : ~Does(j, leave)
    BY <2>1, <2>2
  <2> QED  BY <2>1, <2>2, <2>3 DEF Pending
<1> QED  BY <1>1, <1>2

\* The job is over without success: nothing else changes.
LEMMA Stopped ==
    ASSUME AreScenarios, HeadlessIInv, final = Undecided,
           UNCHANGED <<scenario, place, mocks, board, results>>,
           final' \in {"error", "CANCELLED", "RECOVERABLE_FAULT"}
    PROVE  HeadlessIInv'
<1>1. final' # Undecided /\ final' # "SUCCESS" /\ Undecided # "OUTCOME_UNKNOWN"
  BY DEF AreScenarios
<1>2. OutcomeIsEarned'
  <2>1. /\ \A k \in DOMAIN results : \A i \in 1..(results[k].at - 1) : Whole(i, k)
        /\ \A k \in DOMAIN results : results[k].outcome # "unknown"
    BY <1>1 DEF HeadlessIInv, Ordered, OutcomeIsEarned
  <2>2. results' = results
    OBVIOUS
  <2> QED  BY <1>1, <2>1, <2>2, Frame DEF OutcomeIsEarned
<1>3. Performed(position - 1)' <=> Performed(position - 1)
  BY Frame DEF Performed, place
<1>4. /\ Grasped(position - 1)' <=> Grasped(position - 1)
      /\ Held(position - 1)' <=> Held(position - 1)
  BY DEF Grasped, Held, Pending, Does, place, mocks
<1>5. /\ Does(position, "close")' <=> Does(position, "close")
      /\ Does(position, "clamp")' <=> Does(position, "clamp")
  BY DEF Does, place
<1> QED  BY <1>1, <1>2, <1>3, <1>4, <1>5 DEF HeadlessIInv, Ordered, Element, place, mocks

\* A leaf is entered: the job is over, or the leaf without commands is, or its first command comes.
LEMMA EnterKeeps ==
    ASSUME AreScenarios, HeadlessIInv, Enter
    PROVE  HeadlessIInv'
<1>0. /\ final = Undecided /\ step = 0
      /\ UNCHANGED <<scenario, jaw, clamped, prepared, board, results>>
  BY DEF Enter, mocks
<1>1. PICK m : m = position
  OBVIOUS
<1>2. /\ m \in 1..Len(scenario.tree) /\ Len(scenario.tree) \in Nat
      /\ scenario.tree[m].leaf \in DOMAIN Work /\ results \in Seq(EventsUpTo(m))
      /\ jaw \in {"open", "closed"} /\ clamped \in BOOLEAN
      /\ DOMAIN scenario.tree = 1..Len(scenario.tree) /\ Len(Work[scenario.tree[m].leaf]) \in Nat
  BY TreeShape, <1>1 DEF HeadlessIInv, Ordered
<1>3. /\ Performed(m - 1)
      /\ Grasped(m - 1) \/ Does(m, "close")
      /\ Held(m - 1) \/ Does(m, "clamp")
      /\ \A k \in 1..Len(results) : \A i \in 1..(results[k].at - 1) : Whole(i, k)
      /\ \A k \in 1..Len(results) : results[k].outcome # "unknown"
  <2>1. Undecided # "OUTCOME_UNKNOWN" /\ OutcomeIsEarned /\ DOMAIN results = 1..Len(results)
    BY <1>2 DEF AreScenarios, HeadlessIInv, Ordered
  <2> QED  BY <1>0, <1>1, <2>1 DEF HeadlessIInv, Ordered, OutcomeIsEarned
<1>4. /\ Performed(m - 1)'
      /\ Grasped(m - 1)' \/ Does(m, "close")
      /\ Held(m - 1)' \/ Does(m, "clamp")
      /\ \A k \in 1..Len(results') : \A i \in 1..(results'[k].at - 1) : Whole(i, k)'
      /\ \A k \in 1..Len(results') : results'[k].outcome # "unknown"
  <2>1. Performed(m - 1)'
    BY <1>0, <1>3, Frame DEF Performed
  <2>2. /\ Grasped(m - 1)' \/ Does(m, "close")
        /\ Held(m - 1)' \/ Does(m, "clamp")
    BY <1>0, <1>3, TreeStays DEF Grasped, Held
  <2>3. results' = results
    BY <1>0
  <2> QED  BY <1>0, <1>3, <2>1, <2>2, <2>3, Frame
<1>5. CASE Early # Undecided
  <2>1. Finish(Early)
    BY <1>5 DEF Enter
  <2>2. Early \in {"error", "CANCELLED"}
    BY <1>5 DEF Early
  <2>3. final' \in {"error", "CANCELLED", "RECOVERABLE_FAULT"} /\ UNCHANGED place
    BY <2>1, <2>2 DEF Finish
  <2> QED  BY <1>0, <2>3, Stopped DEF mocks
<1>6. CASE Early = Undecided /\ Work[Element.leaf] = <<>>
  <2>1. PICK devices : Propagate(Verdict, devices)
    BY <1>6 DEF Enter
  <2>2. Verdict \in {"SUCCESS", "FAILURE", "REJECTED", "OUTCOME_UNKNOWN"}
    BY DEF Verdict
  <2>3. Size(m) = 0 /\ \A c : ~Does(m, c)
    BY <1>1, <1>2, <1>6 DEF Size, Does, Element, Sends
  <2>4. Done(m)
    <3>1. Len(results) \in Nat
      BY <1>2
    <3>2. Len(results) \in 0..(Len(results) + 1 - 1 - 0)
      BY <3>1
    <3>3. /\ \A s \in 1..0 : FALSE
          /\ \A q \in (Len(results) + 0 + 1)..(Len(results) + 1 - 1) : FALSE
      BY <3>1
    <3> QED  BY <2>3, <3>2, <3>3 DEF Done, Whole
  <2>5. Performed(m)'
    <3>1. \A i \in 1..m : i \in 1..(m - 1) \/ i = m
      BY <1>2
    <3>2. \A i \in 1..(m - 1) : Done(i)
      BY <1>3 DEF Performed
    <3>3. (\E i \in 1..(m - 1) : Does(i, "inspect")) => board.accepted /\ scenario.accepted
      BY <1>3 DEF Performed
    <3>4. \A i \in 1..m : Done(i)
      BY <3>1, <3>2, <2>4
    <3>5. (\E i \in 1..m : Does(i, "inspect")) => board.accepted /\ scenario.accepted
      BY <3>1, <3>3, <2>3
    <3> QED  BY <1>0, <3>4, <3>5, Frame DEF Performed
  <2>6. Grasped(m)' /\ Held(m)'
    <3>1. Grasped(m) /\ Held(m)
      BY <1>2, <1>3, <2>3, PendingAfter DEF Grasped, Held
    <3> QED  BY <1>0, <3>1, TreeStays DEF Grasped, Held
  <2> QED  BY <1>0, <1>1, <1>2, <1>4, <2>1, <2>2, <2>5, <2>6, Concluded
<1>7. CASE Early = Undecided /\ Work[Element.leaf] # <<>>
  <2>1. position' = position /\ step' = 1 /\ final' = final
    BY <1>7 DEF Enter, Move
  <2>2. 1 \in 0..Len(Work[scenario.tree[m].leaf])
    <3>1. Work[scenario.tree[m].leaf] \in Seq(Contracted)
      BY <1>2, WorkShape
    <3>2. Work[scenario.tree[m].leaf] # <<>>
      BY <1>1, <1>7 DEF Element
    <3> QED  BY <3>1, <3>2
  <2>3. Begun'
    <3>1. Len(results) \in Nat
      BY <1>2
    <3>2. Len(results) = Len(results) + 1 - 1 /\ \A s \in 1..(1 - 1) : FALSE
      BY <3>1
    <3>3. Len(results) \in 0..Len(results)
      BY <3>1
    <3> QED  BY <1>0, <2>1, <3>2, <3>3 DEF Begun
  <2>4. final' # "SUCCESS"
    BY <1>0, <2>1 DEF AreScenarios
  <2>5. OutcomeIsEarned'
    <3>1. DOMAIN results' = 1..Len(results')
      BY <1>0, <1>2
    <3> QED  BY <1>4, <2>4, <3>1 DEF OutcomeIsEarned
  <2>6. /\ Performed(position - 1)'
        /\ Grasped(position - 1)' \/ Does(position, "close")'
        /\ Held(position - 1)' \/ Does(position, "clamp")'
    <3>1. Performed(m - 1)' => Performed(position - 1)'
      BY <1>1, <2>1 DEF Performed
    <3>2. Grasped(m - 1)' => Grasped(position - 1)'
      BY <1>1, <2>1 DEF Grasped, Pending
    <3>3. Held(m - 1)' => Held(position - 1)'
      BY <1>1, <2>1 DEF Held, Pending
    <3>4. /\ Does(m, "close") => Does(position, "close")'
          /\ Does(m, "clamp") => Does(position, "clamp")'
      BY <1>0, <1>1, <2>1 DEF Does
    <3> QED  BY <1>4, <3>1, <3>2, <3>3, <3>4
  <2>7. /\ scenario' \in Scenarios /\ position' \in DOMAIN scenario'.tree
        /\ step' \in 0..Len(Work[scenario'.tree[position'].leaf])
        /\ results' \in Seq([at : 1..position', step : Nat,
                         outcome : {"ok", "fault", "unknown", "refused"}])
    BY <1>0, <1>1, <1>2, <2>1, <2>2 DEF HeadlessIInv, EventsUpTo, CommandOutcomes
  <2> QED  BY <1>0, <1>2, <2>3, <2>4, <2>5, <2>6, <2>7 DEF HeadlessIInv, Ordered, Element
<1> QED  BY <1>5, <1>6, <1>7

\* A command is refused, which ends its leaf, or given to the adapter.
LEMMA RequestKeeps ==
    ASSUME AreScenarios, HeadlessIInv, Request
    PROVE  HeadlessIInv'
<1>0. /\ final = Undecided /\ step > 0
      /\ UNCHANGED <<scenario, jaw, clamped, board>>
  BY DEF Request, Commanding, mocks
<1>1. CASE Refused
  <2>1. PICK m : m = position
    OBVIOUS
  <2> DEFINE e == [at |-> m, step |-> step, outcome |-> "refused"]
  <2>2. /\ results' = Append(results, e) /\ Propagate("FAILURE", device)
    BY <1>1, <2>1 DEF Request, Result
  <2>3. e \in EventsUpTo(m) /\ e.at = m /\ e.outcome # "unknown"
    <3>1. step \in Nat /\ m \in 1..m
      BY <2>1, TreeShape
    <3> QED  BY <3>1 DEF EventsUpTo, CommandOutcomes
  <2> HIDE DEF e
  <2>4. /\ results' \in Seq(EventsUpTo(m))
        /\ \A i \in 1..(m - 1) : Done(i)'
        /\ \A k \in 1..Len(results') : \A i \in 1..(results'[k].at - 1) : Whole(i, k)'
        /\ \A k \in 1..Len(results') : results'[k].outcome # "unknown"
    BY <1>0, <2>1, <2>2, <2>3, Recorded
  <2>5. Performed(m - 1)'
    <3>1. (\E i \in 1..(m - 1) : Does(i, "inspect")) => board.accepted /\ scenario.accepted
      BY <2>1 DEF HeadlessIInv, Ordered, Performed
    <3> QED  BY <1>0, <2>4, <3>1, TreeStays DEF Performed
  <2>6. /\ Grasped(m - 1)' \/ Does(m, "close")
        /\ Held(m - 1)' \/ Does(m, "clamp")
    BY <1>0, <2>1, TreeStays DEF HeadlessIInv, Ordered, Grasped, Held
  <2>7. jaw' \in {"open", "closed"} /\ clamped' \in BOOLEAN
    BY <1>0 DEF HeadlessIInv, Ordered
  <2> QED  BY <1>0, <2>1, <2>2, <2>4, <2>5, <2>6, <2>7, Concluded
<1>2. CASE ~Refused
  <2>1. UNCHANGED <<position, step, results, final>>
    BY <1>2 DEF Request, place
  <2> QED  BY <1>0, <2>1, Unmoved
<1> QED  BY <1>1, <1>2

\* What a command carried out does to the gripper, the tray and the inspection; nothing, when it is
\* not carried out.
LEMMA EffectOf ==
    ASSUME AreScenarios, HeadlessIInv, Operate, NEW m, m = position
    PROVE  /\ step \in 1..Size(m) /\ Contract \in Contracted
           /\ jaw' \in {"open", "closed"} /\ clamped' \in BOOLEAN
           /\ jaw' = "open" \/ jaw' = jaw \/ Does(m, "close")
           /\ ~clamped' \/ clamped' = clamped \/ Does(m, "clamp")
           /\ Contract # "inspect" => board'.accepted = board.accepted
           /\ board'.accepted = board.accepted \/ board'.accepted = scenario.accepted
           /\ Outcome = "ok" =>
                 /\ Contract = "open" => jaw' = "open"
                 /\ Contract = "release" => ~clamped'
                 /\ Contract = "inspect" => board'.accepted = scenario.accepted
                 /\ Contract # "close" => jaw' = jaw \/ jaw' = "open"
                 /\ Contract # "clamp" => clamped' = clamped \/ ~clamped'
<1>1. /\ step \in Nat /\ step > 0 /\ step \in 0..Size(m)
      /\ Work[scenario.tree[m].leaf] \in Seq(Contracted)
      /\ jaw \in {"open", "closed"} /\ clamped \in BOOLEAN
  BY TreeShape DEF HeadlessIInv, Ordered, Operate, Commanding, Size, Element
<1>2. step \in 1..Size(m) /\ Size(m) \in Nat
  BY <1>1 DEF Size
<1>3. Contract \in Contracted /\ Sends(scenario.tree[m].leaf, Contract)
  BY <1>1, <1>2 DEF Contract, Element, Size, Sends
<1>4. IF Outcome = "ok" THEN Effect /\ board' = Noted ELSE UNCHANGED <<mocks, board>>
  BY DEF Operate
<1>5. \A c : Contract = c => Does(m, c)
  BY <1>3 DEF Does
<1>6. CASE Outcome = "ok"
  <2>1. /\ jaw' = CASE Contract = "open" -> "open" [] Contract = "close" -> "closed" [] OTHER -> jaw
        /\ clamped' = (Contract = "clamp" \/ (clamped /\ Contract # "release"))
    BY <1>4, <1>6 DEF Effect
  <2>2. board'.accepted = IF Contract = "inspect" THEN scenario.accepted ELSE board.accepted
    BY <1>4, <1>6 DEF Noted
  <2>3. /\ Contract = "open" => jaw' = "open"
        /\ Contract = "close" => jaw' = "closed"
        /\ Contract \notin {"open", "close"} => jaw' = jaw
    BY <2>1
  <2>4. /\ Contract = "clamp" => clamped' = TRUE
        /\ Contract = "release" => clamped' = FALSE
        /\ Contract \notin {"clamp", "release"} => clamped' = clamped
    BY <1>1, <2>1
  <2> QED  BY <1>1, <1>2, <1>3, <1>5, <2>2, <2>3, <2>4
<1>7. CASE Outcome # "ok"
  BY <1>1, <1>2, <1>3, <1>4, <1>7 DEF mocks
<1> QED  BY <1>6, <1>7

\* A command is carried out, or fails: the leaf goes on with its next, or ends.
LEMMA OperateKeeps ==
    ASSUME AreScenarios, HeadlessIInv, Operate
    PROVE  HeadlessIInv'
<1>1. PICK m : m = position
  OBVIOUS
<1> DEFINE W == Work[scenario.tree[m].leaf]
           n == Size(m)
           e == [at |-> m, step |-> step, outcome |-> Outcome]
<1>0. /\ final = Undecided /\ step > 0 /\ UNCHANGED scenario
      /\ results' = Append(results, e)
  BY <1>1 DEF Operate, Commanding, Result
<1>2. /\ m \in 1..Len(scenario.tree) /\ Len(scenario.tree) \in Nat /\ m \in Nat \ {0}
      /\ DOMAIN scenario.tree = 1..Len(scenario.tree)
      /\ W \in Seq(Contracted) /\ n = Len(W) /\ n \in Nat /\ scenario.accepted \in BOOLEAN
      /\ \A s, t \in 1..n : /\ ~(W[s] = "open" /\ W[t] = "close")
                           /\ ~(W[s] = "release" /\ W[t] = "clamp")
      /\ \A s \in 1..n : W[s] = "inspect" => s = n
  <2>1. m \in 1..Len(scenario.tree) /\ scenario.tree[m].leaf \in DOMAIN Work /\ n = Len(W)
    BY <1>1, TreeShape DEF Size
  <2>2. /\ W \in Seq(Contracted)
        /\ \A s, t \in 1..Len(W) :
              /\ ~(W[s] = "open" /\ W[t] = "close")
              /\ ~(W[s] = "release" /\ W[t] = "clamp")
        /\ \A s \in 1..Len(W) : W[s] = "inspect" => s = Len(W)
    BY <2>1, WorkShape
  <2>3. /\ Len(scenario.tree) \in Nat /\ DOMAIN scenario.tree = 1..Len(scenario.tree)
        /\ scenario.accepted \in BOOLEAN
    BY TreeShape
  <2>4. m \in Nat \ {0} /\ n \in Nat
    BY <2>1, <2>2, <2>3
  <2> HIDE DEF W, n
  <2> QED  BY <2>1, <2>2, <2>3, <2>4
<1>3. /\ Outcome \in CommandOutcomes /\ Outcome # "refused"
      /\ Outcome = "unknown" => Contract = "cycle"
  BY TreeShape DEF Outcome, CommandOutcomes
<1>4. /\ step \in 1..n /\ Contract = W[step]
      /\ jaw' \in {"open", "closed"} /\ clamped' \in BOOLEAN
      /\ jaw' = "open" \/ jaw' = jaw \/ Does(m, "close")
      /\ ~clamped' \/ clamped' = clamped \/ Does(m, "clamp")
      /\ board'.accepted = board.accepted \/ board'.accepted = scenario.accepted
      /\ Contract # "inspect" => board'.accepted = board.accepted
      /\ Outcome = "ok" =>
            /\ Contract = "open" => jaw' = "open"
            /\ Contract = "release" => ~clamped'
            /\ Contract = "inspect" => board'.accepted = scenario.accepted
            /\ Contract # "close" => jaw' = jaw \/ jaw' = "open"
            /\ Contract # "clamp" => clamped' = clamped \/ ~clamped'
  <2>1. Contract = W[step]
    BY <1>1 DEF Contract, Element
  <2> QED  BY <1>1, <2>1, EffectOf
<1>n. /\ m \in Nat \ {0} /\ n \in Nat /\ step \in Nat /\ 1 <= step /\ step <= n
      /\ n = Size(m) /\ n = Len(W)
  <2>1. m \in Nat \ {0} /\ n \in Nat /\ n = Size(m) /\ n = Len(W)
    BY <1>2
  <2>2. step \in 1..n
    BY <1>4
  <2> HIDE DEF W, n
  <2> QED  BY <2>1, <2>2
<1>5. e \in EventsUpTo(m) /\ e.at = m /\ e.outcome = Outcome
  BY <1>3, <1>n DEF EventsUpTo
<1>6. /\ results' \in Seq(EventsUpTo(m)) /\ Len(results') = Len(results) + 1 /\ Len(results) \in Nat
      /\ \A k \in 1..Len(results) : results'[k] = results[k]
      /\ results'[Len(results) + 1] = e
      /\ \A i \in 1..(m - 1) : Done(i)'
      /\ \A k \in 1..Len(results') : \A i \in 1..(results'[k].at - 1) : Whole(i, k)'
      /\ \A k \in 1..Len(results') : results'[k].outcome = "unknown" =>
            k = Len(results') /\ Outcome = "unknown"
  <2> HIDE DEF e
  <2>1. results' = Append(results, e) /\ UNCHANGED scenario /\ final = Undecided
    BY <1>0
  <2> QED  BY <1>1, <1>5, <2>1, Recorded
<1>l. Len(results') = Len(results) + 1 /\ Len(results) \in Nat
  BY <1>6
<1>7. /\ Performed(m - 1)
      /\ Grasped(m - 1) \/ Does(m, "close")
      /\ Held(m - 1) \/ Does(m, "clamp")
      /\ Begun /\ Undecided # "SUCCESS"
  BY <1>0, <1>1 DEF HeadlessIInv, Ordered, AreScenarios
<1>8. Performed(m - 1)'
  <2>1. (\E i \in 1..(m - 1) : Does(i, "inspect")) => board'.accepted /\ scenario.accepted
    BY <1>4, <1>7 DEF Performed
  <2> QED  BY <1>0, <1>6, <2>1, TreeStays DEF Performed
<1>9. /\ Grasped(m - 1)' \/ Does(m, "close")
      /\ Held(m - 1)' \/ Does(m, "clamp")
  <2>1. Grasped(m - 1)' \/ Does(m, "close")
    BY <1>0, <1>4, <1>7, TreeStays DEF Grasped
  <2>2. Held(m - 1)' \/ Does(m, "clamp")
    BY <1>0, <1>4, <1>7, TreeStays DEF Held
  <2> QED  BY <2>1, <2>2
<1>10. PICK b \in 0..Len(results) :
          /\ Len(results) = b + step - 1
          /\ \A s \in 1..(step - 1) :
                /\ results[b + s] = [at |-> m, step |-> s, outcome |-> "ok"]
                /\ W[s] = "open" => jaw = "open"
                /\ W[s] = "release" => ~clamped
  BY <1>1, <1>7 DEF Begun, Element
<1>b. b \in Nat /\ Len(results) = b + step - 1
  <2>1. b \in 0..Len(results) /\ Len(results) = b + step - 1
    BY <1>10
  <2> QED  BY <1>l, <2>1
<1>11. ASSUME Outcome = "ok"
       PROVE  /\ Len(results') = b + step
              /\ \A s \in 1..step :
                    /\ results'[b + s] = [at |-> m, step |-> s, outcome |-> "ok"]
                    /\ W[s] = "open" => jaw' = "open"
                    /\ W[s] = "release" => ~clamped'
  <2>1. Len(results') = b + step /\ step \in Nat
    BY <1>n, <1>l, <1>b
  <2>2. ASSUME NEW s \in 1..(step - 1)
        PROVE  /\ results'[b + s] = [at |-> m, step |-> s, outcome |-> "ok"]
               /\ W[s] = "open" => jaw' = "open"
               /\ W[s] = "release" => ~clamped'
    <3> HIDE DEF n
    <3>0. n \in Nat /\ step \in 1..n /\ Len(results) = b + step - 1
      BY <1>2, <1>4, <1>10
    <3>1. s \in 1..n /\ b + s \in 1..Len(results)
      <4>1. s \in Nat /\ 1 <= s /\ s <= step - 1
        BY <2>1, <2>2
      <4> QED  BY <3>0, <4>1
    <3>2. results'[b + s] = [at |-> m, step |-> s, outcome |-> "ok"]
      BY <1>6, <1>10, <3>1
    <3>3. W[s] = "open" => jaw' = "open"
      BY <1>2, <1>4, <1>10, <1>11, <3>1
    <3>4. W[s] = "release" => ~clamped'
      BY <1>2, <1>4, <1>10, <1>11, <3>1
    <3> QED  BY <3>2, <3>3, <3>4
  <2>3. /\ results'[b + step] = [at |-> m, step |-> step, outcome |-> "ok"]
        /\ W[step] = "open" => jaw' = "open"
        /\ W[step] = "release" => ~clamped'
    <3>1. b + step = Len(results) + 1
      BY <1>6, <2>1
    <3> QED  BY <1>4, <1>6, <1>11, <3>1
  <2>4. \A s \in 1..step : s \in 1..(step - 1) \/ s = step
    BY <2>1
  <2> QED  BY <2>1, <2>2, <2>3, <2>4
<1> HIDE DEF e
<1>12. CASE LeafGoesOn(Outcome)
  <2>1. /\ Outcome = "ok" /\ step < n
        /\ position' = position /\ step' = step + 1 /\ final' = Undecided
    <3>1. Outcome = "ok" /\ step < n
      BY <1>1, <1>12 DEF LeafGoesOn, Element, Size
    <3>2. Move(position, attempt, step + 1) /\ UNCHANGED final
      BY <1>12 DEF Operate
    <3> QED  BY <1>0, <3>1, <3>2 DEF Move
  <2>2. Begun'
    <3>1. b \in Nat /\ step + 1 - 1 = step /\ b + (step + 1) - 1 = b + step
      BY <1>n, <1>b
    <3>2. /\ Len(results') = b + step' - 1
          /\ \A s \in 1..(step' - 1) :
                /\ results'[b + s] = [at |-> position', step |-> s, outcome |-> "ok"]
                /\ Work[scenario'.tree[position'].leaf][s] = "open" => jaw' = "open"
                /\ Work[scenario'.tree[position'].leaf][s] = "release" => ~clamped'
      <4>1. /\ Len(results') = b + step' - 1 /\ step' - 1 = step
            /\ position' = m /\ scenario' = scenario
        <5>1. position' = m /\ scenario' = scenario /\ step' = step + 1
          BY <1>0, <1>1, <2>1
        <5>2. Len(results') = b + step
          BY <1>11, <2>1
        <5>3. step \in Nat
          BY <1>n
        <5> QED  BY <3>1, <5>1, <5>2, <5>3
      <4> QED  BY <1>11, <2>1, <4>1
    <3>3. b \in 0..Len(results')
      BY <1>n, <1>l, <1>b
    <3> QED  BY <3>2, <3>3 DEF Begun, Element
  <2>3. final' # "SUCCESS"
    BY <1>7, <2>1
  <2>4. OutcomeIsEarned'
    <3>1. DOMAIN results' = 1..Len(results') /\ Outcome # "unknown"
      BY <1>6, <2>1
    <3> QED  BY <1>6, <2>3, <3>1 DEF OutcomeIsEarned
  <2>5. /\ Performed(position - 1)'
        /\ Grasped(position - 1)' \/ Does(position, "close")'
        /\ Held(position - 1)' \/ Does(position, "clamp")'
    <3>1. Performed(m - 1)' => Performed(position - 1)'
      BY <1>1, <2>1 DEF Performed
    <3>2. Grasped(m - 1)' => Grasped(position - 1)'
      BY <1>1, <2>1 DEF Grasped, Pending
    <3>3. Held(m - 1)' => Held(position - 1)'
      BY <1>1, <2>1 DEF Held, Pending
    <3>4. /\ Does(m, "close") => Does(position, "close")'
          /\ Does(m, "clamp") => Does(position, "clamp")'
      BY <1>0, <1>1, <2>1 DEF Does
    <3> QED  BY <1>8, <1>9, <3>1, <3>2, <3>3, <3>4
  <2>6. /\ scenario' \in Scenarios /\ position' \in DOMAIN scenario'.tree
        /\ step' \in 0..Len(Work[scenario'.tree[position'].leaf])
        /\ results' \in Seq([at : 1..position', step : Nat,
                         outcome : {"ok", "fault", "unknown", "refused"}])
    <3>1. step + 1 \in 0..Len(W)
      BY <1>n, <2>1
    <3> QED  BY <1>0, <1>1, <1>2, <1>6, <2>1, <3>1 DEF HeadlessIInv, EventsUpTo, CommandOutcomes
  <2> QED  BY <1>4, <2>1, <2>2, <2>3, <2>4, <2>5, <2>6 DEF HeadlessIInv, Ordered, Element
<1>13. CASE ~LeafGoesOn(Outcome)
  <2> DEFINE verdict == LeafStatus(Outcome)
  <2>1. PICK devices : Propagate(verdict, devices)
    BY <1>13 DEF Operate
  <2>2. /\ verdict \in {"SUCCESS", "FAILURE", "REJECTED", "OUTCOME_UNKNOWN"}
        /\ Outcome = "unknown" => verdict = "OUTCOME_UNKNOWN"
        /\ verdict = "SUCCESS" => Outcome = "ok" /\ (Contract = "inspect" => scenario.accepted)
    BY DEF LeafStatus
  <2> HIDE DEF verdict
  <2>3. ASSUME verdict = "SUCCESS"
        PROVE  Performed(m)' /\ Grasped(m)' /\ Held(m)'
    <3>1. Outcome = "ok" /\ step = n /\ (Contract = "inspect" => scenario.accepted)
      <4>1. ~(step < Size(m))
        BY <1>1, <1>13, <2>2, <2>3 DEF LeafGoesOn, Element, Size
      <4> QED  BY <1>n, <2>2, <2>3, <4>1
    <3>2. \A c : Does(m, c) => \E s \in 1..n : W[s] = c
      BY <1>2 DEF Does, Sends
    <3>3. Done(m)'
      <4>1. Size(m)' = n
        BY <1>0 DEF Size
      <4>2. PICK k : k = Len(results') + 1
        OBVIOUS
      <4>3. /\ b \in 0..(k - 1 - n)
            /\ \A q \in (b + n + 1)..(k - 1) : FALSE
        <5>1. k = b + n + 1 /\ n \in Nat
          BY <1>2, <1>11, <3>1, <4>2
        <5> HIDE DEF n
        <5> QED  BY <5>1
      <4>4. \A s \in 1..n : results'[b + s] = [at |-> m, step |-> s, outcome |-> "ok"]
        BY <1>11, <3>1
      <4>5. Whole(m, k)' <=>
              \E p \in 0..(k - 1 - n) :
                 /\ \A s \in 1..n : results'[p + s] = [at |-> m, step |-> s, outcome |-> "ok"]
                 /\ \A q \in (p + n + 1)..(k - 1) : results'[q].at # m
        BY <4>1 DEF Whole
      <4> HIDE DEF n
      <4>6. Whole(m, k)'
        BY <4>3, <4>4, <4>5
      <4> QED  BY <4>2, <4>6 DEF Done, Whole
    <3>4. Does(m, "inspect") => board'.accepted /\ scenario.accepted
      BY <1>2, <1>4, <3>1, <3>2
    <3>5. Performed(m)'
      <4>1. \A i \in 1..m : i \in 1..(m - 1) \/ i = m
        BY <1>2
      <4>2. /\ \A i \in 1..(m - 1) : Done(i)'
            /\ (\E i \in 1..(m - 1) : Does(i, "inspect")') => board'.accepted /\ scenario'.accepted
        BY <1>8 DEF Performed
      <4>3. Does(m, "inspect")' => board'.accepted /\ scenario'.accepted
        BY <1>0, <3>4, TreeStays
      <4> QED  BY <3>3, <4>1, <4>2, <4>3 DEF Performed
    <3>6. Grasped(m)'
      <4>1. CASE Does(m, "open")
        BY <1>11, <3>1, <3>2, <4>1 DEF Grasped
      <4>2. CASE ~Does(m, "open")
        <5>1. jaw' = "open" \/ Pending(m - 1, "close", "open") \/ Does(m, "close")
          BY <1>0, <1>9, TreeStays DEF Grasped
        <5>2. jaw' = "open" \/ Pending(m, "close", "open")
          BY <1>2, <4>2, <5>1, PendingAfter
        <5> QED  BY <1>0, <5>2, TreeStays DEF Grasped
      <4> QED  BY <4>1, <4>2
    <3>7. Held(m)'
      <4>1. CASE Does(m, "release")
        BY <1>11, <3>1, <3>2, <4>1 DEF Held
      <4>2. CASE ~Does(m, "release")
        <5>1. ~clamped' \/ Pending(m - 1, "clamp", "release") \/ Does(m, "clamp")
          BY <1>0, <1>9, TreeStays DEF Held
        <5>2. ~clamped' \/ Pending(m, "clamp", "release")
          BY <1>2, <4>2, <5>1, PendingAfter
        <5> QED  BY <1>0, <5>2, TreeStays DEF Held
      <4> QED  BY <4>1, <4>2
    <3> QED  BY <3>5, <3>6, <3>7
  <2>4. \A k \in 1..Len(results') : results'[k].outcome = "unknown" =>
           k = Len(results') /\ verdict = "OUTCOME_UNKNOWN"
    BY <1>6, <2>2
  <2> QED  BY <1>0, <1>1, <1>4, <1>6, <1>8, <1>9, <2>1, <2>2, <2>3, <2>4, Concluded
<1> QED  BY <1>12, <1>13

\* A job starts at the head of its tree with the gripper open and the tray free: HeadlessInit.
LEMMA HeadlessStart ==
    ASSUME AreScenarios, HeadlessInit
    PROVE  HeadlessIInv
<1>1. /\ scenario \in Scenarios /\ position = 1 /\ step = 0 /\ jaw = "open" /\ clamped = FALSE
      /\ results = <<>> /\ final \in {Undecided, "error"}
  BY DEF HeadlessInit
<1>2. /\ scenario.tree \in Seq({scenario.tree[i] : i \in DOMAIN scenario.tree}) /\ scenario.tree # <<>>
      /\ \A i \in DOMAIN scenario.tree : scenario.tree[i].leaf \in DOMAIN Work
      /\ Undecided # "SUCCESS" /\ Undecided # "OUTCOME_UNKNOWN"
  BY <1>1 DEF AreScenarios
<1>3. 1 \in DOMAIN scenario.tree
  BY <1>2
<1>4. step \in 0..Len(Work[Element.leaf])
  <2>1. Work[Element.leaf] \in Seq(Contracted)
    BY <1>1, <1>2, <1>3, WorkShape DEF Element
  <2> QED  BY <1>1, <2>1
<1>5. results \in Seq([at : 1..position, step : Nat, outcome : {"ok", "fault", "unknown", "refused"}])
  BY <1>1
<1>6. Performed(position - 1) /\ Grasped(position - 1) /\ Held(position - 1)
  <2>1. position - 1 = 0 /\ \A i \in 1..0 : FALSE
    BY <1>1
  <2> QED  BY <1>1, <2>1 DEF Performed, Grasped, Held
<1>7. final # "SUCCESS" /\ ~(step > 0)
  BY <1>1, <1>2
<1>8. OutcomeIsEarned
  <2>1. DOMAIN results = {}
    BY <1>1
  <2> QED  BY <1>7, <2>1 DEF OutcomeIsEarned
<1> QED  BY <1>1, <1>3, <1>4, <1>5, <1>6, <1>7, <1>8 DEF HeadlessIInv, Ordered

\* The inductive invariant of the executors: what is behind the leaf at work is done, and whatever
\* is in the gripper or under the clamp is still to be let go of.
THEOREM HeadlessInvariance == AreScenarios => (HeadlessSpec => []HeadlessIInv)
<1> SUFFICES ASSUME AreScenarios
             PROVE  HeadlessSpec => []HeadlessIInv
  OBVIOUS
<1>1. HeadlessInit => HeadlessIInv
  BY HeadlessStart
<1>2. HeadlessIInv /\ [HeadlessNext]_headlessVars => HeadlessIInv'
  <2> SUFFICES ASSUME HeadlessIInv, [HeadlessNext]_headlessVars
               PROVE  HeadlessIInv'
    OBVIOUS
  <2>1. CASE Enter
    BY <2>1, EnterKeeps
  <2>2. CASE Request
    BY <2>2, RequestKeeps
  <2>3. CASE Operate
    BY <2>3, OperateKeeps
  <2>4. CASE ScenarioTimeout
    <3>1. /\ final = Undecided /\ UNCHANGED <<scenario, place, mocks, board, results>>
          /\ final' = "RECOVERABLE_FAULT"
      BY <2>4 DEF ScenarioTimeout, Commanding, Finish
    <3> QED  BY <3>1, Stopped
  <2>5. CASE UNCHANGED headlessVars
    BY <2>5, Unmoved DEF headlessVars
  <2> QED  BY <2>1, <2>2, <2>3, <2>4, <2>5 DEF HeadlessNext
<1> QED  BY <1>1, <1>2, PTL DEF HeadlessSpec

\* A headless job ends as its commands did: no device is commanded for a leaf before everything
\* ahead of it was done, a success has the whole tree behind it, and an unknown outcome ends the job
\* and is what is reported, whatever faults are injected and retried.
THEOREM OutcomesAreEarned == AreScenarios => (HeadlessSpec => []OutcomeIsEarned)
<1>1. HeadlessIInv => OutcomeIsEarned
  BY DEF HeadlessIInv, Ordered
<1> QED  BY <1>1, HeadlessInvariance, PTL

-----------------------------------------------------------------------------
\* The simulated cell and its acceptance client.

\* What a callback that is handed over, or has had its turn, leaves on a queue.
LEMMA Longer ==
    ASSUME NEW S, NEW q \in Seq(S), NEW e \in S
    PROVE  /\ Append(q, e) \in Seq(S)
           /\ Len(Append(q, e)) = Len(q) + 1
           /\ DOMAIN Append(q, e) = 1..(Len(q) + 1) /\ DOMAIN q = 1..Len(q)
           /\ \A i \in DOMAIN q : Append(q, e)[i] = q[i]
           /\ Append(q, e)[Len(q) + 1] = e
OBVIOUS

LEMMA Shorter ==
    ASSUME NEW S, NEW q \in Seq(S), q # <<>>
    PROVE  /\ Head(q) = q[1] /\ Head(q) \in S /\ Len(q) \in Nat \ {0}
           /\ Tail(q) \in Seq(S) /\ Len(Tail(q)) = Len(q) - 1
           /\ DOMAIN Tail(q) = 1..(Len(q) - 1) /\ DOMAIN q = 1..Len(q)
           /\ \A i \in DOMAIN Tail(q) : i + 1 \in DOMAIN q /\ Tail(q)[i] = q[i + 1]
OBVIOUS

ClientTyped ==
    client \in [at : Rounds, base : Nat, read : Nat, requests : 0..MaxConfigures,
                phase : {"configure", "ready", "running", "evaluate", "done", "failed"}]
ReadTyped == client.base <= client.read /\ client.read <= Len(log)
JobTyped ==
    job \in [state : {"none", "next", "waiting", "succeeded", "failed"}, run : Nat,
             step : 1..Len(Plan), attempt : {1, 2}]
GoalsTyped ==
    /\ handle \in [Commands -> {"NONE", "SENT", "EXECUTING", "CANCELING"} \cup Terminal]
    /\ code \in [Commands -> CommandCodes \cup {Nobody}]
    /\ unwanted \subseteq Commands
ExecutorTyped ==
    /\ executor \in [at : {"idle", "command", "configure", "dead", "gone"},
                     goal : Commands \cup {Nobody}]
    /\ future \in {"none", "pending", "completed", "failed", "refused", "raised"}
KitTyped == kit \in Seq(Tasks)
QueueTyped == configs \in Seq(Rounds)
LogTyped == log \in Seq(Events)
RuntimeTyped == runtime \in [scenario : Rounds, run : Nat, program : BOOLEAN, events : Seq(Events)]
ProductTyped ==
    product \in [place : {"none", "carrier", "gripper", "floor", "collided", "fixture",
                         "beside", "out"}, processed : BOOLEAN]
RestTyped ==
    /\ app \in {"running", "joining", "closed"}
    /\ completed \in Seq(Seq(Events))
    /\ written \in Seq(Seq(Events)) \cup {Nobody}
    /\ abandoned \in 0..MaxAbandoned /\ physics \in 0..MaxPhysics

LEMMA SimTypes ==
    SimTypeOK <=> /\ ClientTyped /\ ReadTyped /\ JobTyped /\ GoalsTyped /\ ExecutorTyped /\ KitTyped
                  /\ QueueTyped /\ LogTyped /\ RuntimeTyped /\ ProductTyped /\ RestTyped
BY DEF SimTypeOK, ClientTyped, ReadTyped, JobTyped, GoalsTyped, ExecutorTyped, KitTyped, QueueTyped,
       LogTyped, RuntimeTyped, ProductTyped, RestTyped

LEMMA SimTypesNext ==
    SimTypeOK' <=> /\ ClientTyped' /\ ReadTyped' /\ JobTyped' /\ GoalsTyped' /\ ExecutorTyped'
                   /\ KitTyped' /\ QueueTyped' /\ LogTyped' /\ RuntimeTyped' /\ ProductTyped'
                   /\ RestTyped'
BY DEF SimTypeOK, ClientTyped, ReadTyped, JobTyped, GoalsTyped, ExecutorTyped, KitTyped, QueueTyped,
       LogTyped, RuntimeTyped, ProductTyped, RestTyped

\* Scenarios and steps are numbers.
LEMMA Numbers ==
    /\ Len(Script) \in Nat \ {0} /\ Len(Plan) \in Nat \ {0} /\ DOMAIN Plan = 1..Len(Plan)
    /\ Rounds \subseteq Nat /\ 1 \in Rounds
BY ScriptAssumption, PlanAssumption DEF Rounds

LEMMA OwedFrame ==
    ASSUME Owed, UNCHANGED <<kit, executor, future>>
    PROVE  Owed'
BY DEF Owed

LEMMA ForwardFrame ==
    ASSUME Forward, UNCHANGED <<runtime, log, configs, kit, client.at>>
    PROVE  Forward'
BY DEF Forward

LEMMA StagedFrame ==
    ASSUME Staged, UNCHANGED <<job, client.at, client.phase, runtime.scenario, runtime.run>>
    PROVE  Staged'
BY DEF Staged

LEMMA IssuedFrame ==
    ASSUME Issued, UNCHANGED <<handle, code, client.at, executor>>,
           job'.state = "none" <=> job.state = "none"
    PROVE  Issued'
BY DEF Issued

LEMMA ObservedStays ==
    ASSUME NEW r, Observed(r), DOMAIN log \subseteq DOMAIN log',
           \A k \in DOMAIN log : log'[k] = log[k]
    PROVE  Observed(r)'
BY DEF Observed

LEMMA EvidentFrame ==
    ASSUME Evident, UNCHANGED <<product, runtime.run, log, code, client.at, job, executor, future>>
    PROVE  Evident'
BY DEF Evident, Observed, Inspects

LEMMA PublishConfigureKeeps == ASSUME SimIInv, PublishConfigure PROVE SimIInv'
<1> USE DEF PublishConfigure, goals, stage, rest
<1>0. SimTypeOK /\ Owed /\ Forward /\ Staged /\ Issued /\ Evident
    BY DEF SimIInv
<1>t. /\ ClientTyped /\ ReadTyped /\ JobTyped /\ GoalsTyped /\ ExecutorTyped /\ KitTyped
      /\ QueueTyped /\ LogTyped /\ RuntimeTyped /\ ProductTyped /\ RestTyped
    BY <1>0, SimTypes
<1>1. client.at \in Rounds /\ client.at \in Nat /\ configs \in Seq(Rounds)
    BY <1>t, Numbers DEF ClientTyped, QueueTyped
<1>2. client' = [client EXCEPT !.requests = @ + 1] /\ client'.at = client.at
      /\ client'.phase = client.phase /\ configs' = Append(configs, client.at)
    BY <1>t DEF ClientTyped
<1>3. SimTypeOK'
  <2>1. ClientTyped' /\ ReadTyped'
    BY <1>t, BoundAssumption DEF ClientTyped, ReadTyped
  <2>2. QueueTyped'
    BY <1>1, Longer DEF QueueTyped
  <2> QED
    BY <1>t, <2>1, <2>2, SimTypesNext DEF JobTyped, GoalsTyped, ExecutorTyped, KitTyped, LogTyped,
                                    RuntimeTyped, ProductTyped, RestTyped
<1>4. Forward'
  <2>1. /\ DOMAIN configs' = 1..(Len(configs) + 1) /\ DOMAIN configs = 1..Len(configs)
        /\ \A i \in DOMAIN configs : configs'[i] = configs[i]
        /\ configs'[Len(configs) + 1] = client.at /\ Len(configs) \in Nat
    BY <1>1, <1>2, Longer
  <2>2. runtime.scenario \in Nat /\ \A i \in DOMAIN configs : configs[i] \in Nat
    BY <1>t, Numbers DEF RuntimeTyped, QueueTyped
  <2> QED BY <1>0, <1>1, <1>2, <2>1, <2>2 DEF Forward
<1> QED BY <1>0, <1>2, <1>3, <1>4, OwedFrame, StagedFrame, IssuedFrame, EvidentFrame DEF SimIInv

LEMMA ReadEventKeeps == ASSUME SimIInv, ReadEvent PROVE SimIInv'
<1> USE DEF ReadEvent, goals, stage, rest
<1>0. SimTypeOK /\ Owed /\ Forward /\ Staged /\ Issued /\ Evident
    BY DEF SimIInv
<1>t. /\ ClientTyped /\ ReadTyped /\ JobTyped /\ GoalsTyped /\ ExecutorTyped /\ KitTyped
      /\ QueueTyped /\ LogTyped /\ RuntimeTyped /\ ProductTyped /\ RestTyped
    BY <1>0, SimTypes
<1>1. client'.at = client.at
    BY <1>t DEF ClientTyped
<1>2. SimTypeOK'
  <2>1. client'.base = client.base /\ client'.read = client.read + 1 /\ Len(log) \in Nat
        /\ client.base \in Nat /\ client.read \in Nat
    BY <1>t DEF ClientTyped, LogTyped
  <2>2. ReadTyped'
    BY <1>t, <2>1 DEF ReadTyped
  <2>3. ClientTyped'
    <3>1. PICK p : p = IF Confirms(log[client.read + 1]) THEN "ready" ELSE client.phase
        OBVIOUS
    <3>2. client' = [at |-> client.at, base |-> client.base, read |-> client.read + 1,
                     requests |-> client.requests, phase |-> p]
        BY <1>t, <3>1 DEF ClientTyped
    <3>3. p \in {"ready", client.phase}
        BY <3>1
    <3> HIDE DEF ReadEvent
    <3> QED BY <1>t, <3>2, <3>3 DEF ClientTyped
  <2> QED
    BY <1>t, <2>2, <2>3, SimTypesNext DEF JobTyped, GoalsTyped, ExecutorTyped, KitTyped, QueueTyped,
                                    LogTyped, RuntimeTyped, ProductTyped, RestTyped
<1>3. Staged'
  <2>1. job.state = "none"
    BY <1>0 DEF Staged
  <2>2. CASE Confirms(log[client.read + 1])
    <3>1. client.read + 1 \in DOMAIN log /\ client.at \in Nat /\ runtime.scenario \in Nat
        BY <1>t, Numbers DEF ClientTyped, LogTyped, RuntimeTyped
    <3>2. runtime.scenario = client.at
        BY <1>0, <2>2, <3>1 DEF Forward, Confirms
    <3> QED BY <1>0, <1>1, <2>1, <3>2 DEF Staged
  <2>3. CASE ~Confirms(log[client.read + 1])
    BY <1>0, <1>t, <1>1, <2>1, <2>3 DEF Staged, ClientTyped
  <2> QED BY <2>2, <2>3
<1> QED BY <1>0, <1>1, <1>2, <1>3, OwedFrame, ForwardFrame, IssuedFrame, EvidentFrame DEF SimIInv

LEMMA JobSubmitKeeps == ASSUME SimIInv, Submit PROVE SimIInv'
<1> USE DEF Submit, goals, stage, rest
<1>0. SimTypeOK /\ Owed /\ Forward /\ Staged /\ Issued /\ Evident
    BY DEF SimIInv
<1>t. /\ ClientTyped /\ ReadTyped /\ JobTyped /\ GoalsTyped /\ ExecutorTyped /\ KitTyped
      /\ QueueTyped /\ LogTyped /\ RuntimeTyped /\ ProductTyped /\ RestTyped
    BY <1>0, SimTypes
<1>1. client'.at = client.at /\ client'.phase = "running" /\ job.state = "none"
      /\ job'.state = "next" /\ job'.run = runtime.run /\ job'.step = 1 /\ job'.attempt = 1
    BY <1>0, <1>t DEF ClientTyped, Staged, NoJob
<1>2. SimTypeOK'
  <2>1. ClientTyped' /\ ReadTyped'
    BY <1>t DEF ClientTyped, ReadTyped
  <2>2. JobTyped'
    <3>1. job' = [state |-> "next", run |-> runtime.run, step |-> 1, attempt |-> 1]
        BY DEF NoJob
    <3>2. runtime.run \in Nat /\ 1 \in 1..Len(Plan)
        BY <1>t, Numbers DEF RuntimeTyped
    <3> HIDE DEF Submit
    <3> QED BY <3>1, <3>2 DEF JobTyped
  <2> QED
    BY <1>t, <2>1, <2>2, SimTypesNext DEF GoalsTyped, ExecutorTyped, KitTyped, QueueTyped,
                                    LogTyped, RuntimeTyped, ProductTyped, RestTyped
<1>3. Staged'
    BY <1>0, <1>1 DEF Staged
<1>4. Issued'
    BY <1>0, <1>1 DEF Issued
<1>5. Evident'
  <2>1. \A g \in Commands : Inspects(g) => code[g] = Nobody
    BY <1>0, <1>1 DEF Issued, Inspects
  <2>2. executor.at = "command" => ~Inspects(executor.goal)
    BY <1>0, <1>1 DEF Issued, Owed, Inspects
  <2>3. \A m \in DOMAIN Plan : ~(m < 1)
    BY Numbers
  <2> QED BY <1>0, <1>1, <2>1, <2>2, <2>3, NobodyAssumption DEF Evident, Inspects, CommandCodes
<1> QED BY <1>0, <1>1, <1>2, <1>3, <1>4, <1>5, OwedFrame, ForwardFrame DEF SimIInv

LEMMA LeafFailed ==
    ASSUME JobTyped, LeafFails
    PROVE  /\ JobTyped'
           /\ job'.state \in {"next", "failed"} /\ job'.run = job.run /\ job'.step = job.step
           /\ job'.attempt = 2 => Plan[job.step] = "pick" \/ job.attempt = 2
<1>1. CASE Plan[job.step] = "pick" /\ job.attempt = 1
  <2>1. job' = [state |-> "next", run |-> job.run, step |-> job.step, attempt |-> 2]
    BY <1>1 DEF JobTyped, LeafFails
  <2> QED BY <1>1, <2>1 DEF JobTyped
<1>2. CASE ~(Plan[job.step] = "pick" /\ job.attempt = 1)
  BY <1>2 DEF JobTyped, LeafFails
<1> QED BY <1>1, <1>2

\* A job that goes on, or fails, claims nothing new.
LEMMA EvidentWithJob ==
    ASSUME Evident, UNCHANGED <<product, runtime, log, code, client.at, executor, future>>,
           job'.run = job.run, job'.step = job.step, job.state # "none", job'.state # "succeeded",
           job'.attempt = 2 => Plan[job.step] = "pick" \/ job.attempt = 2
    PROVE  Evident'
BY DEF Evident, Observed, Inspects

LEMMA IssueCommandKeeps == ASSUME SimIInv, IssueCommand PROVE SimIInv'
<1> USE DEF IssueCommand, goals, stage, rest
<1>0. SimTypeOK /\ Owed /\ Forward /\ Staged /\ Issued /\ Evident
    BY DEF SimIInv
<1>t. /\ ClientTyped /\ ReadTyped /\ JobTyped /\ GoalsTyped /\ ExecutorTyped /\ KitTyped
      /\ QueueTyped /\ LogTyped /\ RuntimeTyped /\ ProductTyped /\ RestTyped
    BY <1>0, SimTypes
<1>1. /\ job.state = "next" /\ job'.state = "waiting" /\ job'.run = job.run /\ job'.step = job.step
      /\ job'.attempt = job.attempt
    BY <1>t DEF JobTyped
<1>2. SimTypeOK'
  <2>1. JobTyped' /\ GoalsTyped'
    BY <1>t DEF JobTyped, GoalsTyped
  <2> QED
    BY <1>t, <2>1, SimTypesNext DEF ClientTyped, ReadTyped, ExecutorTyped, KitTyped, QueueTyped,
                                    LogTyped, RuntimeTyped, ProductTyped, RestTyped
<1>3. Staged'
    BY <1>0, <1>1 DEF Staged
<1>4. Issued'
  <2>1. client.at \in Nat
    BY <1>t, Numbers DEF ClientTyped
  <2>2. \A g \in Commands : handle'[g] = IF g = Current THEN "SENT" ELSE handle[g]
    BY <1>t DEF GoalsTyped
  <2>3. Current[1] = client.at
    BY DEF Current
  <2>4. executor.at = "command" => executor.goal \in Commands
    BY <1>0 DEF Owed
  <2> HIDE DEF IssueCommand
  <2>5. UNCHANGED <<client, code, executor>>
    BY DEF IssueCommand
  <2> QED BY <1>0, <1>1, <2>1, <2>2, <2>3, <2>4, <2>5 DEF Issued
<1>5. Evident'
    BY <1>0, <1>1, EvidentWithJob DEF Evident
<1> QED BY <1>0, <1>1, <1>2, <1>3, <1>4, <1>5, OwedFrame, ForwardFrame DEF SimIInv

LEMMA LeafReturnsKeeps == ASSUME SimIInv, LeafReturns PROVE SimIInv'
<1> USE DEF LeafReturns, goals, stage, rest
<1>0. SimTypeOK /\ Owed /\ Forward /\ Staged /\ Issued /\ Evident
    BY DEF SimIInv
<1>t. /\ ClientTyped /\ ReadTyped /\ JobTyped /\ GoalsTyped /\ ExecutorTyped /\ KitTyped
      /\ QueueTyped /\ LogTyped /\ RuntimeTyped /\ ProductTyped /\ RestTyped
    BY <1>0, SimTypes
<1>1. job.state = "waiting"
    OBVIOUS
<1>2. ASSUME JobTyped', job'.state # "none", job'.run = job.run, Evident' PROVE SimIInv'
  <2>1. SimTypeOK'
    BY <1>t, <1>2, SimTypesNext DEF ClientTyped, ReadTyped, GoalsTyped, ExecutorTyped, KitTyped,
                       QueueTyped, LogTyped, RuntimeTyped, ProductTyped, RestTyped
  <2>2. Staged'
    BY <1>0, <1>1, <1>2 DEF Staged
  <2> QED BY <1>0, <1>1, <1>2, <2>1, <2>2, OwedFrame, ForwardFrame, IssuedFrame DEF SimIInv
<1>3. CASE LeafFails
  <2>1. /\ JobTyped' /\ job'.state \in {"next", "failed"} /\ job'.run = job.run
        /\ job'.step = job.step /\ (job'.attempt = 2 => Plan[job.step] = "pick" \/ job.attempt = 2)
    BY <1>t, <1>3, LeafFailed
  <2>2. Evident'
    BY <1>0, <1>1, <2>1, EvidentWithJob
  <2> QED BY <1>2, <2>1, <2>2
<1>4. CASE code[Current] = "completed" /\ ~LeafFails
  <2>1. job' = IF job.step = Len(Plan) THEN [job EXCEPT !.state = "succeeded"]
               ELSE [job EXCEPT !.state = "next", !.step = @ + 1, !.attempt = 1]
    BY <1>4
  <2>2. UNCHANGED <<product, runtime, log, code, client, executor, future>>
    OBVIOUS
  <2> HIDE DEF LeafReturns
  <2>3. job.step \in 1..Len(Plan) /\ job.step \in Nat /\ Len(Plan) \in Nat
    BY <1>t, Numbers DEF JobTyped
  <2>4. \A m \in DOMAIN Plan : m \in Nat /\ m <= Len(Plan)
    BY Numbers
  <2>5. Plan[job.step] = "inspect" => Observed(job.run)
    <3>1. SUFFICES ASSUME Plan[job.step] = "inspect" PROVE Observed(job.run)
        OBVIOUS
    <3>2. job.attempt = 1
        BY <1>0, <1>t, <3>1 DEF Evident, JobTyped
    <3>3. Current \in Commands
        BY <1>t, <2>3, <3>2 DEF Current, Commands, ClientTyped
    <3>4. Inspects(Current)
        BY <3>1 DEF Inspects, Current
    <3> QED BY <1>0, <1>4, <3>3, <3>4 DEF Evident
  <2>6. \A m \in DOMAIN Plan : Plan[m] = "inspect" /\ m <= job.step => Observed(job.run)
    BY <1>0, <1>1, <2>3, <2>4, <2>5 DEF Evident
  <2>7. job'.run = job.run /\ job'.state # "none" /\ JobTyped'
        /\ (job'.attempt = 2 => Plan[job'.step] = "pick")
        /\ (job'.state = "succeeded" => job.step = Len(Plan)) /\ job'.step <= job.step + 1
    <3>1. CASE job.step = Len(Plan)
      <4>1. job' = [job EXCEPT !.state = "succeeded"]
        BY <2>1, <3>1
      <4> QED BY <1>0, <1>t, <2>3, <3>1, <4>1 DEF JobTyped, Evident
    <3>2. CASE job.step # Len(Plan)
      <4>1. job' = [state |-> "next", run |-> job.run, step |-> job.step + 1, attempt |-> 1]
        BY <1>t, <2>1, <3>2 DEF JobTyped
      <4> QED BY <1>t, <2>3, <3>2, <4>1 DEF JobTyped
    <3> QED BY <3>1, <3>2
  <2>8. job'.step \in Nat
    BY <2>7, Numbers DEF JobTyped
  <2>9. \A m \in DOMAIN Plan :
          Plan[m] = "inspect" /\ (m < job'.step \/ job'.state = "succeeded") => Observed(job.run)
    BY <2>3, <2>4, <2>6, <2>7, <2>8
  <2>10. Evident'
    BY <1>0, <2>2, <2>7, <2>9 DEF Evident, Observed, Inspects
  <2> QED BY <1>2, <2>7, <2>10
<1> QED BY <1>3, <1>4

LEMMA GiveUpCommandKeeps == ASSUME SimIInv, GiveUpCommand PROVE SimIInv'
<1> USE DEF GiveUpCommand, goals, stage, rest
<1>0. SimTypeOK /\ Owed /\ Forward /\ Staged /\ Issued /\ Evident
    BY DEF SimIInv
<1>t. /\ ClientTyped /\ ReadTyped /\ JobTyped /\ GoalsTyped /\ ExecutorTyped /\ KitTyped
      /\ QueueTyped /\ LogTyped /\ RuntimeTyped /\ ProductTyped /\ RestTyped
    BY <1>0, SimTypes
<1>1. /\ JobTyped' /\ job'.state \in {"next", "failed"} /\ job'.run = job.run
      /\ job'.step = job.step /\ (job'.attempt = 2 => Plan[job.step] = "pick" \/ job.attempt = 2)
      /\ job.state = "waiting"
    BY <1>t, LeafFailed
<1>2. SimTypeOK'
  <2>1. GoalsTyped'
    <3>1. Current \in Commands
      <4>1. job.attempt = 2 => Plan[job.step] = "pick"
        BY <1>0 DEF Evident
      <4> QED BY <1>t, <4>1 DEF Current, Commands, ClientTyped, JobTyped
    <3> QED BY <1>t, <3>1 DEF GoalsTyped
  <2>2. RestTyped'
    BY <1>t, BoundAssumption DEF RestTyped
  <2> QED
    BY <1>t, <1>1, <2>1, <2>2, SimTypesNext DEF ClientTyped, ReadTyped, ExecutorTyped, KitTyped,
                                   QueueTyped, LogTyped, RuntimeTyped, ProductTyped
<1>3. Staged'
    BY <1>0, <1>1 DEF Staged
<1>4. Evident'
    BY <1>0, <1>1, EvidentWithJob
<1> QED BY <1>0, <1>1, <1>2, <1>3, <1>4, OwedFrame, ForwardFrame, IssuedFrame DEF SimIInv

LEMMA JobResultKeeps == ASSUME SimIInv, JobResult PROVE SimIInv'
<1> USE DEF JobResult, goals, stage, rest
<1>0. SimTypeOK /\ Owed /\ Forward /\ Staged /\ Issued /\ Evident
    BY DEF SimIInv
<1>t. /\ ClientTyped /\ ReadTyped /\ JobTyped /\ GoalsTyped /\ ExecutorTyped /\ KitTyped
      /\ QueueTyped /\ LogTyped /\ RuntimeTyped /\ ProductTyped /\ RestTyped
    BY <1>0, SimTypes
<1>1. client'.at = client.at /\ client'.phase = "evaluate" /\ job.state # "none"
    BY <1>t DEF ClientTyped
<1>2. SimTypeOK'
  <2>1. ClientTyped' /\ ReadTyped'
    BY <1>t DEF ClientTyped, ReadTyped
  <2> QED
    BY <1>t, <2>1, SimTypesNext DEF JobTyped, GoalsTyped, ExecutorTyped, KitTyped, QueueTyped,
                                    LogTyped, RuntimeTyped, ProductTyped, RestTyped
<1>3. Staged'
    BY <1>0, <1>1 DEF Staged
<1> QED BY <1>0, <1>1, <1>2, <1>3, OwedFrame, ForwardFrame, IssuedFrame, EvidentFrame DEF SimIInv

LEMMA GiveUpKeepsStage == ASSUME SimIInv, GiveUp PROVE SimIInv'
<1> USE DEF GiveUp, goals, stage, rest
<1>0. SimTypeOK /\ Owed /\ Forward /\ Staged /\ Issued /\ Evident
    BY DEF SimIInv
<1>t. /\ ClientTyped /\ ReadTyped /\ JobTyped /\ GoalsTyped /\ ExecutorTyped /\ KitTyped
      /\ QueueTyped /\ LogTyped /\ RuntimeTyped /\ ProductTyped /\ RestTyped
    BY <1>0, SimTypes
<1>1. client'.at = client.at /\ client'.phase = "failed" /\ job.state = "none"
    BY <1>0, <1>t DEF ClientTyped, Staged
<1>2. SimTypeOK'
  <2>1. ClientTyped' /\ ReadTyped'
    BY <1>t DEF ClientTyped, ReadTyped
  <2> QED
    BY <1>t, <2>1, SimTypesNext DEF JobTyped, GoalsTyped, ExecutorTyped, KitTyped, QueueTyped,
                                    LogTyped, RuntimeTyped, ProductTyped, RestTyped
<1>3. Staged'
    BY <1>0, <1>1 DEF Staged
<1> QED BY <1>0, <1>1, <1>2, <1>3, OwedFrame, ForwardFrame, IssuedFrame, EvidentFrame DEF SimIInv

LEMMA EvaluateKeeps == ASSUME SimIInv, Evaluate PROVE SimIInv'
<1> USE DEF Evaluate, goals, stage, rest
<1>0. SimTypeOK /\ Owed /\ Forward /\ Staged /\ Issued /\ Evident
    BY DEF SimIInv
<1>t. /\ ClientTyped /\ ReadTyped /\ JobTyped /\ GoalsTyped /\ ExecutorTyped /\ KitTyped
      /\ QueueTyped /\ LogTyped /\ RuntimeTyped /\ ProductTyped /\ RestTyped
    BY <1>0, SimTypes
<1>1. client.at \in Rounds /\ client.at \in Nat /\ client.base \in Nat /\ client.read \in Nat
      /\ Len(log) \in Nat /\ runtime.scenario = client.at
    BY <1>0, <1>t, Numbers DEF ClientTyped, LogTyped, Staged
<1>2. PICK read \in client.read..Len(log) :
          \/ client.at < Len(Script) /\
             client' = [at |-> client.at + 1, phase |-> "configure", base |-> read, read |-> read,
                        requests |-> 0]
          \/ \E p \in {"done", "failed"} : client' = [client EXCEPT !.read = read, !.phase = p]
    OBVIOUS
<1>3. read \in Nat /\ client.read <= read /\ read <= Len(log)
    BY <1>1, <1>2
<1>4. UNCHANGED <<goals, executor, future, kit, app, configs, log, stage, rest>>
      /\ job' = IF client'.phase = "configure" THEN NoJob ELSE job
    OBVIOUS
<1> HIDE DEF Evaluate
<1>5. CASE client.at < Len(Script) /\
             client' = [at |-> client.at + 1, phase |-> "configure", base |-> read, read |-> read,
                        requests |-> 0]
  <2>1. client'.at = client.at + 1 /\ client'.phase = "configure" /\ job' = NoJob
    BY <1>4, <1>5
  <2>2. SimTypeOK'
    <3>1. ClientTyped' /\ ReadTyped'
      <4>1. client.at + 1 \in Rounds /\ 0 \in 0..MaxConfigures
        BY <1>1, <1>5, Numbers, BoundAssumption DEF Rounds
      <4> QED BY <1>3, <1>4, <1>5, <4>1 DEF ClientTyped, ReadTyped
    <3>2. JobTyped'
      BY <2>1, Numbers DEF JobTyped, NoJob
    <3> QED
      BY <1>4, <1>t, <3>1, <3>2, SimTypesNext DEF GoalsTyped, ExecutorTyped, KitTyped, QueueTyped,
                                    LogTyped, RuntimeTyped, ProductTyped, RestTyped
  <2>3. Forward'
    <3>1. \A i \in DOMAIN configs : configs[i] \in Nat
      <4>1. \A i \in DOMAIN configs : configs[i] \in Rounds
        BY <1>t DEF QueueTyped
      <4> QED BY <4>1, Numbers
    <3>2. \A i \in DOMAIN kit : kit[i].kind = "apply" => kit[i].scenario \in Nat
      BY <1>0, Numbers DEF Forward
    <3> QED BY <1>0, <1>1, <1>4, <2>1, <3>1, <3>2 DEF Forward
  <2>4. Staged'
    BY <2>1 DEF Staged, NoJob
  <2>5. \A g \in Commands : handle[g] # "NONE" => g[1] <= client.at /\ g[1] \in Nat
    BY <1>0, Numbers DEF Issued, Commands
  <2>6. Issued'
    BY <1>0, <1>1, <1>4, <2>1, <2>5 DEF Issued, goals
  <2>7. Evident'
    <3>1. \A g \in Commands : g[1] = client.at + 1 => code[g] = Nobody
      BY <1>0, <1>1, <2>5 DEF Issued
    <3>2. executor.at = "command" => executor.goal[1] # client.at + 1
      BY <1>0, <1>1, <2>5 DEF Issued, Owed
    <3>3. \A m \in DOMAIN Plan : ~(m < 1)
      BY Numbers
    <3> QED BY <1>0, <1>4, <2>1, <3>1, <3>2, <3>3, NobodyAssumption
            DEF Evident, Inspects, Observed, NoJob, CommandCodes, goals
  <2> QED BY <1>0, <1>4, <2>2, <2>3, <2>4, <2>6, <2>7, OwedFrame DEF SimIInv
<1>6. CASE \E p \in {"done", "failed"} : client' = [client EXCEPT !.read = read, !.phase = p]
  <2>1. PICK p \in {"done", "failed"} : client' = [client EXCEPT !.read = read, !.phase = p]
    BY <1>6
  <2>2. client' = [at |-> client.at, base |-> client.base, read |-> read,
                   requests |-> client.requests, phase |-> p]
    BY <1>t, <2>1 DEF ClientTyped
  <2>3. client'.at = client.at /\ client'.phase = p /\ job' = job
    BY <1>4, <2>2
  <2>4. SimTypeOK'
    <3>1. ClientTyped' /\ ReadTyped'
      BY <1>1, <1>3, <1>4, <1>t, <2>2 DEF ClientTyped, ReadTyped
    <3> QED
      BY <1>4, <1>t, <2>3, <3>1, SimTypesNext DEF JobTyped, GoalsTyped, ExecutorTyped, KitTyped,
                            QueueTyped, LogTyped, RuntimeTyped, ProductTyped, RestTyped
  <2>5. Staged'
    BY <1>0, <1>1, <1>4, <2>3 DEF Staged
  <2> QED BY <1>0, <1>4, <2>3, <2>4, <2>5, OwedFrame, ForwardFrame, IssuedFrame, EvidentFrame
          DEF SimIInv
<1> QED BY <1>2, <1>5, <1>6

-----------------------------------------------------------------------------
\* The worker.

LEMMA AcceptGoalKeeps == ASSUME SimIInv, NEW g \in Commands, AcceptGoal(g) \/ CancelGoal(g) PROVE SimIInv'
<1> USE DEF AcceptGoal, CancelGoal, goals, stage, rest
<1>0. SimTypeOK /\ Owed /\ Forward /\ Staged /\ Issued /\ Evident
    BY DEF SimIInv
<1>t. /\ ClientTyped /\ ReadTyped /\ JobTyped /\ GoalsTyped /\ ExecutorTyped /\ KitTyped
      /\ QueueTyped /\ LogTyped /\ RuntimeTyped /\ ProductTyped /\ RestTyped
    BY <1>0, SimTypes
<1>1. \E s \in {"EXECUTING", "CANCELING"} : handle' = [handle EXCEPT ![g] = s]
    OBVIOUS
<1>2. handle[g] # "NONE"
    OBVIOUS
<1>3. UNCHANGED <<client, job, code, unwanted, executor, future, kit, app, configs, log, stage, rest>>
    OBVIOUS
<1> HIDE DEF AcceptGoal, CancelGoal
<1>4. SimTypeOK'
  <2>1. GoalsTyped'
    BY <1>t, <1>1, <1>3 DEF GoalsTyped
  <2> QED
    BY <1>t, <1>3, <2>1, SimTypesNext DEF ClientTyped, ReadTyped, JobTyped, ExecutorTyped, KitTyped,
                                   QueueTyped, LogTyped, RuntimeTyped, ProductTyped, RestTyped
<1>5. Issued'
  <2>1. \A h \in Commands : handle'[h] # "NONE" <=> handle[h] # "NONE"
    BY <1>t, <1>1, <1>2 DEF GoalsTyped
  <2>2. executor.at = "command" => executor.goal \in Commands
    BY <1>0 DEF Owed
  <2> QED BY <1>0, <1>3, <2>1, <2>2 DEF Issued
<1> QED BY <1>0, <1>3, <1>4, <1>5, OwedFrame, ForwardFrame, StagedFrame, EvidentFrame DEF SimIInv

\* What is handed over is the last callback.
LEMMA HandedOver ==
    ASSUME KitTyped, NEW kind \in {"command", "acknowledge", "apply"}, NEW g \in Commands \cup {Nobody},
           NEW s \in Rounds \cup {Nobody}, HandOver(kind, g, s)
    PROVE  /\ KitTyped' /\ future' = "pending" /\ kit' # <<>>
           /\ Len(kit) \in Nat /\ Len(kit') = Len(kit) + 1
           /\ DOMAIN kit = 1..Len(kit) /\ DOMAIN kit' = 1..(Len(kit) + 1)
           /\ \A i \in DOMAIN kit : kit'[i] = kit[i]
           /\ kit'[Len(kit) + 1] = [kind |-> kind, goal |-> g, scenario |-> s]
<1> DEFINE e == [kind |-> kind, goal |-> g, scenario |-> s]
<1>1. e \in Tasks
    BY DEF Tasks
<1>2. kit' = Append(kit, e) /\ future' = "pending" /\ kit \in Seq(Tasks)
    BY DEF HandOver, KitTyped
<1> HIDE DEF e
<1>3. kit' \in Seq(Tasks) /\ Len(kit') = Len(kit) + 1 /\ Len(kit) \in Nat
      /\ DOMAIN kit = 1..Len(kit) /\ DOMAIN kit' = 1..(Len(kit) + 1)
      /\ (\A i \in DOMAIN kit : kit'[i] = kit[i]) /\ kit'[Len(kit) + 1] = e
    BY <1>1, <1>2, Longer
<1> QED BY <1>2, <1>3 DEF KitTyped, e

\* A command that is handed over asks nothing of the scenario.
LEMMA BeginCommandKeeps ==
    ASSUME SimIInv, NEW g \in Commands, BeginCommand(g)
    PROVE  SimIInv'
<1> USE DEF BeginCommand, goals, stage, rest
<1>0. SimTypeOK /\ Owed /\ Forward /\ Staged /\ Issued /\ Evident
    BY DEF SimIInv
<1>t. /\ ClientTyped /\ ReadTyped /\ JobTyped /\ GoalsTyped /\ ExecutorTyped /\ KitTyped
      /\ QueueTyped /\ LogTyped /\ RuntimeTyped /\ ProductTyped /\ RestTyped
    BY <1>0, SimTypes
<1>1. Free /\ executor.at = "idle" /\ handle[g] # "NONE"
      /\ UNCHANGED <<client, job, unwanted, app, configs, log, stage, rest>>
    BY DEF Free
<1>2. CASE End(g, "CANCELED", "cancelled") /\ UNCHANGED <<executor, kit, future>>
  <2> HIDE DEF BeginCommand
  <2>1. SimTypeOK'
    <3>1. GoalsTyped'
      BY <1>t, <1>1, <1>2 DEF GoalsTyped, End, Terminal, CommandCodes
    <3> QED
      BY <1>t, <1>1, <1>2, <3>1, SimTypesNext DEF ClientTyped, ReadTyped, JobTyped, ExecutorTyped,
                         KitTyped, QueueTyped, LogTyped, RuntimeTyped, ProductTyped, RestTyped
  <2>2. \A h \in Commands : /\ handle'[h] # "NONE" <=> handle[h] # "NONE"
                            /\ code'[h] = IF h = g THEN "cancelled" ELSE code[h]
    BY <1>t, <1>1, <1>2 DEF GoalsTyped, End
  <2>3. Issued'
    BY <1>0, <1>1, <1>2, <2>2 DEF Issued
  <2>4. Evident'
    BY <1>0, <1>1, <1>2, <2>2 DEF Evident, Inspects, Observed
  <2> QED BY <1>0, <1>1, <1>2, <2>1, <2>3, <2>4, OwedFrame, ForwardFrame, StagedFrame DEF SimIInv
<1>3. CASE executor' = [at |-> "command", goal |-> g] /\ HandOver("command", g, Nobody)
           /\ UNCHANGED <<handle, code>>
  <2> HIDE DEF BeginCommand
  <2>1. /\ KitTyped' /\ future' = "pending" /\ kit' # <<>>
        /\ Len(kit) \in Nat /\ Len(kit') = Len(kit) + 1
        /\ DOMAIN kit = 1..Len(kit) /\ DOMAIN kit' = 1..(Len(kit) + 1)
        /\ \A i \in DOMAIN kit : kit'[i] = kit[i]
        /\ kit'[Len(kit) + 1] = [kind |-> "command", goal |-> g, scenario |-> Nobody]
    BY <1>t, <1>3, HandedOver
  <2>2. SimTypeOK'
    <3>1. ExecutorTyped'
      BY <1>3, <2>1 DEF ExecutorTyped
    <3> QED
      BY <1>t, <1>1, <1>3, <2>1, <3>1, SimTypesNext DEF ClientTyped, ReadTyped, JobTyped, GoalsTyped,
                         QueueTyped, LogTyped, RuntimeTyped, ProductTyped, RestTyped
  <2>3. \A i \in DOMAIN kit : kit[i].kind = "command" /\ kit[i].goal \in Commands
    BY <1>0, <1>1 DEF Owed
  <2>4. \A i \in DOMAIN kit' : kit'[i].kind = "command" /\ kit'[i].goal \in Commands
    BY <2>1, <2>3
  <2>5. Owed'
    BY <1>3, <2>1, <2>4 DEF Owed
  <2>6. Forward'
    BY <1>0, <1>1, <2>4 DEF Forward
  <2>7. Issued'
    BY <1>0, <1>1, <1>3 DEF Issued
  <2>8. Evident'
    BY <1>0, <1>1, <1>3, <2>1 DEF Evident, Inspects, Observed
  <2> QED BY <1>0, <1>1, <2>2, <2>5, <2>6, <2>7, <2>8, StagedFrame DEF SimIInv
<1> QED BY <1>2, <1>3

\* The worker is idle again, or died: what it waited for it no longer does.
LEMMA OwedAfter ==
    ASSUME Owed, UNCHANGED kit, executor'.at # "command", executor'.at # "configure",
           \/ executor'.at = "dead"
           \/ \A i \in DOMAIN kit : kit[i].kind = "command"
    PROVE  Owed'
BY DEF Owed

LEMMA CommandEnds ==
    ASSUME SimIInv, executor.at = "command", NEW ending \in Terminal, NEW c \in CommandCodes,
           End(executor.goal, ending, c),
           c = "completed" => future = "completed",
           executor' = Idle, future' = "none",
           UNCHANGED <<client, job, unwanted, kit, app, configs, log, stage, rest>>
    PROVE  SimIInv'
<1> USE DEF goals, stage, rest
<1>0. SimTypeOK /\ Owed /\ Forward /\ Staged /\ Issued /\ Evident
    BY DEF SimIInv
<1>t. /\ ClientTyped /\ ReadTyped /\ JobTyped /\ GoalsTyped /\ ExecutorTyped /\ KitTyped
      /\ QueueTyped /\ LogTyped /\ RuntimeTyped /\ ProductTyped /\ RestTyped
    BY <1>0, SimTypes
<1>1. executor.goal \in Commands /\ handle[executor.goal] # "NONE"
    BY <1>0 DEF Owed, Issued
<1>2. SimTypeOK'
  <2>1. GoalsTyped' /\ ExecutorTyped'
    BY <1>t, <1>1 DEF GoalsTyped, ExecutorTyped, End, Idle, Terminal, CommandCodes
  <2> QED
    BY <1>t, <2>1, SimTypesNext DEF ClientTyped, ReadTyped, JobTyped, KitTyped, QueueTyped,
                                    LogTyped, RuntimeTyped, ProductTyped, RestTyped
<1>3. \A h \in Commands : /\ handle'[h] # "NONE" <=> handle[h] # "NONE"
                          /\ code'[h] = IF h = executor.goal THEN c ELSE code[h]
  BY <1>t, <1>1 DEF GoalsTyped, End, Terminal
<1>4. Owed'
  BY <1>0, OwedAfter DEF Owed, Idle
<1>5. Issued'
  BY <1>0, <1>1, <1>3 DEF Issued, Idle
<1>6. Evident'
  BY <1>0, <1>1, <1>3 DEF Evident, Inspects, Observed, Idle
<1> QED BY <1>0, <1>2, <1>4, <1>5, <1>6, ForwardFrame, StagedFrame DEF SimIInv

LEMMA FinishCommandKeeps == ASSUME SimIInv, FinishCommand PROVE SimIInv'
<1>1. (IF future = "completed" THEN "SUCCEEDED" ELSE "ABORTED") \in Terminal
  BY DEF Terminal
<1>2. future \in CommandCodes /\ executor.at = "command"
  BY DEF FinishCommand, CommandCodes
<1>3. PICK ending \in Terminal : End(executor.goal, ending, future)
  BY <1>1 DEF FinishCommand
<1> QED BY <1>2, <1>3, CommandEnds DEF FinishCommand

LEMMA CommandExpiresKeeps == ASSUME SimIInv, CommandExpires PROVE SimIInv'
<1>1. "ABORTED" \in Terminal /\ "failed" \in CommandCodes
  BY DEF Terminal, CommandCodes
<1> QED BY <1>1, CommandEnds DEF CommandExpires

LEMMA WorkerRests ==
    ASSUME SimIInv, executor.at # "command", executor' \in {Idle, [at |-> "dead", goal |-> Nobody],
           [at |-> "gone", goal |-> Nobody]}, future' \in {future, "none"},
           executor'.at = "dead" \/ \A i \in DOMAIN kit : kit[i].kind = "command",
           UNCHANGED <<client, job, goals, kit, app, configs, log, stage, rest>>
    PROVE  SimIInv'
<1> USE DEF goals, stage, rest
<1>0. SimTypeOK /\ Owed /\ Forward /\ Staged /\ Issued /\ Evident
    BY DEF SimIInv
<1>t. /\ ClientTyped /\ ReadTyped /\ JobTyped /\ GoalsTyped /\ ExecutorTyped /\ KitTyped
      /\ QueueTyped /\ LogTyped /\ RuntimeTyped /\ ProductTyped /\ RestTyped
    BY <1>0, SimTypes
<1>1. SimTypeOK'
  <2>1. ExecutorTyped'
    BY <1>t DEF ExecutorTyped, Idle
  <2> QED
    BY <1>t, <2>1, SimTypesNext DEF ClientTyped, ReadTyped, JobTyped, GoalsTyped, KitTyped, QueueTyped,
                                    LogTyped, RuntimeTyped, ProductTyped, RestTyped
<1>2. executor'.at # "command" /\ executor'.at # "configure"
  BY DEF Idle
<1>3. Owed'
  BY <1>0, <1>2, OwedAfter
<1>4. Issued' /\ Evident'
  BY <1>0, <1>2 DEF Issued, Evident, Inspects, Observed
<1> QED BY <1>0, <1>1, <1>3, <1>4, ForwardFrame, StagedFrame DEF SimIInv

LEMMA FinishConfigureKeeps == ASSUME SimIInv, FinishConfigure PROVE SimIInv'
<1>1. \A i \in DOMAIN kit : kit[i].kind = "command"
  BY DEF SimIInv, Owed, FinishConfigure
<1> QED BY <1>1, WorkerRests DEF FinishConfigure

LEMMA ConfigureExpiresKeeps == ASSUME SimIInv, ConfigureExpires PROVE SimIInv'
BY WorkerRests DEF ConfigureExpires

LEMMA RetireKeeps == ASSUME SimIInv, Retire PROVE SimIInv'
<1>1. \A i \in DOMAIN kit : kit[i].kind = "command"
  BY DEF SimIInv, Owed, Retire
<1> QED BY <1>1, WorkerRests DEF Retire

LEMMA TakeConfigureKeeps == ASSUME SimIInv, TakeConfigure PROVE SimIInv'
<1> USE DEF TakeConfigure, goals, stage, rest
<1>0. SimTypeOK /\ Owed /\ Forward /\ Staged /\ Issued /\ Evident
    BY DEF SimIInv
<1>t. /\ ClientTyped /\ ReadTyped /\ JobTyped /\ GoalsTyped /\ ExecutorTyped /\ KitTyped
      /\ QueueTyped /\ LogTyped /\ RuntimeTyped /\ ProductTyped /\ RestTyped
    BY <1>0, SimTypes
<1>1. executor.at = "idle" /\ executor'.at = "configure" /\ executor' = [at |-> "configure", goal |-> Nobody]
      /\ UNCHANGED <<client, job, goals, app, log, stage, rest>>
    BY DEF Free
<1>2. /\ Head(configs) = configs[1] /\ Head(configs) \in Rounds /\ Len(configs) \in Nat \ {0}
      /\ configs' \in Seq(Rounds) /\ DOMAIN configs' = 1..(Len(configs) - 1)
      /\ DOMAIN configs = 1..Len(configs)
      /\ \A i \in DOMAIN configs' : i + 1 \in DOMAIN configs /\ configs'[i] = configs[i + 1]
    BY <1>t, Shorter DEF QueueTyped
<1>3. PICK kind \in {"acknowledge", "apply"}, s \in Rounds \cup {Nobody} :
          /\ HandOver(kind, Nobody, s)
          /\ kind = "apply" => s = configs[1] /\ s # runtime.scenario
    BY <1>2
<1> HIDE DEF TakeConfigure
<1>4. /\ KitTyped' /\ future' = "pending" /\ kit' # <<>>
      /\ Len(kit) \in Nat /\ Len(kit') = Len(kit) + 1
      /\ DOMAIN kit = 1..Len(kit) /\ DOMAIN kit' = 1..(Len(kit) + 1)
      /\ \A i \in DOMAIN kit : kit'[i] = kit[i]
      /\ kit'[Len(kit) + 1] = [kind |-> kind, goal |-> Nobody, scenario |-> s]
    BY <1>t, <1>3, HandedOver
<1>5. SimTypeOK'
  <2>1. ExecutorTyped' /\ QueueTyped'
    BY <1>1, <1>2, <1>4 DEF ExecutorTyped, QueueTyped
  <2> QED
    BY <1>t, <1>1, <1>4, <2>1, SimTypesNext DEF ClientTyped, ReadTyped, JobTyped, GoalsTyped,
                          LogTyped, RuntimeTyped, ProductTyped, RestTyped
<1>6. \A i \in DOMAIN kit : kit[i].kind = "command" /\ kit[i].goal \in Commands
  BY <1>0, <1>1 DEF Owed
<1>7. \A i \in DOMAIN kit' : IF i = Len(kit') THEN kit'[i].kind = kind /\ kit'[i].scenario = s
                            ELSE kit'[i].kind = "command" /\ kit'[i].goal \in Commands
  <2>1. \A i \in DOMAIN kit' : i \in DOMAIN kit \/ i = Len(kit')
    BY <1>4
  <2>2. kit'[Len(kit')].kind = kind /\ kit'[Len(kit')].scenario = s
    BY <1>4
  <2>3. \A i \in DOMAIN kit : kit'[i].kind = "command" /\ kit'[i].goal \in Commands
    BY <1>4, <1>6
  <2> QED BY <2>1, <2>2, <2>3
<1>8. Owed'
  BY <1>1, <1>4, <1>7 DEF Owed
<1>9. Forward'
  <2>1. \A i \in DOMAIN configs : configs[i] \in Nat
    <3>1. \A i \in DOMAIN configs : configs[i] \in Rounds
      BY <1>t DEF QueueTyped
    <3> QED BY <3>1, Numbers
  <2>2. 1 \in DOMAIN configs /\ \A i \in DOMAIN configs' : i + 1 \in DOMAIN configs /\ 1 <= i + 1
    BY <1>2
  <2>3. \A i \in DOMAIN configs' : configs[1] <= configs'[i]
    BY <1>0, <1>2, <2>2 DEF Forward
  <2>4. \A i \in DOMAIN configs' : runtime.scenario <= configs'[i] /\ configs'[i] <= client.at
    BY <1>0, <1>2, <2>2 DEF Forward
  <2>5. \A i, j \in DOMAIN configs' : i <= j => configs'[i] <= configs'[j]
    <3>1. \A i, j \in DOMAIN configs' : i <= j => i + 1 <= j + 1
      BY <1>2
    <3> QED BY <1>0, <1>2, <2>2, <3>1 DEF Forward
  <2>6. runtime.scenario \in Nat
    BY <1>t, Numbers DEF RuntimeTyped
  <2>7. kind = "apply" => /\ s \in Rounds /\ runtime.scenario < s /\ s <= client.at
                         /\ \A j \in DOMAIN configs' : s <= configs'[j]
    BY <1>0, <1>2, <1>3, <2>1, <2>2, <2>3, <2>6 DEF Forward
  <2> QED BY <1>0, <1>1, <1>7, <2>4, <2>5, <2>7 DEF Forward
<1>10. Issued' /\ Evident'
  BY <1>0, <1>1 DEF Issued, Evident, Inspects, Observed
<1> QED BY <1>0, <1>1, <1>5, <1>8, <1>9, <1>10, StagedFrame DEF SimIInv

-----------------------------------------------------------------------------
\* The Kit loop.

\* What a callback leaves that had its turn.
LEMMA TurnTaken ==
    ASSUME SimIInv, kit # <<>>, kit' = Tail(kit), NEW verdict, AnswerWorker(verdict),
           verdict \in {"completed", "failed", "refused", "raised"}, UNCHANGED executor
    PROVE  /\ KitTyped' /\ ExecutorTyped' /\ Owed'
           /\ Head(kit) = kit[1] /\ 1 \in DOMAIN kit
           /\ \A i \in DOMAIN kit' : i + 1 \in DOMAIN kit /\ i # 0 /\ kit'[i] = kit[i + 1]
           /\ \A i \in DOMAIN kit : kit[i].kind = "apply" /\ i # 1 => kit[1].kind = "command"
           /\ kit[1].kind # "command" => kit' = <<>>
           /\ executor.at = "command" /\ future' = "completed" =>
                 \/ future = "completed"
                 \/ verdict = "completed" /\ kit[1].kind = "command" /\ kit[1].goal = executor.goal
<1>0. SimTypeOK /\ Owed /\ Forward /\ Staged /\ Issued /\ Evident
    BY DEF SimIInv
<1>t. /\ ClientTyped /\ ReadTyped /\ JobTyped /\ GoalsTyped /\ ExecutorTyped /\ KitTyped
      /\ QueueTyped /\ LogTyped /\ RuntimeTyped /\ ProductTyped /\ RestTyped
    BY <1>0, SimTypes
<1>1. /\ Head(kit) = kit[1] /\ Len(kit) \in Nat \ {0}
      /\ kit' \in Seq(Tasks) /\ Len(kit') = Len(kit) - 1
      /\ DOMAIN kit' = 1..(Len(kit) - 1) /\ DOMAIN kit = 1..Len(kit)
      /\ \A i \in DOMAIN kit' : i + 1 \in DOMAIN kit /\ kit'[i] = kit[i + 1]
    BY <1>t, Shorter DEF KitTyped
<1>2. KitTyped' /\ ExecutorTyped'
    BY <1>t, <1>1 DEF KitTyped, ExecutorTyped, AnswerWorker
<1>3. 1 \in DOMAIN kit /\ \A i \in DOMAIN kit' : i # 0
    BY <1>1
<1>4. kit[1].kind # "command" => Len(kit) = 1 /\ kit' = <<>>
    BY <1>0, <1>1, <1>3 DEF Owed
<1>5. \A i \in DOMAIN kit : kit[i].kind = "apply" /\ i # 1 => kit[1].kind = "command"
    BY <1>1, <1>4
<1>6. future = "pending" /\ Len(kit) = 1 => future' = verdict
    BY DEF AnswerWorker
<1>7. ~(future = "pending" /\ Len(kit) = 1) => future' = future
    BY DEF AnswerWorker
<1>8. kit' # <<>> => Len(kit) # 1 /\ kit'[Len(kit')] = kit[Len(kit)] /\ Len(kit') \in DOMAIN kit'
    BY <1>1
<1>9. future' = "pending" => kit # <<>> /\ future = "pending" /\ kit' # <<>>
    BY <1>1, <1>6, <1>7, SMTT(40)
<1>10. Owed'
  <2>1. \A i \in DOMAIN kit' : kit'[i].kind # "command" => future' = future
    BY <1>1, <1>7, <1>8
  <2>2. \A i \in DOMAIN kit' : i + 1 = Len(kit) => i = Len(kit')
    BY <1>1
  <2> QED BY <1>0, <1>1, <1>8, <1>9, <2>1, <2>2 DEF Owed
<1>11. executor.at = "command" /\ future' = "completed" =>
                 \/ future = "completed"
                 \/ verdict = "completed" /\ kit[1].kind = "command" /\ kit[1].goal = executor.goal
    BY <1>0, <1>6, <1>7 DEF Owed
<1> QED BY <1>1, <1>2, <1>3, <1>4, <1>5, <1>10, <1>11

\* Events are published on the run that is there.
LEMMA Emitted ==
    ASSUME RuntimeTyped, LogTyped, NEW type \in Types, Emit(type)
    PROVE  /\ RuntimeTyped' /\ LogTyped' /\ Len(log) \in Nat /\ Len(log') = Len(log) + 1
           /\ runtime'.scenario = runtime.scenario /\ runtime'.run = runtime.run
           /\ DOMAIN log = 1..Len(log) /\ DOMAIN log' = 1..(Len(log) + 1)
           /\ \A k \in DOMAIN log : log'[k] = log[k]
           /\ LET e == log'[Len(log) + 1]
              IN  e.scenario = runtime.scenario /\ e.run = runtime.run /\ e.type = type
<1> DEFINE e == Event(runtime.scenario, runtime.run, Len(runtime.events) + 1, type)
<1>1. e \in Events
    BY DEF RuntimeTyped, Event, Events
<1>2. e.scenario = runtime.scenario /\ e.run = runtime.run /\ e.type = type
    BY DEF Event
<1>3. runtime' = [runtime EXCEPT !.events = Append(@, e)] /\ log' = Append(log, e)
    BY DEF Emit
<1> HIDE DEF e
<1>4. RuntimeTyped' /\ runtime'.scenario = runtime.scenario /\ runtime'.run = runtime.run
  <2>1. Append(runtime.events, e) \in Seq(Events)
    BY <1>1, Longer DEF RuntimeTyped
  <2>2. PICK q \in Seq(Events) : runtime' = [runtime EXCEPT !.events = q]
    BY <1>3, <2>1
  <2> HIDE DEF Emit
  <2> QED BY <2>2 DEF RuntimeTyped
<1>5. /\ log' \in Seq(Events) /\ Len(log') = Len(log) + 1 /\ Len(log) \in Nat
      /\ DOMAIN log' = 1..(Len(log) + 1) /\ DOMAIN log = 1..Len(log)
      /\ (\A k \in DOMAIN log : log'[k] = log[k]) /\ log'[Len(log) + 1] = e
    BY <1>1, <1>3, Longer DEF LogTyped
<1> QED BY <1>2, <1>4, <1>5 DEF LogTyped

\* Publishing an event, or none, moves neither the client nor the stage.
LEMMA AfterEvents ==
    ASSUME SimIInv, DOMAIN log \subseteq DOMAIN log', Len(log) \in Nat, Len(log') \in Nat,
           Len(log) <= Len(log'), \A k \in DOMAIN log : log'[k] = log[k],
           \A k \in DOMAIN log' : k \notin DOMAIN log => log'[k].scenario = runtime.scenario,
           runtime'.scenario = runtime.scenario, runtime'.run = runtime.run,
           \A i \in DOMAIN kit' : i + 1 \in DOMAIN kit /\ kit'[i] = kit[i + 1],
           UNCHANGED <<client, job, handle, code, unwanted, executor, configs>>
    PROVE  ReadTyped' /\ Forward' /\ Staged' /\ Issued'
<1>0. SimTypeOK /\ Owed /\ Forward /\ Staged /\ Issued /\ Evident
    BY DEF SimIInv
<1>t. /\ ClientTyped /\ ReadTyped /\ JobTyped /\ GoalsTyped /\ ExecutorTyped /\ KitTyped
      /\ QueueTyped /\ LogTyped /\ RuntimeTyped /\ ProductTyped /\ RestTyped
    BY <1>0, SimTypes
<1>1. ReadTyped'
    BY <1>t DEF ReadTyped, ClientTyped
<1>2. runtime.scenario \in Nat
    BY <1>t, Numbers DEF RuntimeTyped
<1>3. Forward'
    BY <1>0, <1>2 DEF Forward
<1> QED BY <1>0, <1>1, <1>3, StagedFrame, IssuedFrame

Products == [place : {"none", "carrier", "gripper", "floor", "collided", "fixture", "beside", "out"},
             processed : BOOLEAN]

\* What a handler returns: only processing makes a processed pen, and publishes that, and an
\* inspection accepts none but a processed one.
Proper(r, order) ==
    /\ r.product \in Products /\ r.verdict \in {"completed", "failed"}
    /\ r.event \in Types \cup {Nobody}
    /\ r.product.processed => product.processed \/ r.event = "processed"
    /\ order = "inspect" /\ r.verdict = "completed" => product.processed /\ r.event = "accepted"

LEMMA ReturnedIsProper ==
    ASSUME NEW p \in Products, NEW verdict \in {"completed", "failed"},
           NEW event \in Types \cup {Nobody}, NEW order,
           p.processed => product.processed \/ event = "processed",
           order = "inspect" /\ verdict = "completed" => product.processed /\ event = "accepted"
    PROVE  \A r \in Returned(p, verdict, event) : Proper(r, order)
BY DEF Returned, Proper

LEMMA HandlerIsProper ==
    ASSUME ProductTyped, NEW order \in {"locate", "pick", "load", "verify", "safe", "select",
                                          "process", "inspect", "unload"}
    PROVE  \A r \in Handler[order] : Proper(r, order)
<1>1. product \in Products
    BY DEF ProductTyped, Products
<1>2. {"empty", "collision", "unobserved", "dropped", "grasp", "unseated", "laser", "processed",
       "accepted", "rejected"} \subseteq Types
    BY DEF Types
<1>3. ASSUME NEW x \in {"none", "carrier", "gripper", "floor", "collided", "fixture", "beside", "out"}
      PROVE  [product EXCEPT !.place = x] \in Products /\
             [product EXCEPT !.place = x].processed = product.processed
    BY <1>1, <1>3 DEF Products
<1>4. ASSUME NEW p \in Products, p.processed = product.processed, NEW verdict \in {"completed", "failed"},
             NEW event \in Types \cup {Nobody}, order # "inspect"
      PROVE  \A r \in Returned(p, verdict, event) : Proper(r, order)
    BY <1>4, ReturnedIsProper
<1>5. ASSUME NEW otherwise, \A r \in otherwise : Proper(r, order), order # "inspect"
      PROVE  \A r \in Obstructed(otherwise) : Proper(r, order)
    BY <1>1, <1>2, <1>3, <1>4, <1>5 DEF Obstructed, Raised
<1>6. CASE order = "locate"
    BY <1>1, <1>2, <1>4, <1>6 DEF Handler, Locate
<1>7. CASE order = "pick"
  <2>1. \A r \in IF Fault = "dropped"
                 THEN Returned([product EXCEPT !.place = "floor"], "failed", "dropped")
                        \cup Returned([product EXCEPT !.place = "floor"], "failed", "grasp")
                 ELSE Returned([product EXCEPT !.place = "gripper"], "completed", Nobody)
           : Proper(r, order)
    BY <1>2, <1>3, <1>4, <1>7
  <2> QED BY <1>5, <1>7, <2>1 DEF Handler, Pick
<1>8. CASE order = "load"
  <2>1. \A r \in Returned([product EXCEPT !.place = IF Fault = "seating" THEN "beside" ELSE "fixture"],
                          "completed", Nobody) : Proper(r, order)
    BY <1>3, <1>4, <1>8
  <2> QED BY <1>5, <1>8, <2>1 DEF Handler, Load
<1>9. CASE order = "unload"
  <2>1. \A r \in Returned([product EXCEPT !.place = "out"], "completed", Nobody) : Proper(r, order)
    BY <1>3, <1>4, <1>9
  <2> QED BY <1>5, <1>9, <2>1 DEF Handler, Unload
<1>10. CASE order = "safe"
    BY <1>1, <1>2, <1>4, <1>5, <1>10 DEF Handler, Safe
<1>11. CASE order = "verify"
    BY <1>1, <1>2, <1>4, <1>11 DEF Handler, Verify, Raised
<1>12. CASE order = "select"
    BY <1>1, <1>4, <1>12 DEF Handler, Select
<1>13. CASE order = "process"
  <2>1. [product EXCEPT !.processed = TRUE] \in Products
    BY <1>1 DEF Products
  <2>2. \A r \in Returned([product EXCEPT !.processed = TRUE], "completed", "processed") :
           Proper(r, order)
    BY <1>2, <1>13, <2>1, ReturnedIsProper
  <2> QED BY <1>1, <1>2, <1>4, <1>13, <2>2 DEF Handler, ProcessPen, Raised
<1>14. CASE order = "inspect"
  <2>1. CASE product.processed /\ Fault # "inspection"
    <3>1. \A r \in Returned(product, "completed", "accepted") : Proper(r, order)
      BY <1>1, <1>2, <2>1, ReturnedIsProper
    <3> QED BY <1>14, <2>1, <3>1 DEF Handler, InspectPen
  <2>2. CASE ~(product.processed /\ Fault # "inspection")
    <3>1. \A r \in Returned(product, "failed", "rejected") : Proper(r, order)
      BY <1>1, <1>2, ReturnedIsProper
    <3> QED BY <1>14, <2>2, <3>1 DEF Handler, InspectPen
  <2> QED BY <2>1, <2>2
<1> QED BY <1>6, <1>7, <1>8, <1>9, <1>10, <1>11, <1>12, <1>13, <1>14

\* A command is carried out, and what it observed is published.
LEMMA RunCommandKeeps == ASSUME SimIInv, RunCommand PROVE SimIInv'
<1> USE DEF goals, stage, rest
<1>0. SimTypeOK /\ Owed /\ Forward /\ Staged /\ Issued /\ Evident
    BY DEF SimIInv
<1>t. /\ ClientTyped /\ ReadTyped /\ JobTyped /\ GoalsTyped /\ ExecutorTyped /\ KitTyped
      /\ QueueTyped /\ LogTyped /\ RuntimeTyped /\ ProductTyped /\ RestTyped
    BY <1>0, SimTypes
<1> DEFINE g == kit[1].goal
           order == Plan[g[2]]
<1>1. /\ kit # <<>> /\ Head(kit).kind = "command" /\ kit' = Tail(kit)
      /\ UNCHANGED <<client, job, handle, code, unwanted, executor, app, configs, completed, written,
                     abandoned, physics>>
    BY DEF RunCommand, Turn
<1>2. Head(kit) = kit[1] /\ 1 \in DOMAIN kit
    BY <1>t, <1>1, Shorter DEF KitTyped
<1>3. g \in Commands /\ kit[1].kind = "command"
    BY <1>0, <1>1, <1>2 DEF Owed
<1>4. order \in {"locate", "pick", "load", "verify", "safe", "select", "process", "inspect", "unload"}
    BY <1>3, PlanAssumption DEF Commands
<1>5. PICK r \in Handler[order] :
          /\ product' = r.product
          /\ AnswerWorker(r.verdict)
          /\ IF r.event # Nobody THEN Emit(r.event)
             ELSE /\ runtime' = [runtime EXCEPT !.program = @ \/ order = "select"]
                  /\ UNCHANGED log
    BY <1>2 DEF RunCommand
<1>6. Proper(r, order)
    BY <1>t, <1>4, HandlerIsProper
<1> HIDE DEF g, order
<1>7. /\ KitTyped' /\ ExecutorTyped' /\ Owed'
      /\ \A i \in DOMAIN kit' : i + 1 \in DOMAIN kit /\ kit'[i] = kit[i + 1]
      /\ executor.at = "command" /\ future' = "completed" =>
             \/ future = "completed"
             \/ r.verdict = "completed" /\ kit[1].goal = executor.goal
    BY <1>1, <1>5, <1>6, TurnTaken DEF Proper
<1>8. /\ RuntimeTyped' /\ LogTyped' /\ runtime'.scenario = runtime.scenario /\ runtime'.run = runtime.run
      /\ Len(log) \in Nat /\ Len(log') \in Nat /\ Len(log) <= Len(log')
      /\ DOMAIN log \subseteq DOMAIN log' /\ DOMAIN log = 1..Len(log)
      /\ \A k \in DOMAIN log : log'[k] = log[k]
      /\ \A k \in DOMAIN log' : k \notin DOMAIN log => log'[k].scenario = runtime.scenario
      /\ r.event # Nobody =>
            /\ Len(log) + 1 \in DOMAIN log'
            /\ log'[Len(log) + 1].run = runtime.run /\ log'[Len(log) + 1].type = r.event
  <2>1. CASE r.event # Nobody
    <3>1. r.event \in Types /\ Emit(r.event)
      BY <1>5, <1>6, <2>1 DEF Proper
    <3>2. /\ RuntimeTyped' /\ LogTyped' /\ Len(log) \in Nat /\ Len(log') = Len(log) + 1
          /\ runtime'.scenario = runtime.scenario /\ runtime'.run = runtime.run
          /\ DOMAIN log = 1..Len(log) /\ DOMAIN log' = 1..(Len(log) + 1)
          /\ \A k \in DOMAIN log : log'[k] = log[k]
          /\ log'[Len(log) + 1].scenario = runtime.scenario
          /\ log'[Len(log) + 1].run = runtime.run /\ log'[Len(log) + 1].type = r.event
      BY <1>t, <3>1, Emitted
    <3>3. \A k \in DOMAIN log' : k \notin DOMAIN log => k = Len(log) + 1
      BY <3>2
    <3> QED BY <3>2, <3>3
  <2>2. CASE r.event = Nobody
    <3>1. PICK b \in BOOLEAN : runtime' = [runtime EXCEPT !.program = b]
      BY <1>5, <2>2
    <3>2. log' = log
      BY <1>5, <2>2
    <3>3. RuntimeTyped' /\ runtime'.scenario = runtime.scenario /\ runtime'.run = runtime.run
      BY <1>t, <3>1 DEF RuntimeTyped
    <3> QED BY <1>t, <2>2, <3>2, <3>3 DEF LogTyped
  <2> QED BY <2>1, <2>2
<1>9. ReadTyped' /\ Forward' /\ Staged' /\ Issued'
    BY <1>1, <1>7, <1>8, AfterEvents
<1>10. SimTypeOK'
  <2>1. ProductTyped'
    BY <1>5, <1>6 DEF Proper, ProductTyped, Products
  <2> QED BY <1>t, <1>1, <1>7, <1>8, <1>9, <2>1, SimTypesNext
          DEF ClientTyped, JobTyped, GoalsTyped, QueueTyped, RestTyped
<1>11. Evident'
  <2>1. \A run : Observed(run) => Observed(run)'
    BY <1>8, ObservedStays
  <2>2. product'.processed =>
          \E i \in DOMAIN log' : log'[i].run = runtime'.run /\ log'[i].type = "processed"
    <3>1. CASE product.processed
      BY <1>0, <1>8, <3>1 DEF Evident
    <3>2. CASE r.event = "processed"
      BY <1>8, <3>2, NobodyAssumption DEF Types
    <3> QED BY <1>5, <1>6, <3>1, <3>2 DEF Proper
  <2>3. order = "inspect" /\ r.verdict = "completed" => Observed(runtime.run)'
    <3>1. SUFFICES ASSUME order = "inspect", r.verdict = "completed" PROVE Observed(runtime.run)'
      OBVIOUS
    <3>2. product.processed /\ r.event = "accepted" /\ r.event # Nobody
      BY <1>6, <3>1, NobodyAssumption DEF Proper, Types
    <3>3. PICK i \in DOMAIN log : log[i].run = runtime.run /\ log[i].type = "processed"
      BY <1>0, <3>2 DEF Evident
    <3>4. i < Len(log) + 1
      BY <1>8
    <3> QED BY <1>8, <3>2, <3>3, <3>4 DEF Observed
  <2>4. executor.at = "command" /\ future' = "completed" /\ Inspects(executor.goal) =>
          Observed(job.run)'
    <3>1. SUFFICES ASSUME executor.at = "command", future' = "completed", Inspects(executor.goal)
                   PROVE  Observed(job.run)'
      OBVIOUS
    <3>2. CASE future = "completed"
      <4>1. Observed(job.run)
        BY <1>0, <3>1, <3>2 DEF Evident
      <4> QED BY <1>1, <2>1, <4>1 DEF Observed
    <3>3. CASE r.verdict = "completed" /\ kit[1].goal = executor.goal
      <4>1. order = "inspect"
        BY <3>1, <3>3 DEF Inspects, order, g
      <4>2. job.run = runtime.run
        BY <1>0, <1>3, <3>1, <3>3 DEF Issued, Inspects, Staged, g
      <4>3. Observed(runtime.run)'
        BY <2>3, <3>3, <4>1
      <4> QED BY <1>1, <1>8, <4>2, <4>3 DEF Observed
    <3> QED BY <1>7, <3>1, <3>2, <3>3
  <2>5. Observed(job.run) => Observed(job.run)'
    BY <1>1, <1>8 DEF Observed
  <2> HIDE DEF Inspects
  <2>6. \A h : Inspects(h)' <=> Inspects(h)
    BY <1>1 DEF Inspects
  <2> QED BY <1>0, <1>1, <2>2, <2>4, <2>5, <2>6 DEF Evident
<1> QED BY <1>7, <1>9, <1>10, <1>11 DEF SimIInv

LEMMA AcknowledgeKeeps == ASSUME SimIInv, Acknowledge PROVE SimIInv'
<1> USE DEF goals, stage, rest
<1>0. SimTypeOK /\ Owed /\ Forward /\ Staged /\ Issued /\ Evident
    BY DEF SimIInv
<1>t. /\ ClientTyped /\ ReadTyped /\ JobTyped /\ GoalsTyped /\ ExecutorTyped /\ KitTyped
      /\ QueueTyped /\ LogTyped /\ RuntimeTyped /\ ProductTyped /\ RestTyped
    BY <1>0, SimTypes
<1>1. /\ kit # <<>> /\ kit' = Tail(kit) /\ Emit("configured") /\ AnswerWorker("completed")
      /\ Head(kit).kind = "acknowledge"
      /\ UNCHANGED <<client, job, handle, code, unwanted, executor, app, configs, product, completed,
                     written, abandoned, physics>>
    BY DEF Acknowledge, Turn
<1>2. /\ KitTyped' /\ ExecutorTyped' /\ Owed'
      /\ \A i \in DOMAIN kit' : i + 1 \in DOMAIN kit /\ kit'[i] = kit[i + 1]
      /\ executor.at = "command" /\ future' = "completed" => future = "completed"
    BY <1>1, TurnTaken
<1>3. /\ RuntimeTyped' /\ LogTyped' /\ Len(log) \in Nat /\ Len(log') = Len(log) + 1
      /\ runtime'.scenario = runtime.scenario /\ runtime'.run = runtime.run
      /\ DOMAIN log = 1..Len(log) /\ DOMAIN log' = 1..(Len(log) + 1)
      /\ \A k \in DOMAIN log : log'[k] = log[k]
      /\ log'[Len(log) + 1].scenario = runtime.scenario
  <2>1. "configured" \in Types
    BY DEF Types
  <2> QED BY <1>t, <1>1, <2>1, Emitted
<1>4. ReadTyped' /\ Forward' /\ Staged' /\ Issued'
  <2>1. \A k \in DOMAIN log' : k \notin DOMAIN log => k = Len(log) + 1
    BY <1>3
  <2>2. DOMAIN log \subseteq DOMAIN log' /\ Len(log') \in Nat /\ Len(log) <= Len(log')
    BY <1>3
  <2> QED BY <1>1, <1>2, <1>3, <2>1, <2>2, AfterEvents
<1>5. SimTypeOK'
  BY <1>t, <1>1, <1>2, <1>3, <1>4, SimTypesNext
     DEF ClientTyped, JobTyped, GoalsTyped, QueueTyped, RestTyped, ProductTyped
<1>6. Evident'
  <2>1. DOMAIN log \subseteq DOMAIN log'
    BY <1>3
  <2>2. Observed(job.run) => Observed(job.run)'
    BY <1>1, <1>3, <2>1 DEF Observed
  <2>3. \A h : Inspects(h)' <=> Inspects(h)
    BY <1>1 DEF Inspects
  <2> QED BY <1>0, <1>1, <1>2, <1>3, <2>1, <2>2, <2>3 DEF Evident
<1> QED BY <1>2, <1>4, <1>5, <1>6 DEF SimIInv

\* The stage is only rebuilt for a scenario ahead of it, so that no job is at work.
LEMMA ApplyKeeps == ASSUME SimIInv, Apply PROVE SimIInv'
<1> USE DEF goals, stage, rest
<1>0. SimTypeOK /\ Owed /\ Forward /\ Staged /\ Issued /\ Evident
    BY DEF SimIInv
<1>t. /\ ClientTyped /\ ReadTyped /\ JobTyped /\ GoalsTyped /\ ExecutorTyped /\ KitTyped
      /\ QueueTyped /\ LogTyped /\ RuntimeTyped /\ ProductTyped /\ RestTyped
    BY <1>0, SimTypes
<1> DEFINE s == kit[1].scenario
           e == Event(s, runtime.run + 1, 1, "configured")
<1>1. /\ kit # <<>> /\ kit' = Tail(kit) /\ AnswerWorker("completed") /\ Head(kit).kind = "apply"
      /\ UNCHANGED <<client, job, handle, code, unwanted, executor, app, configs, written, abandoned,
                     physics>>
    BY DEF Apply, Turn
<1>2. /\ KitTyped' /\ ExecutorTyped' /\ Owed' /\ Head(kit) = kit[1] /\ 1 \in DOMAIN kit
      /\ kit[1].kind # "command" => kit' = <<>>
      /\ executor.at = "command" /\ future' = "completed" => future = "completed"
    BY <1>1, TurnTaken
<1>3. /\ s \in Rounds /\ s \in Nat /\ runtime.scenario < s /\ s <= client.at
      /\ \A j \in DOMAIN configs : s <= configs[j]
    BY <1>0, <1>1, <1>2, Numbers DEF Forward
<1>4. /\ completed' = Append(completed, runtime.events)
      /\ runtime' = [scenario |-> s, run |-> runtime.run + 1, program |-> FALSE, events |-> <<e>>]
      /\ log' = log \o <<e>> /\ product' = Spawned(s)
    BY <1>2 DEF Apply, NewRuntime
<1>5. runtime.run \in Nat /\ runtime.scenario \in Nat /\ client.at \in Nat /\ runtime.events \in Seq(Events)
    BY <1>t, Numbers DEF RuntimeTyped, ClientTyped
<1>6. e \in Events /\ e.scenario = s
    BY <1>3, <1>5 DEF Event, Events, Types
<1> HIDE DEF s, e
<1>7. kit' = <<>> /\ DOMAIN kit' = {}
  BY <1>1, <1>2
<1>8. job.state = "none" /\ client.phase \in {"configure", "failed"}
  <2>1. runtime.scenario # client.at
    BY <1>3, <1>5
  <2> QED BY <1>0, <2>1 DEF Staged
<1>9. /\ log' \in Seq(Events) /\ Len(log) \in Nat /\ Len(log') = Len(log) + 1
      /\ DOMAIN log = 1..Len(log) /\ DOMAIN log' = 1..(Len(log) + 1)
      /\ (\A k \in DOMAIN log : log'[k] = log[k]) /\ log'[Len(log) + 1] = e
  <2>1. log \o <<e>> = Append(log, e) /\ log \in Seq(Events)
    BY <1>t, <1>6 DEF LogTyped
  <2> QED BY <1>4, <1>6, <2>1, Longer
<1>10. SimTypeOK'
  <2>1. RuntimeTyped' /\ LogTyped'
    <3>1. <<e>> \in Seq(Events)
      BY <1>6
    <3> QED BY <1>3, <1>4, <1>5, <1>9, <3>1 DEF RuntimeTyped, LogTyped
  <2>2. ProductTyped'
    BY <1>4 DEF ProductTyped, Spawned
  <2>3. RestTyped'
    <3>1. completed' \in Seq(Seq(Events))
      BY <1>t, <1>4, <1>5, Longer DEF RestTyped
    <3> QED BY <1>t, <1>1, <3>1 DEF RestTyped
  <2>4. ReadTyped'
    BY <1>t, <1>1, <1>9 DEF ReadTyped, ClientTyped
  <2> QED BY <1>t, <1>1, <1>2, <2>1, <2>2, <2>3, <2>4, SimTypesNext
          DEF ClientTyped, JobTyped, GoalsTyped, QueueTyped
<1>11. Forward'
  <2>1. \A k \in DOMAIN log : log'[k].scenario <= s
    <3>1. \A k \in DOMAIN log : log[k].scenario \in Nat
      <4>1. \A k \in DOMAIN log : log[k] \in Events
        BY <1>t DEF LogTyped
      <4>2. \A k \in DOMAIN log : log[k].scenario \in Rounds
        BY <4>1 DEF Events
      <4> QED BY <4>2, Numbers
    <3> QED BY <1>0, <1>3, <1>5, <1>9, <3>1 DEF Forward
  <2>2. \A k \in DOMAIN log' : k \in DOMAIN log \/ k = Len(log) + 1
    BY <1>9
  <2>3. \A k \in DOMAIN log' : log'[k].scenario <= s
    BY <1>3, <1>6, <1>9, <2>1, <2>2
  <2> QED BY <1>0, <1>1, <1>3, <1>4, <1>7, <2>3 DEF Forward
<1>12. Staged'
  BY <1>0, <1>1, <1>8 DEF Staged
<1>13. Issued'
  BY <1>0, <1>1, IssuedFrame
<1>14. Evident'
  <2>1. ~product'.processed
    BY <1>4 DEF Spawned
  <2>2. Observed(job.run) => Observed(job.run)'
    <3>1. DOMAIN log \subseteq DOMAIN log'
      BY <1>9
    <3> QED BY <1>1, <1>9, <3>1 DEF Observed
  <2>3. \A h : Inspects(h)' <=> Inspects(h)
    BY <1>1 DEF Inspects
  <2> QED BY <1>0, <1>1, <1>2, <2>1, <2>2, <2>3 DEF Evident
<1> QED BY <1>2, <1>10, <1>11, <1>12, <1>13, <1>14 DEF SimIInv

LEMMA ApplyFailsKeeps == ASSUME SimIInv, ApplyFails PROVE SimIInv'
<1> USE DEF goals, stage, rest
<1>0. SimTypeOK /\ Owed /\ Forward /\ Staged /\ Issued /\ Evident
    BY DEF SimIInv
<1>t. /\ ClientTyped /\ ReadTyped /\ JobTyped /\ GoalsTyped /\ ExecutorTyped /\ KitTyped
      /\ QueueTyped /\ LogTyped /\ RuntimeTyped /\ ProductTyped /\ RestTyped
    BY <1>0, SimTypes
<1>1. PICK verdict \in {"refused", "raised"} : AnswerWorker(verdict)
    BY DEF ApplyFails
<1>2. /\ kit # <<>> /\ kit' = Tail(kit) /\ Head(kit).kind = "apply"
      /\ completed' = Append(completed, runtime.events)
      /\ product' = [place |-> "none", processed |-> FALSE]
      /\ UNCHANGED <<client, job, handle, code, unwanted, executor, app, configs, log, runtime, written,
                     abandoned>>
    BY DEF ApplyFails, Turn
<1>3. /\ KitTyped' /\ ExecutorTyped' /\ Owed' /\ Head(kit) = kit[1] /\ 1 \in DOMAIN kit
      /\ kit[1].kind # "command" => kit' = <<>>
      /\ executor.at = "command" /\ future' = "completed" => future = "completed"
    BY <1>1, <1>2, TurnTaken
<1>4. kit' = <<>> /\ DOMAIN kit' = {}
    BY <1>2, <1>3
<1>5. SimTypeOK'
  <2>1. ProductTyped'
    BY <1>2 DEF ProductTyped
  <2>2. RestTyped'
    <3>1. completed' \in Seq(Seq(Events))
      BY <1>t, <1>2, Longer DEF RestTyped, RuntimeTyped
    <3>2. physics' \in 0..MaxPhysics
      BY <1>t, BoundAssumption DEF RestTyped, ApplyFails
    <3> QED BY <1>t, <1>2, <3>1, <3>2 DEF RestTyped
  <2> QED BY <1>t, <1>2, <1>3, <2>1, <2>2, SimTypesNext
          DEF ClientTyped, ReadTyped, JobTyped, GoalsTyped, QueueTyped, RuntimeTyped, LogTyped
<1>6. Forward'
  BY <1>0, <1>2, <1>4 DEF Forward
<1>7. Evident'
  <2>1. ~product'.processed
    BY <1>2
  <2>2. Observed(job.run)' <=> Observed(job.run)
    BY <1>2 DEF Observed
  <2>3. \A h : Inspects(h)' <=> Inspects(h)
    BY <1>2 DEF Inspects
  <2> QED BY <1>0, <1>2, <1>3, <2>1, <2>2, <2>3 DEF Evident
<1> QED BY <1>0, <1>2, <1>3, <1>5, <1>6, <1>7, StagedFrame, IssuedFrame DEF SimIInv

LEMMA ProcessEndKeeps == ASSUME SimIInv, Stop \/ Close PROVE SimIInv'
<1> USE DEF Stop, Close, goals, stage, rest
<1>0. SimTypeOK /\ Owed /\ Forward /\ Staged /\ Issued /\ Evident
    BY DEF SimIInv
<1>t. /\ ClientTyped /\ ReadTyped /\ JobTyped /\ GoalsTyped /\ ExecutorTyped /\ KitTyped
      /\ QueueTyped /\ LogTyped /\ RuntimeTyped /\ ProductTyped /\ RestTyped
    BY <1>0, SimTypes
<1>1. UNCHANGED <<client, job, goals, executor, future, kit, configs, log, stage, abandoned, physics>>
    OBVIOUS
<1>2. RestTyped'
  <2>1. Append(completed, runtime.events) \in Seq(Seq(Events))
    BY <1>t, Longer DEF RestTyped, RuntimeTyped
  <2> QED BY <1>t, <2>1 DEF RestTyped
<1> HIDE DEF Stop, Close
<1>3. SimTypeOK'
  BY <1>t, <1>1, <1>2, SimTypesNext DEF ClientTyped, ReadTyped, JobTyped, GoalsTyped, ExecutorTyped,
                             KitTyped, QueueTyped, LogTyped, RuntimeTyped, ProductTyped
<1> QED BY <1>0, <1>1, <1>3, OwedFrame, ForwardFrame, StagedFrame, IssuedFrame, EvidentFrame DEF SimIInv

LEMMA SimStart == SimInit => SimIInv
<1> SUFFICES ASSUME SimInit PROVE SimIInv
    OBVIOUS
<1>1. log = <<Event(1, 1, 1, "configured")>> /\ configs = <<>> /\ kit = <<>>
      /\ runtime = [scenario |-> 1, run |-> 1, program |-> FALSE, events |-> log]
      /\ completed = <<>> /\ written = Nobody
    BY DEF SimInit, NewRuntime
<1>2. Event(1, 1, 1, "configured") \in Events
    BY Numbers DEF Event, Events, Types
<1>3. log \in Seq(Events) /\ Len(log) = 1 /\ DOMAIN log = {1} /\ log[1].scenario = 1
      /\ log[1].type = "configured"
  BY <1>1, <1>2 DEF Event
<1>4. client.at = 1 /\ client.phase = "configure" /\ client.base \in {0, 1} /\ client.read = client.base
  BY DEF SimInit
<1>5. SimTypeOK
  <2>1. ClientTyped /\ ReadTyped
    BY <1>3, <1>4, Numbers, BoundAssumption DEF SimInit, ClientTyped, ReadTyped
  <2>2. JobTyped /\ GoalsTyped /\ ExecutorTyped
    BY Numbers DEF SimInit, JobTyped, NoJob, GoalsTyped, ExecutorTyped, Idle
  <2>3. KitTyped /\ QueueTyped /\ LogTyped /\ RuntimeTyped
    BY <1>1, <1>3, Numbers DEF KitTyped, QueueTyped, LogTyped, RuntimeTyped
  <2>5. ProductTyped
    BY DEF SimInit, ProductTyped, Spawned
  <2>4. RestTyped
    BY <1>1, BoundAssumption DEF SimInit, RestTyped
  <2> QED BY <2>1, <2>2, <2>3, <2>4, <2>5, SimTypes
<1>6. Owed /\ Forward
  <2>1. DOMAIN kit = {} /\ DOMAIN configs = {} /\ executor.at = "idle"
    BY <1>1 DEF SimInit, Idle
  <2> QED BY <1>1, <1>3, <1>4, <2>1 DEF Owed, Forward
<1>7. Staged /\ Issued
  BY <1>1, <1>4 DEF SimInit, Staged, Issued, NoJob, Idle
<1>8. Evident
  <2>1. ~product.processed /\ job.attempt = 1 /\ job.state = "none" /\ executor.at = "idle"
    BY DEF SimInit, Spawned, NoJob, Idle
  <2>2. \A g \in Commands : code[g] # "completed"
    BY NobodyAssumption DEF SimInit, CommandCodes
  <2> QED BY <2>1, <2>2 DEF Evident
<1> QED BY <1>5, <1>6, <1>7, <1>8 DEF SimIInv

LEMMA SimKeeps == SimIInv /\ [SimNext]_simVars => SimIInv'
<1> SUFFICES ASSUME SimIInv, [SimNext]_simVars PROVE SimIInv'
    OBVIOUS
<1>1. CASE ClientStep
  BY <1>1, PublishConfigureKeeps, ReadEventKeeps, JobSubmitKeeps, IssueCommandKeeps, LeafReturnsKeeps,
     GiveUpCommandKeeps, JobResultKeeps, EvaluateKeeps, GiveUpKeepsStage DEF ClientStep
<1>2. CASE \E g \in Commands : AcceptGoal(g) \/ CancelGoal(g) \/ BeginCommand(g)
  BY <1>2, AcceptGoalKeeps, BeginCommandKeeps
<1>3. CASE TakeConfigure
  BY <1>3, TakeConfigureKeeps
<1>4. CASE ExecutorStep
  BY <1>4, FinishCommandKeeps, CommandExpiresKeeps, FinishConfigureKeeps, ConfigureExpiresKeeps,
     RetireKeeps DEF ExecutorStep
<1>5. CASE KitStep
  BY <1>5, RunCommandKeeps, AcknowledgeKeeps, ApplyKeeps, ApplyFailsKeeps DEF KitStep
<1>6. CASE Stop \/ Close
  BY <1>6, ProcessEndKeeps
<1>7. CASE UNCHANGED simVars
  <2> USE <1>7 DEF simVars, goals, stage, rest
<2>0. SimTypeOK /\ Owed /\ Forward /\ Staged /\ Issued /\ Evident
    BY DEF SimIInv
<2>t. /\ ClientTyped /\ ReadTyped /\ JobTyped /\ GoalsTyped /\ ExecutorTyped /\ KitTyped
      /\ QueueTyped /\ LogTyped /\ RuntimeTyped /\ ProductTyped /\ RestTyped
    BY <2>0, SimTypes
  <2>1. SimTypeOK'
    BY <2>0, SMTT(40) DEF SimTypeOK
  <2> QED BY <2>0, <2>1, OwedFrame, ForwardFrame, StagedFrame, IssuedFrame, EvidentFrame DEF SimIInv
<1> QED BY <1>1, <1>2, <1>3, <1>4, <1>5, <1>6, <1>7 DEF SimNext

\* The inductive invariant of the simulated cell and its client.
THEOREM SimInvariance == SimSpec => []SimIInv
BY SimStart, SimKeeps, PTL DEF SimSpec

\* A job runs from its first command to its last on the run that was built for its scenario, for
\* every script, tree and number of repeated, refused and abandoned requests.
THEOREM JobsKeepTheirRun == SimSpec => []OneRunPerJob
<1>1. SimIInv => OneRunPerJob
  BY DEF SimIInv, Staged, OneRunPerJob, Working
<1> QED BY <1>1, SimInvariance, PTL

\* A job that succeeds was observed to: its pen was processed and then accepted, on its own run.
THEOREM SuccessesWereObserved == SimSpec => []SuccessWasObserved
<1>1. SimIInv => SuccessWasObserved
  BY PlanAssumption DEF SimIInv, Evident, SuccessWasObserved
<1> QED BY <1>1, SimInvariance, PTL

\* The events that are kept: those saved, and those of the runtime that is there.
Saved(e) ==
    \/ \E i \in DOMAIN completed : \E j \in DOMAIN completed[i] : completed[i][j] = e
    \/ \E j \in DOMAIN runtime.events : runtime.events[j] = e

LEMMA SavedMeans ==
    ASSUME NEW T, NEW runs \in Seq(T), NEW run \in T, NEW e
    PROVE  KeptIn(Append(runs, run), e) <=>
             \/ \E i \in DOMAIN runs : \E j \in DOMAIN runs[i] : runs[i][j] = e
             \/ \E j \in DOMAIN run : run[j] = e
<1>1. /\ DOMAIN Append(runs, run) = 1..(Len(runs) + 1) /\ DOMAIN runs = 1..Len(runs)
      /\ \A i \in DOMAIN runs : Append(runs, run)[i] = runs[i]
      /\ Append(runs, run)[Len(runs) + 1] = run /\ Len(runs) \in Nat
    BY Longer
<1>2. \A i \in DOMAIN Append(runs, run) : i \in DOMAIN runs \/ i = Len(runs) + 1
    BY <1>1
<1>3. DOMAIN runs \subseteq DOMAIN Append(runs, run) /\ Len(runs) + 1 \in DOMAIN Append(runs, run)
    BY <1>1
<1> QED BY <1>1, <1>2, <1>3 DEF KeptIn

Archived ==
    /\ \A k \in DOMAIN log : Saved(log[k])
    /\ app # "closed" => written = Nobody
    /\ written # Nobody => \A k \in DOMAIN log : KeptIn(written, log[k])

\* One more event is published, and kept as those before it.
LEMMA ArchivedGrows ==
    ASSUME Archived, log \in Seq(Events), NEW e \in Events, log' = Append(log, e),
           \A x : x = e \/ Saved(x) => Saved(x)', app' = "running", written' = Nobody
    PROVE  Archived'
<1>1. /\ DOMAIN log' = 1..(Len(log) + 1) /\ DOMAIN log = 1..Len(log) /\ Len(log) \in Nat
      /\ (\A k \in DOMAIN log : log'[k] = log[k]) /\ log'[Len(log) + 1] = e
    BY Longer
<1>2. \A k \in DOMAIN log' : k \in DOMAIN log \/ k = Len(log) + 1
    BY <1>1
<1>3. \A k \in DOMAIN log' : log'[k] = e \/ Saved(log'[k])
    BY <1>1, <1>2 DEF Archived
<1>4. ASSUME NEW k \in DOMAIN log' PROVE Saved(log[k])'
  <2>1. PICK x : x = log'[k]
    OBVIOUS
  <2>2. Saved(x)'
    BY <1>3, <1>4, <2>1
  <2> QED BY <2>1, <2>2 DEF Saved
<1> QED BY <1>4 DEF Archived

LEMMA EmittedIsKept ==
    ASSUME SimIInv, Archived, NEW type \in Types, Emit(type), UNCHANGED <<app, completed, written>>,
           app = "running"
    PROVE  Archived'
<1> DEFINE e == Event(runtime.scenario, runtime.run, Len(runtime.events) + 1, type)
<1>1. runtime.events \in Seq(Events) /\ log \in Seq(Events) /\ e \in Events
    BY DEF SimIInv, SimTypeOK, Event, Events
<1>2. runtime'.events = Append(runtime.events, e) /\ log' = Append(log, e)
    BY DEF Emit, SimIInv, SimTypeOK
<1> HIDE DEF e
<1>3. /\ DOMAIN runtime.events = 1..Len(runtime.events) /\ Len(runtime.events) \in Nat
      /\ DOMAIN runtime'.events = 1..(Len(runtime.events) + 1)
      /\ \A j \in DOMAIN runtime.events : runtime'.events[j] = runtime.events[j]
      /\ runtime'.events[Len(runtime.events) + 1] = e
    BY <1>1, <1>2, Longer
<1>4. /\ DOMAIN runtime.events \subseteq DOMAIN runtime'.events
      /\ Len(runtime.events) + 1 \in DOMAIN runtime'.events
    BY <1>3
<1>5. \A x : x = e \/ Saved(x) => Saved(x)'
    BY <1>3, <1>4 DEF Saved
<1> QED BY <1>1, <1>2, <1>5, ArchivedGrows DEF Archived

LEMMA ArchiveKeeps == SimIInv /\ Archived /\ [SimNext]_simVars => Archived'
<1> SUFFICES ASSUME SimIInv, Archived, [SimNext]_simVars PROVE Archived'
    OBVIOUS
<1> USE DEF goals, stage, rest
<1>t. completed \in Seq(Seq(Events)) /\ runtime.events \in Seq(Events) /\ log \in Seq(Events)
      /\ ProductTyped /\ RuntimeTyped
    BY SimTypes DEF SimIInv, SimTypeOK, RuntimeTyped
<1>1. ASSUME UNCHANGED <<log, completed, runtime.events, written, app>> PROVE Archived'
    BY <1>1 DEF Archived, Saved
<1>2. CASE ClientStep
    BY <1>1, <1>2 DEF ClientStep, PublishConfigure, ReadEvent, Submit, IssueCommand, LeafReturns,
                      GiveUpCommand, JobResult, Evaluate, GiveUp
<1>3. CASE \E g \in Commands : AcceptGoal(g) \/ CancelGoal(g) \/ BeginCommand(g)
    BY <1>1, <1>3 DEF AcceptGoal, CancelGoal, BeginCommand
<1>4. CASE TakeConfigure \/ ExecutorStep
    BY <1>1, <1>4 DEF TakeConfigure, ExecutorStep, FinishCommand, CommandExpires, FinishConfigure,
                      ConfigureExpires, Retire
<1>5. CASE RunCommand
  <2>1. app = "running" /\ UNCHANGED <<app, completed, written>>
    BY <1>5 DEF RunCommand, Turn
  <2>2. Head(kit) \in Tasks /\ Head(kit) = kit[1] /\ 1 \in DOMAIN kit
    BY <1>5, Shorter, SMTT(40) DEF SimIInv, SimTypeOK, RunCommand, Turn
  <2>3. Head(kit).goal \in Commands
    BY <1>5, <2>2 DEF SimIInv, Owed, RunCommand, Turn
  <2>4. Plan[Head(kit).goal[2]] \in {"locate", "pick", "load", "verify", "safe", "select", "process",
                                     "inspect", "unload"}
    BY <2>3, PlanAssumption DEF Commands
  <2>5. PICK r \in Handler[Plan[Head(kit).goal[2]]] :
            IF r.event # Nobody THEN Emit(r.event)
            ELSE /\ runtime' = [runtime EXCEPT !.program = @ \/ Plan[Head(kit).goal[2]] = "select"]
                 /\ UNCHANGED log
    BY <1>5 DEF RunCommand
  <2>6. r.event \in Types \cup {Nobody}
    BY <1>t, <2>4, <2>5, HandlerIsProper DEF Proper
  <2>7. CASE r.event # Nobody
    BY <2>1, <2>5, <2>6, <2>7, EmittedIsKept
  <2>8. CASE r.event = Nobody
    <3>1. UNCHANGED <<log, runtime.events>>
      BY <1>t, <2>5, <2>8 DEF RuntimeTyped
    <3> QED BY <1>1, <2>1, <3>1
  <2> QED BY <2>7, <2>8
<1>6. CASE Acknowledge
  <2>1. "configured" \in Types /\ Emit("configured") /\ app = "running"
        /\ UNCHANGED <<app, completed, written>>
    BY <1>6 DEF Types, Acknowledge, Turn
  <2> QED BY <2>1, EmittedIsKept
<1>7. ASSUME completed' = Append(completed, runtime.events)
      PROVE  \A x : Saved(x) => \E i \in DOMAIN completed' : \E j \in DOMAIN completed'[i] : completed'[i][j] = x
  <2>1. \A x : Saved(x) => KeptIn(Append(completed, runtime.events), x)
    BY <1>t, SavedMeans DEF Saved
  <2> QED BY <1>7, <2>1 DEF KeptIn
<1>8. CASE Apply
  <2>1. Head(kit).scenario \in Rounds /\ runtime.run + 1 \in Nat
    <3>1. kit \in Seq(Tasks) /\ kit # <<>> /\ Head(kit).kind = "apply"
      BY <1>8 DEF SimIInv, SimTypeOK, Apply, Turn
    <3>2. Head(kit) = kit[1] /\ 1 \in DOMAIN kit
      BY <3>1, Shorter
    <3>3. runtime.run \in Nat
      BY <1>t DEF RuntimeTyped
    <3> QED BY <3>1, <3>2, <3>3 DEF SimIInv, Forward
  <2>2. PICK e : e = Event(Head(kit).scenario, runtime.run + 1, 1, "configured")
    OBVIOUS
  <2>3. e \in Events
    BY <2>1, <2>2 DEF Event, Events, Types
  <2>4. runtime'.events = <<e>> /\ log' = log \o <<e>>
    BY <1>8, <2>2 DEF Apply, NewRuntime
  <2>5. completed' = Append(completed, runtime.events) /\ app = "running" /\ UNCHANGED <<app, written>>
    BY <1>8 DEF Apply, Turn
  <2>6. log' = Append(log, e)
    BY <1>t, <2>3, <2>4
  <2>7. \A x : x = e \/ Saved(x) => Saved(x)'
    <3>1. \A x : Saved(x) => Saved(x)'
      BY <1>7, <2>5 DEF Saved
    <3>2. \A x : x = e => Saved(x)'
      BY <2>4 DEF Saved
    <3> QED BY <3>1, <3>2
  <2> QED BY <1>t, <2>3, <2>5, <2>6, <2>7, ArchivedGrows DEF Archived
<1>9. CASE ApplyFails
  <2>1. completed' = Append(completed, runtime.events) /\ app = "running"
        /\ UNCHANGED <<app, written, log, runtime>>
    BY <1>9 DEF ApplyFails, Turn
  <2>2. \A x : Saved(x) => Saved(x)'
    BY <1>7, <2>1 DEF Saved
  <2> QED BY <2>1, <2>2 DEF Archived, Saved
<1>10. CASE Stop
  BY <1>10 DEF Archived, Saved, Stop
<1>11. CASE Close
  <2>1. written' = Append(completed, runtime.events) /\ app' = "closed" /\ UNCHANGED <<log, completed, runtime>>
    BY <1>11 DEF Close
  <2>2. \A x : Saved(x) => KeptIn(Append(completed, runtime.events), x)
    BY <1>t, SavedMeans DEF Saved
  <2> QED BY <2>1, <2>2 DEF Archived, Saved, KeptIn
<1>12. CASE UNCHANGED simVars
  BY <1>1, <1>12 DEF simVars
<1> QED BY <1>2, <1>3, <1>4, <1>5, <1>6, <1>8, <1>9, <1>10, <1>11, <1>12 DEF SimNext, KitStep

\* No event that was published is lost, across rebuilds, failed rebuilds and a shutdown in between.
THEOREM EvidenceIsKept == SimSpec => []NothingLost
<1>1. SimInit => Archived
  BY DEF SimInit, Archived, Saved, NewRuntime
<1>2. SimIInv /\ Archived => NothingLost
  <2> SUFFICES ASSUME SimIInv, Archived PROVE NothingLost
    OBVIOUS
  <2>1. completed \in Seq(Seq(Events)) /\ runtime.events \in Seq(Events)
    BY DEF SimIInv, SimTypeOK
  <2> QED BY <2>1, SavedMeans DEF Archived, Saved, NothingLost
<1> QED BY <1>1, <1>2, SimStart, SimInvariance, ArchiveKeeps, PTL DEF SimSpec
=============================================================================
