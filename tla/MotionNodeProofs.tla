-------------------------- MODULE MotionNodeProofs --------------------------
(***************************************************************************)
(* Proofs about MotionNode for every set of goals, of every kind, with a   *)
(* controller or without.                                                  *)
(***************************************************************************)
EXTENDS MotionNode, TLAPS

Finding == [code : Codes, certain : BOOLEAN]
Inside == {"plan", "check", "execute", "send", "accept", "observe"}

\* Every step is a step of one of these actions, or stutters.
LEMMA StepCases ==
    ASSUME [Next]_vars
    PROVE  \/ \E g \in Goals : \/ HandleGoal(g) \/ HandleCancel(g)
                               \/ Refuse(g) \/ Start(g) \/ Poll(g) \/ CancelActiveRequest(g)
                               \/ Join(g) \/ Get(g) \/ Conclude(g) \/ Release(g)
                               \/ Worker(g) \/ AdapterAnswers(g) \/ AdapterEnds(g) \/ Expire(g)
           \/ SyncScene \/ Shutdown \/ UNCHANGED vars
BY DEF Next, Caller

\* What a planner thread does to its own course, the planner's mutex and its result.
Course(g) ==
    \/ /\ worker[g] = "lock" /\ mutex = None /\ mutex' = g
       /\ worker' = [worker EXCEPT ![g] = "plan"] /\ UNCHANGED found
    \/ /\ worker[g] \in Inside /\ UNCHANGED <<mutex, found>>
       /\ \E s \in Inside \ {"plan"} : worker' = [worker EXCEPT ![g] = s]
    \/ /\ worker[g] \in Inside
       /\ \E c \in Codes, sure \in BOOLEAN :
             /\ Return(g, c, sure)
             /\ c = "completed" /\ g \notin PlanOnly => adapter[g] = "succeeded" /\ UNCHANGED adapter

\* What it does to the robot.
Effect(g) ==
    /\ \/ controller' \in {controller, None} /\ (worker[g] = "send" => controller' = None)
       \/ worker[g] # "send" /\ controller' = g /\ worker'[g] = "send"
    /\ known' \in {known, g, None}
    /\ \/ UNCHANGED adapter
       \/ worker[g] = "send" /\ adapter' = [adapter EXCEPT ![g] = "sent"]
       \/ adapter[g] = "moving" /\ adapter' = [adapter EXCEPT ![g] = "ended"]

\* Nothing else changes when a planner thread takes a step.
LEMMA PlannerSteps ==
    ASSUME TypeOK, NEW g \in Goals, Worker(g)
    PROVE  Unmoved /\ Course(g) /\ Effect(g)
<1> USE DEF Inside, WorkerAt, Codes, Goto, robot
<1>0. worker \in [Goals -> {"none", "lock", "plan", "check", "execute", "send", "accept",
                            "observe", "done"}]
      /\ adapter \in [Goals -> {"none", "sent", "moving", "refused", "succeeded", "ended"}]
    BY DEF TypeOK
<1>a. ASSUME Throw(g) PROVE \E c \in {"failed", "outcome_unknown"}, sure \in BOOLEAN :
                               Return(g, c, sure)
    BY <1>a DEF Throw
<1>1. CASE Lock(g)
    BY <1>0, <1>1 DEF Lock, Course, Effect
<1>2. CASE Plan(g)
    <2>1. /\ worker[g] = "plan" /\ UNCHANGED <<controller, adapter, known>> /\ Unmoved
          /\ \/ \E c \in {"failed", "outcome_unknown"}, sure \in BOOLEAN : Return(g, c, sure)
             \/ g \in PlanOnly /\ Return(g, "completed", TRUE)
             \/ Goto(g, "check")
        BY <1>2, <1>a DEF Plan
    <2>2. Course(g)
        BY <2>1 DEF Course
    <2> QED
        BY <2>1, <2>2 DEF Effect
<1>3. CASE Check(g)
    <2>1. /\ worker[g] = "check" /\ UNCHANGED <<controller, adapter, known>> /\ Unmoved
          /\ Return(g, "failed", TRUE) \/ Goto(g, "execute")
        BY <1>3 DEF Check
    <2>2. Course(g)
        BY <2>1 DEF Course
    <2> QED
        BY <2>1, <2>2 DEF Effect
<1>4. CASE Execute(g)
    BY <1>0, <1>4 DEF Execute, Course, Effect
<1>5. CASE Send(g)
    <2>1. /\ worker[g] = "send" /\ controller' = None /\ UNCHANGED known /\ Unmoved
          /\ \/ adapter' = [adapter EXCEPT ![g] = "sent"] /\ Goto(g, "accept")
             \/ /\ UNCHANGED adapter
                /\ \E c \in {"failed", "outcome_unknown"}, sure \in BOOLEAN : Return(g, c, sure)
        BY <1>5, <1>a DEF Send
    <2>2. Course(g)
        BY <2>1 DEF Course
    <2> QED
        BY <2>1, <2>2 DEF Effect
<1>6. CASE AwaitAcceptance(g)
    <2>1. /\ worker[g] = "accept" /\ UNCHANGED <<controller, adapter>> /\ Unmoved
          /\ known' \in {known, g}
          /\ Return(g, "failed", TRUE) \/ Goto(g, "observe")
        BY <1>6 DEF AwaitAcceptance
    <2>2. Course(g)
        BY <2>1 DEF Course
    <2> QED
        BY <2>1, <2>2 DEF Effect
<1>7. CASE Observe(g)
    <2>1. /\ worker[g] = "observe" /\ UNCHANGED controller /\ Unmoved /\ known' = None
          /\ \/ adapter[g] = "succeeded" /\ Return(g, "completed", TRUE) /\ UNCHANGED adapter
             \/ \E c \in {"failed", "outcome_unknown"}, sure \in BOOLEAN : Return(g, c, sure)
        BY <1>7 DEF Observe
    <2>2. \/ UNCHANGED adapter
          \/ adapter[g] = "moving" /\ adapter' = [adapter EXCEPT ![g] = "ended"]
        BY <1>0, <1>7 DEF Observe
    <2>3. Course(g)
        BY <2>1 DEF Course
    <2> QED
        BY <2>1, <2>2, <2>3 DEF Effect
<1> QED
    BY <1>1, <1>2, <1>3, <1>4, <1>5, <1>6, <1>7 DEF Worker

\* A step of the node keeps the types.
LEMMA TypeStep == TypeOK /\ Observed /\ [Next]_vars => TypeOK'
<1> SUFFICES ASSUME TypeOK, Observed, [Next]_vars PROVE TypeOK'
    OBVIOUS
<1> USE GoalsAssumption, ModeAssumption
<1> USE DEF TypeOK, threads, robot, answers
<1>a. ASSUME NEW g \in Goals, NEW c \in Codes, NEW sure \in BOOLEAN, Answer(g, c, sure)
      PROVE  code' \in [Goals -> Codes \cup {None}] /\ certain' \in [Goals -> BOOLEAN]
    BY <1>a DEF Answer
<1>b. {"completed", "rejected", "failed", "outcome_unknown", "cancelled", "timeout"} = Codes
    BY DEF Codes
<1>1. ASSUME NEW g \in Goals, HandleGoal(g) PROVE TypeOK'
    <2>1. /\ handle' \in [Goals -> {"NONE", "REJECTED", "EXECUTING", "CANCELING"} \cup Terminal]
          /\ active' \in BOOLEAN
          /\ caller' \in [Goals -> {"none", "start", "wait", "cancel", "join", "answer",
                                    "release", "done"}]
        <3>1. \/ /\ active' = TRUE /\ handle' = [handle EXCEPT ![g] = "EXECUTING"]
                 /\ caller' = [caller EXCEPT ![g] = "start"]
              \/ /\ handle' = [handle EXCEPT ![g] = "REJECTED"]
                 /\ active' = active /\ caller' = caller
            BY <1>1 DEF HandleGoal
        <3>2. handle' \in [Goals -> {"NONE", "REJECTED", "EXECUTING", "CANCELING"} \cup Terminal]
            BY <3>1
        <3>3. active' \in BOOLEAN
            BY <3>1
        <3>4. caller' \in [Goals -> {"none", "start", "wait", "cancel", "join", "answer",
                                    "release", "done"}]
            BY <3>1
        <3> QED
            BY <3>2, <3>3, <3>4
    <2> QED
        BY <1>1, <2>1 DEF HandleGoal
<1>2. ASSUME NEW g \in Goals, HandleCancel(g) PROVE TypeOK'
    BY <1>2 DEF HandleCancel
<1>3. ASSUME NEW g \in Goals, Refuse(g) PROVE TypeOK'
    BY <1>3, <1>a, <1>b DEF Refuse
<1>4. ASSUME NEW g \in Goals, Start(g) PROVE TypeOK'
    BY <1>4 DEF Start
<1>5. ASSUME NEW g \in Goals, Poll(g) PROVE TypeOK'
    <2>1. \E c \in Codes : Answer(g, c, TRUE)
        BY <1>5, <1>b DEF Poll
    <2>2. code' \in [Goals -> Codes \cup {None}] /\ certain' \in [Goals -> BOOLEAN]
        BY <1>a, <2>1
    <2> QED
        BY <1>5, <2>2, ZenonT(60) DEF Poll
<1>6. ASSUME NEW g \in Goals, CancelActiveRequest(g) PROVE TypeOK'
    BY <1>6 DEF CancelActiveRequest
<1>7. ASSUME NEW g \in Goals, Join(g) PROVE TypeOK'
    BY <1>7 DEF Join
<1>8. ASSUME NEW g \in Goals, Get(g) PROVE TypeOK'
    <2>1. found[g].code \in Codes /\ found[g].certain \in BOOLEAN
        BY <1>8 DEF Get, Observed
    <2>2. code' \in [Goals -> Codes \cup {None}] /\ certain' \in [Goals -> BOOLEAN]
        BY <1>8, <1>a, <2>1 DEF Get
    <2> QED
        BY <1>8, <2>2 DEF Get
<1>9. ASSUME NEW g \in Goals, Conclude(g) PROVE TypeOK'
    BY <1>9 DEF Conclude, Terminal
<1>10. ASSUME NEW g \in Goals, Release(g) PROVE TypeOK'
    BY <1>10 DEF Release
<1>11. ASSUME NEW g \in Goals, Worker(g) PROVE TypeOK'
    <2>0. Unmoved /\ Course(g) /\ Effect(g)
        BY <1>11, PlannerSteps
    <2>1. /\ worker' \in [Goals -> {"none", "lock", "plan", "check", "execute", "send", "accept",
                                    "observe", "done"}]
          /\ mutex' \in Goals \cup {None}
        BY <2>0 DEF Course, Return, Inside
    <2>2. found' \in [Goals -> [code : Codes, certain : BOOLEAN] \cup {None}]
        <3>1. \/ found' = found
              \/ \E r \in [code : Codes, certain : BOOLEAN] : found' = [found EXCEPT ![g] = r]
            BY <2>0 DEF Course, Return
        <3> QED
            BY <3>1
    <2>3. /\ controller' \in Goals \cup {None} /\ known' \in Goals \cup {None}
          /\ adapter' \in [Goals -> {"none", "sent", "moving", "refused", "succeeded", "ended"}]
        BY <2>0 DEF Effect
    <2> QED
        BY <2>0, <2>1, <2>2, <2>3 DEF Unmoved
<1>12. ASSUME NEW g \in Goals, AdapterAnswers(g) PROVE TypeOK'
    BY <1>12 DEF AdapterAnswers
<1>13. ASSUME NEW g \in Goals, AdapterEnds(g) PROVE TypeOK'
    BY <1>13 DEF AdapterEnds
<1>14. ASSUME NEW g \in Goals, Expire(g) PROVE TypeOK'
    BY <1>14 DEF Expire
<1>15. CASE SyncScene
    BY <1>15 DEF SyncScene
<1>16. CASE Shutdown
    BY <1>16 DEF Shutdown
<1>17. CASE UNCHANGED vars
    BY <1>17 DEF vars
<1> QED
    BY StepCases, <1>1, <1>2, <1>3, <1>4, <1>5, <1>6, <1>7, <1>8, <1>9, <1>10, <1>11,
       <1>12, <1>13, <1>14, <1>15, <1>16, <1>17

\* What a step of the node keeps besides the types.
LEMMA InvStep == IInv /\ [Next]_vars => OneMotion' /\ Paired' /\ Held' /\ Observed'
<1> SUFFICES ASSUME IInv, [Next]_vars PROVE OneMotion' /\ Paired' /\ Held' /\ Observed'
    OBVIOUS
<1> DEFINE Kept == OneMotion' /\ Paired' /\ Held' /\ Observed'
<1>0. TypeOK /\ OneMotion /\ Paired /\ Held /\ Observed
    BY DEF IInv
<1> USE GoalsAssumption, NoneAssumption
<1>T. /\ handle \in [Goals -> {"NONE", "REJECTED", "EXECUTING", "CANCELING"} \cup Terminal]
      /\ caller \in [Goals -> {"none", "start", "wait", "cancel", "join", "answer", "release", "done"}]
      /\ worker \in [Goals -> {"none", "lock", "plan", "check", "execute", "send", "accept",
                               "observe", "done"}]
      /\ mutex \in Goals \cup {None} /\ controller \in Goals \cup {None}
      /\ known \in Goals \cup {None}
      /\ adapter \in [Goals -> {"none", "sent", "moving", "refused", "succeeded", "ended"}]
      /\ found \in [Goals -> [code : Codes, certain : BOOLEAN] \cup {None}]
      /\ code \in [Goals -> Codes \cup {None}]
    BY <1>0 DEF TypeOK
<1>C. {"completed", "rejected", "failed", "outcome_unknown", "cancelled", "timeout"} = Codes
    BY DEF Codes
<1>1. ASSUME NEW g \in Goals, HandleGoal(g) PROVE Kept
    <2>1. OneMotion'
        BY <1>0, <1>T, <1>C, <1>1 DEF HandleGoal, CallerAt, Answer, threads, robot, answers, Terminal, OneMotion, Engaged, Paired, Held
    <2>2. Paired'
        BY <1>0, <1>T, <1>C, <1>1 DEF HandleGoal, CallerAt, Answer, threads, robot, answers, Terminal, Paired, OneMotion, Engaged
    <2>3. Held'
        BY <1>0, <1>T, <1>C, <1>1 DEF HandleGoal, CallerAt, Answer, threads, robot, answers, Terminal, Held
    <2>4. Observed'
        BY <1>0, <1>T, <1>C, <1>1 DEF HandleGoal, CallerAt, Answer, threads, robot, answers, Terminal, Observed, Paired
    <2> QED
        BY <2>1, <2>2, <2>3, <2>4
<1>2. ASSUME NEW g \in Goals, HandleCancel(g) PROVE Kept
    <2>1. OneMotion'
        BY <1>0, <1>T, <1>C, <1>2 DEF HandleCancel, CallerAt, Answer, threads, robot, answers, Terminal, OneMotion, Engaged
    <2>2. Paired'
        BY <1>0, <1>T, <1>C, <1>2 DEF HandleCancel, CallerAt, Answer, threads, robot, answers, Terminal, Paired, OneMotion, Engaged
    <2>3. Held'
        BY <1>0, <1>T, <1>C, <1>2 DEF HandleCancel, CallerAt, Answer, threads, robot, answers, Terminal, Held
    <2>4. Observed'
        BY <1>0, <1>T, <1>C, <1>2 DEF HandleCancel, CallerAt, Answer, threads, robot, answers, Terminal, Observed, Paired
    <2> QED
        BY <2>1, <2>2, <2>3, <2>4
<1>3. ASSUME NEW g \in Goals, Refuse(g) PROVE Kept
    <2>1. OneMotion'
        BY <1>0, <1>T, <1>C, <1>3 DEF Refuse, CallerAt, Answer, threads, robot, answers, OneMotion, Engaged, Paired, Held
    <2>2. Paired'
        BY <1>0, <1>T, <1>C, <1>3 DEF Refuse, CallerAt, Answer, threads, robot, answers, Paired, Terminal, OneMotion, Engaged
    <2>3. Held'
        BY <1>0, <1>T, <1>C, <1>3 DEF Refuse, CallerAt, Answer, threads, robot, answers, Held
    <2>4. Observed'
        BY <1>0, <1>T, <1>C, <1>3 DEF Refuse, CallerAt, Answer, threads, robot, answers, Observed, Paired
    <2> QED
        BY <2>1, <2>2, <2>3, <2>4
<1>4. ASSUME NEW g \in Goals, Start(g) PROVE Kept
    <2>1. OneMotion'
        BY <1>0, <1>T, <1>C, <1>4 DEF Start, CallerAt, Answer, threads, robot, answers, OneMotion, Engaged, Paired, Held
    <2>2. Paired'
        BY <1>0, <1>T, <1>C, <1>4 DEF Start, CallerAt, Answer, threads, robot, answers, Paired, Terminal, OneMotion, Engaged
    <2>3. Held'
        BY <1>0, <1>T, <1>C, <1>4 DEF Start, CallerAt, Answer, threads, robot, answers, Held, OneMotion, Engaged, Paired
    <2>4. Observed'
        BY <1>0, <1>T, <1>C, <1>4 DEF Start, CallerAt, Answer, threads, robot, answers, Observed, Paired
    <2> QED
        BY <2>1, <2>2, <2>3, <2>4
<1>5. ASSUME NEW g \in Goals, Poll(g) PROVE Kept
    <2>1. OneMotion'
        BY <1>0, <1>T, <1>C, <1>5 DEF Poll, CallerAt, Answer, threads, robot, answers, OneMotion, Engaged, Paired, Held
    <2>2. Paired'
        BY <1>0, <1>T, <1>C, <1>5 DEF Poll, CallerAt, Answer, threads, robot, answers, Paired, Terminal, OneMotion, Engaged
    <2>3. Held'
        BY <1>0, <1>T, <1>C, <1>5 DEF Poll, CallerAt, Answer, threads, robot, answers, Held
    <2>4. Observed'
        BY <1>0, <1>T, <1>C, <1>5 DEF Poll, CallerAt, Answer, threads, robot, answers, Observed, Paired
    <2> QED
        BY <2>1, <2>2, <2>3, <2>4
<1>6. ASSUME NEW g \in Goals, CancelActiveRequest(g) PROVE Kept
    <2>1. OneMotion'
        BY <1>0, <1>T, <1>C, <1>6 DEF CancelActiveRequest, CallerAt, Answer, threads, robot, answers, OneMotion, Engaged, Paired, Held
    <2>2. Paired'
        BY <1>0, <1>T, <1>C, <1>6 DEF CancelActiveRequest, CallerAt, Answer, threads, robot, answers, Paired, Terminal, OneMotion, Engaged
    <2>3. Held'
        BY <1>0, <1>T, <1>C, <1>6 DEF CancelActiveRequest, CallerAt, Answer, threads, robot, answers, Held, OneMotion, Engaged, Paired
    <2>4. Observed'
        BY <1>0, <1>T, <1>C, <1>6 DEF CancelActiveRequest, CallerAt, Answer, threads, robot, answers, Observed, Paired
    <2> QED
        BY <2>1, <2>2, <2>3, <2>4
<1>7. ASSUME NEW g \in Goals, Join(g) PROVE Kept
    <2>1. OneMotion'
        BY <1>0, <1>T, <1>C, <1>7 DEF Join, CallerAt, Answer, threads, robot, answers, OneMotion, Engaged, Paired, Held
    <2>2. Paired'
        BY <1>0, <1>T, <1>C, <1>7 DEF Join, CallerAt, Answer, threads, robot, answers, Paired, Terminal, OneMotion, Engaged
    <2>3. Held'
        BY <1>0, <1>T, <1>C, <1>7 DEF Join, CallerAt, Answer, threads, robot, answers, Held
    <2>4. Observed'
        BY <1>0, <1>T, <1>C, <1>7 DEF Join, CallerAt, Answer, threads, robot, answers, Observed, Paired
    <2> QED
        BY <2>1, <2>2, <2>3, <2>4
<1>8. ASSUME NEW g \in Goals, Get(g) PROVE Kept
    <2>1. OneMotion'
        BY <1>0, <1>T, <1>C, <1>8 DEF Get, CallerAt, Answer, threads, robot, answers, OneMotion, Engaged, Paired, Held
    <2>2. Paired'
        BY <1>0, <1>T, <1>C, <1>8 DEF Get, CallerAt, Answer, threads, robot, answers, Paired, Terminal, OneMotion, Engaged
    <2>3. Held'
        BY <1>0, <1>T, <1>C, <1>8 DEF Get, CallerAt, Answer, threads, robot, answers, Held
    <2>4. Observed'
        BY <1>0, <1>T, <1>C, <1>8 DEF Get, CallerAt, Answer, threads, robot, answers, Observed, Paired
    <2> QED
        BY <2>1, <2>2, <2>3, <2>4
<1>9. ASSUME NEW g \in Goals, Conclude(g) PROVE Kept
    <2>1. OneMotion'
        BY <1>0, <1>T, <1>C, <1>9 DEF Conclude, CallerAt, Answer, threads, robot, answers, Terminal, OneMotion, Engaged, Paired, Held
    <2>2. Paired'
        BY <1>0, <1>T, <1>C, <1>9 DEF Conclude, CallerAt, Answer, threads, robot, answers, Terminal, Paired, OneMotion, Engaged
    <2>3. Held'
        BY <1>0, <1>T, <1>C, <1>9 DEF Conclude, CallerAt, Answer, threads, robot, answers, Terminal, Held
    <2>4. Observed'
        BY <1>0, <1>T, <1>C, <1>9 DEF Conclude, CallerAt, Answer, threads, robot, answers, Terminal, Observed, Paired
    <2> QED
        BY <2>1, <2>2, <2>3, <2>4
<1>10. ASSUME NEW g \in Goals, Release(g) PROVE Kept
    <2>1. OneMotion'
        BY <1>0, <1>T, <1>C, <1>10 DEF Release, CallerAt, Answer, threads, robot, answers, Terminal, OneMotion, Engaged, Paired, Held
    <2>2. Paired'
        BY <1>0, <1>T, <1>C, <1>10 DEF Release, CallerAt, Answer, threads, robot, answers, Terminal, Paired, OneMotion, Engaged
    <2>3. Held'
        BY <1>0, <1>T, <1>C, <1>10 DEF Release, CallerAt, Answer, threads, robot, answers, Terminal, Held
    <2>4. Observed'
        BY <1>0, <1>T, <1>C, <1>10 DEF Release, CallerAt, Answer, threads, robot, answers, Terminal, Observed, Paired
    <2> QED
        BY <2>1, <2>2, <2>3, <2>4
<1>11. ASSUME NEW g \in Goals, Worker(g) PROVE Kept
    <2>0. Unmoved /\ Course(g) /\ Effect(g)
        BY <1>0, <1>11, PlannerSteps
    <2>1. OneMotion'
        BY <1>0, <1>T, <1>C, <2>0 DEF Unmoved, Course, Effect, Return, Inside, OneMotion, Engaged, Paired, Held
    <2>2. Paired'
        BY <1>0, <1>T, <1>C, <2>0 DEF Unmoved, Course, Effect, Return, Inside, Paired, Terminal, OneMotion, Engaged
    <2>3. Held'
        BY <1>0, <1>T, <1>C, <2>0 DEF Unmoved, Course, Effect, Return, Inside, Held, OneMotion, Engaged, Paired
    <2>4. Observed'
        <3>0. worker[g] \notin {"none", "done"}
            BY <2>0 DEF Course, Inside
        <3>a. caller[g] \in {"wait", "cancel", "join"}
            BY <1>0, <1>T, <3>0 DEF Paired
        <3>b. \A h \in Goals \ {g} : worker'[h] = worker[h] /\ found'[h] = found[h]
            BY <1>T, <2>0 DEF Course, Return
        <3>1. handle' = handle /\ caller' = caller /\ code' = code
            BY <2>0 DEF Unmoved, answers
        <3>2. \A h \in Goals \ {g} : adapter'[h] = adapter[h]
            BY <1>T, <2>0 DEF Effect
        <3>3. worker'[g] = "done" =>
                 /\ found'[g] \in Finding
                 /\ found'[g].code = "completed" /\ g \notin PlanOnly => adapter'[g] = "succeeded"
            BY <1>T, <2>0 DEF Course, Return, Inside, Finding
        <3> QED
            BY <1>0, <1>T, <3>0, <3>a, <3>b, <3>1, <3>2, <3>3 DEF Observed, Finding
    <2> QED
        BY <2>1, <2>2, <2>3, <2>4
<1>12. ASSUME NEW g \in Goals, AdapterAnswers(g) PROVE Kept
    <2>1. OneMotion'
        BY <1>0, <1>T, <1>C, <1>12 DEF AdapterAnswers, CallerAt, Answer, threads, robot, answers, OneMotion, Engaged
    <2>2. Paired'
        BY <1>0, <1>T, <1>C, <1>12 DEF AdapterAnswers, CallerAt, Answer, threads, robot, answers, Paired, Terminal
    <2>3. Held'
        BY <1>0, <1>T, <1>C, <1>12 DEF AdapterAnswers, CallerAt, Answer, threads, robot, answers, Held
    <2>4. Observed'
        BY <1>0, <1>T, <1>C, <1>12 DEF AdapterAnswers, CallerAt, Answer, threads, robot, answers, Observed, Paired
    <2> QED
        BY <2>1, <2>2, <2>3, <2>4
<1>13. ASSUME NEW g \in Goals, AdapterEnds(g) PROVE Kept
    <2>1. OneMotion'
        BY <1>0, <1>T, <1>C, <1>13 DEF AdapterEnds, CallerAt, Answer, threads, robot, answers, OneMotion, Engaged
    <2>2. Paired'
        BY <1>0, <1>T, <1>C, <1>13 DEF AdapterEnds, CallerAt, Answer, threads, robot, answers, Paired, Terminal
    <2>3. Held'
        BY <1>0, <1>T, <1>C, <1>13 DEF AdapterEnds, CallerAt, Answer, threads, robot, answers, Held
    <2>4. Observed'
        BY <1>0, <1>T, <1>C, <1>13 DEF AdapterEnds, CallerAt, Answer, threads, robot, answers, Observed, Paired
    <2> QED
        BY <2>1, <2>2, <2>3, <2>4
<1>14. ASSUME NEW g \in Goals, Expire(g) PROVE Kept
    <2>1. OneMotion'
        BY <1>0, <1>T, <1>C, <1>14 DEF Expire, CallerAt, Answer, threads, robot, answers, OneMotion, Engaged
    <2>2. Paired'
        BY <1>0, <1>T, <1>C, <1>14 DEF Expire, CallerAt, Answer, threads, robot, answers, Paired, Terminal
    <2>3. Held'
        BY <1>0, <1>T, <1>C, <1>14 DEF Expire, CallerAt, Answer, threads, robot, answers, Held
    <2>4. Observed'
        BY <1>0, <1>T, <1>C, <1>14 DEF Expire, CallerAt, Answer, threads, robot, answers, Observed
    <2> QED
        BY <2>1, <2>2, <2>3, <2>4
<1>15. CASE SyncScene
    BY <1>0, <1>15 DEF SyncScene, threads, robot, answers, OneMotion, Engaged, Paired, Held, Observed
<1>16. CASE Shutdown
    BY <1>0, <1>16 DEF Shutdown, threads, robot, answers, OneMotion, Engaged, Paired, Held, Observed
<1>17. CASE UNCHANGED vars
    BY <1>0, <1>17 DEF vars, threads, robot, answers, OneMotion, Engaged, Paired, Held, Observed
<1> HIDE DEF Kept
<1>20. Kept
    BY StepCases, <1>1, <1>2, <1>3, <1>4, <1>5, <1>6, <1>7, <1>8, <1>9, <1>10, <1>11, <1>12, <1>13, <1>14, <1>15, <1>16, <1>17 DEF Kept
<1> QED
    BY <1>20 DEF Kept

LEMMA InitInvariant == Init => IInv
<1> USE GoalsAssumption, ModeAssumption
<1> SUFFICES ASSUME Init PROVE IInv
    OBVIOUS
<1>1. TypeOK
    <2>1. {stop, due, certain} \subseteq [Goals -> BOOLEAN]
        BY DEF Init
    <2>2. /\ handle \in [Goals -> {"NONE", "REJECTED", "EXECUTING", "CANCELING"} \cup Terminal]
          /\ caller \in [Goals -> {"none", "start", "wait", "cancel", "join", "answer", "release", "done"}]
          /\ worker \in [Goals -> {"none", "lock", "plan", "check", "execute", "send", "accept",
                                   "observe", "done"}]
          /\ adapter \in [Goals -> {"none", "sent", "moving", "refused", "succeeded", "ended"}]
        BY DEF Init
    <2>3. /\ found \in [Goals -> [code : Codes, certain : BOOLEAN] \cup {None}]
          /\ code \in [Goals -> Codes \cup {None}]
        BY DEF Init
    <2>4. /\ active \in BOOLEAN /\ node \in {"up", "stopping", "terminated"}
          /\ {mutex, controller, known} \subseteq Goals \cup {None}
        BY DEF Init
    <2>5. scene \in 0..MaxScene
        BY DEF Init
    <2> QED
        BY <2>1, <2>2, <2>3, <2>4, <2>5 DEF TypeOK
<1>2. OneMotion /\ Paired /\ Held /\ Observed
    BY NoneAssumption DEF Init, OneMotion, Engaged, Paired, Held, Observed, Terminal, Codes
<1> QED
    BY <1>1, <1>2 DEF IInv

\* A goal, its thread and its planner thread are in step with each other, one
\* goal at a time has threads at work, and a success is only ever passed on.
THEOREM Invariance == Spec => []IInv
<1>1. IInv /\ [Next]_vars => IInv'
    BY TypeStep, InvStep DEF IInv
<1> QED
    BY InitInvariant, <1>1, PTL DEF Spec

\* The node's state is always of its types.
THEOREM TypeCorrect == Spec => []TypeOK
<1>1. IInv => TypeOK
    BY DEF IInv
<1> QED
    BY <1>1, Invariance, PTL

\* active_goal_ admits one motion at a time, and only that motion has a planner
\* thread, the planner or the controller.
THEOREM OneMotionAtATime == Spec => []OneMotion
<1>1. IInv => OneMotion
    BY DEF IInv
<1> QED
    BY <1>1, Invariance, PTL

\* No goal is answered while the controller still executes its trajectory.
THEOREM AnswersWaitForController == Spec => []AnsweredControllerIsStill
<1>1. IInv => AnsweredControllerIsStill
    <2> SUFFICES ASSUME IInv, NEW g \in Goals, handle[g] \in Terminal
                 PROVE  controller # g
        BY DEF AnsweredControllerIsStill
    <2>1. worker[g] \in {"none", "done"}
        BY DEF IInv, Paired
    <2> QED
        BY <2>1 DEF IInv, Held
<1> QED
    BY <1>1, Invariance, PTL

\* Whatever cancel, deadline or stop crosses it, a motion is answered a success
\* only when the robot adapter has reported it.
THEOREM SuccessWasObserved == Spec => []SuccessIsObserved
<1>1. IInv => SuccessIsObserved
    BY DEF IInv, Observed, SuccessIsObserved
<1> QED
    BY <1>1, Invariance, PTL

-----------------------------------------------------------------------------

\* What a client of the node sees changes in four actions, and in the shutdown
\* that ends the process.
LEMMA InterfaceSteps ==
    ASSUME IInv, [Next]_vars
    PROVE  \/ \E g \in Goals : HandleGoal(g) \/ HandleCancel(g) \/ Conclude(g)
           \/ ~Ended /\ Ended' /\ UNCHANGED <<handle, code>>
           \/ /\ UNCHANGED handle /\ Ended' = Ended
              /\ \A g \in Goals : handle[g] \in Terminal => code'[g] = code[g]
<1> DEFINE Seen == \/ \E g \in Goals : HandleGoal(g) \/ HandleCancel(g) \/ Conclude(g)
                   \/ ~Ended /\ Ended' /\ UNCHANGED <<handle, code>>
                   \/ /\ UNCHANGED handle /\ Ended' = Ended
                      /\ \A g \in Goals : handle[g] \in Terminal => code'[g] = code[g]
<1> USE DEF Ended, answers, CallerAt
<1>0. code \in [Goals -> Codes \cup {None}] /\ Paired
    BY DEF IInv, TypeOK
<1>1. ASSUME NEW g \in Goals, Refuse(g) \/ Poll(g) \/ Get(g) PROVE Seen
    <2>1. handle' = handle /\ node' = node /\ \E c, sure : Answer(g, c, sure)
        BY <1>1 DEF Refuse, Poll, Get
    <2>2. handle[g] \notin Terminal
        BY <1>0, <1>1 DEF Refuse, Poll, Get, Paired
    <2>3. \A h \in Goals \ {g} : code'[h] = code[h]
        BY <1>0, <2>1 DEF Answer
    <2> QED
        BY <2>1, <2>2, <2>3
<1>2. ASSUME NEW g \in Goals, Worker(g) PROVE Seen
    <2>1. Unmoved
        BY <1>2, PlannerSteps DEF IInv
    <2> QED
        BY <2>1 DEF Unmoved
<1>3. ASSUME NEW g \in Goals, \/ Start(g) \/ CancelActiveRequest(g) \/ Join(g) \/ Release(g)
                              \/ AdapterAnswers(g) \/ AdapterEnds(g) \/ Expire(g)
      PROVE  Seen
    <2>1. handle' = handle /\ node' = node /\ code' = code
        BY <1>3 DEF Start, CancelActiveRequest, Join, Release, AdapterAnswers, AdapterEnds, Expire
    <2> QED
        BY <2>1
<1>4. CASE SyncScene
    BY <1>4 DEF SyncScene
<1>5. CASE Shutdown
    <2>1. handle' = handle /\ code' = code /\ node # "terminated"
        BY <1>5 DEF Shutdown
    <2> QED
        BY <2>1
<1>6. CASE UNCHANGED vars
    BY <1>6 DEF vars
<1>7. ASSUME NEW g \in Goals, HandleGoal(g) \/ HandleCancel(g) \/ Conclude(g) PROVE Seen
    BY <1>7
<1> HIDE DEF Seen
<1>8. Seen
    BY StepCases, <1>1, <1>2, <1>3, <1>4, <1>5, <1>6, <1>7 DEF Seen
<1> QED
    BY <1>8 DEF Seen

LEMMA Statuses ==
    ASSUME TypeOK, NEW g \in Goals
    PROVE  /\ handle[g] = "REJECTED" => Status(g) = "rejected"
           /\ handle[g] # "REJECTED" /\ Ended => Status(g) = "lost"
           /\ ~Ended /\ handle[g] = "NONE" => Status(g) = "sent"
           /\ ~Ended /\ handle[g] \in {"EXECUTING", "CANCELING"} => Status(g) = "executing"
           /\ ~Ended /\ handle[g] \in Terminal => Status(g) = "done"
BY DEF Status, Terminal, TypeOK

\* A process that ends loses what it had not rejected; its answers stay.
LEMMA Ending ==
    ASSUME TypeOK, ~Ended, Ended', UNCHANGED <<handle, code>>
    PROVE  Server!Crash
<1>1. ASSUME NEW g \in Goals
      PROVE  Status(g)' = IF Status(g) \in {"sent", "executing", "done"} THEN "lost" ELSE Status(g)
    <2>1. handle[g] \in {"NONE", "REJECTED", "EXECUTING", "CANCELING"} \cup Terminal
        BY DEF TypeOK
    <2>2. handle'[g] = handle[g]
        OBVIOUS
    <2> QED
        BY <2>1, <2>2 DEF Status, Terminal
<1>2. UNCHANGED Answered
    BY DEF Answered
<1>3. Cancelling' = [g \in Goals |-> FALSE]
    BY DEF Cancelling
<1>4. StatusOf' = [g \in Goals |-> IF StatusOf[g] \in {"sent", "executing", "done"} THEN "lost"
                                   ELSE StatusOf[g]]
    BY <1>1 DEF StatusOf
<1> QED
    BY <1>2, <1>3, <1>4 DEF Server!Crash

\* The node is the action server its clients rely on: a goal is accepted or
\* rejected, answered at most once, "cancelled" only when it was being cancelled,
\* or lost with the process.
THEOREM Refinement == Spec => ImplementsServer
<1>1. Init => Server!Init
    <2> SUFFICES ASSUME Init PROVE Server!Init
        OBVIOUS
    <2>1. ~Ended /\ \A g \in Goals : handle[g] = "NONE"
        BY DEF Init, Ended
    <2>2. StatusOf = [g \in Goals |-> "sent"]
        BY <2>1 DEF StatusOf, Status
    <2>3. Answered = [g \in Goals |-> None] /\ Cancelling = [g \in Goals |-> FALSE]
        BY <2>1 DEF Answered, Cancelling, Terminal
    <2> QED
        BY <2>1, <2>2, <2>3 DEF Server!Init
<1>2. ASSUME IInv, IInv', [Next]_vars PROVE [Server!Next]_(Server!server)
    <2> DEFINE Step == [Server!Next]_(Server!server)
    <2>0. TypeOK /\ Paired /\ Observed
        BY <1>2 DEF IInv
    <2>a. handle \in [Goals -> {"NONE", "REJECTED", "EXECUTING", "CANCELING"} \cup Terminal]
          /\ code \in [Goals -> Codes \cup {None}]
        BY <2>0 DEF TypeOK
    <2>1. ASSUME NEW g \in Goals, HandleGoal(g) PROVE Step
        <3>1. ~Ended /\ ~Ended' /\ code' = code /\ handle[g] = "NONE"
            BY <2>1 DEF HandleGoal, Ended, answers
        <3>2. PICK s \in {"EXECUTING", "REJECTED"} : handle' = [handle EXCEPT ![g] = s]
            BY <2>1 DEF HandleGoal
        <3>3. handle'[g] = s /\ \A h \in Goals \ {g} : handle'[h] = handle[h]
            BY <2>a, <3>2
        <3>4. StatusOf[g] = "sent"
            BY <2>0, <3>1, Statuses DEF StatusOf
        <3>5. StatusOf' = [StatusOf EXCEPT ![g] = IF s = "REJECTED" THEN "rejected" ELSE "executing"]
            BY <3>1, <3>3 DEF StatusOf, Status
        <3>6. Answered' = Answered
            BY <3>1, <3>3 DEF Answered, Terminal
        <3>7. Cancelling' = Cancelling
            BY <3>1, <3>3 DEF Cancelling
        <3>8. Server!Accept(g) \/ Server!Reject(g)
            BY <3>1, <3>4, <3>5, <3>6, <3>7 DEF Server!Accept, Server!Reject
        <3> QED
            BY <3>8 DEF Server!Next
    <2>2. ASSUME NEW g \in Goals, HandleCancel(g) PROVE Step
        <3>1. ~Ended /\ ~Ended' /\ code' = code /\ handle[g] = "EXECUTING"
              /\ handle' = [handle EXCEPT ![g] = "CANCELING"]
            BY <2>2 DEF HandleCancel, Ended, answers
        <3>3. handle'[g] = "CANCELING" /\ \A h \in Goals \ {g} : handle'[h] = handle[h]
            BY <2>a, <3>1
        <3>4. StatusOf[g] = "executing"
            BY <2>0, <3>1, Statuses DEF StatusOf
        <3>5. StatusOf' = StatusOf
            BY <3>1, <3>3 DEF StatusOf, Status
        <3>6. Answered' = Answered
            BY <3>1, <3>3 DEF Answered, Terminal
        <3>7. Cancelling' = [Cancelling EXCEPT ![g] = TRUE]
            BY <3>1, <3>3 DEF Cancelling
        <3>8. Server!Cancel(g)
            BY <3>1, <3>4, <3>5, <3>6, <3>7 DEF Server!Cancel
        <3> QED
            BY <3>8 DEF Server!Next
    <2>3. ASSUME NEW g \in Goals, Conclude(g) PROVE Step
        <3>1. ~Ended /\ code' = code /\ caller[g] = "answer"
            BY <2>3 DEF Conclude, CallerAt, Running, Ended, answers
        <3>2. handle[g] \in {"EXECUTING", "CANCELING"} /\ code[g] \in Codes
            BY <2>0, <2>a, <3>1 DEF Paired, Observed
        <3>3. CASE code[g] = "cancelled" /\ handle[g] # "CANCELING"
            <4>1. Ended' /\ handle' = handle
                BY <2>3, <3>3 DEF Conclude, Ended
            <4>2. Server!Crash
                BY <2>0, <3>1, <4>1, Ending
            <4> QED
                BY <4>2 DEF Server!Next
        <3>4. CASE ~(code[g] = "cancelled" /\ handle[g] # "CANCELING")
            <4>1. PICK t \in Terminal : handle' = [handle EXCEPT ![g] = t]
                BY <2>3, <3>4 DEF Conclude, Terminal
            <4>2. ~Ended'
                BY <2>3, <3>1, <3>4 DEF Conclude, Ended
            <4>3. handle'[g] \in Terminal /\ \A h \in Goals \ {g} : handle'[h] = handle[h]
                BY <2>a, <4>1
            <4>4. StatusOf[g] = "executing"
                BY <2>0, <3>1, <3>2, Statuses DEF StatusOf
            <4>5. StatusOf' = [StatusOf EXCEPT ![g] = "done"]
                BY <3>1, <4>2, <4>3 DEF StatusOf, Status, Terminal
            <4>6. Answered' = [Answered EXCEPT ![g] = code[g]]
                BY <3>1, <4>3 DEF Answered
            <4>7. Cancelling' = [Cancelling EXCEPT ![g] = FALSE]
                BY <3>1, <4>2, <4>3 DEF Cancelling, Terminal
            <4>8. code[g] = "cancelled" => Cancelling[g]
                BY <3>1, <3>4 DEF Cancelling
            <4>9. Server!Finish(g, code[g])
                BY <3>1, <4>2, <4>4, <4>5, <4>6, <4>7, <4>8 DEF Server!Finish
            <4> QED
                BY <3>2, <4>9 DEF Server!Next
        <3> QED
            BY <3>3, <3>4
    <2>4. ASSUME ~Ended, Ended', UNCHANGED <<handle, code>> PROVE Step
        <3>1. Server!Crash
            BY <2>0, <2>4, Ending
        <3> QED
            BY <3>1 DEF Server!Next
    <2>5. ASSUME UNCHANGED handle, Ended' = Ended,
                 \A g \in Goals : handle[g] \in Terminal => code'[g] = code[g]
          PROVE  Step
        <3>1. StatusOf' = StatusOf /\ Cancelling' = Cancelling
            BY <2>5 DEF StatusOf, Status, Cancelling
        <3>2. Answered' = Answered
            BY <2>5 DEF Answered
        <3> QED
            BY <2>5, <3>1, <3>2 DEF Server!server
    <2> HIDE DEF Step
    <2>6. Step
        BY <1>2, InterfaceSteps, <2>1, <2>2, <2>3, <2>4, <2>5
    <2> QED
        BY <2>6 DEF Step
<1> QED
    BY <1>1, <1>2, Invariance, PTL DEF Spec, Server!Spec, ImplementsServer
=============================================================================
