-------------------------- MODULE AgentLoopProofs --------------------------
(***************************************************************************)
(* Proofs about AgentLoop, for every workspace, goal, set of turns and      *)
(* budget: its types, EffectsRunAlone, CallsAnsweredInOrder, OutcomeIsTrue  *)
(* and StopIsObeyed.                                                        *)
(***************************************************************************)
EXTENDS AgentLoop, FiniteSetTheorems, SequenceTheorems, TLAPS

(* A transition is paid for before it is made.                              *)
Budgeted ==
  spent <= MaxTransitions \/ pc \in {"finish", "project", "publish", "ended"}

(* Calls are under way only while their batch is waited for, or behind an   *)
(* attempt that has been left; a batch never goes beyond its turn.          *)
BatchInTurn ==
  /\ running \subseteq 1..Len(turn)
  /\ pc \notin {"calls", "publish", "ended"} => running = {} /\ Len(finished) = 0
  /\ pc = "calls" =>
       /\ turn \in Turns /\ IsFiniteSet(running)
       /\ Len(messages) + Len(finished) + Cardinality(running) <= Len(turn)

(* The transcript answers the first calls of the turn.                      *)
Transcript ==
  /\ \A k \in 1..Len(messages) : messages[k] = k
  /\ pc \in {"init", "plan", "planning", "loop", "asking"} => Len(turn) = 0 /\ Len(messages) = 0
  /\ pc = "turn" => Len(messages) = Len(turn)

(* What has been accepted stays so until it is published: every file was    *)
(* there with a receipt and nothing is running that could change one.       *)
Accepted ==
  accepted =>
    /\ pc \in {"publish", "ended"} /\ running = {}
    /\ request.outcomes \subseteq evidence
    /\ request.deliver \subseteq verified
    /\ \A p \in verified : record[p] # 0

Publication ==
  /\ pc # "ended" => outcome.status = "none"
  /\ asked => outcome.status # "COMPLETED"

LoopInv ==
  /\ LoopTypeOK /\ Budgeted
  /\ BatchInTurn /\ EffectsRunAlone /\ Transcript
  /\ Accepted /\ Publication

----------------------------------------------------------------------------
(* Facts about the constants and the files *)

Call == [tool: Tools, path: Paths]

(* A turn is a sequence of calls, numbered by Indexes.                      *)
LEMMA TurnTyped ==
  ASSUME NEW t \in Turns \cup {<<>>}
  PROVE  /\ t \in Seq(Call) /\ Len(t) \in Nat /\ DOMAIN t = 1..Len(t)
         /\ \A i \in 1..Len(t) : t[i] \in Call
         /\ t \in Turns => 1..Len(t) \subseteq Indexes
<1>1. t \in Seq(Call)
  <2>1. Turns \subseteq Seq(Call)
    BY LoopAssumption, Zenon DEF Call
  <2>2. CASE t \in Turns
    BY <2>1, <2>2, Zenon
  <2>3. CASE t = <<>>
    BY <2>3
  <2> QED BY <2>2, <2>3, Zenon
<1>2. Len(t) \in Nat /\ DOMAIN t = 1..Len(t) /\ \A i \in 1..Len(t) : t[i] \in Call
  BY <1>1
<1>3. t \in Turns => DOMAIN t \subseteq Indexes
  BY DEF Indexes
<1> QED BY <1>1, <1>2, <1>3

(* The bounds are numbers, and 0 stands for a missing file.                 *)
LEMMA NumbersTyped ==
  /\ MaxTransitions \in Nat /\ MaxGoalRounds \in Nat /\ MaxParallel \in Nat
  /\ 0 \notin Digests /\ 0 \in Contents /\ Digests \subseteq Contents
<1>1. /\ MaxTransitions \in Nat /\ MaxGoalRounds \in Nat \ {0} /\ MaxParallel \in Nat \ {0}
      /\ 0 \notin Digests
  BY LoopAssumption, Zenon
<1> QED BY <1>1 DEF Contents

(* What the steps below need of the types.                                  *)
LEMMA InvTyped ==
  ASSUME LoopInv
  PROVE  /\ LoopTypeOK
         /\ turn \in Seq(Call) /\ Len(turn) \in Nat
         /\ Len(finished) \in Nat /\ Len(messages) \in Nat
         /\ request.deliver \subseteq Paths /\ request.outcomes \subseteq Outcomes
<1>1. LoopTypeOK
  BY DEF LoopInv
<1>2. turn \in Turns \cup {<<>>}
  BY <1>1 DEF LoopTypeOK
<1>3. Len(finished) \in Nat /\ Len(messages) \in Nat
  BY <1>1 DEF LoopTypeOK
<1>4. request \in [deliver: SUBSET Paths, outcomes: SUBSET Outcomes]
  BY <1>1, LoopAssumption, Zenon DEF LoopTypeOK
<1> QED BY <1>1, <1>2, <1>3, <1>4, TurnTyped

----------------------------------------------------------------------------
(* Runtime and the model *)

(* A look at the files leads to a set of files and a verdict, and an        *)
(* interruption takes the attempt to its publication.                       *)
LEMMA LooksTyped ==
  ASSUME LoopInv
  PROVE  \A now, receipts :
           /\ Still(now, receipts) \subseteq Paths
           /\ Spoilt(now, receipts) \in BOOLEAN
           /\ \A p \in Still(now, receipts) : receipts[p] # 0
BY DEF Still, Spoilt

(* An exception of the loop leads to the publication, with nothing          *)
(* accepted.                                                                *)
LEMMA RaiseSteps ==
  ASSUME LoopInv, NEW touched, NEW now, NEW receipts, Raise(touched, now, receipts)
  PROVE  /\ pc' = "publish" /\ accepted' = FALSE
         /\ verified' \subseteq Paths /\ failure' \in BOOLEAN
<1>1. failure \in BOOLEAN
  BY DEF LoopInv, LoopTypeOK
<1> QED BY <1>1, LooksTyped DEF Raise

(* A step of Runtime or of the loop that calls no tool keeps the invariant  *)
(* if it stays within the budget, knows what it accepts and goes where it   *)
(* may go.                                                                  *)
Before == {"init", "plan", "planning", "loop"}

(* A step that only moves the program point and its counters keeps          *)
(* LoopInv when the counters stay in range and a turn is left only          *)
(* finished.                                                                *)
LEMMA ControlSteps ==
  ASSUME LoopInv, UNCHANGED <<request, callVars, fileVars, asked, outcome>>,
         spent' \in 0..MaxTransitions + 1, round' \in 0..MaxGoalRounds,
         feedback' \in 0..MaxFeedback, Budgeted',
         verified' \subseteq Paths, failure' \in BOOLEAN, accepted' \in BOOLEAN, Accepted',
         pc \notin {"publish", "ended"},
         pc' \in Before \cup {"turn", "finish", "project", "publish"},
         pc' = "turn" => pc \in Before \cup {"asking", "calls"},
         pc' \in Before => pc \in Before,
         pc = "calls" => running = {} /\ Len(finished) = 0 /\ Len(messages) = Len(turn)
  PROVE  LoopInv'
<1>1. LoopTypeOK'
  BY DEF LoopInv, LoopTypeOK, callVars, fileVars, Before
<1>2. running = {} /\ Len(finished) = 0 /\ UNCHANGED <<turn, running, finished, messages>>
  BY DEF LoopInv, BatchInTurn, callVars
<1>3. BatchInTurn' /\ EffectsRunAlone'
  BY <1>2 DEF BatchInTurn, EffectsRunAlone, Before
<1>4. Transcript'
  BY <1>2 DEF LoopInv, Transcript, Before
<1>5. Publication'
  BY DEF LoopInv, Publication
<1> QED BY <1>1, <1>3, <1>4, <1>5 DEF LoopInv

(* The steps before the loop keep LoopInv.                                  *)
LEMMA StartSteps ==
  ASSUME LoopInv, NEW late \in BOOLEAN, Start(late) \/ Plan(late) \/ EnterLoop(late)
  PROVE  LoopInv'
<1>0. /\ spent \in 0..MaxTransitions /\ round \in 0..MaxGoalRounds
      /\ MaxTransitions \in Nat /\ MaxGoalRounds \in Nat
      /\ feedback \in 0..MaxFeedback /\ verified \subseteq Paths
      /\ failure \in BOOLEAN /\ pc \in {"init", "plan", "loop"} /\ accepted = FALSE
  <2>1. pc \in {"init", "plan", "loop"}
    BY DEF Start, Plan, EnterLoop
  <2> QED BY <2>1, NumbersTyped DEF LoopInv, LoopTypeOK, Budgeted, Accepted
<1>1. /\ UNCHANGED <<request, callVars, fileVars, asked, outcome, feedback>>
      /\ spent' = spent + 1
  BY DEF Start, Plan, EnterLoop, Consume
<1>2. \/ Stop
      \/ spent + 1 <= MaxTransitions /\ Interrupt
      \/ /\ spent + 1 <= MaxTransitions /\ UNCHANGED verdictVars
         /\ \/ pc' \in {"plan", "planning"}
            \/ pc' = "turn" /\ pc = "loop"
  BY <1>0 DEF Start, Plan, EnterLoop, Exhausted
<1>3. round' \in 0..MaxGoalRounds
  BY <1>0 DEF Start, Plan, EnterLoop
<1>4. /\ pc' \in Before \cup {"turn", "finish", "publish"} /\ pc \in Before
      /\ spent' \in 0..MaxTransitions + 1 /\ Budgeted'
      /\ verified' \subseteq Paths /\ failure' \in BOOLEAN /\ accepted' = FALSE
  <2>1. CASE Stop
    BY <1>0, <1>1, <2>1 DEF Stop, Budgeted, Before
  <2>2. CASE spent + 1 <= MaxTransitions /\ Interrupt
    <3>1. /\ pc' = "publish" /\ accepted' = FALSE
          /\ verified' \subseteq Paths /\ failure' \in BOOLEAN
      BY <2>2, RaiseSteps DEF Interrupt
    <3> QED BY <1>0, <1>1, <2>2, <3>1 DEF Budgeted, Before
  <2>3. CASE /\ spent + 1 <= MaxTransitions /\ UNCHANGED verdictVars
             /\ pc' \in {"plan", "planning"} \/ (pc' = "turn" /\ pc = "loop")
    BY <1>0, <1>1, <2>3 DEF verdictVars, Budgeted, Before
  <2> QED BY <1>2, <2>1, <2>2, <2>3
<1> QED BY <1>0, <1>1, <1>3, <1>4, ControlSteps DEF Before, Accepted

(* So does the planner's answer, wherever it leads.                         *)
LEMMA PlannedSteps ==
  ASSUME LoopInv, NEW next \in {"loop", "finish", "fail"}, Planned(next)
  PROVE  LoopInv'
<1>0. /\ LoopTypeOK /\ pc = "planning" /\ accepted = FALSE /\ spent <= MaxTransitions
      /\ UNCHANGED <<request, budgetVars, callVars, fileVars, asked, outcome>>
  BY DEF LoopInv, Planned, Accepted, Budgeted, LoopTypeOK
<1>1. Interrupt \/ Stop \/ (pc' \in {"loop", "finish"} /\ UNCHANGED verdictVars)
  BY DEF Planned
<1>2. /\ pc' \in {"loop", "finish", "publish"}
      /\ verified' \subseteq Paths /\ failure' \in BOOLEAN /\ accepted' = FALSE
  BY <1>0, <1>1, RaiseSteps DEF Interrupt, Stop, verdictVars, LoopTypeOK
<1>3. /\ spent' \in 0..MaxTransitions + 1 /\ round' \in 0..MaxGoalRounds
      /\ feedback' \in 0..MaxFeedback /\ Budgeted'
  BY <1>0 DEF LoopTypeOK, budgetVars, Budgeted
<1> QED BY <1>0, <1>2, <1>3, ControlSteps DEF Before, Accepted

(* The next turn is asked for, or a spent budget or a stop ends the loop.   *)
LEMMA AskModelSteps ==
  ASSUME LoopInv, NEW late \in BOOLEAN, AskModel(late)
  PROVE  LoopInv'
<1>0. /\ LoopTypeOK /\ pc = "turn" /\ spent <= MaxTransitions /\ accepted = FALSE
      /\ running = {} /\ Len(finished) = 0 /\ MaxTransitions \in Nat
  BY NumbersTyped DEF LoopInv, AskModel, Accepted, Budgeted, BatchInTurn
<1>1. /\ spent' = spent + 1 /\ turn' = <<>> /\ messages' = <<>>
      /\ UNCHANGED <<request, round, feedback, running, finished, fileVars, asked, outcome>>
  BY DEF AskModel, ConsumeOfLoop, Consume
<1>2. \/ Stop
      \/ spent + 1 <= MaxTransitions /\ Interrupt
      \/ spent + 1 <= MaxTransitions /\ UNCHANGED verdictVars /\ pc' = "asking"
  <2>1. \/ Stop
        \/ ~Exhausted(late) /\ Interrupt
        \/ ~Exhausted(late) /\ UNCHANGED verdictVars /\ pc' = "asking"
    BY DEF AskModel
  <2>2. spent \in Nat
    BY <1>0 DEF LoopTypeOK
  <2> QED BY <1>0, <2>1, <2>2 DEF Exhausted
<1>3. /\ pc' \in {"asking", "finish", "publish"} /\ Budgeted'
      /\ verified' \subseteq Paths /\ failure' \in BOOLEAN /\ accepted' = FALSE
  <2>1. CASE Stop
    BY <1>0, <2>1 DEF Stop, LoopTypeOK, Budgeted
  <2>2. CASE spent + 1 <= MaxTransitions /\ Interrupt
    <3>1. /\ pc' = "publish" /\ accepted' = FALSE
          /\ verified' \subseteq Paths /\ failure' \in BOOLEAN
      BY <2>2, RaiseSteps DEF Interrupt
    <3> QED BY <3>1 DEF Budgeted
  <2>3. CASE spent + 1 <= MaxTransitions /\ UNCHANGED verdictVars /\ pc' = "asking"
    BY <1>0, <1>1, <2>3 DEF verdictVars, LoopTypeOK, Budgeted
  <2> QED BY <1>2, <2>1, <2>2, <2>3
<1>4. LoopTypeOK'
  <2>1. spent' \in 0..(MaxTransitions + 1)
    BY <1>0, <1>1 DEF LoopTypeOK
  <2>2. turn' \in Turns \cup {<<>>} /\ messages' \in Seq(Indexes)
    BY <1>1
  <2>3. UNCHANGED <<request, round, feedback, running, finished, disk, record, partial,
                    evidence, asked, outcome>>
    BY <1>1 DEF fileVars
  <2> QED BY <1>0, <1>3, <2>1, <2>2, <2>3 DEF LoopTypeOK
<1>5. BatchInTurn' /\ EffectsRunAlone' /\ Transcript'
  BY <1>0, <1>1, <1>3 DEF BatchInTurn, EffectsRunAlone, Transcript
<1>6. Publication'
  BY <1>0, <1>1 DEF LoopInv, Publication
<1> QED BY <1>3, <1>4, <1>5, <1>6 DEF LoopInv, Accepted

(* A stop, a failure of the provider, or an answer instead of calls.        *)
LEMMA ModelSteps ==
  ASSUME LoopInv, InterruptedModel \/ ModelFails \/ \E text \in BOOLEAN : Answer(text)
  PROVE  LoopInv'
<1>0. /\ LoopTypeOK /\ pc = "asking" /\ accepted = FALSE
      /\ spent <= MaxTransitions
      /\ UNCHANGED <<request, spent, callVars, fileVars, asked, outcome>>
  <2>1. pc = "asking" /\ UNCHANGED <<request, spent, callVars, fileVars, asked, outcome>>
    BY DEF InterruptedModel, ModelFails, Answer, budgetVars
  <2> QED BY <2>1 DEF LoopInv, Accepted, Budgeted
<1>1. CASE InterruptedModel \/ ModelFails
  <2>1. UNCHANGED <<round, feedback>> /\ (Interrupt \/ Stop)
    BY <1>1 DEF InterruptedModel, ModelFails, budgetVars
  <2>2. /\ pc' \in {"finish", "publish"}
        /\ verified' \subseteq Paths /\ failure' \in BOOLEAN /\ accepted' = FALSE
    BY <1>0, <2>1, RaiseSteps DEF Interrupt, Stop, LoopTypeOK
  <2>3. spent' \in 0..MaxTransitions + 1 /\ round' \in 0..MaxGoalRounds
        /\ feedback' \in 0..MaxFeedback /\ Budgeted'
    BY <1>0, <2>1, <2>2 DEF LoopTypeOK, Budgeted
  <2> QED BY <1>0, <2>2, <2>3, ControlSteps DEF Before, Accepted
<1>2. ASSUME NEW text \in BOOLEAN, Answer(text)
      PROVE  LoopInv'
  <2>1. /\ verified' \subseteq Paths /\ failure' \in BOOLEAN /\ accepted' = FALSE
        /\ pc' \in {"turn", "finish"}
    BY <1>0, <1>2, LooksTyped DEF Answer, StillAsRecorded, Refreshed, LoopTypeOK
  <2>2. /\ round' \in 0..MaxGoalRounds /\ feedback' \in 0..MaxFeedback
    BY <1>0, <1>2, NumbersTyped DEF Answer, LoopTypeOK, MaxFeedback
  <2>3. spent' \in 0..MaxTransitions + 1 /\ Budgeted'
    BY <1>0 DEF LoopTypeOK, Budgeted
  <2> QED BY <1>0, <2>1, <2>2, <2>3, ControlSteps DEF Before, Accepted
<1> QED BY <1>1, <1>2

(* A new turn starts with no call running and none answered.                *)
LEMMA CallToolsSteps ==
  ASSUME LoopInv, NEW t \in Turns, CallTools(t)
  PROVE  LoopInv'
<1>0. /\ LoopTypeOK /\ pc = "asking" /\ accepted = FALSE /\ running = {}
      /\ Len(finished) = 0 /\ Len(messages) = 0 /\ spent <= MaxTransitions
      /\ pc' = "calls" /\ turn' = t
      /\ UNCHANGED <<request, budgetVars, running, finished, messages, fileVars,
                     verdictVars, asked, outcome>>
  <2>1. pc = "asking" /\ pc' = "calls" /\ turn' = t
        /\ UNCHANGED <<request, budgetVars, running, finished, messages, fileVars,
                       verdictVars, asked, outcome>>
    BY DEF CallTools
  <2> QED BY <2>1 DEF LoopInv, BatchInTurn, Transcript, Accepted, Budgeted
<1>1. LoopTypeOK' /\ Budgeted'
  BY <1>0 DEF LoopTypeOK, Budgeted, budgetVars, fileVars, verdictVars
<1>2. BatchInTurn' /\ EffectsRunAlone' /\ Transcript'
  <2>1. IsFiniteSet({}) /\ Cardinality({}) = 0
    BY FS_EmptySet
  <2>2. Len(t) \in Nat
    BY TurnTyped
  <2> QED BY <1>0, <2>1, <2>2 DEF BatchInTurn, EffectsRunAlone, Transcript
<1>3. Accepted' /\ Publication'
  BY <1>0 DEF LoopInv, Accepted, Publication, verdictVars
<1> QED BY <1>1, <1>2, <1>3 DEF LoopInv

(* The turn is over, the head of the finalizer, and the projection of the   *)
(* answer, which accepts only what is complete.                             *)
LEMMA NextTurnSteps ==
  ASSUME LoopInv, NextTurn
  PROVE  LoopInv'
<1>0. /\ LoopTypeOK /\ BatchInTurn /\ pc = "calls" /\ pc' = "turn"
      /\ Len(messages) + 1 > Len(turn)
      /\ UNCHANGED <<request, budgetVars, callVars, fileVars, verdictVars, asked, outcome>>
  BY DEF LoopInv, NextTurn, First
<1>1. /\ Len(messages) \in Nat /\ Len(turn) \in Nat /\ Len(finished) \in Nat
  BY InvTyped
<1>2. /\ running = {} /\ Len(finished) = 0 /\ Len(messages) = Len(turn)
  <2>1. IsFiniteSet(running) /\ Cardinality(running) \in Nat
    BY <1>0, FS_CardinalityType DEF BatchInTurn
  <2>2. Len(messages) + Len(finished) + Cardinality(running) <= Len(turn)
    BY <1>0 DEF BatchInTurn
  <2>3. Cardinality(running) = 0 /\ Len(finished) = 0 /\ Len(messages) = Len(turn)
    BY <1>0, <1>1, <2>1, <2>2
  <2> QED BY <2>1, <2>3, FS_EmptySet
<1>3. /\ spent <= MaxTransitions /\ accepted = FALSE
  BY <1>0 DEF LoopInv, Budgeted, Accepted, LoopTypeOK
<1>4. /\ spent' \in 0..MaxTransitions + 1 /\ round' \in 0..MaxGoalRounds
      /\ feedback' \in 0..MaxFeedback /\ Budgeted'
      /\ verified' \subseteq Paths /\ failure' \in BOOLEAN /\ accepted' = FALSE
  BY <1>0, <1>3 DEF LoopTypeOK, Budgeted, budgetVars, verdictVars
<1> QED BY <1>0, <1>2, <1>4, ControlSteps DEF Before, Accepted

(* The Finalizer looks at the recorded files again.                         *)
LEMMA FinishSteps ==
  ASSUME LoopInv, Finish
  PROVE  LoopInv'
<1>0. /\ LoopTypeOK /\ pc = "finish" /\ pc' = "project" /\ accepted = FALSE
      /\ verified' = StillAsRecorded /\ failure' = (Refreshed \/ Unresolved # {})
      /\ UNCHANGED <<request, budgetVars, callVars, fileVars, accepted, asked, outcome>>
  BY DEF LoopInv, Finish, Accepted, LoopTypeOK
<1>1. /\ spent' \in 0..MaxTransitions + 1 /\ round' \in 0..MaxGoalRounds
      /\ feedback' \in 0..MaxFeedback /\ Budgeted'
      /\ failure' \in BOOLEAN /\ accepted' = FALSE
  BY <1>0 DEF LoopTypeOK, Budgeted, budgetVars
<1>2. verified' \subseteq Paths
  BY <1>0, LooksTyped DEF StillAsRecorded
<1> QED BY <1>0, <1>1, <1>2, ControlSteps DEF Before, Accepted

(* An interrupted answer publishes nothing.                                 *)
LEMMA InterruptedAnswerSteps ==
  ASSUME LoopInv, InterruptedAnswer
  PROVE  LoopInv'
<1>0. /\ LoopTypeOK /\ pc = "project" /\ pc' = "publish"
      /\ verified' = {} /\ accepted' = FALSE
      /\ UNCHANGED <<request, budgetVars, callVars, fileVars, failure, asked, outcome>>
  BY DEF LoopInv, InterruptedAnswer
<1>1. /\ spent' \in 0..MaxTransitions + 1 /\ round' \in 0..MaxGoalRounds
      /\ feedback' \in 0..MaxFeedback /\ Budgeted'
      /\ failure' \in BOOLEAN /\ verified' \subseteq Paths
  BY <1>0 DEF LoopTypeOK, Budgeted, budgetVars
<1> QED BY <1>0, <1>1, ControlSteps DEF Before, Accepted

(* The projection looks again, and accepts only an answer without gaps.      *)
LEMMA ProjectSteps ==
  ASSUME LoopInv, NEW text \in BOOLEAN, Project(text)
  PROVE  LoopInv'
<1>0. /\ LoopTypeOK /\ BatchInTurn /\ pc = "project" /\ pc' = "publish"
      /\ verified' = StillAsRecorded /\ failure' = Refreshed
      /\ accepted' = Accepts(StillAsRecorded, text)
      /\ UNCHANGED <<request, budgetVars, callVars, fileVars, asked, outcome>>
  BY DEF LoopInv, Project
<1>1. /\ spent' \in 0..MaxTransitions + 1 /\ round' \in 0..MaxGoalRounds
      /\ feedback' \in 0..MaxFeedback /\ Budgeted'
      /\ failure' \in BOOLEAN /\ accepted' \in BOOLEAN
  BY <1>0 DEF LoopTypeOK, Budgeted, budgetVars, Refreshed, Accepts
<1>2. verified' \subseteq Paths /\ \A p \in verified' : record[p] # 0
  BY <1>0, LooksTyped DEF StillAsRecorded
<1>3. Accepted'
  <2>1. SUFFICES ASSUME accepted' PROVE Accepted'
    BY DEF Accepted
  <2>2. ~Gaps(StillAsRecorded, text)
    BY <1>0, <2>1 DEF Accepts
  <2>3. request.outcomes \subseteq evidence /\ request.deliver \subseteq StillAsRecorded
    BY <2>2 DEF Gaps, Unresolved, Undelivered
  <2>4. running = {} /\ UNCHANGED <<running, request, evidence, record>>
    BY <1>0 DEF BatchInTurn, callVars, fileVars
  <2> QED BY <1>0, <1>2, <2>3, <2>4 DEF Accepted
<1> QED BY <1>0, <1>1, <1>2, <1>3, ControlSteps DEF Before

----------------------------------------------------------------------------
(* The launcher and the world *)

(* Only verified files that are as recorded are advertised.                 *)
LEMMA PublishSteps ==
  ASSUME LoopInv, Publish
  PROVE  LoopInv'
<1>0. /\ LoopTypeOK /\ pc = "publish" /\ pc' = "ended"
      /\ UNCHANGED <<request, spent, round, feedback, turn, running, finished, messages,
                     disk, record, partial, evidence, verified, failure, accepted, asked>>
  BY DEF LoopInv, Publish, budgetVars, callVars, fileVars, verdictVars
<1>1. outcome' \in Published /\ (asked => outcome'.status # "COMPLETED")
  <2>1. [p \in Paths |-> IF p \in Present THEN record[p] ELSE 0] \in [Paths -> Contents]
    BY <1>0, NumbersTyped DEF LoopTypeOK
  <2>2. PICK f \in [Paths -> Contents], s \in {"COMPLETED", "FAILED_TERMINAL", "CANCELLED"} :
          outcome' = [status |-> s, files |-> f] /\ (asked => s # "COMPLETED")
    <3> DEFINE s0 == IF Converges THEN "CANCELLED"
                     ELSE IF accepted /\ Present = verified THEN "COMPLETED"
                     ELSE "FAILED_TERMINAL"
    <3>1. s0 \in {"COMPLETED", "FAILED_TERMINAL", "CANCELLED"} /\ (asked => s0 # "COMPLETED")
      BY DEF Converges
    <3>2. outcome' = [status |-> s0,
                      files |-> [p \in Paths |-> IF p \in Present THEN record[p] ELSE 0]]
      BY DEF Publish
    <3> HIDE DEF s0
    <3> QED BY <2>1, <3>1, <3>2
  <2> QED BY <2>2 DEF Published
<1>2. LoopTypeOK'
  BY <1>0, <1>1 DEF LoopTypeOK
<1>3. Budgeted' /\ BatchInTurn' /\ EffectsRunAlone' /\ Transcript'
  BY <1>0 DEF LoopInv, Budgeted, BatchInTurn, EffectsRunAlone, Transcript
<1>4. Accepted' /\ Publication'
  BY <1>0, <1>1 DEF LoopInv, Accepted, Publication
<1> QED BY <1>2, <1>3, <1>4 DEF LoopInv

(* A stop and an edit by somebody else touch no counter and no              *)
(* transcript.                                                              *)
LEMMA WorldSteps ==
  ASSUME LoopInv, AskToStop \/ \E p \in Paths, d \in Contents : Edit(p, d)
  PROVE  LoopInv'
<1>0. /\ LoopTypeOK
      /\ UNCHANGED <<request, pc, spent, round, feedback, turn, running, finished, messages,
                     record, partial, evidence, verified, failure, accepted, outcome>>
  BY DEF LoopInv, AskToStop, Edit, budgetVars, callVars, fileVars, verdictVars
<1>1. disk' \in [Paths -> Contents] /\ asked' \in BOOLEAN
  BY <1>0 DEF LoopTypeOK, AskToStop, Edit, fileVars
<1>2. LoopTypeOK'
  BY <1>0, <1>1 DEF LoopTypeOK
<1>3. Budgeted' /\ BatchInTurn' /\ EffectsRunAlone' /\ Transcript' /\ Accepted'
  BY <1>0 DEF LoopInv, Budgeted, BatchInTurn, EffectsRunAlone, Transcript, Accepted
<1>4. Publication'
  <2>1. CASE AskToStop
    BY <1>0, <2>1 DEF LoopInv, Publication, AskToStop
  <2>2. CASE \E p \in Paths, d \in Contents : Edit(p, d)
    BY <1>0, <2>2 DEF LoopInv, Publication, Edit
  <2> QED BY <2>1, <2>2
<1> QED BY <1>2, <1>3, <1>4 DEF LoopInv

----------------------------------------------------------------------------
(* The calls of a turn *)

(* A batch stays within the turn, starts with the first call that has no    *)
(* answer, and holds more than that call only if every call of it is safe.  *)
LEMMA BatchFits ==
  ASSUME LoopInv, pc = "calls", running = {}, Len(finished) = 0, First <= Len(turn)
  PROVE  /\ Batch \subseteq 1..Len(turn) /\ First \in Batch
         /\ IsFiniteSet(Batch) /\ Cardinality(Batch) \in Nat
         /\ Len(messages) + Cardinality(Batch) <= Len(turn)
         /\ \A i \in Batch : turn[i].tool \notin SafeTools => Batch = {First} /\ i = First
<1>0. Len(messages) \in Nat /\ Len(turn) \in Nat /\ First = Len(messages) + 1
  BY InvTyped DEF First
<1>1. Batch \subseteq First..Len(turn) /\ First \in Batch
  BY <1>0 DEF Batch
<1>2. /\ IsFiniteSet(First..Len(turn))
      /\ Cardinality(First..Len(turn)) = Len(turn) - First + 1
  BY <1>0, FS_Interval
<1>3. IsFiniteSet(Batch) /\ Cardinality(Batch) <= Cardinality(First..Len(turn))
  BY <1>1, <1>2, FS_Subset
<1>4. Cardinality(Batch) \in Nat
  BY <1>3, FS_CardinalityType
<1>5. \A i \in Batch : turn[i].tool \notin SafeTools => Batch = {First} /\ i = First
  <2>1. \A i \in Batch : i # First => \A j \in First..i : turn[j].tool \in SafeTools
    BY DEF Batch
  <2>2. \A i \in Batch : i \in First..i /\ First \in First..i
    BY <1>0, <1>1
  <2>3. \A i \in Batch : i # First => turn[i].tool \in SafeTools /\ turn[First].tool \in SafeTools
    BY <2>1, <2>2
  <2> QED BY <1>1, <2>3
<1>6. First..Len(turn) \subseteq 1..Len(turn)
  BY <1>0
<1> QED BY <1>0, <1>1, <1>2, <1>3, <1>4, <1>5, <1>6

(* A batch of safe calls, or one barrier alone, is started; a stop starts   *)
(* the unguarded calls only.                                                *)
LEMMA DispatchSteps ==
  ASSUME LoopInv, Dispatch
  PROVE  LoopInv'
<1>0. /\ LoopTypeOK /\ BatchInTurn /\ pc = "calls" /\ running = {} /\ Len(finished) = 0
      /\ First <= Len(turn) /\ accepted = FALSE /\ spent <= MaxTransitions
      /\ UNCHANGED <<request, spent, round, feedback, turn, finished, messages,
                     disk, record, partial, evidence, asked, outcome>>
  BY DEF LoopInv, Dispatch, Accepted, Budgeted, LoopTypeOK, budgetVars, fileVars
<1>1. /\ Batch \subseteq 1..Len(turn) /\ IsFiniteSet(Batch)
      /\ Len(messages) + Cardinality(Batch) <= Len(turn)
      /\ \A i \in Batch : turn[i].tool \notin SafeTools => Batch = {i}
  BY <1>0, BatchFits
<1>2. 1..Len(turn) \subseteq Indexes
  BY <1>0, TurnTyped DEF BatchInTurn
<1>3. Len(turn) \in Nat /\ Len(messages) \in Nat /\ Len(finished) \in Nat
  BY InvTyped
<1>4. CASE asked /\ \E i \in Batch : Guarded(i)
  <2>1. /\ Interrupt /\ running' = {i \in Batch : ~Guarded(i)}
    BY <1>4 DEF Dispatch
  <2>2. /\ pc' = "publish" /\ accepted' = FALSE
        /\ verified' \subseteq Paths /\ failure' \in BOOLEAN
    BY <2>1, RaiseSteps DEF Interrupt
  <2>3. LoopTypeOK' /\ Budgeted'
    BY <1>0, <1>1, <1>2, <2>1, <2>2 DEF LoopTypeOK, Budgeted
  <2>4. BatchInTurn'
    BY <1>0, <1>1, <2>1, <2>2 DEF BatchInTurn
  <2>5. EffectsRunAlone'
    <3>1. \A i \in running' : turn[i].tool \in SafeTools
      <4>1. SUFFICES ASSUME NEW i \in running', turn[i].tool \notin SafeTools PROVE FALSE
        OBVIOUS
      <4>2. i \in Batch /\ Batch = {i}
        BY <1>1, <2>1, <4>1
      <4>3. Guarded(i)
        BY <1>4, <4>2
      <4> QED BY <2>1, <4>1, <4>3
    <3> QED BY <1>0, <3>1 DEF EffectsRunAlone
  <2>6. Transcript' /\ Accepted' /\ Publication'
    BY <1>0, <2>2 DEF LoopInv, Transcript, Accepted, Publication
  <2> QED BY <2>3, <2>4, <2>5, <2>6 DEF LoopInv
<1>5. CASE ~(asked /\ \E i \in Batch : Guarded(i))
  <2>1. /\ running' = Batch /\ pc' = pc
        /\ UNCHANGED <<verified, failure, accepted>>
    BY <1>5 DEF Dispatch, verdictVars
  <2>2. LoopTypeOK' /\ Budgeted'
    BY <1>0, <1>1, <1>2, <2>1 DEF LoopTypeOK, Budgeted
  <2>3. BatchInTurn'
    <3>1. Cardinality(Batch) \in Nat
      BY <1>1, FS_CardinalityType
    <3>2. Len(messages) + Len(finished) + Cardinality(Batch) <= Len(turn)
      BY <1>0, <1>1, <1>3, <3>1
    <3>3. turn \in Turns
      BY <1>0 DEF BatchInTurn
    <3> QED BY <1>0, <1>1, <2>1, <3>2, <3>3 DEF BatchInTurn
  <2>4. EffectsRunAlone'
    BY <1>0, <1>1, <2>1 DEF EffectsRunAlone
  <2>5. Transcript' /\ Accepted' /\ Publication'
    BY <1>0, <2>1 DEF LoopInv, Transcript, Accepted, Publication
  <2> QED BY <2>2, <2>3, <2>4, <2>5 DEF LoopInv
<1> QED BY <1>4, <1>5

(* Whatever a call does, with or without an error, the files and the        *)
(* receipts keep their types; and while a call runs nothing is accepted.    *)
LEMMA EffectsTyped ==
  ASSUME LoopInv, NEW call \in Call,
         Worked(call) \/ (\E kept \in BOOLEAN : Failed(call, kept)) \/ Aborted(call)
  PROVE  /\ disk' \in [Paths -> Contents] /\ record' \in [Paths -> Contents]
         /\ partial' \in [Paths -> Contents] /\ evidence' \subseteq Outcomes
<1>0. /\ disk \in [Paths -> Contents] /\ record \in [Paths -> Contents]
      /\ partial \in [Paths -> Contents] /\ evidence \subseteq Outcomes
      /\ call.path \in Paths /\ call.tool \in Tools
      /\ 0 \in Contents /\ Digests \subseteq Contents
  BY NumbersTyped DEF LoopInv, LoopTypeOK, Call
<1>1. \A d \in Digests : Writes(call, d) =>
        disk' \in [Paths -> Contents] /\ partial' \in [Paths -> Contents]
  BY <1>0 DEF Writes
<1>2. Litter(call) => disk' \in [Paths -> Contents] /\ UNCHANGED <<record, partial, evidence>>
  BY <1>0 DEF Litter
<1>3. CASE \E kept \in BOOLEAN : Failed(call, kept)
  <2>1. PICK kept \in BOOLEAN : Failed(call, kept)
    BY <1>3
  <2>2. CASE UNCHANGED fileVars \/ Litter(call)
    BY <1>0, <1>2, <2>2 DEF fileVars
  <2>3. ASSUME NEW d \in Digests, Writes(call, d), UNCHANGED evidence,
               record' = IF kept THEN [record EXCEPT ![call.path] = d] ELSE record
        PROVE  /\ disk' \in [Paths -> Contents] /\ record' \in [Paths -> Contents]
               /\ partial' \in [Paths -> Contents] /\ evidence' \subseteq Outcomes
    BY <1>0, <1>1, <2>3
  <2> QED BY <2>1, <2>2, <2>3 DEF Failed
<1>4. CASE Aborted(call)
  BY <1>0, <1>2, <1>4 DEF Aborted, fileVars
<1>5. CASE Worked(call)
  <2>1. CASE call.tool \in {"write", "build"}
    <3>1. PICK d \in Digests :
            /\ Writes(call, d)
            /\ record' = [record EXCEPT ![call.path] = d]
            /\ evidence' = evidence \cup {"FILE_MUTATION"} \cup
                  (IF call.tool = "build" THEN {"COMMAND_EXECUTION"} ELSE {})
      BY <1>5, <2>1 DEF Worked
    <3> QED BY <1>0, <1>1, <3>1 DEF Outcomes
  <2>2. CASE call.tool = "delete"
    BY <1>0, <1>5, <2>2 DEF Worked, Outcomes
  <2>3. CASE call.tool = "command"
    <3>1. /\ \E p \in Paths, d \in Contents : disk' = [disk EXCEPT ![p] = d]
          /\ evidence' = evidence \cup {"COMMAND_EXECUTION"}
          /\ UNCHANGED <<record, partial>>
      BY <1>5, <2>3 DEF Worked
    <3> QED BY <1>0, <3>1 DEF Outcomes
  <2>4. CASE call.tool = "read"
    BY <1>0, <1>5, <2>4 DEF Worked, Outcomes
  <2>5. CASE call.tool \in {"search", "refused"}
    BY <1>0, <1>5, <2>5 DEF Worked, fileVars
  <2> QED BY <1>0, <2>1, <2>2, <2>3, <2>4, <2>5 DEF Tools
<1> QED BY <1>3, <1>4, <1>5

(* A call that ends leaves the running ones and joins the finished ones; an *)
(* interruption seen on the way leaves the loop, and only safe calls can    *)
(* then be running behind it.                                               *)
LEMMA CallSteps ==
  ASSUME LoopInv, NEW i \in Indexes, EndCall(i) \/ AbortCall(i)
  PROVE  LoopInv'
<1>0. /\ LoopTypeOK /\ BatchInTurn /\ EffectsRunAlone
      /\ i \in running /\ running' = running \ {i} /\ finished' = Append(finished, i)
      /\ UNCHANGED <<request, spent, round, feedback, turn, messages, asked, outcome>>
  BY DEF LoopInv, EndCall, AbortCall, budgetVars
<1>1. accepted = FALSE
  BY <1>0 DEF LoopInv, Accepted, LoopTypeOK
<1>2. turn[i] \in Call
  <2>1. i \in 1..Len(turn) /\ turn \in Seq(Call)
    BY <1>0, InvTyped DEF BatchInTurn
  <2> QED BY <2>1
<1>3. /\ disk' \in [Paths -> Contents] /\ record' \in [Paths -> Contents]
      /\ partial' \in [Paths -> Contents] /\ evidence' \subseteq Outcomes
  <2>1. Worked(turn[i]) \/ (\E kept \in BOOLEAN : Failed(turn[i], kept)) \/ Aborted(turn[i])
    <3>1. (pc = "calls" /\ asked /\ Guarded(i)) \in BOOLEAN
      OBVIOUS
    <3> QED BY <3>1 DEF EndCall, AbortCall
  <2> QED BY <1>2, <2>1, EffectsTyped
<1>4. \/ pc' = pc /\ UNCHANGED <<verified, failure, accepted>>
      \/ /\ pc = "calls" /\ pc' = "publish" /\ accepted' = FALSE
         /\ verified' \subseteq Paths /\ failure' \in BOOLEAN
  <2>1. \/ pc' = pc /\ UNCHANGED <<verified, failure, accepted>>
        \/ pc = "calls" /\ \E touched \in SUBSET Paths : Raise(touched, disk', record')
    <3>1. CASE EndCall(i)
      BY <3>1 DEF EndCall, verdictVars
    <3>2. CASE AbortCall(i)
      <4>1. (IF turn[i].tool \in {"write", "delete"} THEN {turn[i].path} ELSE {}) \in SUBSET Paths
        BY <1>2 DEF Call
      <4> QED BY <3>2, <4>1 DEF AbortCall, verdictVars
    <3> QED BY <3>1, <3>2
  <2>2. ASSUME pc = "calls", NEW touched \in SUBSET Paths, Raise(touched, disk', record')
        PROVE  /\ pc' = "publish" /\ accepted' = FALSE
               /\ verified' \subseteq Paths /\ failure' \in BOOLEAN
    BY <2>2, RaiseSteps
  <2> QED BY <2>1, <2>2
<1>5. /\ accepted' = FALSE /\ pc' \in {pc, "publish"}
      /\ verified' \subseteq Paths /\ failure' \in BOOLEAN
      /\ pc' # pc => pc = "calls" /\ pc' = "publish"
  BY <1>0, <1>1, <1>4 DEF LoopTypeOK
<1>6. finished' \in Seq(Indexes) /\ Len(finished') = Len(finished) + 1
  BY <1>0, AppendProperties DEF LoopTypeOK
<1>7. LoopTypeOK' /\ Budgeted'
  <2>1. LoopTypeOK'
    BY <1>0, <1>3, <1>5, <1>6 DEF LoopTypeOK
  <2> QED BY <1>0, <1>5, <2>1 DEF LoopInv, Budgeted
<1>8. pc \in {"calls", "publish", "ended"}
  BY <1>0 DEF BatchInTurn
<1>9. BatchInTurn'
  <2>1. running' \subseteq 1..Len(turn)
    BY <1>0 DEF BatchInTurn
  <2>2. ASSUME pc' = "calls"
        PROVE  /\ turn \in Turns /\ IsFiniteSet(running')
               /\ Len(messages) + Len(finished') + Cardinality(running') <= Len(turn)
    <3>1. pc = "calls"
      BY <1>5, <2>2
    <3>2. /\ turn \in Turns /\ IsFiniteSet(running)
          /\ Len(messages) + Len(finished) + Cardinality(running) <= Len(turn)
      BY <1>0, <3>1 DEF BatchInTurn
    <3>3. IsFiniteSet(running \ {i}) /\ Cardinality(running \ {i}) = Cardinality(running) - 1
      BY <1>0, <3>2, FS_RemoveElement
    <3>4. Cardinality(running) \in Nat /\ Len(messages) \in Nat /\ Len(finished) \in Nat
          /\ Len(turn) \in Nat
      BY <3>2, FS_CardinalityType, InvTyped
    <3> QED BY <1>0, <1>6, <3>2, <3>3, <3>4
  <2>3. pc' \in {"calls", "publish", "ended"}
    BY <1>5, <1>8
  <2> QED BY <1>0, <2>1, <2>2, <2>3 DEF BatchInTurn
<1>10. EffectsRunAlone'
  <2>1. SUFFICES ASSUME NEW j \in running', turn[j].tool \notin SafeTools PROVE FALSE
    BY <1>0 DEF EffectsRunAlone
  <2>2. j \in running /\ running = {j}
    BY <1>0, <2>1 DEF EffectsRunAlone
  <2> QED BY <1>0, <2>1, <2>2
<1>11. Transcript'
  BY <1>0, <1>5, <1>8 DEF LoopInv, Transcript
<1>12. Accepted' /\ Publication'
  <2>1. Accepted'
    BY <1>5 DEF Accepted
  <2> QED BY <1>0, <1>5, <1>8, <2>1 DEF LoopInv, Publication
<1> QED BY <1>7, <1>9, <1>10, <1>11, <1>12 DEF LoopInv

(* The results of a batch continue the transcript without a gap.            *)
LEMMA CollectSteps ==
  ASSUME LoopInv, Collect
  PROVE  LoopInv'
<1>0. /\ LoopTypeOK /\ BatchInTurn /\ Transcript /\ pc = "calls" /\ running = {}
      /\ messages' = messages \o InModelOrder(finished) /\ finished' = <<>>
      /\ UNCHANGED <<request, pc, spent, round, feedback, turn, running,
                     disk, record, partial, evidence, verified, failure, accepted,
                     asked, outcome>>
  BY DEF LoopInv, Collect, budgetVars, fileVars, verdictVars
<1>1. /\ Len(messages) \in Nat /\ Len(turn) \in Nat /\ Len(finished) \in Nat
      /\ messages \in Seq(Indexes) /\ turn \in Turns /\ 1..Len(turn) \subseteq Indexes
      /\ Len(messages) + Len(finished) <= Len(turn)
  <2>1. Cardinality({}) = 0
    BY FS_EmptySet
  <2>2. turn \in Turns /\ Len(messages) + Len(finished) + Cardinality({}) <= Len(turn)
    BY <1>0 DEF BatchInTurn
  <2>3. Len(messages) \in Nat /\ Len(turn) \in Nat /\ Len(finished) \in Nat
    BY InvTyped
  <2>4. messages \in Seq(Indexes)
    BY <1>0 DEF LoopTypeOK
  <2> QED BY <2>1, <2>2, <2>3, <2>4, TurnTyped
<1>2. InModelOrder(finished) \in Seq(Indexes) /\ Len(InModelOrder(finished)) = Len(finished)
  <2>1. \A k \in 1..Len(finished) : Len(messages) + k \in 1..Len(turn)
    BY <1>1
  <2>2. \A k \in 1..Len(finished) : Len(messages) + k \in Indexes
    BY <1>1, <2>1
  <2> QED BY <1>1, <2>2 DEF InModelOrder
<1>3. /\ messages' \in Seq(Indexes) /\ Len(messages') = Len(messages) + Len(finished)
      /\ \A k \in 1..Len(messages') :
           messages'[k] = IF k <= Len(messages) THEN messages[k]
                          ELSE InModelOrder(finished)[k - Len(messages)]
  <2> DEFINE more == InModelOrder(finished)
  <2>1. more \in Seq(Indexes) /\ messages \in Seq(Indexes) /\ messages' = messages \o more
        /\ Len(more) = Len(finished)
    BY <1>0, <1>1, <1>2
  <2> HIDE DEF more
  <2>2. /\ messages \o more \in Seq(Indexes)
        /\ Len(messages \o more) = Len(messages) + Len(more)
        /\ \A k \in 1..Len(messages) + Len(more) :
             (messages \o more)[k] = IF k <= Len(messages) THEN messages[k]
                                     ELSE more[k - Len(messages)]
    BY <2>1, ConcatProperties
  <2> QED BY <2>1, <2>2 DEF more
<1>4. \A k \in 1..Len(messages') : messages'[k] = k
  <2>1. SUFFICES ASSUME NEW k \in 1..Len(messages') PROVE messages'[k] = k
    OBVIOUS
  <2>2. CASE k <= Len(messages)
    <3>1. k \in 1..Len(messages)
      BY <1>1, <1>3, <2>1, <2>2
    <3> QED BY <1>0, <1>3, <2>1, <2>2, <3>1 DEF Transcript
  <2>3. CASE ~(k <= Len(messages))
    <3>1. k - Len(messages) \in 1..Len(finished)
      BY <1>1, <1>3, <2>1, <2>3
    <3>2. InModelOrder(finished)[k - Len(messages)] = Len(messages) + (k - Len(messages))
      BY <3>1 DEF InModelOrder
    <3>3. Len(messages) + (k - Len(messages)) = k
      BY <1>1, <1>3, <2>1
    <3> QED BY <1>3, <2>1, <2>3, <3>2, <3>3
  <2> QED BY <2>2, <2>3
<1>5. finished' \in Seq(Indexes) /\ Len(finished') = 0
  BY <1>0
<1>6. LoopTypeOK' /\ Budgeted' /\ EffectsRunAlone' /\ Accepted' /\ Publication'
  <2>1. LoopTypeOK'
    BY <1>0, <1>3, <1>5 DEF LoopTypeOK
  <2> QED BY <1>0, <2>1 DEF LoopInv, Budgeted, EffectsRunAlone, Accepted, Publication
<1>7. BatchInTurn'
  <2>1. IsFiniteSet({}) /\ Cardinality({}) = 0
    BY FS_EmptySet
  <2> QED BY <1>0, <1>1, <1>3, <1>5, <2>1 DEF BatchInTurn
<1>8. Transcript'
  BY <1>0, <1>4 DEF Transcript
<1> QED BY <1>6, <1>7, <1>8 DEF LoopInv

----------------------------------------------------------------------------
(* The theorems *)

(* LoopInv is inductive.                                                    *)
LEMMA LoopInvNext ==
  ASSUME LoopInv, [Next]_vars
  PROVE  LoopInv'
<1>1. CASE RuntimeStep
  BY <1>1, StartSteps, PlannedSteps, FinishSteps, PublishSteps, ProjectSteps,
     InterruptedAnswerSteps DEF RuntimeStep
<1>2. CASE ModelStep
  BY <1>2, AskModelSteps, ModelSteps, CallToolsSteps DEF ModelStep
<1>3. CASE CallStep
  BY <1>3, DispatchSteps, CollectSteps, NextTurnSteps, CallSteps DEF CallStep
<1>4. CASE AskToStop \/ \E p \in Paths, d \in Contents : Edit(p, d)
  BY <1>4, WorldSteps
<1>5. CASE UNCHANGED vars
  <2>1. UNCHANGED <<request, pc, spent, round, feedback, turn, running, finished, messages,
                    disk, record, partial, evidence, verified, failure, accepted, asked,
                    outcome>>
    BY <1>5 DEF vars
  <2>2. LoopTypeOK' /\ Budgeted' /\ BatchInTurn'
    BY <2>1 DEF LoopInv, LoopTypeOK, Budgeted, BatchInTurn
  <2>3. EffectsRunAlone' /\ Transcript' /\ Accepted' /\ Publication'
    BY <2>1 DEF LoopInv, EffectsRunAlone, Transcript, Accepted, Publication
  <2> QED BY <2>2, <2>3 DEF LoopInv
<1> QED BY <1>1, <1>2, <1>3, <1>4, <1>5 DEF Next

(* LoopInv holds of an attempt that has not begun.                          *)
LEMMA LoopInvInit ==
  ASSUME Init
  PROVE  LoopInv
<1>1. NoFiles \in [Paths -> Contents] /\ MaxTransitions \in Nat /\ MaxGoalRounds \in Nat
  BY NumbersTyped DEF NoFiles
<1>2. Len(turn) = 0 /\ Len(finished) = 0 /\ Len(messages) = 0
  BY DEF Init
<1>3. LoopTypeOK
  <2>1. finished \in Seq(Indexes) /\ messages \in Seq(Indexes) /\ turn \in Turns \cup {<<>>}
    BY DEF Init
  <2>2. outcome \in Published
    BY <1>1 DEF Init, Published
  <2>3. /\ request \in Requests /\ pc = "init" /\ spent = 0 /\ round = 0 /\ feedback = 0
        /\ running = {} /\ disk \in [Paths -> Contents] /\ record = NoFiles
        /\ partial = NoFiles /\ evidence = {} /\ verified = {}
        /\ failure = FALSE /\ accepted = FALSE /\ asked = FALSE
    BY DEF Init
  <2>4. /\ 0 \in 0..(MaxTransitions + 1) /\ 0 \in 0..MaxGoalRounds /\ 0 \in 0..MaxFeedback
    BY <1>1 DEF MaxFeedback
  <2> QED BY <1>1, <2>1, <2>2, <2>3, <2>4 DEF LoopTypeOK
<1>4. Budgeted /\ BatchInTurn /\ EffectsRunAlone /\ Transcript
  BY <1>1, <1>2 DEF Init, Budgeted, BatchInTurn, EffectsRunAlone, Transcript
<1>5. Accepted /\ Publication
  BY DEF Init, Accepted, Publication
<1> QED BY <1>3, <1>4, <1>5 DEF LoopInv

(* LoopInv holds in every reachable state.                                  *)
LEMMA LoopInvariant == Spec => []LoopInv
<1> QED BY LoopInvInit, LoopInvNext, PTL DEF Spec

(* Type correctness of an attempt, its budgets included.                    *)
THEOREM LoopTypeCorrect == Spec => []LoopTypeOK
<1>1. LoopInv => LoopTypeOK
  BY DEF LoopInv
<1> QED BY <1>1, LoopInvariant, PTL

(* Whatever turns the model asks for and however parallel the safe calls    *)
(* are, a call that may change something is the only one running, and the   *)
(* loop waits for it: a stop leaves only safe calls behind.                 *)
THEOREM EffectsRunAloneProved == Spec => []EffectsRunAlone
<1>1. LoopInv => EffectsRunAlone
  BY DEF LoopInv
<1> QED BY <1>1, LoopInvariant, PTL

(* When a turn is over the transcript holds one answer per call, in the     *)
(* order of the model, for every order in which the calls finish.           *)
THEOREM CallsAnsweredInOrderProved == Spec => []CallsAnsweredInOrder
<1>1. LoopInv => CallsAnsweredInOrder
  <2>1. SUFFICES ASSUME LoopInv, pc = "turn"
                 PROVE  messages = [k \in 1..Len(turn) |-> k]
    BY DEF CallsAnsweredInOrder
  <2>2. /\ messages \in Seq(Indexes) /\ Len(messages) = Len(turn)
        /\ \A k \in 1..Len(messages) : messages[k] = k
    BY <2>1 DEF LoopInv, LoopTypeOK, Transcript
  <2>3. messages = [k \in 1..Len(messages) |-> messages[k]]
    BY <2>2
  <2> QED BY <2>2, <2>3
<1> QED BY <1>1, LoopInvariant, PTL

(* What an attempt publishes is on the disk when it is published, and       *)
(* COMPLETED says that every file and outcome of the goal is there.         *)
THEOREM OutcomeIsTrueProved == Spec => OutcomeIsTrue
<1> DEFINE Tells ==
      pc # "ended" /\ pc' = "ended" =>
       /\ \A p \in Paths : outcome'.files[p] \in {0, disk[p]}
       /\ outcome'.status = "COMPLETED" =>
            /\ request.outcomes \subseteq evidence
            /\ \A p \in request.deliver :
                 record[p] # 0 /\ outcome'.files[p] = record[p]
<1>1. ASSUME LoopInv, [Next]_vars PROVE [Tells]_vars
  <2>1. SUFFICES ASSUME Next, pc # "ended", pc' = "ended" PROVE Tells
    BY <1>1
  <2>2. Publish
    <3>1. ~RuntimeStep \/ Publish
      BY <2>1 DEF RuntimeStep, Start, Plan, EnterLoop, Planned, Finish, Project,
                  InterruptedAnswer, Stop,
                  Interrupt, Raise
    <3>2. ~ModelStep
      BY <2>1 DEF ModelStep, AskModel, InterruptedModel, ModelFails, CallTools, Answer, Stop,
                  Interrupt, Raise
    <3>3. ~CallStep
      BY <2>1 DEF CallStep, Dispatch, Collect, NextTurn, EndCall, AbortCall, Interrupt, Raise
    <3>4. ~AskToStop /\ ~\E p \in Paths, d \in Contents : Edit(p, d)
      BY <2>1 DEF AskToStop, Edit
    <3> QED BY <2>1, <3>1, <3>2, <3>3, <3>4 DEF Next
  <2>3. /\ request.deliver \subseteq Paths /\ verified \subseteq Paths /\ Accepted
    BY <1>1, InvTyped DEF LoopInv, LoopTypeOK
  <2>4. /\ outcome'.files = [p \in Paths |-> IF p \in Present THEN record[p] ELSE 0]
        /\ outcome'.status = "COMPLETED" => accepted /\ Present = verified
    BY <2>2 DEF Publish
  <2>5. \A p \in Paths : outcome'.files[p] \in {0, disk[p]}
    BY <2>4 DEF Present
  <2>6. ASSUME outcome'.status = "COMPLETED"
        PROVE  /\ request.outcomes \subseteq evidence
               /\ \A p \in request.deliver : record[p] # 0 /\ outcome'.files[p] = record[p]
    <3>1. /\ Present = verified /\ request.outcomes \subseteq evidence
          /\ request.deliver \subseteq verified /\ \A p \in verified : record[p] # 0
      BY <2>3, <2>4, <2>6 DEF Accepted
    <3> QED BY <2>3, <2>4, <3>1
  <2> QED BY <2>5, <2>6
<1>2. Spec => [][Tells]_vars
  BY <1>1, LoopInvariant, PTL DEF Spec
<1> QED BY <1>2 DEF OutcomeIsTrue

(* After a durable stop no guarded tool starts, the loop does not ask the   *)
(* model for another turn and the attempt is not published as completed.    *)
THEOREM StopIsObeyedProved == Spec => StopIsObeyed
<1> DEFINE Obeys ==
      asked =>
       /\ \A i \in running' \ running : ~Guarded(i)
       /\ pc' = "asking" => pc = "asking"
       /\ outcome'.status # "COMPLETED"
<1>1. ASSUME LoopInv, [Next]_vars PROVE [Obeys]_vars
  <2>1. SUFFICES ASSUME Next, asked PROVE Obeys
    BY <1>1
  <2>2. LoopInv'
    BY <1>1, LoopInvNext
  <2>3. outcome'.status # "COMPLETED"
    <3>1. asked'
      BY <2>1 DEF Next, RuntimeStep, ModelStep, CallStep, Start, Plan, EnterLoop, Planned,
                  Finish, Project, InterruptedAnswer, Publish, AskModel, InterruptedModel, ModelFails, CallTools,
                  Answer, Dispatch, Collect, NextTurn, EndCall, AbortCall, AskToStop, Edit
    <3> QED BY <2>2, <3>1 DEF LoopInv, Publication
  <2>4. pc' = "asking" => pc = "asking"
    BY <2>1 DEF Next, RuntimeStep, ModelStep, CallStep, Start, Plan, EnterLoop, Planned,
                Finish, Project, InterruptedAnswer, Publish, AskModel, InterruptedModel, ModelFails, CallTools,
                Answer, Dispatch, Collect, NextTurn, EndCall, AbortCall, AskToStop, Edit,
                Stop, Interrupt, Raise
  <2>5. ASSUME NEW i \in running' \ running PROVE ~Guarded(i)
    <3>1. Dispatch
      BY <2>1, <2>5 DEF Next, RuntimeStep, ModelStep, CallStep, Start, Plan, EnterLoop, Planned,
                  Finish, Project, InterruptedAnswer, Publish, AskModel, InterruptedModel, ModelFails, CallTools,
                  Answer, Collect, NextTurn, EndCall, AbortCall, AskToStop, Edit, callVars
    <3>2. CASE \E j \in Batch : Guarded(j)
      BY <2>1, <2>5, <3>1, <3>2 DEF Dispatch
    <3>3. CASE ~\E j \in Batch : Guarded(j)
      BY <2>1, <2>5, <3>1, <3>3 DEF Dispatch
    <3> QED BY <3>2, <3>3
  <2> QED BY <2>3, <2>4, <2>5
<1>2. Spec => [][Obeys]_vars
  BY <1>1, LoopInvariant, PTL DEF Spec
<1> QED BY <1>2 DEF StopIsObeyed
=============================================================================
