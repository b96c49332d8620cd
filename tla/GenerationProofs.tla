-------------------------- MODULE GenerationProofs --------------------------
(***************************************************************************)
(* Whatever the tasks of ai-generation-service and the handlers of         *)
(* usage-service do between each other's steps: a generation is answered   *)
(* again only after an empty answer, counted once, and a threshold is      *)
(* announced once. None of it needs the handlers to exclude one another.   *)
(***************************************************************************)
EXTENDS Generation, TLAPS, FiniteSetTheorems

\* A task that has begun is at one of the models.
AtModel ==
  \A g \in Generations :
    /\ task[g].at \in {"none", "reserved", "queued"} => task[g].model = 0
    /\ task[g].at \notin {"none", "reserved", "queued", "ended"} => task[g].model \in Models

TypeInv == TypeOK /\ AtModel

\* What has been kept of the models tried, and what of it a task may still fall back on.
Kept ==
  \A g \in Generations :
    /\ task[g].at \in {"publish", "republish", "charge", "tell"} =>
         kept[<<g, task[g].model>>] # "none"
    /\ \A n \in Models :
         /\ n > task[g].model => kept[<<g, n>>] = "none"
         /\ n < task[g].model => kept[<<g, n>>] # "text"
         /\ n = task[g].model /\ kept[<<g, n>>] = "text" => task[g].text

ChargedWasKept == \A c \in charged : kept[c] # "none"

ChargeInv == Kept /\ ChargedWasKept

Stage(p) == IF p = 80 THEN "told80" ELSE "told100"

\* A threshold is announced by the handler that has set its marker, and by no other.
MarkedOnce ==
  \A p \in Percentages :
    /\ told[p] <= 1
    /\ told[p] = 1 => p \in marked
    /\ \A m \in Messages : handler[m].at = Stage(p) => p \in marked /\ told[p] = 0
    /\ \A m, n \in Messages : handler[m].at = Stage(p) /\ handler[n].at = Stage(p) => m = n

-----------------------------------------------------------------------------
(* Types *)

LEMMA FiniteCompletions == IsFiniteSet(Completions) /\ \A S \in SUBSET Completions : IsFiniteSet(S)
<1>1. IsFiniteSet(Models)
  BY ConstantsAssumption, FS_Interval DEF Models
<1>2. IsFiniteSet(Completions)
  BY <1>1, FS_Product, ConstantsAssumption DEF Completions
<1> QED BY <1>2, FS_Subset

LEMMA ProductType == \A k \in Nat : Tokens * k \in Nat
BY ConstantsAssumption

LEMMA SendTypes ==
  ASSUME TypeOK, NEW g \in Generations, NEW copy \in {1, 2}, Send(g, copy)
  PROVE  handler' \in [Messages -> [at : HandlerStages, tries : 0..Limit, previous : Nat]]
<1> DEFINE m == <<<<g, task[g].model>>, copy>>
<1>1. handler' = [handler EXCEPT ![m].at = "ready"]
  BY DEF Send
<1> HIDE DEF m
<1> QED BY <1>1 DEF TypeOK, HandlerStages

LEMMA RunTypes ==
  ASSUME TypeInv, NEW g \in Generations, Run(g)
  PROVE  TypeInv'
<1> USE ConstantsAssumption DEF TypeInv, TypeOK, AtModel, Models, Completions, jobVars,
      usageVars, Statuses, TaskStages, HandlerStages
<1>1. CASE Reserve(g)
  BY <1>1 DEF Reserve, Proceed
<1>2. CASE InsertJob(g)
  BY <1>2 DEF InsertJob, Proceed
<1>3. CASE Cancel(g)
  BY <1>3 DEF Cancel
<1>4. CASE TryModel(g)
  BY <1>4 DEF TryModel
<1>5. CASE Token(g)
  BY <1>5 DEF Token
<1>6. CASE MarkCancelled(g)
  BY <1>6 DEF MarkCancelled, Proceed
<1>7. CASE Complete(g)
  BY <1>7 DEF Complete, Proceed
<1>8. CASE PublishToAi(g)
  <2>1. handler' \in [Messages -> [at : HandlerStages, tries : 0..Limit, previous : Nat]]
    BY <1>8, SendTypes DEF PublishToAi
  <2>2. task' = [task EXCEPT ![g].at = "republish"] /\ task[g].at = "publish"
    BY <1>8 DEF PublishToAi, Proceed
  <2>3. UNCHANGED <<counter, job, cancelled, kept, charged, ledger, marked, told>>
    BY <1>8 DEF PublishToAi
  <2> QED BY <2>1, <2>2, <2>3
<1>9. CASE PublishToShared(g)
  <2>1. handler' \in [Messages -> [at : HandlerStages, tries : 0..Limit, previous : Nat]]
    BY <1>9, SendTypes DEF PublishToShared
  <2>2. task' = [task EXCEPT ![g].at = "charge"] /\ task[g].at = "republish"
    BY <1>9 DEF PublishToShared, Proceed
  <2>3. UNCHANGED <<counter, job, cancelled, kept, charged, ledger, marked, told>>
    BY <1>9 DEF PublishToShared
  <2> QED BY <2>1, <2>2, <2>3
<1>10. CASE \E accepted \in BOOLEAN : Charge(g, accepted)
  BY <1>10 DEF Charge, Proceed
<1>11. CASE End(g)
  BY <1>11 DEF End
<1>12. CASE Raise(g)
  BY <1>12 DEF Raise
<1>13. CASE Fail(g)
  BY <1>13 DEF Fail, Proceed
<1>14. CASE AnnounceFailure(g)
  BY <1>14 DEF AnnounceFailure, Proceed
<1>15. CASE Die(g)
  BY <1>15 DEF Die
<1> QED
  BY <1>1, <1>2, <1>3, <1>4, <1>5, <1>6, <1>7, <1>8, <1>9, <1>10, <1>11, <1>12, <1>13, <1>14, <1>15 DEF Run

LEMMA HandleTypes ==
  ASSUME TypeInv, NEW m \in Messages, Handle(m)
  PROVE  TypeInv'
<1> USE ConstantsAssumption DEF TypeInv, TypeOK, AtModel, jobVars, usageVars, HandlerStages,
      Percentages
<1>1. CASE IgnoreMessage(m)
  BY <1>1 DEF IgnoreMessage
<1>2. CASE SumLedger(m)
  <2>1. Cardinality(ledger) \in Nat
    BY FiniteCompletions, FS_CardinalityType
  <2>2. Tokens * Cardinality(ledger) \in Nat
    BY <2>1, ProductType
  <2>3. PICK k \in Nat : k = Tokens * Cardinality(ledger)
    BY <2>2
  <2>4. /\ handler' = [handler EXCEPT ![m] =
             [at |-> "read", tries |-> handler[m].tries, previous |-> k]]
        /\ UNCHANGED <<counter, task, jobVars, usageVars>>
    BY <1>2, <2>3 DEF SumLedger
  <2> QED BY <2>4
<1>3. CASE Record(m)
  BY <1>3 DEF Record, Messages
<1>4. CASE SetCounter(m)
  <2>1. Total(m) \in Nat
    BY DEF Total
  <2> QED BY <1>4, <2>1 DEF SetCounter
<1>5. CASE Mark(m, 80, "counted", "told80", "counted80")
  BY <1>5 DEF Mark
<1>6. CASE TellThreshold(m, 80, "told80", "counted80")
  BY <1>6 DEF TellThreshold
<1>7. CASE Mark(m, 100, "counted80", "told100", "done")
  BY <1>7 DEF Mark
<1>8. CASE TellThreshold(m, 100, "told100", "done")
  BY <1>8 DEF TellThreshold
<1>9. CASE ReturnMessage(m)
  BY <1>9 DEF ReturnMessage
<1> QED
  BY <1>1, <1>2, <1>3, <1>4, <1>5, <1>6, <1>7, <1>8, <1>9 DEF Handle

LEMMA TypeInit == Init => TypeInv
BY ConstantsAssumption DEF Init, TypeInv, TypeOK, AtModel, Statuses, TaskStages, HandlerStages

LEMMA TypeStep == TypeInv /\ [Next]_vars => TypeInv'
<1>1. TypeInv /\ UNCHANGED vars => TypeInv'
  BY DEF vars, TypeInv, TypeOK, AtModel
<1> QED BY <1>1, RunTypes, HandleTypes DEF Next

\* Every variable stays of its type, and a task that has begun is at one of the models.
THEOREM TypeCorrect == Spec => []TypeInv
BY TypeInit, TypeStep, PTL DEF Spec
-----------------------------------------------------------------------------
(* Charges *)

LEMMA NextModel ==
  ASSUME TypeInv, ChargeInv, NEW g \in Generations, TryModel(g)
  PROVE  ChargeInv'
<1> DEFINE k == task[g].model
<1>1. /\ k \in Nat
      /\ task' = [task EXCEPT ![g] = [at |-> "streaming", model |-> k + 1, text |-> FALSE]]
      /\ UNCHANGED <<kept, charged>>
  BY ConstantsAssumption DEF TryModel, TypeInv, TypeOK
<1>2. k \in Models => kept[<<g, k>>] # "text"
  <2>1. CASE task[g].at = "queued"
    BY <2>1, ConstantsAssumption DEF TypeInv, AtModel, Models
  <2>2. CASE ~task[g].text
    BY <2>2 DEF ChargeInv, Kept
  <2> QED BY <2>1, <2>2 DEF TryModel, Break
<1>3. \A n \in Models : /\ n > k + 1 => n > k
                        /\ n < k + 1 => n < k \/ n = k
                        /\ n = k + 1 => n > k
  <2> HIDE DEF k
  <2> QED BY <1>1, ConstantsAssumption DEF Models
<1>4. /\ task'[g] = [at |-> "streaming", model |-> k + 1, text |-> FALSE]
      /\ \A h \in Generations \ {g} : task'[h] = task[h]
  BY <1>1 DEF TypeInv, TypeOK
<1>5. ASSUME NEW h \in Generations, h = g PROVE Kept!(h)'
  <2>1. \A n \in Models :
          /\ n > k + 1 => kept[<<g, n>>] = "none"
          /\ n < k + 1 => kept[<<g, n>>] # "text"
          /\ n = k + 1 => kept[<<g, n>>] # "text"
    <3>1. \A n \in Models : /\ n > k => kept[<<g, n>>] = "none"
                            /\ n < k => kept[<<g, n>>] # "text"
      BY DEF ChargeInv, Kept
    <3> HIDE DEF k
    <3> QED BY <1>2, <1>3, <3>1
  <2> QED BY <1>1, <1>4, <1>5, <2>1
<1>6. ASSUME NEW h \in Generations, h # g PROVE Kept!(h)'
  BY <1>1, <1>4, <1>6 DEF ChargeInv, Kept
<1> QED BY <1>1, <1>5, <1>6 DEF ChargeInv, Kept, ChargedWasKept

LEMMA RunCharges ==
  ASSUME TypeInv, ChargeInv, NEW g \in Generations, Run(g)
  PROVE  ChargeInv'
<1> USE DEF ChargeInv, Kept, ChargedWasKept, TypeInv, TypeOK, AtModel, Models, Completions, jobVars
<1>1. CASE Reserve(g)
  BY <1>1 DEF Reserve, Proceed
<1>2. CASE InsertJob(g)
  BY <1>2 DEF InsertJob, Proceed
<1>3. CASE Cancel(g)
  BY <1>3 DEF Cancel
<1>4. CASE TryModel(g)
  BY <1>4, NextModel
<1>5. CASE Token(g)
  BY <1>5 DEF Token
<1>6. CASE MarkCancelled(g)
  BY <1>6 DEF MarkCancelled, Proceed
<1>7. CASE Complete(g)
  BY <1>7 DEF Complete, Proceed
<1>8. CASE PublishToAi(g)
  BY <1>8 DEF PublishToAi, Proceed, Send
<1>9. CASE PublishToShared(g)
  BY <1>9 DEF PublishToShared, Proceed, Send
<1>10. CASE \E accepted \in BOOLEAN : Charge(g, accepted)
  BY <1>10 DEF Charge, Proceed
<1>11. CASE End(g)
  BY <1>11 DEF End
<1>12. CASE Raise(g)
  BY <1>12 DEF Raise
<1>13. CASE Fail(g)
  BY <1>13 DEF Fail, Proceed
<1>14. CASE AnnounceFailure(g)
  BY <1>14 DEF AnnounceFailure, Proceed
<1>15. CASE Die(g)
  BY <1>15 DEF Die
<1> QED
  BY <1>1, <1>2, <1>3, <1>4, <1>5, <1>6, <1>7, <1>8, <1>9, <1>10, <1>11, <1>12, <1>13, <1>14, <1>15 DEF Run

LEMMA ChargeInit == Init => ChargeInv
BY DEF Init, ChargeInv, Kept, ChargedWasKept, Models, Completions

LEMMA ChargeStep == TypeInv /\ ChargeInv /\ [Next]_vars => ChargeInv'
<1> SUFFICES ASSUME TypeInv, ChargeInv, [Next]_vars PROVE ChargeInv'
  OBVIOUS
<1>1. UNCHANGED <<task, kept, charged>> => ChargeInv'
  BY DEF ChargeInv, Kept, ChargedWasKept
<1>2. ASSUME NEW m \in Messages, Handle(m) PROVE UNCHANGED <<task, kept, charged>>
  BY <1>2 DEF Handle, IgnoreMessage, SumLedger, Record, SetCounter, Mark, TellThreshold, ReturnMessage, jobVars
<1>3. UNCHANGED vars => UNCHANGED <<task, kept, charged>>
  BY DEF vars
<1> QED BY <1>1, <1>2, <1>3, RunCharges DEF Next

LEMMA AnsweredBefore == TypeInv /\ ChargeInv => AnsweredOnce
<1> SUFFICES ASSUME TypeInv, ChargeInv PROVE AnsweredOnce
  OBVIOUS
<1>1. ASSUME NEW c \in Completions, NEW d \in Completions, c[1] = d[1], c[2] < d[2],
             kept[d] # "none"
      PROVE  kept[c] # "text"
  <2>1. PICK g \in Generations, n \in Models, k \in Models : c = <<g, n>> /\ d = <<g, k>>
    BY <1>1 DEF Completions
  <2>2. n < k /\ kept[<<g, k>>] # "none"
    BY <1>1, <2>1
  <2>3. ~(k > task[g].model)
    BY <2>2 DEF ChargeInv, Kept
  <2>4. n < task[g].model
    BY <2>2, <2>3, ConstantsAssumption DEF TypeInv, TypeOK, Models
  <2> QED BY <2>1, <2>4 DEF ChargeInv, Kept
<1> QED BY <1>1 DEF AnsweredOnce, ChargeInv, ChargedWasKept

\* A generation has one answer with a text at most, and is charged only for what its
\* history has, for any number of models, whatever fails between the steps.
THEOREM NoSecondAnswer == Spec => []AnsweredOnce
<1>1. Init => TypeInv /\ ChargeInv
  BY TypeInit, ChargeInit
<1>2. TypeInv /\ ChargeInv /\ [Next]_vars => (TypeInv /\ ChargeInv)'
  BY TypeStep, ChargeStep
<1> QED BY <1>1, <1>2, AnsweredBefore, PTL DEF Spec
-----------------------------------------------------------------------------
(* The ledger of usage *)

\* A generation counts once in the ledger, however its messages are sent, redelivered and
\* handled: the handlers are not kept apart, the unique generation of the row is enough.
THEOREM NoDoubleCount == Spec => []RecordedOnce
<1>1. Init => RecordedOnce
  BY DEF Init, RecordedOnce
<1>2. RecordedOnce /\ [Next]_vars => RecordedOnce'
  <2> SUFFICES ASSUME RecordedOnce, [Next]_vars PROVE RecordedOnce'
    OBVIOUS
  <2>1. UNCHANGED ledger => RecordedOnce'
    BY DEF RecordedOnce
  <2>2. ASSUME NEW g \in Generations, Run(g) PROVE UNCHANGED ledger
    BY <2>2 DEF Run, Reserve, InsertJob, Cancel, TryModel, Token, MarkCancelled, Complete,
      PublishToAi, PublishToShared, Charge, End, Raise, Fail, AnnounceFailure, Die, usageVars
  <2>3. ASSUME NEW m \in Messages, Record(m) PROVE RecordedOnce'
    BY <2>3 DEF Record, RecordedOnce, NewGeneration
  <2>4. ASSUME NEW m \in Messages, Handle(m), ~Record(m) PROVE UNCHANGED ledger
    BY <2>4 DEF Handle, IgnoreMessage, SumLedger, SetCounter, Mark, TellThreshold,
      ReturnMessage, usageVars
  <2>5. UNCHANGED vars => UNCHANGED ledger
    BY DEF vars
  <2> QED BY <2>1, <2>2, <2>3, <2>4, <2>5 DEF Next
<1> QED BY <1>1, <1>2, PTL DEF Spec
-----------------------------------------------------------------------------
(* Thresholds *)

LEMMA NobodyTells ==
  ASSUME MarkedOnce, UNCHANGED <<marked, told>>,
         \A m \in Messages, p \in Percentages :
           handler'[m].at = Stage(p) => handler[m].at = Stage(p)
  PROVE  MarkedOnce'
BY DEF MarkedOnce, Percentages

LEMMA MarkStep ==
  ASSUME TypeInv, MarkedOnce, NEW m \in Messages, NEW p \in Percentages, NEW from, NEW passed,
         from \notin {"told80", "told100"}, passed \notin {"told80", "told100"},
         Mark(m, p, from, Stage(p), passed)
  PROVE  MarkedOnce'
<1>1. CASE Crossed(m, p)
  <2>1. /\ p \notin marked
        /\ marked' = marked \cup {p}
        /\ UNCHANGED told
        /\ handler' = [handler EXCEPT ![m].at = Stage(p)]
    BY <1>1 DEF Mark, Crossed
  <2>2. told[p] = 0 /\ \A n \in Messages : handler[n].at # Stage(p)
    <3>1. told[p] \in Nat
      BY DEF TypeInv, TypeOK
    <3>2. told[p] <= 1 /\ told[p] # 1 /\ \A n \in Messages : handler[n].at # Stage(p)
      BY <2>1 DEF MarkedOnce
    <3> QED BY <3>1, <3>2
  <2>3. \A n \in Messages, q \in Percentages :
          handler'[n].at = Stage(q) => handler[n].at = Stage(q) \/ (n = m /\ q = p)
    BY <2>1 DEF TypeInv, TypeOK, Percentages, Stage
  <2> SUFFICES ASSUME NEW q \in Percentages PROVE MarkedOnce!(q)'
    BY DEF MarkedOnce
  <2>4. CASE q = p
    BY <2>1, <2>2, <2>3, <2>4
  <2>5. CASE q # p
    BY <2>1, <2>3, <2>5 DEF MarkedOnce
  <2> QED BY <2>4, <2>5
<1>2. CASE ~Crossed(m, p)
  <2>1. \A n \in Messages, q \in Percentages :
          handler'[n].at = Stage(q) => handler[n].at = Stage(q)
    BY <1>2 DEF TypeInv, TypeOK, Mark, Percentages, Stage
  <2> QED BY <1>2, <2>1, NobodyTells DEF Mark
<1> QED BY <1>1, <1>2

LEMMA TellStep ==
  ASSUME TypeInv, MarkedOnce, NEW m \in Messages, NEW p \in Percentages, NEW to,
         to \notin {"told80", "told100"}, TellThreshold(m, p, Stage(p), to)
  PROVE  MarkedOnce'
BY DEF TypeInv, TypeOK, MarkedOnce, TellThreshold, Percentages, Stage

LEMMA ThresholdStep == TypeInv /\ MarkedOnce /\ [Next]_vars => MarkedOnce'
<1> SUFFICES ASSUME TypeInv, MarkedOnce, [Next]_vars PROVE MarkedOnce'
  OBVIOUS
<1>1. ASSUME NEW g \in Generations, Run(g) PROVE MarkedOnce'
  <2>1. /\ UNCHANGED <<marked, told>>
        /\ UNCHANGED handler \/ Send(g, 1) \/ Send(g, 2)
    BY <1>1 DEF Run, Reserve, InsertJob, Cancel, TryModel, Token, MarkCancelled, Complete,
      PublishToAi, PublishToShared, Charge, End, Raise, Fail, AnnounceFailure, Die, usageVars
  <2>2. \A m \in Messages, p \in Percentages :
          handler'[m].at = Stage(p) => handler[m].at = Stage(p)
    <3>1. ASSUME NEW c, handler' = [handler EXCEPT ![c].at = "ready"], NEW m \in Messages
          PROVE  handler'[m].at \in {handler[m].at, "ready"}
      BY <3>1 DEF TypeInv, TypeOK
    <3> QED BY <2>1, <3>1 DEF Send, Stage
  <2> QED BY <2>1, <2>2, NobodyTells
<1>2. ASSUME NEW m \in Messages, Handle(m) PROVE MarkedOnce'
  <2>1. CASE IgnoreMessage(m) \/ SumLedger(m) \/ Record(m) \/ SetCounter(m) \/ ReturnMessage(m)
    <3>1. /\ UNCHANGED <<marked, told>>
          /\ \A n \in Messages \ {m} : handler'[n] = handler[n]
          /\ handler'[m].at \notin {"told80", "told100"}
      BY <2>1 DEF IgnoreMessage, SumLedger, Record, SetCounter, ReturnMessage, usageVars,
        TypeInv, TypeOK
    <3> QED BY <3>1, NobodyTells DEF Stage
  <2>2. CASE \/ Mark(m, 80, "counted", "told80", "counted80")
             \/ Mark(m, 100, "counted80", "told100", "done")
    BY <2>2, MarkStep DEF Stage, Percentages
  <2>3. CASE \/ TellThreshold(m, 80, "told80", "counted80")
             \/ TellThreshold(m, 100, "told100", "done")
    BY <2>3, TellStep DEF Stage, Percentages
  <2> QED BY <1>2, <2>1, <2>2, <2>3 DEF Handle
<1>3. UNCHANGED vars => MarkedOnce'
  BY DEF vars, MarkedOnce
<1> QED BY <1>1, <1>2, <1>3 DEF Next

\* A threshold is announced at most once, though handlers that summed the ledger at the
\* same time can all cross it: one of them sets the marker.
THEOREM NoDoubleThreshold == Spec => []ThresholdToldOnce
<1>1. Init => TypeInv /\ MarkedOnce
  BY TypeInit DEF Init, MarkedOnce, Stage
<1>2. TypeInv /\ MarkedOnce /\ [Next]_vars => (TypeInv /\ MarkedOnce)'
  BY TypeStep, ThresholdStep
<1>3. MarkedOnce => ThresholdToldOnce
  BY DEF MarkedOnce, ThresholdToldOnce
<1> QED BY <1>1, <1>2, <1>3, PTL DEF Spec
=============================================================================
