-------------------------- MODULE HumanControlProofs --------------------------
(***************************************************************************)
(* The human control plane is safe for any number of turns, calls, store   *)
(* errors and restarts.  The invariant adds two facts to the properties:   *)
(* a call is unanswered until it leaves approvalResolvers, and at most one *)
(* turn, which owns whatever is in activeRunControls, holds the session.   *)
(***************************************************************************)
EXTENDS HumanControl, TLAPS

USE HumanControlAssumption DEF HumanControlAssumption

(* A call that was not presented, or that is in approvalResolvers, has no  *)
(* answer yet.                                                             *)
Unanswered ==
  \A a \in Call :
    call[a] \in {"idle", "queued"} \/ a \in resolver => answer[a] = "none"

(* What is answered is in the row, and who is told was answered so.        *)
Answered == Unanswered /\ AnswerIsDurable /\ ToldTheTruth

(* activeRunControls holds turns that hold the session, and one turn does. *)
OneHolder ==
  /\ \A t \in controls : Active(t)
  /\ \A t, u \in Turn : Active(t) /\ Active(u) => t = u

HumanInv == TypeOK /\ Answered /\ OneHolder /\ ApprovableHasWaiter

(* Every step keeps the types.                                             *)
LEMMA TypeStep ==
  ASSUME TypeOK, Unanswered, [Next]_vars
  PROVE  TypeOK'
<1>1. CASE UNCHANGED vars
  BY <1>1 DEF TypeOK, Decision, rows, calls, stops, vars
<1>2. ASSUME NEW t \in Turn, Accept(t)
      PROVE  TypeOK'
  BY <1>2 DEF Accept, TypeOK, Decision, rows, calls, stops
<1>3. ASSUME NEW t \in Turn, Begin(t)
      PROVE  TypeOK'
  BY <1>3 DEF Begin, TypeOK, Decision, rows, calls, stops
<1>4. ASSUME NEW t \in Turn, Completed(t)
      PROVE  TypeOK'
  BY <1>4 DEF Completed, TypeOK, Decision, rows, calls, stops
<1>5. ASSUME NEW t \in Turn, EndRun(t)
      PROVE  TypeOK'
  BY <1>5 DEF EndRun, TypeOK, Decision, rows, calls, stops
<1>6. ASSUME NEW t \in Turn, Closed(t)
      PROVE  TypeOK'
  BY <1>6 DEF Closed, TypeOK, Decision, rows, calls, stops
<1>7. ASSUME NEW t \in Turn, Finally(t)
      PROVE  TypeOK'
  BY <1>7 DEF Finally, Decide, Interrupted, Resolvable, CallsOf, Fault, NoFault,
       TypeOK, Decision, rows, calls, stops
<1>8. ASSUME NEW a \in Call, Request(a)
      PROVE  TypeOK'
  BY <1>8 DEF Request, Present, Fault, NoFault, TypeOK, Decision, rows, calls,
       stops
<1>9. ASSUME NEW a \in Call, NextApproval(a)
      PROVE  TypeOK'
  BY <1>9 DEF NextApproval, Present, Fault, NoFault, TypeOK, Decision, rows,
       calls, stops
<1>10. ASSUME NEW a \in Call, Prompted(a)
      PROVE  TypeOK'
  BY <1>10 DEF Prompted, Unanswered, TypeOK, Decision, rows, calls, stops
<1>11. ASSUME NEW a \in Call, Expire(a)
      PROVE  TypeOK'
  BY <1>11 DEF Expire, Decide, Fault, NoFault, TypeOK, Decision, rows, calls,
       stops
<1>12. ASSUME NEW a \in Call, NEW d \in {"approved", "denied"}, Resolve(a, d)
      PROVE  TypeOK'
  BY <1>12 DEF Resolve, Decide, Resolvable, Fault, NoFault, TypeOK, Decision,
       rows, calls, stops
<1>13. ASSUME NEW x \in Turn \cup Call, Lapse(x)
      PROVE  TypeOK'
  BY <1>13 DEF Lapse, TypeOK, Decision, rows, calls, stops
<1>14. ASSUME NEW t \in Turn, PresentRunControl(t)
      PROVE  TypeOK'
  BY <1>14 DEF PresentRunControl, Fault, NoFault, TypeOK, Decision, rows, calls,
       stops
<1>15. ASSUME NEW t \in Turn, RunControlShown(t)
      PROVE  TypeOK'
  BY <1>15 DEF RunControlShown, TypeOK, Decision, rows, calls, stops
<1>16. ASSUME NEW t \in Turn, HandleRunControl(t)
      PROVE  TypeOK'
  BY <1>16 DEF HandleRunControl, TypeOK, Decision, rows, calls, stops
<1>17. ASSUME NEW t \in Turn, CancelReturns(t)
      PROVE  TypeOK'
  BY <1>17 DEF CancelReturns, TypeOK, Decision, rows, calls, stops
<1>18. CASE Start
  BY <1>18 DEF Start, AllInterrupted, TypeOK, Decision, rows, calls, stops
<1>19. CASE Stop
  BY <1>19 DEF Stop, Decide, AllInterrupted, Fault, NoFault, TypeOK, Decision,
       rows, calls, stops
<1>20. CASE Stopped
  BY <1>20 DEF Stopped, Gone, TypeOK, Decision, rows, calls, stops
<1>21. CASE Crash
  BY <1>21 DEF Crash, Gone, TypeOK, Decision, rows, calls, stops
<1> QED
  BY <1>1, <1>2, <1>3, <1>4, <1>5, <1>6, <1>7, <1>8, <1>9, <1>10, <1>11, <1>12,
       <1>13, <1>14, <1>15, <1>16, <1>17, <1>18, <1>19, <1>20, <1>21
     DEF Next, RunStep, ApprovalStep, ControlStep

(* An answer is given once, with the row, and nothing changes either later. *)
LEMMA AnsweredStep ==
  ASSUME TypeOK, Answered, [Next]_vars
  PROVE  Answered'
<1>1. CASE UNCHANGED vars
  BY <1>1 DEF TypeOK, Decision, Answered, Unanswered, AnswerIsDurable,
       ToldTheTruth, rows, calls, stops, vars
<1>2. ASSUME NEW t \in Turn, Accept(t)
      PROVE  Answered'
  BY <1>2 DEF Accept, TypeOK, Decision, Answered, Unanswered, AnswerIsDurable,
       ToldTheTruth, rows, calls, stops
<1>3. ASSUME NEW t \in Turn, Begin(t)
      PROVE  Answered'
  BY <1>3 DEF Begin, TypeOK, Decision, Answered, Unanswered, AnswerIsDurable,
       ToldTheTruth, rows, calls, stops
<1>4. ASSUME NEW t \in Turn, Completed(t)
      PROVE  Answered'
  BY <1>4 DEF Completed, TypeOK, Decision, Answered, Unanswered, AnswerIsDurable,
       ToldTheTruth, rows, calls, stops
<1>5. ASSUME NEW t \in Turn, EndRun(t)
      PROVE  Answered'
  BY <1>5 DEF EndRun, TypeOK, Decision, Answered, Unanswered, AnswerIsDurable,
       ToldTheTruth, rows, calls, stops
<1>6. ASSUME NEW t \in Turn, Closed(t)
      PROVE  Answered'
  BY <1>6 DEF Closed, TypeOK, Decision, Answered, Unanswered, AnswerIsDurable,
       ToldTheTruth, rows, calls, stops
<1>7. ASSUME NEW t \in Turn, Finally(t)
      PROVE  Answered'
  BY <1>7 DEF Finally, Decide, Interrupted, Resolvable, CallsOf, Fault, NoFault,
       TypeOK, Decision, Answered, Unanswered, AnswerIsDurable, ToldTheTruth,
       rows, calls, stops
<1>8. ASSUME NEW a \in Call, Request(a)
      PROVE  Answered'
  BY <1>8 DEF Request, Present, Fault, NoFault, TypeOK, Decision, Answered,
       Unanswered, AnswerIsDurable, ToldTheTruth, rows, calls, stops
<1>9. ASSUME NEW a \in Call, NextApproval(a)
      PROVE  Answered'
  BY <1>9 DEF NextApproval, Present, Fault, NoFault, TypeOK, Decision, Answered,
       Unanswered, AnswerIsDurable, ToldTheTruth, rows, calls, stops
<1>10. ASSUME NEW a \in Call, Prompted(a)
      PROVE  Answered'
  BY <1>10 DEF Prompted, TypeOK, Decision, Answered, Unanswered, AnswerIsDurable,
       ToldTheTruth, rows, calls, stops
<1>11. ASSUME NEW a \in Call, Expire(a)
      PROVE  Answered'
  BY <1>11 DEF Expire, Decide, Fault, NoFault, TypeOK, Decision, Answered,
       Unanswered, AnswerIsDurable, ToldTheTruth, rows, calls, stops
<1>12. ASSUME NEW a \in Call, NEW d \in {"approved", "denied"}, Resolve(a, d)
      PROVE  Answered'
  BY <1>12 DEF Resolve, Decide, Resolvable, Fault, NoFault, TypeOK, Decision,
       Answered, Unanswered, AnswerIsDurable, ToldTheTruth, rows, calls, stops
<1>13. ASSUME NEW x \in Turn \cup Call, Lapse(x)
      PROVE  Answered'
  BY <1>13 DEF Lapse, TypeOK, Decision, Answered, Unanswered, AnswerIsDurable,
       ToldTheTruth, rows, calls, stops
<1>14. ASSUME NEW t \in Turn, PresentRunControl(t)
      PROVE  Answered'
  BY <1>14 DEF PresentRunControl, Fault, NoFault, TypeOK, Decision, Answered,
       Unanswered, AnswerIsDurable, ToldTheTruth, rows, calls, stops
<1>15. ASSUME NEW t \in Turn, RunControlShown(t)
      PROVE  Answered'
  BY <1>15 DEF RunControlShown, TypeOK, Decision, Answered, Unanswered,
       AnswerIsDurable, ToldTheTruth, rows, calls, stops
<1>16. ASSUME NEW t \in Turn, HandleRunControl(t)
      PROVE  Answered'
  BY <1>16 DEF HandleRunControl, TypeOK, Decision, Answered, Unanswered,
       AnswerIsDurable, ToldTheTruth, rows, calls, stops
<1>17. ASSUME NEW t \in Turn, CancelReturns(t)
      PROVE  Answered'
  BY <1>17 DEF CancelReturns, TypeOK, Decision, Answered, Unanswered,
       AnswerIsDurable, ToldTheTruth, rows, calls, stops
<1>18. CASE Start
  BY <1>18 DEF Start, AllInterrupted, TypeOK, Decision, Answered, Unanswered,
       AnswerIsDurable, ToldTheTruth, rows, calls, stops
<1>19. CASE Stop
  BY <1>19 DEF Stop, Decide, AllInterrupted, Fault, NoFault, TypeOK, Decision,
       Answered, Unanswered, AnswerIsDurable, ToldTheTruth, rows, calls, stops
<1>20. CASE Stopped
  BY <1>20 DEF Stopped, Gone, TypeOK, Decision, Answered, Unanswered,
       AnswerIsDurable, ToldTheTruth, rows, calls, stops
<1>21. CASE Crash
  BY <1>21 DEF Crash, Gone, TypeOK, Decision, Answered, Unanswered,
       AnswerIsDurable, ToldTheTruth, rows, calls, stops
<1> QED
  BY <1>1, <1>2, <1>3, <1>4, <1>5, <1>6, <1>7, <1>8, <1>9, <1>10, <1>11, <1>12,
       <1>13, <1>14, <1>15, <1>16, <1>17, <1>18, <1>19, <1>20, <1>21
     DEF Next, RunStep, ApprovalStep, ControlStep

(* The session passes from turn to turn.                                   *)
LEMMA HolderStep ==
  ASSUME TypeOK, OneHolder, [Next]_vars
  PROVE  OneHolder'
<1>1. CASE UNCHANGED vars
  BY <1>1 DEF TypeOK, OneHolder, Active, rows, calls, stops, vars
<1>2. ASSUME NEW t \in Turn, Accept(t)
      PROVE  OneHolder'
  BY <1>2 DEF Accept, TypeOK, OneHolder, Active, rows, calls, stops
<1>3. ASSUME NEW t \in Turn, Begin(t)
      PROVE  OneHolder'
  BY <1>3 DEF Begin, TypeOK, OneHolder, Active, rows, calls, stops
<1>4. ASSUME NEW t \in Turn, Completed(t)
      PROVE  OneHolder'
  BY <1>4 DEF Completed, TypeOK, OneHolder, Active, rows, calls, stops
<1>5. ASSUME NEW t \in Turn, EndRun(t)
      PROVE  OneHolder'
  BY <1>5 DEF EndRun, TypeOK, OneHolder, Active, rows, calls, stops
<1>6. ASSUME NEW t \in Turn, Closed(t)
      PROVE  OneHolder'
  BY <1>6 DEF Closed, TypeOK, OneHolder, Active, rows, calls, stops
<1>7. ASSUME NEW t \in Turn, Finally(t)
      PROVE  OneHolder'
  BY <1>7 DEF Finally, Decide, Interrupted, Resolvable, CallsOf, Fault, NoFault,
       TypeOK, OneHolder, Active, rows, calls, stops
<1>8. ASSUME NEW a \in Call, Request(a)
      PROVE  OneHolder'
  BY <1>8 DEF Request, Present, Fault, NoFault, TypeOK, OneHolder, Active, rows,
       calls, stops
<1>9. ASSUME NEW a \in Call, NextApproval(a)
      PROVE  OneHolder'
  BY <1>9 DEF NextApproval, Present, Fault, NoFault, TypeOK, OneHolder, Active,
       rows, calls, stops
<1>10. ASSUME NEW a \in Call, Prompted(a)
      PROVE  OneHolder'
  BY <1>10 DEF Prompted, TypeOK, OneHolder, Active, rows, calls, stops
<1>11. ASSUME NEW a \in Call, Expire(a)
      PROVE  OneHolder'
  BY <1>11 DEF Expire, Decide, Fault, NoFault, TypeOK, OneHolder, Active, rows,
       calls, stops
<1>12. ASSUME NEW a \in Call, NEW d \in {"approved", "denied"}, Resolve(a, d)
      PROVE  OneHolder'
  BY <1>12 DEF Resolve, Decide, Resolvable, Fault, NoFault, TypeOK, OneHolder,
       Active, rows, calls, stops
<1>13. ASSUME NEW x \in Turn \cup Call, Lapse(x)
      PROVE  OneHolder'
  BY <1>13 DEF Lapse, TypeOK, OneHolder, Active, rows, calls, stops
<1>14. ASSUME NEW t \in Turn, PresentRunControl(t)
      PROVE  OneHolder'
  BY <1>14 DEF PresentRunControl, Fault, NoFault, TypeOK, OneHolder, Active, rows,
       calls, stops
<1>15. ASSUME NEW t \in Turn, RunControlShown(t)
      PROVE  OneHolder'
  BY <1>15 DEF RunControlShown, TypeOK, OneHolder, Active, rows, calls, stops
<1>16. ASSUME NEW t \in Turn, HandleRunControl(t)
      PROVE  OneHolder'
  BY <1>16 DEF HandleRunControl, TypeOK, OneHolder, Active, rows, calls, stops
<1>17. ASSUME NEW t \in Turn, CancelReturns(t)
      PROVE  OneHolder'
  BY <1>17 DEF CancelReturns, TypeOK, OneHolder, Active, rows, calls, stops
<1>18. CASE Start
  BY <1>18 DEF Start, AllInterrupted, TypeOK, OneHolder, Active, rows, calls,
       stops
<1>19. CASE Stop
  BY <1>19 DEF Stop, Decide, AllInterrupted, Fault, NoFault, TypeOK, OneHolder,
       Active, rows, calls, stops
<1>20. CASE Stopped
  BY <1>20 DEF Stopped, Gone, TypeOK, OneHolder, Active, rows, calls, stops
<1>21. CASE Crash
  BY <1>21 DEF Crash, Gone, TypeOK, OneHolder, Active, rows, calls, stops
<1> QED
  BY <1>1, <1>2, <1>3, <1>4, <1>5, <1>6, <1>7, <1>8, <1>9, <1>10, <1>11, <1>12,
       <1>13, <1>14, <1>15, <1>16, <1>17, <1>18, <1>19, <1>20, <1>21
     DEF Next, RunStep, ApprovalStep, ControlStep

(* Without a fault a row is pending only while its call waits here.        *)
LEMMA WaiterStep ==
  ASSUME TypeOK, ApprovableHasWaiter, [Next]_vars
  PROVE  ApprovableHasWaiter'
<1>1. CASE UNCHANGED vars
  BY <1>1 DEF TypeOK, ApprovableHasWaiter, Resolvable, rows, calls, stops, vars
<1>2. ASSUME NEW t \in Turn, Accept(t)
      PROVE  ApprovableHasWaiter'
  BY <1>2 DEF Accept, TypeOK, ApprovableHasWaiter, Resolvable, rows, calls, stops
<1>3. ASSUME NEW t \in Turn, Begin(t)
      PROVE  ApprovableHasWaiter'
  BY <1>3 DEF Begin, TypeOK, ApprovableHasWaiter, Resolvable, rows, calls, stops
<1>4. ASSUME NEW t \in Turn, Completed(t)
      PROVE  ApprovableHasWaiter'
  BY <1>4 DEF Completed, TypeOK, ApprovableHasWaiter, Resolvable, rows, calls,
       stops
<1>5. ASSUME NEW t \in Turn, EndRun(t)
      PROVE  ApprovableHasWaiter'
  BY <1>5 DEF EndRun, TypeOK, ApprovableHasWaiter, Resolvable, rows, calls, stops
<1>6. ASSUME NEW t \in Turn, Closed(t)
      PROVE  ApprovableHasWaiter'
  BY <1>6 DEF Closed, TypeOK, ApprovableHasWaiter, Resolvable, rows, calls, stops
<1>7. ASSUME NEW t \in Turn, Finally(t)
      PROVE  ApprovableHasWaiter'
  BY <1>7 DEF Finally, Decide, Interrupted, Resolvable, CallsOf, Fault, NoFault,
       TypeOK, ApprovableHasWaiter, rows, calls, stops
<1>8. ASSUME NEW a \in Call, Request(a)
      PROVE  ApprovableHasWaiter'
  BY <1>8 DEF Request, Present, Fault, NoFault, TypeOK, ApprovableHasWaiter,
       Resolvable, rows, calls, stops
<1>9. ASSUME NEW a \in Call, NextApproval(a)
      PROVE  ApprovableHasWaiter'
  BY <1>9 DEF NextApproval, Present, Fault, NoFault, TypeOK, ApprovableHasWaiter,
       Resolvable, rows, calls, stops
<1>10. ASSUME NEW a \in Call, Prompted(a)
      PROVE  ApprovableHasWaiter'
  BY <1>10 DEF Prompted, TypeOK, ApprovableHasWaiter, Resolvable, rows, calls,
       stops
<1>11. ASSUME NEW a \in Call, Expire(a)
      PROVE  ApprovableHasWaiter'
  BY <1>11 DEF Expire, Decide, Fault, NoFault, TypeOK, ApprovableHasWaiter,
       Resolvable, rows, calls, stops
<1>12. ASSUME NEW a \in Call, NEW d \in {"approved", "denied"}, Resolve(a, d)
      PROVE  ApprovableHasWaiter'
  BY <1>12 DEF Resolve, Decide, Resolvable, Fault, NoFault, TypeOK,
       ApprovableHasWaiter, rows, calls, stops
<1>13. ASSUME NEW x \in Turn \cup Call, Lapse(x)
      PROVE  ApprovableHasWaiter'
  BY <1>13 DEF Lapse, TypeOK, ApprovableHasWaiter, Resolvable, rows, calls, stops
<1>14. ASSUME NEW t \in Turn, PresentRunControl(t)
      PROVE  ApprovableHasWaiter'
  BY <1>14 DEF PresentRunControl, Fault, NoFault, TypeOK, ApprovableHasWaiter,
       Resolvable, rows, calls, stops
<1>15. ASSUME NEW t \in Turn, RunControlShown(t)
      PROVE  ApprovableHasWaiter'
  BY <1>15 DEF RunControlShown, TypeOK, ApprovableHasWaiter, Resolvable, rows,
       calls, stops
<1>16. ASSUME NEW t \in Turn, HandleRunControl(t)
      PROVE  ApprovableHasWaiter'
  BY <1>16 DEF HandleRunControl, TypeOK, ApprovableHasWaiter, Resolvable, rows,
       calls, stops
<1>17. ASSUME NEW t \in Turn, CancelReturns(t)
      PROVE  ApprovableHasWaiter'
  BY <1>17 DEF CancelReturns, TypeOK, ApprovableHasWaiter, Resolvable, rows,
       calls, stops
<1>18. CASE Start
  BY <1>18 DEF Start, AllInterrupted, TypeOK, ApprovableHasWaiter, Resolvable,
       rows, calls, stops
<1>19. CASE Stop
  BY <1>19 DEF Stop, Decide, AllInterrupted, Fault, NoFault, TypeOK,
       ApprovableHasWaiter, Resolvable, rows, calls, stops
<1>20. CASE Stopped
  BY <1>20 DEF Stopped, Gone, TypeOK, ApprovableHasWaiter, Resolvable, rows,
       calls, stops
<1>21. CASE Crash
  BY <1>21 DEF Crash, Gone, TypeOK, ApprovableHasWaiter, Resolvable, rows, calls,
       stops
<1> QED
  BY <1>1, <1>2, <1>3, <1>4, <1>5, <1>6, <1>7, <1>8, <1>9, <1>10, <1>11, <1>12,
       <1>13, <1>14, <1>15, <1>16, <1>17, <1>18, <1>19, <1>20, <1>21
     DEF Next, RunStep, ApprovalStep, ControlStep

(* All of it holds in every reachable state.                               *)
THEOREM HumanInvariant == Spec => []HumanInv
<1>1. Init => HumanInv
  BY DEF Init, HumanInv, TypeOK, Decision, Answered, Unanswered, AnswerIsDurable,
         ToldTheTruth, OneHolder, Active, ApprovableHasWaiter, Resolvable
<1>2. HumanInv /\ [Next]_vars => HumanInv'
  BY TypeStep, AnsweredStep, HolderStep, WaiterStep DEF HumanInv, Answered
<1> QED
  BY <1>1, <1>2, PTL DEF Spec

(* The rows, the calls and the stop cards keep their types.                *)
THEOREM HumanTypeOK == Spec => []TypeOK
<1>1. HumanInv => TypeOK
  BY DEF HumanInv
<1> QED
  BY <1>1, HumanInvariant, PTL

(* A call is answered approved, denied or expired only as its row is.      *)
THEOREM HumanAnswerIsDurable == Spec => []AnswerIsDurable
<1>1. HumanInv => AnswerIsDurable
  BY DEF HumanInv, Answered
<1> QED
  BY <1>1, HumanInvariant, PTL

(* Nobody is told of a decision that no call was answered with.            *)
THEOREM HumanToldTheTruth == Spec => []ToldTheTruth
<1>1. HumanInv => ToldTheTruth
  BY DEF HumanInv, Answered
<1> QED
  BY <1>1, HumanInvariant, PTL

(* Without store errors no approval can be granted that nobody waits for.  *)
THEOREM HumanApprovableHasWaiter == Spec => []ApprovableHasWaiter
<1>1. HumanInv => ApprovableHasWaiter
  BY DEF HumanInv
<1> QED
  BY <1>1, HumanInvariant, PTL

(* A click on a stop card cancels the run of the card, which alone holds   *)
(* the session.                                                            *)
THEOREM HumanCancelHitsOwnRun == Spec => CancelHitsOwnRun
<1> DEFINE Hits == \A t \in Turn : cancel'[t] = "calling" /\ cancel[t] # "calling"
     =>
                     Active(t) /\ \A u \in Turn \ {t} : ~Active(u)
<1>1. ASSUME HumanInv, Next
      PROVE  Hits
  <2>1. ASSUME NEW t \in Turn, HandleRunControl(t)
        PROVE  Hits
    BY <1>1, <2>1 DEF HandleRunControl, HumanInv, TypeOK, OneHolder, Active
  <2>2. CASE UNCHANGED cancel
    BY <2>2
  <2>3. ASSUME NEW t \in Turn, CancelReturns(t)
        PROVE  Hits
    BY <1>1, <2>3 DEF CancelReturns, HumanInv, TypeOK
  <2>4. CASE Gone
    BY <1>1, <2>4 DEF Gone, HumanInv, TypeOK
  <2> QED
    BY <1>1, <2>1, <2>2, <2>3, <2>4
       DEF Next, RunStep, ControlStep, ApprovalStep, Accept, Begin, Completed,
            EndRun, Closed,
           Finally, Request, NextApproval, Prompted, Expire, Resolve, Lapse,
           PresentRunControl, RunControlShown, Start, Stop, Stopped, Crash, stops
<1>2. HumanInv /\ [Next]_vars => [Hits]_vars
  BY <1>1
<1>3. Spec => [][Hits]_vars
  BY <1>2, HumanInvariant, PTL DEF Spec
<1> QED
  BY <1>3 DEF CancelHitsOwnRun
================================================================================
