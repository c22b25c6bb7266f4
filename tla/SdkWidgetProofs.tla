-------------------------- MODULE SdkWidgetProofs ----------------------------
(***************************************************************************)
(* For any number of runs, challenges, resets and renderings: the token is *)
(* an accepted challenge and the slider shows the truth.                   *)
(***************************************************************************)
EXTENDS SdkWidget, TLAPS

\* No step makes the flags anything but flags.
LEMMA FlagsStay == FlagsOK /\ [Next]_vars => FlagsOK'
<1> SUFFICES ASSUME FlagsOK, [Next]_vars
             PROVE  FlagsOK'
  OBVIOUS
<1>1. ASSUME isDragging' \in {isDragging, TRUE, FALSE}, shown' \in {shown, TRUE, FALSE}
      PROVE  FlagsOK'
  BY <1>1, Zenon DEF FlagsOK
<1>2. CASE UNCHANGED vars
  BY <1>1, <1>2 DEF vars
<1>3. CASE DragStart \/ DragShort
  BY <1>1, <1>3 DEF DragStart, DragShort
<1>4. CASE PrefetchEnds \/ ConfigEnds \/ Timer \/ Reset \/ Destroy
  BY <1>1, <1>4 DEF PrefetchEnds, ConfigEnds, Timer, Reset, Destroy
<1>5. ASSUME NEW r \in Run, DragEnd(r) \/ RunStep(r) \/ Progress(r) \/ Serve(r)
      PROVE  FlagsOK'
  BY <1>1, <1>5 DEF DragEnd, RunStep, FetchEnds, Submit, Succeed, Refuse, Progress, Serve
<1>6. QED
  BY <1>2, <1>3, <1>4, <1>5 DEF Next

\* The widget keeps its types (index.ts, widget.ts).
THEOREM WidgetTypes == Spec => []TypeOK
<1> USE WidgetAssumption
        DEF TypeOK, Challenge, Null, InFlight, run, server, bounds, vars
<1>1. Init => TypeOK
  <2>1. Init => FlagsOK
    BY Zenon DEF Init, FlagsOK
  <2>2. QED
    BY <2>1 DEF Init
<1>2. TypeOK /\ [Next]_vars => TypeOK'
  <2> SUFFICES ASSUME TypeOK, [Next]_vars
               PROVE  TypeOK'
    OBVIOUS
  <2> FlagsOK'
    BY FlagsStay
  <2>1. CASE DragStart \/ DragShort
    BY <2>1 DEF DragStart, DragShort
  <2>2. ASSUME NEW r \in Run, DragEnd(r) PROVE TypeOK'
    BY <2>2 DEF DragEnd, Solve
  <2>3. ASSUME NEW r \in Run, FetchEnds(r) PROVE TypeOK'
    BY <2>3 DEF FetchEnds, Arrives, Solve
  <2>4. ASSUME NEW r \in Run, Submit(r) PROVE TypeOK'
    BY <2>4 DEF Submit
  <2>5. ASSUME NEW r \in Run, Succeed(r) \/ Refuse(r) \/ Progress(r) PROVE TypeOK'
    <3>1. CASE Succeed(r)
      BY <3>1 DEF Succeed
    <3>2. CASE Refuse(r)
      BY <3>2 DEF Refuse
    <3>3. CASE Progress(r)
      BY <3>3 DEF Progress
    <3>4. QED
      BY <2>5, <3>1, <3>2, <3>3
  <2>6. ASSUME NEW r \in Run, Serve(r) PROVE TypeOK'
    <3>1. CASE post' = [post EXCEPT ![r] = "refused"] /\ UNCHANGED accepted
      BY <2>6, <3>1 DEF Serve
    <3>2. CASE /\ sent[r] # Null
               /\ accepted' = accepted \cup {sent[r]}
               /\ post' = [post EXCEPT ![r] = "accepted"]
      <4>1. accepted' \subseteq Challenge
        BY <3>2
      <4>2. QED
        BY <2>6, <3>2, <4>1 DEF Serve
    <3>3. QED
      BY <2>6, <3>1, <3>2 DEF Serve
  <2>7. CASE PrefetchEnds
    BY <2>7 DEF PrefetchEnds, Arrives
  <2>8. CASE ConfigEnds
    <3>1. configs > 0 /\ configs' \in {configs, configs - 1}
      BY <2>8 DEF ConfigEnds
    <3>2. /\ status' \in {status, "ready"} /\ prefetches' \in {prefetches, prefetches + 1}
          /\ renders' \in {renders, renders + 1}
      BY <2>8 DEF ConfigEnds
    <3>3. UNCHANGED <<timers, token, currentChallenge, run, server, resets>>
      BY <2>8 DEF ConfigEnds
    <3>4. QED
      BY <3>1, <3>2, <3>3
  <2>9. CASE Timer \/ Reset \/ Destroy \/ UNCHANGED vars
    <3>1. CASE Timer
      BY <3>1 DEF Timer
    <3>2. CASE Reset
      BY <3>2 DEF Reset
    <3>3. CASE Destroy \/ UNCHANGED vars
      <4>1. UNCHANGED <<status, timers, token, currentChallenge, prefetches, configs,
                        run, server, bounds>>
        BY <3>3 DEF Destroy
      <4>2. QED
        BY <4>1
    <3>4. QED
      BY <2>9, <3>1, <3>2, <3>3
  <2>10. QED
    BY <2>1, <2>2, <2>3, <2>4, <2>5, <2>6, <2>7, <2>8, <2>9 DEF Next, RunStep
<1>3. QED
  BY <1>1, <1>2, PTL DEF Spec

\* An acceptance that is on its way to the client is of an accepted challenge.
AnswersAreTrue == \A r \in Run: post[r] = "accepted" => sent[r] \in accepted

\* Only a run that is solving has not submitted yet and will.
PostedOnce ==
    \A r \in Run: pc[r] \in {"new", "fetching", "solving"} => post[r] = "none"

\* An answer speaks of the challenge that its request submitted.
LEMMA TrueAnswers == Spec => [](TokenIsEarned /\ AnswersAreTrue /\ PostedOnce)
<1> DEFINE Inv == TokenIsEarned /\ AnswersAreTrue /\ PostedOnce
<1> USE DEF TypeOK, TokenIsEarned, AnswersAreTrue, PostedOnce, InFlight
<1>1. Init => Inv
  BY DEF Init, Null
<1>2. TypeOK /\ Inv /\ [Next]_vars => Inv'
  <2> SUFFICES ASSUME TypeOK, Inv, [Next]_vars
               PROVE  Inv'
    OBVIOUS
  <2>1. CASE UNCHANGED <<token, pc, sent, post, accepted>>
    BY <2>1
  <2>2. ASSUME NEW r \in Run, DragEnd(r) PROVE Inv'
    BY <2>2 DEF DragEnd, Solve, server
  <2>3. ASSUME NEW r \in Run, FetchEnds(r) PROVE Inv'
    BY <2>3 DEF FetchEnds, Solve
  <2>4. ASSUME NEW r \in Run, Submit(r) PROVE Inv'
    BY <2>4 DEF Submit, server
  <2>5. ASSUME NEW r \in Run, Succeed(r) PROVE Inv'
    BY <2>5 DEF Succeed, server
  <2>6. ASSUME NEW r \in Run, Refuse(r) PROVE Inv'
    BY <2>6 DEF Refuse, server
  <2>7. ASSUME NEW r \in Run, Serve(r) PROVE Inv'
    BY <2>7 DEF Serve
  <2>8. CASE Reset
    BY <2>8 DEF Reset, run, server, Null
  <2>9. ASSUME \/ DragStart \/ DragShort \/ PrefetchEnds \/ ConfigEnds
               \/ Timer \/ Destroy \/ UNCHANGED vars
               \/ \E r \in Run: Progress(r)
        PROVE  UNCHANGED <<token, pc, sent, post, accepted>>
    BY <2>9 DEF DragStart, DragShort, PrefetchEnds, ConfigEnds, Timer, Destroy,
                Progress, vars, run, server
  <2>10. QED
    BY <2>1, <2>2, <2>3, <2>4, <2>5, <2>6, <2>7, <2>8, <2>9 DEF Next, RunStep
<1>3. QED
  BY <1>1, <1>2, WidgetTypes, PTL DEF Spec

\* Whatever overtakes a run, the token that the page gets is a challenge the
\* server accepted: the token is taken from the answer, not from the closure
\* (index.ts:117-128).
THEOREM EarnedToken == Spec => []TokenIsEarned
  BY TrueAnswers, PTL

\* Stale timers, late answers and other runs all write the status, and yet it
\* is never left to claim work, an error or a success that is not there
\* (index.ts:93-146, widget.ts:86-98).
THEOREM HonestStatus == Spec => []StatusIsHonest
<1> USE DEF TypeOK, StatusIsHonest, InFlight
<1>1. Init => StatusIsHonest
  BY DEF Init
<1>2. TypeOK /\ AnswersAreTrue /\ StatusIsHonest /\ [Next]_vars => StatusIsHonest'
  <2> SUFFICES ASSUME TypeOK, AnswersAreTrue, StatusIsHonest, [Next]_vars
               PROVE  StatusIsHonest'
    OBVIOUS
  <2>1. CASE DragStart \/ DragShort
    BY <2>1 DEF DragStart, DragShort, run
  <2>2. ASSUME NEW r \in Run, DragEnd(r) PROVE StatusIsHonest'
    BY <2>2 DEF DragEnd, Solve
  <2>3. ASSUME NEW r \in Run, FetchEnds(r) PROVE StatusIsHonest'
    BY <2>3 DEF FetchEnds, Solve
  <2>4. ASSUME NEW r \in Run, Submit(r) \/ Progress(r) PROVE StatusIsHonest'
    BY <2>4 DEF Submit, Progress, run
  <2>5. ASSUME NEW r \in Run, Succeed(r) PROVE StatusIsHonest'
    <3>1. sent[r] # Null
      BY <2>5 DEF Succeed, AnswersAreTrue, Challenge, Null
    <3>2. QED
      BY <2>5, <3>1 DEF Succeed
  <2>6. ASSUME NEW r \in Run, Refuse(r) PROVE StatusIsHonest'
    BY <2>6 DEF Refuse
  <2>7. ASSUME NEW r \in Run, Serve(r) PROVE StatusIsHonest'
    BY <2>7 DEF Serve
  <2>8. CASE PrefetchEnds \/ ConfigEnds
    BY <2>8 DEF PrefetchEnds, ConfigEnds, run
  <2>9. CASE Timer \/ Reset \/ Destroy \/ UNCHANGED vars
    BY <2>9 DEF Timer, Reset, Destroy, run, vars
  <2>10. QED
    BY <2>1, <2>2, <2>3, <2>4, <2>5, <2>6, <2>7, <2>8, <2>9 DEF Next, RunStep
<1>3. QED
  BY <1>1, <1>2, WidgetTypes, TrueAnswers, PTL DEF Spec

=============================================================================
