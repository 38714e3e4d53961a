------------------------- MODULE ProfileScreenProofs ------------------------
(* Theorems about ProfileScreen, for any number of screens.                 *)
EXTENDS ProfileScreen, TLAPS

\* Every variable keeps its type, for any number of screens.
THEOREM ProfileScreenTypeOK == Spec => []TypeOK
<1>1. Init => TypeOK BY DEF Init, TypeOK
<1>2. TypeOK /\ [Next]_vars => TypeOK'
  <2> SUFFICES ASSUME TypeOK, [Next]_vars PROVE TypeOK'
    OBVIOUS
  <2> USE DEF TypeOK
  <2>1. ASSUME NEW s \in Screen, Push(s) PROVE TypeOK' BY <2>1 DEF Push
  <2>2. ASSUME NEW s \in Screen, Pop(s) PROVE TypeOK' BY <2>2 DEF Pop
  <2>3. ASSUME NEW s \in Screen, TimerFires(s) PROVE TypeOK'
    BY <2>3 DEF TimerFires
  <2>4. ASSUME NEW s \in Screen, NEW part \in Part, NEW answer \in Answer,
               Receive(s, part, answer)
        PROVE  TypeOK'
    <3>1. /\ place' = place /\ timer' = timer /\ failed' = failed
          /\ inFlight' \in [Screen -> SUBSET Part]
      BY <2>4 DEF Receive, Answered
    <3>2. crashed' \in BOOLEAN BY <2>4 DEF Receive, Alive
    <3>3. filled' \in [Screen -> [Part -> Answer \cup {NoAnswer}]]
      <4>1. [filled EXCEPT ![s][part] = answer]
              \in [Screen -> [Part -> Answer \cup {NoAnswer}]]
        OBVIOUS
      <4> QED BY <2>4, <4>1 DEF Receive
    <3> QED BY <3>1, <3>2, <3>3
  <2>5. ASSUME NEW s \in Screen, NEW part \in Part, ReceiveNothing(s, part)
        PROVE  TypeOK'
    BY <2>5 DEF ReceiveNothing, Answered
  <2>6. CASE UNCHANGED vars BY <2>6 DEF vars
  <2> QED BY <2>1, <2>2, <2>3, <2>4, <2>5, <2>6 DEF Next, Completion
<1> QED BY <1>1, <1>2, PTL DEF Spec

-----------------------------------------------------------------------------
\* What became of the request of a part.
Settled(s, part) ==
    part \in inFlight[s] \cup failed[s] \/ filled[s][part] # NoAnswer

LEMMA NothingDroppedNext ==
    ASSUME TypeOK, NothingDropped, [Next]_vars
    PROVE  NothingDropped'
<1> SUFFICES ASSUME ~crashed',
                    NEW t \in Screen, place'[t] # "none", ~timer'[t],
                    NEW p \in Part
             PROVE  Settled(t, p)'
  BY DEF NothingDropped, Settled
<1> USE DEF TypeOK
<1>0. ~crashed /\ place[t] # "none" /\ ~timer[t] => Settled(t, p)
  BY DEF NothingDropped, Settled
<1>1. ASSUME NEW s \in Screen, Push(s) PROVE Settled(t, p)'
  <2>1. t # s BY <1>1 DEF Push
  <2> QED BY <1>0, <1>1, <2>1 DEF Push, Settled
<1>2. ASSUME NEW s \in Screen, Pop(s) PROVE Settled(t, p)'
  BY <1>0, <1>2 DEF Pop, Settled
<1>3. ASSUME NEW s \in Screen, TimerFires(s) PROVE Settled(t, p)'
  BY <1>0, <1>3 DEF TimerFires, Settled
<1>4. ASSUME NEW s \in Screen, NEW part \in Part, NEW answer \in Answer,
             Receive(s, part, answer)
      PROVE  Settled(t, p)'
  <2>1. /\ ~crashed /\ UNCHANGED <<place, timer, failed>>
        /\ inFlight' = [inFlight EXCEPT ![s] = @ \ {part}]
    BY <1>4 DEF Receive, Answered
  <2>2. filled' = [filled EXCEPT ![s][part] = answer] BY <1>4 DEF Receive
  <2>3. Settled(t, p) BY <1>0, <2>1
  <2>4. CASE t = s /\ p = part
    <3>1. filled'[t][p] = answer BY <2>2, <2>4
    <3> QED BY <3>1, NoAnswerAssumption DEF Settled, Answer
  <2>5. CASE ~(t = s /\ p = part)
    <3>1. filled'[t][p] = filled[t][p] BY <2>2, <2>5
    <3>2. p \in inFlight[t] => p \in inFlight'[t] BY <2>1, <2>5
    <3> QED BY <2>1, <2>3, <3>1, <3>2 DEF Settled
  <2> QED BY <2>4, <2>5
<1>5. ASSUME NEW s \in Screen, NEW part \in Part, ReceiveNothing(s, part)
      PROVE  Settled(t, p)'
  BY <1>0, <1>5 DEF ReceiveNothing, Answered, Settled
<1>6. CASE UNCHANGED vars BY <1>0, <1>6 DEF vars, Settled
<1> QED BY <1>1, <1>2, <1>3, <1>4, <1>5, <1>6 DEF Next, Completion

\* No request of a profile screen is dropped in silence, for any number of
\* screens, opened, left and answered in any order.
THEOREM ProfileScreenNothingDropped == Spec => []NothingDropped
<1>1. Init => NothingDropped BY DEF Init, NothingDropped
<1> QED BY <1>1, NothingDroppedNext, ProfileScreenTypeOK, PTL DEF Spec
=============================================================================
