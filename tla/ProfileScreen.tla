---------------------------- MODULE ProfileScreen ---------------------------
(***************************************************************************)
(* The profile screens (ProfileDetailsVC).  Each one that is pushed        *)
(* schedules a 0.5 s timer whose block holds the screen; the block sends   *)
(* three requests whose completions hold it weakly.  The user may leave    *)
(* at any time: neither the timer nor the requests are cancelled, and a    *)
(* completion that finds something to show unwraps self by force.          *)
(***************************************************************************)
EXTENDS Integers, FiniteSets

CONSTANTS
    Screen,         \* the instances of ProfileDetailsVC in a session
    NoAnswer        \* a part of the screen that was not filled

ASSUME NoAnswerAssumption == NoAnswer \notin BOOLEAN

VARIABLES
    place,          \* per screen: not created, on the navigation stack, popped
    timer,          \* per screen: the timer is scheduled
    inFlight,       \* per screen: the requests not answered yet
    filled,         \* per screen and part: what the answer filled in
    failed,         \* history, per screen: the requests that failed
    crashed         \* the app has trapped

vars == <<place, timer, inFlight, filled, failed, crashed>>

-----------------------------------------------------------------------------
\* The three requests of a screen, each for one part of it.
Part == {"profile", "photos", "collections"}

\* A part is filled with an empty answer or with something.
Answer == BOOLEAN

TypeOK ==
    /\ place \in [Screen -> {"none", "stack", "popped"}]
    /\ timer \in [Screen -> BOOLEAN]
    /\ inFlight \in [Screen -> SUBSET Part]
    /\ filled \in [Screen -> [Part -> Answer \cup {NoAnswer}]]
    /\ failed \in [Screen -> SUBSET Part]
    /\ crashed \in BOOLEAN

\* The navigation stack and the scheduled timer's block hold a screen; the
\* completions do not.
Alive(s) == place[s] = "stack" \/ timer[s]

Init ==
    /\ place = [s \in Screen |-> "none"]
    /\ timer = [s \in Screen |-> FALSE]
    /\ inFlight = [s \in Screen |-> {}]
    /\ filled = [s \in Screen |-> [part \in Part |-> NoAnswer]]
    /\ failed = [s \in Screen |-> {}]
    /\ crashed = FALSE

\* Mutant: the timer is never scheduled.
PushWithoutTimer(s) ==
    /\ ~crashed
    /\ place[s] = "none"
    /\ place' = [place EXCEPT ![s] = "stack"]
    /\ UNCHANGED <<timer, inFlight, filled, failed, crashed>>

\* profileDetailsButtonTapped and, from viewDidLoad, setupView.
Push(s) ==
    /\ ~crashed
    /\ place[s] = "none"
    /\ place' = [place EXCEPT ![s] = "stack"]
    /\ timer' = [timer EXCEPT ![s] = TRUE]
    /\ UNCHANGED <<inFlight, filled, failed, crashed>>

Pop(s) ==
    /\ ~crashed
    /\ place[s] = "stack"
    /\ place' = [place EXCEPT ![s] = "popped"]
    /\ UNCHANGED <<timer, inFlight, filled, failed, crashed>>

\* Mutant: the collections are not asked for.
TimerFiresTwoRequests(s) ==
    /\ ~crashed
    /\ timer[s]
    /\ timer' = [timer EXCEPT ![s] = FALSE]
    /\ inFlight' = [inFlight EXCEPT ![s] = {"profile", "photos"}]
    /\ UNCHANGED <<place, filled, failed, crashed>>

\* The timer's block runs for a popped screen too.
TimerFires(s) ==
    /\ ~crashed
    /\ timer[s]
    /\ timer' = [timer EXCEPT ![s] = FALSE]
    /\ inFlight' = [inFlight EXCEPT ![s] = Part]
    /\ UNCHANGED <<place, filled, failed, crashed>>

Answered(s, part) ==
    /\ ~crashed
    /\ part \in inFlight[s]
    /\ inFlight' = [inFlight EXCEPT ![s] = @ \ {part}]
    /\ UNCHANGED <<place, timer>>

\* Mutant: an answer empties the parts filled before it.
ReceiveReplaces(s, part, answer) ==
    /\ Answered(s, part)
    /\ crashed' = ~Alive(s)
    /\ filled' = IF Alive(s) THEN [filled EXCEPT ![s] = [p \in {part} |-> answer]]
                 ELSE filled
    /\ UNCHANGED failed

\* An answer was decoded: the completion fills its part, or traps on self!.
Receive(s, part, answer) ==
    /\ Answered(s, part)
    /\ crashed' = ~Alive(s)
    /\ filled' = IF Alive(s) THEN [filled EXCEPT ![s][part] = answer] ELSE filled
    /\ UNCHANGED failed

\* An error or an undecodable answer: the completion gets nil and returns.
ReceiveNothing(s, part) ==
    /\ Answered(s, part)
    /\ failed' = [failed EXCEPT ![s] = @ \cup {part}]
    /\ UNCHANGED <<filled, crashed>>

Completion(s) ==
    \E part \in Part :
        (\E answer \in Answer : Receive(s, part, answer)) \/ ReceiveNothing(s, part)

Next == \E s \in Screen : Push(s) \/ Pop(s) \/ TimerFires(s) \/ Completion(s)

Spec == Init /\ [][Next]_vars

\* Timers fire and every request is answered or fails.
Fairness == \A s \in Screen : WF_vars(TimerFires(s)) /\ WF_vars(Completion(s))

FairSpec == Spec /\ Fairness

-----------------------------------------------------------------------------
\* The completions' self! never meets nil, as the code asserts by unwrapping.
SelfIsNeverNil == ~crashed

\* Nothing is dropped in silence: as long as the app runs, each request of a
\* screen whose timer has fired is on its way, has failed, or has filled its
\* part -- whoever left which screen when, and in whatever order the answers of
\* several screens came.
NothingDropped ==
    ~crashed =>
        \A s \in Screen : place[s] # "none" /\ ~timer[s] =>
            \A part \in Part :
                part \in inFlight[s] \cup failed[s] \/ filled[s][part] # NoAnswer

\* A screen the user stays on shows every part whose request did not fail.
StayedIsFilled ==
    \A s \in Screen :
        [](place[s] # "popped" /\ ~crashed) =>
            <>[](place[s] = "stack" =>
                    \A part \in Part \ failed[s] : filled[s][part] # NoAnswer)
=============================================================================
