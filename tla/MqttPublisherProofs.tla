------------------------ MODULE MqttPublisherProofs ------------------------
(***************************************************************************)
(* Proofs about MqttPublisher, for every set of requests and every bound.  *)
(***************************************************************************)
EXTENDS MqttPublisher, TLAPS

-----------------------------------------------------------------------------
(* The inductive invariant.  Each part says what one variable of a request *)
(* must be where the request stands.                                       *)

\* The request inside publish is the first of the queue: the lock's holder.
HolderFirst == \A r \in Request : at[r] \in Locked => Holds(r)

InFlight(r) == at[r] \notin {"new", "done"}

\* Everyone in the queue is in flight, and is in it once; nobody else is in flight.
LineInFlight ==
  /\ \A i \in 1..Len(queue) : InFlight(queue[i])
  /\ \A i, j \in 1..Len(queue) : queue[i] = queue[j] => i = j

FlightInLine ==
  \A r \in Request : InFlight(r) => \E i \in 1..Len(queue) : queue[i] = r

\* A request in flight belongs to the process that serves.
FlightServed == \A r \in Request : at[r] \notin {"new", "done"} => serving

\* What must be true of one request for its answer to be honest: only the done are
\* answered, and a copy that went out before the retry was never acknowledged.
HonestFor(r) ==
  /\ status[r] # 0 => at[r] = "done"
  /\ at[r] \in {"new", "wait", "publish"} => delivered[r] = 0
  /\ at[r] \in {"exit", "enter", "retry"} => delivered[r] <= 1
  /\ delivered[r] = 1 /\ at[r] # "done" => ackLost[r]
  /\ status[r] = 202 /\ qos[r] = 1 => delivered[r] > 0
  /\ status[r] \in {404, 503} => delivered[r] = 0
  /\ delivered[r] <= 2 /\ (delivered[r] = 2 => ackLost[r])

Honest == \A r \in Request : HonestFor(r)

\* A good start is remembered while the process lives.
StartedConnected == started => connected

\* An undisturbed request holds the lock or is through; the broker is up, its retry
\* has a live client, and its answer is 202.
SmoothFor(r) ==
  smooth[r] =>
    /\ at[r] \in Locked \cup {"done"}
    /\ at[r] \in Locked => broker /\ started
    /\ at[r] = "retry" => client = "live"
    /\ status[r] # 0 => status[r] = 202

Smooth == \A r \in Request : SmoothFor(r)

IInv ==
  /\ TypeOK
  /\ HolderFirst
  /\ LineInFlight
  /\ FlightInLine
  /\ FlightServed
  /\ Honest
  /\ StartedConnected
  /\ Smooth

-----------------------------------------------------------------------------
(* The queue.                                                              *)

\* Giving up one's place keeps the queue a queue of requests, and moves nobody
\* ahead of another holder.
LEMMA ReleasedQueue ==
  ASSUME queue \in Seq(Request), NEW r \in Request
  PROVE  /\ Released(r) \in Seq(Request)
         /\ ~Holds(r) => Released(r) = queue
  BY DEF Released, Holds

\* A newcomer does not take the lock from its holder.
LEMMA AppendedHead ==
  ASSUME queue \in Seq(Request), NEW r \in Request, queue # << >>
  PROVE  /\ Append(queue, r) \in Seq(Request)
         /\ Append(queue, r) # << >>
         /\ Head(Append(queue, r)) = Head(queue)
  OBVIOUS


-----------------------------------------------------------------------------
(* Type correctness.                                                       *)

LEMMA InitType == Init => TypeOK
  <1> SUFFICES ASSUME Init PROVE TypeOK  OBVIOUS
  <1>1. queue \in Seq(Request)  BY DEF Init
  <1>2. at \in [Request -> Stage]  BY DEF Init, Stage
  <1>3. status \in [Request -> Status]  BY DEF Init, Status
  <1>4. client \in ClientState  BY DEF Init, ClientState
  <1>5. ops \in 0..MaxOps /\ faults \in 0..MaxFaults /\ stops \in 0..MaxStops
    BY BoundsAssumption DEF Init
  <1> QED BY <1>1, <1>2, <1>3, <1>4, <1>5 DEF Init, TypeOK

LEMMA AnswerType ==
  ASSUME TypeOK, NEW r \in Request, NEW code \in Status, Answer(r, code)
  PROVE  /\ at' \in [Request -> Stage]
         /\ status' \in [Request -> Status]
         /\ queue' \in Seq(Request)
  BY ReleasedQueue DEF TypeOK, Answer, Stage

LEMMA MoveType ==
  ASSUME TypeOK, NEW r \in Request, NEW stage \in Stage, MoveTo(r, stage)
  PROVE  /\ at' \in [Request -> Stage]
         /\ status' \in [Request -> Status]
         /\ queue' \in Seq(Request)
  BY DEF TypeOK, MoveTo

\* A change that the bounds allow.
LEMMA SpentBudget ==
  /\ TypeOK /\ SpendOp =>
       ops' \in 0..MaxOps /\ faults' \in 0..MaxFaults /\ stops' \in 0..MaxStops
  /\ TypeOK /\ SpendStop =>
       ops' \in 0..MaxOps /\ faults' \in 0..MaxFaults /\ stops' \in 0..MaxStops
  BY BoundsAssumption DEF SpendOp, SpendStop, TypeOK

LEMMA ClientStates == {"none", "fresh", "live", "dead", "closed"} \subseteq ClientState
  BY DEF ClientState

LEMMA ProcessType ==
  ASSUME TypeOK,
         \/ Startup \/ Shutdown \/ Kill
         \/ BrokerDown \/ BrokerUp \/ Drop
  PROVE  TypeOK'
  <1> USE DEF process, request, history, budget
  <1>0. Disturbed \in [Request -> BOOLEAN]  BY DEF Disturbed
  <1>1. CASE Startup
    <2>1. client' \in ClientState  BY <1>1, ClientStates DEF Startup
    <2> QED BY <1>1, <2>1 DEF Startup, TypeOK
  <1>2. CASE Shutdown
    <2>1. client' \in ClientState  BY <1>2, ClientStates DEF Shutdown, ProcessEnds
    <2> QED BY <1>2, <2>1, SpentBudget DEF Shutdown, ProcessEnds, TypeOK
  <1>3. CASE Kill
    <2>1. queue' \in Seq(Request)  BY <1>3 DEF Kill
    <2>2. at' \in [Request -> Stage]
      <3>1. {"new", "done"} \subseteq Stage  BY DEF Stage
      <3> QED BY <1>3, <3>1 DEF Kill
    <2>3. client' \in ClientState  BY <1>3, ClientStates DEF Kill, ProcessEnds
    <2> QED BY <1>3, <2>1, <2>2, <2>3, SpentBudget DEF Kill, ProcessEnds, TypeOK
  <1>4. CASE BrokerDown
    <2>1. client' \in ClientState  BY <1>4, ClientStates DEF BrokerDown, Cut, TypeOK
    <2> QED BY <1>0, <1>4, <2>1, SpentBudget DEF BrokerDown, TypeOK
  <1>5. CASE BrokerUp
    BY <1>5, SpentBudget DEF BrokerUp, TypeOK
  <1>6. CASE Drop
    <2>1. client' \in ClientState  BY <1>6, ClientStates DEF Drop
    <2> QED BY <1>0, <1>6, <2>1, SpentBudget DEF Drop, TypeOK
  <1> QED BY <1>1, <1>2, <1>3, <1>4, <1>5, <1>6

LEMMA RequestType ==
  ASSUME TypeOK, NEW r \in Request, Check(r) \/ Proceed(r) \/ Failure(r)
  PROVE  TypeOK'
  <1> USE DEF process, request, history, budget
  <1> DEFINE Moved == /\ at' \in [Request -> Stage]
                      /\ status' \in [Request -> Status]
                      /\ queue' \in Seq(Request)
  <1>0. /\ {202, 404, 500, 503} \subseteq Status
        /\ Locked \cup {"wait"} \subseteq Stage
    BY DEF Status, Stage
  <1>1. ASSUME NEW code \in {202, 404, 500, 503}, Answer(r, code) PROVE Moved
    BY <1>0, <1>1, AnswerType
  <1>2. ASSUME NEW stage \in Locked, MoveTo(r, stage) PROVE Moved
    BY <1>0, <1>2, MoveType
  <1>3. ASSUME AfterFailure(r) PROVE Moved
    BY <1>1, <1>2, <1>3 DEF AfterFailure, Locked
  <1> HIDE DEF Moved
  <1>d. Disturbed \in [Request -> BOOLEAN]  BY DEF Disturbed
  <1>c. [delivered EXCEPT ![r] = @ + 1] \in [Request -> Nat]  BY DEF TypeOK
  <1>4. CASE Check(r)
    <2>1. Moved
      <3>1. CASE Answer(r, 404)  BY <1>1, <3>1
      <3>2. CASE /\ at' = [at EXCEPT ![r] = "wait"]
                 /\ queue' = Queued(r)
                 /\ status' = status
        BY <3>2 DEF TypeOK, Moved, Stage, Queued
      <3> QED BY <1>4, <3>1, <3>2 DEF Check
    <2> QED BY <1>4, <2>1 DEF Check, TypeOK, Moved
  <1>5. CASE CheckFault(r)
    <2>1. Moved  BY <1>1, <1>5 DEF CheckFault
    <2> QED BY <1>5, <2>1, BoundsAssumption DEF CheckFault, TypeOK, Moved
  <1>6. CASE Enter(r)
    <2>1. Moved  BY <1>1, <1>2, <1>6 DEF Enter, Locked
    <2> QED BY <1>6, <2>1 DEF Enter, TypeOK, Moved
  <1>7. CASE Published(r)
    <2>1. Moved  BY <1>1, <1>7 DEF Published
    <2> QED BY <1>7, <1>c, <2>1 DEF Published, TypeOK, Moved
  <1>8. CASE NotConnected(r)
    <2>1. Moved  BY <1>3, <1>8 DEF NotConnected
    <2> QED BY <1>8, <2>1 DEF NotConnected, TypeOK, Moved
  <1>9. CASE LostAck(r)
    <2>1. Moved  BY <1>3, <1>9 DEF LostAck
    <2>2. client' \in ClientState  BY <1>9, ClientStates DEF LostAck
    <2> QED BY <1>9, <1>c, <1>d, <2>1, <2>2, SpentBudget DEF LostAck, TypeOK, Moved
  <1>10. CASE LostQuietly(r)
    <2>1. Moved  BY <1>1, <1>10 DEF LostQuietly
    <2>2. client' \in ClientState  BY <1>10, ClientStates DEF LostQuietly
    <2> QED BY <1>10, <1>d, <2>1, <2>2, SpentBudget DEF LostQuietly, TypeOK, Moved
  <1>11. CASE ReconnectExit(r)
    <2>1. Moved  BY <1>2, <1>11 DEF ReconnectExit, Locked
    <2>2. client' \in ClientState  BY <1>11, ClientStates DEF ReconnectExit
    <2> QED BY <1>11, <2>1, <2>2 DEF ReconnectExit, TypeOK, Moved
  <1>12. CASE ReconnectEnter(r)
    <2>1. Moved  BY <1>1, <1>2, <1>12 DEF ReconnectEnter, AfterReconnect, Locked
    <2>2. client' \in ClientState /\ connected' \in BOOLEAN
      BY <1>12, ClientStates DEF ReconnectEnter, ConnectedAfterFailedStart, TypeOK
    <2> QED BY <1>12, <2>1, <2>2 DEF ReconnectEnter, TypeOK, Moved
  <1> QED BY <1>4, <1>5, <1>6, <1>7, <1>8, <1>9, <1>10, <1>11, <1>12
      DEF Proceed, Failure

LEMMA NextType == TypeOK /\ [Next]_vars => TypeOK'
  <1> SUFFICES ASSUME TypeOK, [Next]_vars PROVE TypeOK'  OBVIOUS
  <1>1. CASE UNCHANGED vars
    BY <1>1 DEF vars, process, request, history, budget, TypeOK
  <1> QED BY <1>1, ProcessType, RequestType DEF Next

\* Type correctness: the lock's queue is of requests, at most 202, 404, 500 and 503
\* are answered, and the bounds hold.
THEOREM Typed == Spec => []TypeOK
  BY InitType, NextType, PTL DEF Spec

-----------------------------------------------------------------------------
(* The lock.                                                               *)

\* The request that takes a step, and what the others see of it.
LEMMA OthersKeep ==
  ASSUME TypeOK, NEW r \in Request, Check(r) \/ Proceed(r) \/ Failure(r),
         NEW s \in Request, s # r
  PROVE  /\ at'[s] = at[s] /\ status'[s] = status[s] /\ delivered'[s] = delivered[s]
         /\ ackLost'[s] = ackLost[s] /\ smooth'[s] \in {smooth[s], FALSE}
         /\ serving' = serving /\ qos' = qos /\ started' = started
  <1> DEFINE Same == at'[s] = at[s] /\ status'[s] = status[s]
  <1>1. ASSUME NEW code, Answer(r, code) PROVE Same  BY <1>1 DEF Answer, TypeOK
  <1>2. ASSUME NEW stage, MoveTo(r, stage) PROVE Same  BY <1>2 DEF MoveTo, TypeOK
  <1>3. ASSUME AfterFailure(r) PROVE Same  BY <1>1, <1>2, <1>3 DEF AfterFailure
  <1>4. [delivered EXCEPT ![r] = @ + 1][s] = delivered[s]  BY DEF TypeOK
  <1>5. Disturbed[s] = FALSE  BY DEF Disturbed
  <1>6. CASE Check(r)
    <2>1. Same  BY <1>1, <1>6 DEF Check, TypeOK
    <2> QED BY <1>6, <2>1 DEF Check, history
  <1> HIDE DEF Same
  <1>7. CASE CheckFault(r)
    <2>1. Same  BY <1>1, <1>7 DEF CheckFault
    <2> QED BY <1>7, <2>1 DEF CheckFault, history, Same
  <1>8. CASE Enter(r)
    <2>1. Same  BY <1>1, <1>2, <1>8 DEF Enter
    <2> QED BY <1>8, <2>1 DEF Enter, Same, TypeOK
  <1>9. CASE Published(r)
    <2>1. Same  BY <1>1, <1>9 DEF Published
    <2> QED BY <1>4, <1>9, <2>1 DEF Published, history, Same
  <1>10. CASE NotConnected(r)
    <2>1. Same  BY <1>3, <1>10 DEF NotConnected
    <2> QED BY <1>10, <2>1 DEF NotConnected, history, Same
  <1>11. CASE LostAck(r)
    <2>1. Same  BY <1>3, <1>11 DEF LostAck
    <2>2. ackLost'[s] = ackLost[s]  BY <1>11 DEF LostAck, TypeOK
    <2> QED BY <1>4, <1>5, <1>11, <2>1, <2>2 DEF LostAck, Same
  <1>12. CASE LostQuietly(r)
    <2>1. Same  BY <1>1, <1>12 DEF LostQuietly
    <2> QED BY <1>5, <1>12, <2>1 DEF LostQuietly, Same
  <1>13. CASE ReconnectExit(r)
    <2>1. Same  BY <1>2, <1>13 DEF ReconnectExit
    <2> QED BY <1>13, <2>1 DEF ReconnectExit, history, Same
  <1>14. CASE ReconnectEnter(r)
    <2>1. Same  BY <1>1, <1>2, <1>14 DEF ReconnectEnter, AfterReconnect
    <2> QED BY <1>14, <2>1 DEF ReconnectEnter, history, Same
  <1> QED BY <1>6, <1>7, <1>8, <1>9, <1>10, <1>11, <1>12, <1>13, <1>14
      DEF Proceed, Failure

\* What a request's own step does to the lock's queue.
LeavesLine(r) ==
  /\ at[r] = "new" \/ Holds(r)
  /\ at'[r] = "done" /\ queue' = Released(r)
JoinsLine(r) ==
  /\ at[r] = "new"
  /\ at'[r] = "wait" /\ queue' = Append(queue, r)
StaysInLine(r) ==
  /\ Holds(r)
  /\ at'[r] \in Locked /\ queue' = queue

LEMMA QueueMoves ==
  ASSUME TypeOK, HolderFirst, NEW r \in Request, Check(r) \/ Proceed(r) \/ Failure(r)
  PROVE  LeavesLine(r) \/ JoinsLine(r) \/ StaysInLine(r)
  <1> USE DEF HolderFirst
  <1>1. ASSUME NEW code, Answer(r, code), at[r] \in Locked \cup {"new"} \/ Holds(r)
        PROVE  LeavesLine(r)
    BY <1>1 DEF Answer, TypeOK, LeavesLine
  <1>2. ASSUME NEW stage \in Locked, MoveTo(r, stage), at[r] \in Locked \/ Holds(r)
        PROVE  StaysInLine(r)
    BY <1>2 DEF MoveTo, TypeOK, StaysInLine
  <1>3. ASSUME AfterFailure(r), at[r] \in Locked PROVE LeavesLine(r) \/ StaysInLine(r)
    BY <1>1, <1>2, <1>3 DEF AfterFailure, Locked
  <1>4. CASE Check(r)
    <2>1. CASE Answer(r, 404)  BY <1>1, <1>4, <2>1 DEF Check
    <2>2. CASE /\ at' = [at EXCEPT ![r] = "wait"]
               /\ queue' = Queued(r)
      BY <1>4, <2>2 DEF Check, TypeOK, Queued, JoinsLine
    <2> QED BY <1>4, <2>1, <2>2 DEF Check
  <1>5. CASE CheckFault(r)  BY <1>1, <1>5 DEF CheckFault
  <1>6. CASE Enter(r)  BY <1>1, <1>2, <1>6 DEF Enter, Locked
  <1>7. CASE Published(r) \/ LostQuietly(r)
    BY <1>1, <1>7 DEF Published, LostQuietly, Locked
  <1>8. CASE NotConnected(r) \/ LostAck(r)
    BY <1>3, <1>8 DEF NotConnected, LostAck, Locked
  <1>9. CASE ReconnectExit(r)  BY <1>2, <1>9 DEF ReconnectExit, Locked
  <1>10. CASE ReconnectEnter(r)
    BY <1>1, <1>2, <1>10 DEF ReconnectEnter, AfterReconnect, Locked
  <1> QED BY <1>4, <1>5, <1>6, <1>7, <1>8, <1>9, <1>10 DEF Proceed, Failure

LEMMA LockInit == Init => HolderFirst /\ FlightServed
  BY DEF Init, HolderFirst, FlightServed, Locked

LEMMA LockStep ==
  ASSUME TypeOK, HolderFirst, FlightServed, [Next]_vars
  PROVE  HolderFirst' /\ FlightServed'
  <1> USE DEF HolderFirst, FlightServed
  <1>1. CASE UNCHANGED vars
    BY <1>1 DEF vars, process, request, Holds
  <1>2. CASE Startup \/ BrokerDown \/ BrokerUp \/ Drop
    BY <1>2 DEF Startup, BrokerDown, BrokerUp, Drop, process, request, Holds, Locked
  <1>3. CASE Shutdown
    BY <1>3 DEF Shutdown, ProcessEnds, request, Holds, Locked
  <1>4. CASE Kill
    <2>1. \A r \in Request : at'[r] \in {"new", "done"}  BY <1>4 DEF Kill, TypeOK
    <2> QED BY <2>1 DEF Locked
  <1>5. ASSUME NEW r \in Request, Check(r) \/ Proceed(r) \/ Failure(r)
        PROVE  HolderFirst' /\ FlightServed'
    <2> SUFFICES ASSUME NEW s \in Request
                 PROVE  /\ at'[s] \in Locked => Holds(s)'
                        /\ at'[s] \notin {"new", "done"} => serving'
      OBVIOUS
    <2>1. LeavesLine(r) \/ JoinsLine(r) \/ StaysInLine(r)  BY <1>5, QueueMoves
    <2>2. at'[r] \notin {"new", "done"} => serving'
      BY <1>5 DEF Check, Proceed, Failure, CheckFault, LostAck, LostQuietly, Enter,
         Published, NotConnected, ReconnectExit, ReconnectEnter, Answer, MoveTo,
         AfterFailure, TypeOK
    <2>3. CASE s = r
      BY <2>1, <2>2, <2>3 DEF Locked, Holds, LeavesLine, JoinsLine, StaysInLine
    <2>4. CASE s # r
      <3>1. at'[s] = at[s] /\ serving' = serving  BY <1>5, <2>4, OthersKeep
      <3>2. at[s] \in Locked => Holds(s) /\ ~Holds(r)  BY <2>4 DEF Holds
      <3>3. at[s] \in Locked /\ LeavesLine(r) => Holds(s)'
        BY <3>2, ReleasedQueue DEF TypeOK, Holds, LeavesLine
      <3>4. at[s] \in Locked /\ JoinsLine(r) => Holds(s)'
        <4> SUFFICES ASSUME at[s] \in Locked, JoinsLine(r) PROVE Holds(s)'  OBVIOUS
        <4>1. queue \in Seq(Request) /\ queue # << >> /\ Head(queue) = s
          BY <3>2 DEF TypeOK, Holds
        <4> QED BY <4>1, AppendedHead DEF Holds, JoinsLine
      <3>5. at[s] \in Locked /\ StaysInLine(r) => Holds(s)'  BY <3>2 DEF StaysInLine
      <3> QED BY <2>1, <3>1, <3>3, <3>4, <3>5
    <2> QED BY <2>3, <2>4
  <1> QED BY <1>1, <1>2, <1>3, <1>4, <1>5 DEF Next

\* Only newcomers join, at the end, and whoever is answered leaves from the front.
LEMMA LineStep ==
  ASSUME TypeOK, HolderFirst, LineInFlight, [Next]_vars
  PROVE  LineInFlight'
  <1> USE DEF LineInFlight
  <1>0. queue \in Seq(Request) /\ \A i \in 1..Len(queue) : queue[i] \in Request
    BY DEF TypeOK
  <1>1. ASSUME UNCHANGED <<queue, at>> PROVE LineInFlight'
    BY <1>1 DEF InFlight
  <1>2. CASE Startup \/ Shutdown \/ BrokerDown \/ BrokerUp \/ Drop \/ UNCHANGED vars
    BY <1>1, <1>2
    DEF Startup, Shutdown, BrokerDown, BrokerUp, Drop, vars, process, request
  <1>3. CASE Kill
    BY <1>3 DEF Kill
  <1>4. ASSUME NEW r \in Request, Check(r) \/ Proceed(r) \/ Failure(r) PROVE LineInFlight'
    <2>0. \A s \in Request : s # r => at'[s] = at[s]  BY <1>4, OthersKeep
    <2>1. CASE StaysInLine(r)
      <3>1. \A i \in 1..Len(queue) : InFlight(queue[i])'
        BY <1>0, <2>0, <2>1 DEF StaysInLine, InFlight, Locked
      <3> QED BY <2>1, <3>1 DEF StaysInLine, InFlight
    <2>2. CASE JoinsLine(r)
      <3>1. /\ Len(queue') = Len(queue) + 1 /\ queue'[Len(queue) + 1] = r
            /\ \A i \in 1..Len(queue) : queue'[i] = queue[i]
        BY <1>0, <2>2 DEF JoinsLine
      <3>2. \A i \in 1..Len(queue) : queue[i] # r  BY <2>2 DEF JoinsLine, InFlight
      <3>3. Len(queue) \in Nat  BY <1>0
      <3> QED BY <1>0, <2>0, <2>2, <3>1, <3>2, <3>3 DEF JoinsLine, InFlight
    <2>3. CASE LeavesLine(r) /\ ~Holds(r)
      <3>1. queue' = queue /\ at[r] = "new"  BY <2>3 DEF LeavesLine, Released
      <3>2. \A i \in 1..Len(queue) : queue[i] # r  BY <3>1 DEF InFlight
      <3> QED BY <1>0, <2>0, <3>1, <3>2 DEF InFlight
    <2>4. CASE LeavesLine(r) /\ Holds(r)
      <3>1. queue # << >> /\ queue[1] = r /\ queue' = Tail(queue)
        BY <1>0, <2>4 DEF LeavesLine, Released, Holds
      <3>2. /\ Len(queue) \in Nat \ {0} /\ Len(queue') = Len(queue) - 1
            /\ \A i \in 1..Len(queue') : queue'[i] = queue[i + 1]
        BY <1>0, <3>1
      <3>3. \A i \in 1..Len(queue') : queue[i + 1] # r  BY <3>1, <3>2
      <3> QED BY <1>0, <2>0, <3>2, <3>3 DEF InFlight
    <2> QED BY <1>4, <2>1, <2>2, <2>3, <2>4, QueueMoves
  <1> QED BY <1>2, <1>3, <1>4 DEF Next

\* Nobody is forgotten: who joins is appended, who is dropped is through.
LEMMA FlightStep ==
  ASSUME TypeOK, HolderFirst, LineInFlight, FlightInLine, [Next]_vars
  PROVE  FlightInLine'
  <1> SUFFICES ASSUME NEW s \in Request, InFlight(s)'
               PROVE  \E i \in 1..Len(queue') : queue'[i] = s
    BY DEF FlightInLine
  <1>0. queue \in Seq(Request) /\ Len(queue) \in Nat  BY DEF TypeOK
  <1>1. ASSUME UNCHANGED queue, InFlight(s) PROVE \E i \in 1..Len(queue') : queue'[i] = s
    BY <1>1 DEF FlightInLine
  <1>2. CASE Startup \/ Shutdown \/ BrokerDown \/ BrokerUp \/ Drop \/ UNCHANGED vars
    BY <1>1, <1>2
    DEF Startup, Shutdown, BrokerDown, BrokerUp, Drop, vars, process, request, InFlight
  <1>3. CASE Kill
    BY <1>3 DEF Kill, InFlight, TypeOK
  <1>4. ASSUME NEW r \in Request, Check(r) \/ Proceed(r) \/ Failure(r)
        PROVE  \E i \in 1..Len(queue') : queue'[i] = s
    <2>0. s # r => InFlight(s)  BY <1>4, OthersKeep DEF InFlight
    <2>1. CASE StaysInLine(r)
      <3>1. queue # << >> /\ queue[1] = r  BY <1>0, <2>1 DEF StaysInLine, Holds
      <3>2. 1 \in 1..Len(queue)  BY <1>0, <3>1
      <3>3. queue' = queue  BY <2>1 DEF StaysInLine
      <3> QED BY <2>0, <3>1, <3>2, <3>3 DEF FlightInLine
    <2>2. CASE JoinsLine(r)
      <3>1. /\ Len(queue') = Len(queue) + 1 /\ queue'[Len(queue) + 1] = r
            /\ \A i \in 1..Len(queue) : queue'[i] = queue[i]
        BY <1>0, <2>2 DEF JoinsLine
      <3>2. CASE s = r  BY <1>0, <3>1, <3>2
      <3>3. CASE s # r
        <4>1. PICK i \in 1..Len(queue) : queue[i] = s  BY <2>0, <3>3 DEF FlightInLine
        <4> QED BY <1>0, <3>1, <4>1
      <3> QED BY <3>2, <3>3
    <2>3. CASE LeavesLine(r)
      <3>1. s # r /\ InFlight(s)  BY <2>0, <2>3 DEF LeavesLine, InFlight
      <3>2. PICK i \in 1..Len(queue) : queue[i] = s  BY <3>1 DEF FlightInLine
      <3>3. CASE ~Holds(r)
        BY <2>3, <3>2, <3>3 DEF LeavesLine, Released
      <3>4. CASE Holds(r)
        <4>1. queue # << >> /\ queue[1] = r /\ queue' = Tail(queue)
          BY <1>0, <2>3, <3>4 DEF LeavesLine, Released, Holds
        <4>2. /\ Len(queue) \in Nat \ {0} /\ Len(queue') = Len(queue) - 1
              /\ \A j \in 1..Len(queue') : queue'[j] = queue[j + 1]
          BY <1>0, <4>1
        <4>3. i # 1  BY <3>1, <3>2, <4>1
        <4>4. i - 1 \in 1..Len(queue') /\ queue'[i - 1] = queue[(i - 1) + 1]
          BY <4>2, <4>3
        <4>5. (i - 1) + 1 = i  OBVIOUS
        <4> QED BY <3>2, <4>4, <4>5
      <3> QED BY <3>3, <3>4
    <2> QED BY <1>4, <2>1, <2>2, <2>3, QueueMoves
  <1> QED BY <1>2, <1>3, <1>4 DEF Next

LEMMA LockInductive == Spec => [](TypeOK /\ HolderFirst /\ FlightServed)
  <1>1. Init => TypeOK /\ HolderFirst /\ FlightServed  BY InitType, LockInit
  <1>2. TypeOK /\ HolderFirst /\ FlightServed /\ [Next]_vars
          => (TypeOK /\ HolderFirst /\ FlightServed)'
    BY NextType, LockStep
  <1> QED BY <1>1, <1>2, PTL DEF Spec

\* Nobody uses the client while another request replaces it: both would be first in
\* the lock's queue.
THEOREM LockExcludes == Spec => []OneInClient
  <1>1. HolderFirst => OneInClient  BY DEF HolderFirst, OneInClient, Holds
  <1> QED BY <1>1, LockInductive, PTL

-----------------------------------------------------------------------------
(* The copies of a command.                                                *)

LEMMA HonestInit == Init => Honest
  <1> SUFFICES ASSUME Init, NEW r \in Request PROVE HonestFor(r)  BY DEF Honest
  <1>1. at[r] = "new" /\ status[r] = 0 /\ delivered[r] = 0  BY DEF Init
  <1> QED BY <1>1 DEF HonestFor

\* One request's own step keeps it honest.
LEMMA OwnStepHonest ==
  ASSUME TypeOK, NEW r \in Request, HonestFor(r), Check(r) \/ Proceed(r) \/ Failure(r)
  PROVE  HonestFor(r)'
  <1> USE DEF HonestFor
  <1>0. delivered[r] \in Nat /\ qos[r] \in {0, 1} /\ status[r] \in Status
    BY DEF TypeOK
  <1>1. ASSUME NEW code, Answer(r, code) PROVE at'[r] = "done" /\ status'[r] = code
    BY <1>1 DEF Answer, TypeOK
  <1>2. ASSUME NEW stage, MoveTo(r, stage) PROVE at'[r] = stage /\ status'[r] = status[r]
    BY <1>2 DEF MoveTo, TypeOK
  <1>3. ASSUME AfterFailure(r)
        PROVE  \/ /\ at[r] = "publish"
                  /\ at'[r] = "exit"
                  /\ status'[r] = status[r]
               \/ /\ at[r] # "publish"
                  /\ at'[r] = "done"
                  /\ status'[r] = 500
    BY <1>1, <1>2, <1>3 DEF AfterFailure
  <1>4. [delivered EXCEPT ![r] = @ + 1][r] = delivered[r] + 1  BY DEF TypeOK
  <1>5. CASE Check(r)
    <2>1. \/ at'[r] = "done" /\ status'[r] = 404
          \/ at'[r] = "wait" /\ status'[r] = status[r]
      <3>1. [at EXCEPT ![r] = "wait"][r] = "wait"  BY DEF TypeOK
      <3>2. CASE Answer(r, 404)  BY <1>1, <3>2
      <3>3. CASE at' = [at EXCEPT ![r] = "wait"] /\ status' = status  BY <3>1, <3>3
      <3> QED BY <1>5, <3>2, <3>3 DEF Check
    <2> QED BY <1>0, <1>5, <2>1 DEF Check, history
  <1>6. CASE CheckFault(r)
    <2>1. at'[r] = "done" /\ status'[r] = 500  BY <1>1, <1>6 DEF CheckFault
    <2> QED BY <1>0, <1>6, <2>1 DEF CheckFault, history
  <1>7. CASE Enter(r)
    <2>1. \/ at'[r] = "done" /\ status'[r] = 503
          \/ at'[r] = "publish" /\ status'[r] = status[r]
      BY <1>1, <1>2, <1>7 DEF Enter
    <2> QED BY <1>0, <1>7, <2>1 DEF Enter
  <1>8. CASE Published(r)
    <2>1. at'[r] = "done" /\ status'[r] = 202  BY <1>1, <1>8 DEF Published
    <2>2. delivered'[r] = delivered[r] + 1  BY <1>4, <1>8 DEF Published
    <2> QED BY <1>0, <1>8, <2>1, <2>2 DEF Published, history
  <1>9. CASE NotConnected(r)
    <2> QED BY <1>0, <1>3, <1>9 DEF NotConnected, history
  <1>10. CASE LostAck(r)
    <2>1. delivered'[r] = delivered[r] + 1  BY <1>4, <1>10 DEF LostAck
    <2>2. ackLost'[r] = TRUE  BY <1>10 DEF LostAck, TypeOK
    <2> QED BY <1>0, <1>3, <1>10, <2>1, <2>2 DEF LostAck
  <1>11. CASE LostQuietly(r)
    <2>1. at'[r] = "done" /\ status'[r] = 202  BY <1>1, <1>11 DEF LostQuietly
    <2> QED BY <1>0, <1>11, <2>1 DEF LostQuietly
  <1>12. CASE ReconnectExit(r)
    <2>1. at'[r] = "enter" /\ status'[r] = status[r]  BY <1>2, <1>12 DEF ReconnectExit
    <2> QED BY <1>0, <1>12, <2>1 DEF ReconnectExit, history
  <1>13. CASE ReconnectEnter(r)
    <2>1. \/ at'[r] = "retry" /\ status'[r] = status[r]
          \/ at'[r] = "done" /\ status'[r] = 500
      BY <1>1, <1>2, <1>13 DEF ReconnectEnter, AfterReconnect
    <2> QED BY <1>0, <1>13, <2>1 DEF ReconnectEnter, history
  <1> QED BY <1>5, <1>6, <1>7, <1>8, <1>9, <1>10, <1>11, <1>12, <1>13
      DEF Proceed, Failure

LEMMA HonestStep == TypeOK /\ Honest /\ [Next]_vars => Honest'
  <1> SUFFICES ASSUME TypeOK, Honest, [Next]_vars, NEW s \in Request
               PROVE  HonestFor(s)'
    BY DEF Honest
  <1>0. HonestFor(s)  BY DEF Honest
  <1>1. CASE UNCHANGED vars
    BY <1>0, <1>1 DEF vars, request, history, HonestFor
  <1>2. CASE Startup \/ BrokerDown \/ BrokerUp \/ Drop \/ Shutdown
    BY <1>0, <1>2
    DEF Startup, BrokerDown, BrokerUp, Drop, Shutdown, request, history, HonestFor
  <1>3. CASE Kill
    <2>1. at'[s] = IF at[s] = "new" THEN "new" ELSE "done"  BY <1>3 DEF Kill, TypeOK
    <2>2. delivered[s] \in Nat  BY DEF TypeOK
    <2> QED BY <1>0, <1>3, <2>1, <2>2 DEF Kill, HonestFor
  <1>4. ASSUME NEW r \in Request, Check(r) \/ Proceed(r) \/ Failure(r)
        PROVE  HonestFor(s)'
    <2>1. HonestFor(r)'  BY <1>4, OwnStepHonest DEF Honest
    <2>2. CASE s # r
      <3>1. /\ at'[s] = at[s] /\ status'[s] = status[s] /\ delivered'[s] = delivered[s]
            /\ ackLost'[s] = ackLost[s] /\ qos' = qos
        BY <1>4, <2>2, OthersKeep
      <3> QED BY <1>0, <3>1 DEF HonestFor
    <2> QED BY <2>1, <2>2
  <1> QED BY <1>1, <1>2, <1>3, <1>4 DEF Next

LEMMA HonestInductive == Spec => []Honest
  <1>1. TypeOK /\ Honest /\ [Next]_vars => Honest'  BY HonestStep
  <1> QED BY <1>1, HonestInit, Typed, PTL DEF Spec

\* A 202 for QoS 1 or 2 is an acknowledged command; one refused with 404 or 503 may be
\* sent again: no copy of it went out (commands.py:36-41).
THEOREM AnswersHold == Spec => []AnswersAreTrue
  <1>1. Honest => AnswersAreTrue  BY DEF Honest, HonestFor, AnswersAreTrue
  <1> QED BY <1>1, HonestInductive, PTL

\* The device hears a command at most twice, and twice only when the first
\* acknowledgement was lost.
THEOREM RetriedOnce == Spec => []AtMostOneRetry
  <1>1. Honest => AtMostOneRetry  BY DEF Honest, HonestFor, AtMostOneRetry
  <1> QED BY <1>1, HonestInductive, PTL

-----------------------------------------------------------------------------
(* Recovery.                                                               *)

LEMMA SmoothInit == Init => StartedConnected /\ Smooth
  BY DEF Init, StartedConnected, Smooth, SmoothFor

\* The lifespan and the broker: they forget the good start, or the undisturbed.
LEMMA SmoothProcess ==
  ASSUME IInv,
         \/ Startup \/ Shutdown \/ Kill
         \/ BrokerDown \/ BrokerUp \/ Drop
  PROVE  StartedConnected' /\ Smooth'
  <1> USE DEF StartedConnected, process, request, history
  <1>0. /\ TypeOK /\ FlightServed /\ StartedConnected
        /\ \A r \in Request : SmoothFor(r) /\ HonestFor(r)
    BY DEF IInv, Smooth, Honest
  <1>c. StartedConnected'
    <2>1. \/ connected' = connected /\ started' = started
          \/ started' = connected'
          \/ started' = FALSE
      BY DEF Startup, Shutdown, Kill, ProcessEnds, BrokerDown, BrokerUp, Drop
    <2>2. CASE connected' = connected /\ started' = started  BY <1>0, <2>2
    <2>3. CASE started' = connected'  BY <2>3
    <2>4. CASE started' = FALSE  BY <2>4
    <2> QED BY <2>1, <2>2, <2>3, <2>4
  <1> SUFFICES ASSUME NEW r \in Request PROVE SmoothFor(r)'
    BY <1>c DEF Smooth
  <1>d. Disturbed[r] = FALSE  BY DEF Disturbed
  <1>1. CASE Startup
    <2>1. at[r] \in {"new", "done"}  BY <1>0, <1>1 DEF Startup, FlightServed
    <2> QED BY <1>0, <1>1, <2>1 DEF Startup, SmoothFor, Locked
  <1>2. CASE Shutdown
    BY <1>0, <1>2 DEF Shutdown, ProcessEnds, SmoothFor, Locked
  <1>3. CASE Kill
    <2>1. at'[r] = IF at[r] = "new" THEN "new" ELSE "done"
      BY <1>0, <1>3 DEF Kill, TypeOK
    <2>2. smooth[r] => at[r] # "new"  BY <1>0 DEF SmoothFor, Locked
    <2> QED BY <1>0, <1>3, <2>1, <2>2 DEF Kill, ProcessEnds, SmoothFor, Locked
  <1>4. CASE BrokerDown \/ Drop
    BY <1>0, <1>4, <1>d DEF BrokerDown, Drop, SmoothFor
  <1>5. CASE BrokerUp
    BY <1>0, <1>5 DEF BrokerUp, SmoothFor
  <1> QED BY <1>1, <1>2, <1>3, <1>4, <1>5

\* A request's own step, from taking the lock to its answer.
LEMMA OwnStepSmooth ==
  ASSUME IInv, NEW r \in Request, Check(r) \/ Proceed(r) \/ Failure(r)
  PROVE  SmoothFor(r)'
  <1> USE DEF SmoothFor
  <1>0. /\ TypeOK /\ StartedConnected /\ SmoothFor(r) /\ HonestFor(r)
        /\ smooth[r] \in BOOLEAN
    BY DEF IInv, Smooth, Honest, TypeOK
  <1>s. at[r] # "done" => status[r] = 0  BY <1>0 DEF HonestFor, TypeOK, Status
  <1>d. Disturbed[r] = FALSE  BY DEF Disturbed
  <1>1. ASSUME NEW code, Answer(r, code) PROVE at'[r] = "done" /\ status'[r] = code
    BY <1>0, <1>1 DEF Answer, TypeOK
  <1>2. ASSUME NEW stage, MoveTo(r, stage) PROVE at'[r] = stage /\ status'[r] = status[r]
    BY <1>0, <1>2 DEF MoveTo, TypeOK
  <1>3. CASE Check(r) \/ CheckFault(r)
    <2>1. smooth'[r] = FALSE
      BY <1>0, <1>3 DEF Check, CheckFault, history, Locked
    <2> QED BY <2>1
  <1>4. CASE Enter(r)
    <2>1. smooth'[r] = (broker /\ started)  BY <1>0, <1>4 DEF Enter, TypeOK
    <2>2. \/ ~connected /\ at'[r] = "done"
          \/ at'[r] = "publish" /\ status'[r] = status[r]
      BY <1>1, <1>2, <1>4 DEF Enter
    <2>3. broker' = broker /\ started' = started /\ at[r] = "wait"  BY <1>4 DEF Enter
    <2> QED BY <1>0, <1>s, <2>1, <2>2, <2>3 DEF StartedConnected, Locked
  <1>5. CASE Published(r)
    <2>1. at'[r] = "done" /\ status'[r] = 202  BY <1>1, <1>5 DEF Published
    <2> QED BY <2>1 DEF Locked
  <1>6. CASE NotConnected(r)
    <2>1. CASE at[r] = "publish"
      <3>1. at'[r] = "exit" /\ status'[r] = status[r]
        BY <1>2, <1>6, <2>1 DEF NotConnected, AfterFailure
      <3> QED BY <1>0, <1>6, <2>1, <3>1 DEF NotConnected, Locked, history
    <2>2. CASE at[r] = "retry"
      <3>1. smooth[r] = FALSE  BY <1>0, <1>6, <2>2 DEF NotConnected
      <3> QED BY <1>6, <3>1 DEF NotConnected, history
    <2> QED BY <1>6, <2>1, <2>2 DEF NotConnected
  <1>7. CASE LostAck(r) \/ LostQuietly(r)
    <2>1. smooth'[r] = FALSE  BY <1>7, <1>d DEF LostAck, LostQuietly
    <2> QED BY <2>1
  <1>8. CASE ReconnectExit(r)
    <2>1. at'[r] = "enter" /\ status'[r] = status[r]  BY <1>2, <1>8 DEF ReconnectExit
    <2> QED BY <1>0, <1>8, <2>1 DEF ReconnectExit, Locked, history
  <1>9. CASE ReconnectEnter(r)
    <2>1. CASE broker /\ client' = "live" /\ AfterReconnect(r)
      <3>1. at'[r] = "retry" /\ status'[r] = status[r]
        BY <1>2, <2>1 DEF AfterReconnect
      <3> QED BY <1>0, <1>9, <2>1, <3>1 DEF ReconnectEnter, Locked, history
    <2>2. CASE ~broker
      <3>1. smooth[r] = FALSE  BY <1>0, <1>9, <2>2 DEF ReconnectEnter, Locked
      <3> QED BY <1>9, <3>1 DEF ReconnectEnter, history
    <2> QED BY <1>9, <2>1, <2>2 DEF ReconnectEnter
  <1> QED BY <1>3, <1>4, <1>5, <1>6, <1>7, <1>8, <1>9 DEF Proceed, Failure

\* Only a holder replaces the client, so nobody takes it from another's retry.
LEMMA ClientIsHolders ==
  ASSUME IInv, NEW r \in Request, Check(r) \/ Proceed(r) \/ Failure(r),
         NEW s \in Request, s # r, at[s] \in Locked
  PROVE  client' = client /\ connected' = connected
  <1>1. at[r] \notin Locked /\ ~Holds(r)  BY DEF IInv, HolderFirst, Holds
  <1> QED BY <1>1 DEF Check, Proceed, Failure, CheckFault, LostAck, LostQuietly, Enter,
         Published, NotConnected, ReconnectExit, ReconnectEnter, Locked

LEMMA SmoothStep == IInv /\ [Next]_vars => StartedConnected' /\ Smooth'
  <1> SUFFICES ASSUME IInv, [Next]_vars PROVE StartedConnected' /\ Smooth'  OBVIOUS
  <1>0. /\ TypeOK /\ StartedConnected
        /\ \A s \in Request : SmoothFor(s)
    BY DEF IInv, Smooth
  <1>1. CASE UNCHANGED vars
    BY <1>0, <1>1
    DEF vars, process, request, history, StartedConnected, Smooth, SmoothFor
  <1>2. ASSUME NEW r \in Request, Check(r) \/ Proceed(r) \/ Failure(r)
        PROVE  StartedConnected' /\ Smooth'
    <2>1. StartedConnected'
      BY <1>0, <1>2 DEF StartedConnected, Check, Proceed, Failure, CheckFault, LostAck,
         LostQuietly, Enter, Published, NotConnected, ReconnectExit, ReconnectEnter,
         ConnectedAfterFailedStart, history
    <2>2. ASSUME NEW s \in Request, s # r PROVE SmoothFor(s)'
      <3>1. /\ at'[s] = at[s] /\ status'[s] = status[s] /\ started' = started
            /\ smooth'[s] \in {smooth[s], FALSE}
        BY <1>0, <1>2, <2>2, OthersKeep
      <3>2. broker' = broker
        BY <1>2 DEF Check, Proceed, Failure, CheckFault, LostAck, LostQuietly, Enter,
           Published, NotConnected, ReconnectExit, ReconnectEnter
      <3>3. at[s] \in Locked => client' = client  BY <1>2, <2>2, ClientIsHolders
      <3> QED BY <1>0, <3>1, <3>2, <3>3 DEF SmoothFor, Locked
    <2>3. SmoothFor(r)'  BY <1>2, OwnStepSmooth
    <2> QED BY <2>1, <2>2, <2>3 DEF Smooth
  <1> QED BY <1>1, <1>2, SmoothProcess DEF Next

THEOREM Inductive == Spec => []IInv
  <1>1. Init => IInv
    <2>1. Init => LineInFlight /\ FlightInLine
      BY DEF Init, LineInFlight, FlightInLine, InFlight
    <2> QED BY <2>1, InitType, LockInit, HonestInit, SmoothInit DEF IInv
  <1>2. IInv /\ [Next]_vars => IInv'
    <2> SUFFICES ASSUME IInv, [Next]_vars PROVE IInv'  OBVIOUS
    <2>1. TypeOK'  BY NextType DEF IInv
    <2>2. HolderFirst' /\ FlightServed'  BY LockStep DEF IInv
    <2>3. Honest' /\ LineInFlight' /\ FlightInLine'
      BY HonestStep, LineStep, FlightStep DEF IInv
    <2>4. StartedConnected' /\ Smooth'  BY SmoothStep
    <2> QED BY <2>1, <2>2, <2>3, <2>4 DEF IInv
  <1> QED BY <1>1, <1>2, PTL DEF Spec

\* A process that started with a broker answers 202 to every command it handles while
\* the broker is up and the network holds, whatever reconnects failed before.
THEOREM Recovers == Spec => []RecoversByItself
  <1>1. Smooth => RecoversByItself  BY DEF Smooth, SmoothFor, RecoversByItself
  <1>2. IInv => Smooth  BY DEF IInv
  <1> QED BY <1>1, <1>2, Inductive, PTL

\* asyncio.Lock: the lock is held only by a command at work, and whoever waits is in line
\* for it.
LockPassedOn ==
  /\ queue # << >> => InFlight(Head(queue))
  /\ \A r \in Request : InFlight(r) => \E i \in 1..Len(queue) : queue[i] = r

\* However a command leaves publish, by an answer, an exception or a failed reconnect,
\* the lock goes on to the next in line: whoever waits, waits for a command at work.
THEOREM LockIsPassedOn == Spec => []LockPassedOn
  <1>1. IInv => LockPassedOn
    <2> SUFFICES ASSUME IInv PROVE LockPassedOn  OBVIOUS
    <2>1. queue \in Seq(Request) /\ LineInFlight /\ FlightInLine  BY DEF IInv, TypeOK
    <2>2. queue # << >> => Head(queue) = queue[1] /\ 1 \in 1..Len(queue)  BY <2>1
    <2> QED BY <2>1, <2>2 DEF LineInFlight, FlightInLine, LockPassedOn
  <1> QED BY <1>1, Inductive, PTL

-----------------------------------------------------------------------------
(* What `CommandsAnswered` rests on but fairness: nobody is overtaken, and the one *)
(* at work comes nearer to its end by each of its steps.                   *)

\* Steps of its own that a command has before it at most.
Remaining(r) ==
  CASE at[r] = "new" -> 6 [] at[r] = "wait" -> 5 [] at[r] = "publish" -> 4
    [] at[r] = "exit" -> 3 [] at[r] = "enter" -> 2 [] at[r] = "retry" -> 1
    [] OTHER -> 0

\* A step gives nobody a later place in the line, nor more steps to take, and the one
\* that takes it, if a command does, has fewer.
Advances ==
  /\ \A i \in 1..Len(queue), j \in 1..Len(queue') :
       queue'[j] = queue[i] => j \in {i, i - 1}
  /\ \A r \in Request : Remaining(r)' <= Remaining(r)
  /\ \A r \in Request : Proceed(r) => Remaining(r)' < Remaining(r)

LEMMA OwnStepAdvances ==
  ASSUME TypeOK, NEW r \in Request, Check(r) \/ Proceed(r) \/ Failure(r)
  PROVE  Remaining(r)' < Remaining(r)
  <1>1. ASSUME NEW code, Answer(r, code) PROVE at'[r] = "done"
    BY <1>1 DEF Answer, TypeOK
  <1>2. ASSUME NEW stage, MoveTo(r, stage) PROVE at'[r] = stage
    BY <1>2 DEF MoveTo, TypeOK
  <1>3. ASSUME AfterFailure(r)
        PROVE  \/ at[r] = "publish" /\ at'[r] = "exit"
               \/ at[r] # "publish" /\ at'[r] = "done"
    BY <1>1, <1>2, <1>3 DEF AfterFailure
  <1> USE DEF Remaining
  <1>4. CASE Check(r)
    <2>1. [at EXCEPT ![r] = "wait"][r] = "wait"  BY DEF TypeOK
    <2>2. at[r] = "new" /\ at'[r] \in {"done", "wait"}  BY <1>1, <1>4, <2>1 DEF Check
    <2> QED BY <2>2
  <1>5. CASE CheckFault(r)  BY <1>1, <1>5 DEF CheckFault
  <1>6. CASE Enter(r)  BY <1>1, <1>2, <1>6 DEF Enter
  <1>7. CASE Published(r) \/ LostQuietly(r)
    <2>1. at[r] \in {"publish", "retry"} /\ at'[r] = "done"
      BY <1>1, <1>7 DEF Published, LostQuietly
    <2> QED BY <2>1
  <1>8. CASE NotConnected(r) \/ LostAck(r)
    <2>1. at[r] \in {"publish", "retry"} /\ AfterFailure(r)
      BY <1>8 DEF NotConnected, LostAck
    <2> QED BY <1>3, <2>1
  <1>9. CASE ReconnectExit(r)  BY <1>2, <1>9 DEF ReconnectExit
  <1>10. CASE ReconnectEnter(r)
    <2>1. at[r] = "enter" /\ at'[r] \in {"retry", "done"}
      BY <1>1, <1>2, <1>10 DEF ReconnectEnter, AfterReconnect
    <2> QED BY <2>1
  <1> QED BY <1>4, <1>5, <1>6, <1>7, <1>8, <1>9, <1>10 DEF Proceed, Failure

LEMMA StepAdvances == IInv /\ [Next]_vars => [Advances]_vars
  <1> SUFFICES ASSUME IInv, Next PROVE Advances
    <2>1. UNCHANGED vars => [Advances]_vars  OBVIOUS
    <2> QED BY <2>1
  <1>0. TypeOK /\ HolderFirst /\ LineInFlight  BY DEF IInv
  <1>q. queue \in Seq(Request) /\ Len(queue) \in Nat  BY <1>0 DEF TypeOK
  <1>p. ASSUME NEW r \in Request, Proceed(r) PROVE Remaining(r)' < Remaining(r)
    BY <1>0, <1>p, OwnStepAdvances
  <1>n. \A r \in Request : Remaining(r) \in Nat  BY DEF Remaining
  <1>s. ASSUME UNCHANGED queue
        PROVE  \A i \in 1..Len(queue), j \in 1..Len(queue') : queue'[j] = queue[i] => j \in {i, i - 1}
    BY <1>0, <1>s DEF LineInFlight
  <1>1. CASE Startup \/ Shutdown \/ BrokerDown \/ BrokerUp \/ Drop
    <2>1. UNCHANGED <<queue, at>>
      BY <1>1 DEF Startup, Shutdown, BrokerDown, BrokerUp, Drop, process, request
    <2>2. \A r \in Request : Remaining(r)' = Remaining(r)  BY <2>1 DEF Remaining
    <2>3. \A r \in Request : Remaining(r)' <= Remaining(r)  BY <1>n, <2>2
    <2> QED BY <1>p, <1>s, <2>1, <2>3 DEF Advances
  <1>2. CASE Kill
    <2>1. queue' = << >>  BY <1>2 DEF Kill
    <2>2. \A r \in Request : at'[r] = IF at[r] = "new" THEN "new" ELSE "done"
      BY <1>2 DEF Kill
    <2>3. \A r \in Request : Remaining(r)' <= Remaining(r)  BY <2>2 DEF Remaining
    <2> QED BY <1>p, <2>1, <2>3 DEF Advances
  <1>3. ASSUME NEW r \in Request, Check(r) \/ Proceed(r) \/ Failure(r) PROVE Advances
    <2>1. ASSUME NEW s \in Request PROVE Remaining(s)' <= Remaining(s)
      <3>1. CASE s = r
        <4>1. Remaining(r)' < Remaining(r)  BY <1>0, <1>3, OwnStepAdvances
        <4>2. Remaining(r)' \in Nat  BY DEF Remaining
        <4> QED BY <1>n, <3>1, <4>1, <4>2
      <3>2. CASE s # r
        <4>1. at'[s] = at[s]  BY <1>0, <1>3, <3>2, OthersKeep
        <4>2. Remaining(s)' = Remaining(s)  BY <4>1 DEF Remaining
        <4> QED BY <1>n, <4>2
      <3> QED BY <3>1, <3>2
    <2>2. ASSUME NEW i \in 1..Len(queue), NEW j \in 1..Len(queue'), queue'[j] = queue[i]
          PROVE  j \in {i, i - 1}
      <3>1. CASE UNCHANGED queue  BY <1>s, <2>2, <3>1
      <3>2. CASE JoinsLine(r)
        <4>1. /\ Len(queue') = Len(queue) + 1 /\ queue'[Len(queue) + 1] = r
              /\ \A k \in 1..Len(queue) : queue'[k] = queue[k]
          BY <1>q, <3>2 DEF JoinsLine
        <4>2. queue[i] # r  BY <1>0, <3>2 DEF JoinsLine, LineInFlight, InFlight
        <4>3. j \in 1..Len(queue)  BY <1>q, <2>2, <4>1, <4>2
        <4> QED BY <1>0, <2>2, <4>1, <4>3 DEF LineInFlight
      <3>3. CASE queue # << >> /\ queue' = Tail(queue)
        <4>1. /\ Len(queue) \in Nat \ {0} /\ Len(queue') = Len(queue) - 1
              /\ \A k \in 1..Len(queue') : queue'[k] = queue[k + 1]
          BY <1>q, <3>3
        <4>2. j + 1 \in 1..Len(queue) /\ queue[j + 1] = queue[i]  BY <2>2, <4>1
        <4>3. j + 1 = i  BY <1>0, <4>2 DEF LineInFlight
        <4> QED BY <4>1, <4>3
      <3>4. UNCHANGED queue \/ JoinsLine(r) \/ (queue # << >> /\ queue' = Tail(queue))
        BY <1>0, <1>3, QueueMoves DEF LeavesLine, StaysInLine, Released, Holds
      <3> QED BY <3>1, <3>2, <3>3, <3>4
    <2> QED BY <1>p, <2>1, <2>2 DEF Advances
  <1> QED BY <1>1, <1>2, <1>3 DEF Next

\* The lock and the retry starve nobody: no step of anyone moves a waiting command back
\* or gives the one at work more to do, and each step of its own leaves it less.
THEOREM PublishTerminates == Spec => [][Advances]_vars
  <1>1. IInv /\ [Next]_vars => [Advances]_vars  BY StepAdvances
  <1> QED BY <1>1, Inductive, PTL DEF Spec

\* A command that is through is through: nothing more of it is sent, and its answer,
\* or that it has none, stays.
AnswerStays ==
  \A r \in Request : at[r] = "done" =>
    at'[r] = "done" /\ status'[r] = status[r] /\ delivered'[r] = delivered[r]

\* No retry outlives its request: once publish has answered or raised, or its process has
\* died, the broker gets no copy of the command any more (publisher.py:45-54).
THEOREM AnswerIsFinal == Spec => [][AnswerStays]_vars
  <1>1. IInv /\ [Next]_vars => [AnswerStays]_vars
    <2> SUFFICES ASSUME IInv, Next, NEW r \in Request, at[r] = "done"
                 PROVE  /\ at'[r] = "done" /\ status'[r] = status[r]
                        /\ delivered'[r] = delivered[r]
      BY DEF AnswerStays
    <2>1. CASE Startup \/ Shutdown \/ BrokerDown \/ BrokerUp \/ Drop
      BY <2>1 DEF Startup, Shutdown, BrokerDown, BrokerUp, Drop, process, request
    <2>2. CASE Kill  BY <2>2 DEF Kill
    <2>3. ASSUME NEW s \in Request, Check(s) \/ Proceed(s) \/ Failure(s)
          PROVE  /\ at'[r] = "done" /\ status'[r] = status[r]
                 /\ delivered'[r] = delivered[r]
      <3>1. s # r
        BY <2>3 DEF Check, Proceed, Failure, Enter, Published, NotConnected, ReconnectExit,
           ReconnectEnter, CheckFault, LostAck, LostQuietly
      <3>2. TypeOK  BY DEF IInv
      <3> QED BY <2>3, <3>1, <3>2, OthersKeep
    <2> QED BY <2>1, <2>2, <2>3 DEF Next
  <1> QED BY <1>1, Inductive, PTL DEF Spec

-----------------------------------------------------------------------------
(* The publisher implements CommandLedger.                                 *)

\* What the ledger sees of one request that moves.
LEMMA StageMoves ==
  ASSUME TypeOK, NEW r \in Request, NEW s \in Stage, at' = [at EXCEPT ![r] = s]
  PROVE  LedgerStage' = [LedgerStage EXCEPT ![r] = StageOf(s)]
  BY DEF TypeOK, LedgerStage

LEMMA StageNames ==
  /\ StageOf("new") = "new" /\ StageOf("done") = "through" /\ StageOf("wait") = "inside"
  /\ \A s \in Locked : StageOf(s) = "inside"
  BY DEF StageOf, Locked

\* A holder's answer takes it out of the line.
LEMMA AnswerLeaves ==
  ASSUME TypeOK, NEW r \in Request, NEW code, Answer(r, code)
  PROVE  /\ Ledger!Through(r, code)
         /\ Holds(r) => queue' = Tail(queue)
         /\ ~Holds(r) => queue' = queue
  <1>1. "done" \in Stage  BY DEF Stage
  <1>2. at' = [at EXCEPT ![r] = "done"]  BY DEF Answer
  <1>3. LedgerStage' = [LedgerStage EXCEPT ![r] = "through"]
    BY <1>1, <1>2, StageMoves, StageNames
  <1> QED BY <1>3 DEF Answer, Released, Ledger!Through

\* A step from one place inside the line to another.
LEMMA MoveStays ==
  ASSUME TypeOK, NEW r \in Request, at[r] \in Locked \cup {"wait"}, NEW s \in Locked,
         MoveTo(r, s)
  PROVE  UNCHANGED <<LedgerStage, status, queue>>
  <1>1. s \in Stage /\ StageOf(s) = "inside" /\ StageOf(at[r]) = "inside"
    BY StageNames DEF Stage
  <1>2. LedgerStage' = [LedgerStage EXCEPT ![r] = "inside"]
    BY <1>1, StageMoves DEF MoveTo
  <1>3. LedgerStage' = LedgerStage  BY <1>1, <1>2 DEF LedgerStage
  <1> QED BY <1>3 DEF MoveTo

\* The steps of a request that has the lock serve the first of the line.
LEMMA HolderServes ==
  ASSUME IInv, NEW r \in Request, Proceed(r) \/ LostAck(r) \/ LostQuietly(r)
  PROVE  Ledger!Serve(r)
  <1> USE DEF history, request, process
  <1>0. /\ TypeOK /\ HonestFor(r)
        /\ delivered[r] \in Nat /\ qos[r] \in {0, 1}
    BY DEF IInv, Honest, TypeOK
  <1>1. at[r] \in Locked \cup {"wait"} /\ Holds(r)
    BY DEF IInv, HolderFirst, Locked, Proceed, LostAck, LostQuietly, Enter, Published,
       NotConnected, ReconnectExit, ReconnectEnter
  <1>2. queue # << >> /\ r = Head(queue) /\ Assured' = Assured
    BY <1>1 DEF Holds, Assured, Proceed, LostAck, LostQuietly, Enter, Published,
       NotConnected, ReconnectExit, ReconnectEnter
  <1> DEFINE Stays == UNCHANGED <<queue, LedgerStage, status>>
             Goes == \E code \in {202, 500, 503} :
                       /\ Ledger!TrueAnswer(r, code) /\ Ledger!Through(r, code)
                       /\ queue' = Tail(queue)
  <1>3. ASSUME NEW code \in {202, 500, 503}, Answer(r, code), Ledger!TrueAnswer(r, code)
        PROVE  Goes
    BY <1>0, <1>1, <1>3, AnswerLeaves
  <1>4. ASSUME NEW s \in Locked, MoveTo(r, s) PROVE Stays
    BY <1>0, <1>1, <1>4, MoveStays
  <1>5. Ledger!TrueAnswer(r, 500)  BY DEF Ledger!TrueAnswer
  <1>6. ASSUME AfterFailure(r) PROVE Stays \/ Goes
    BY <1>3, <1>4, <1>5, <1>6 DEF AfterFailure, Locked
  <1>7. SUFFICES (Ledger!Sends(r) \/ UNCHANGED delivered) /\ (Stays \/ Goes)
    BY <1>2, <1>7 DEF Ledger!Serve
  <1> HIDE DEF Stays, Goes
  <1>8. [delivered EXCEPT ![r] = @ + 1][r] = delivered[r] + 1  BY DEF TypeOK, IInv
  <1>9. CASE Enter(r)
    <2>1. CASE Answer(r, 503)
      <3>1. delivered' = delivered /\ delivered[r] = 0  BY <1>0, <1>9 DEF Enter, HonestFor
      <3>2. Ledger!TrueAnswer(r, 503)  BY <3>1 DEF Ledger!TrueAnswer
      <3> QED BY <1>3, <2>1, <3>1, <3>2
    <2>2. CASE MoveTo(r, "publish")
      BY <1>4, <1>9, <2>2 DEF Enter, Locked
    <2> QED BY <1>9, <2>1, <2>2 DEF Enter
  <1>10. CASE Published(r)
    <2>1. delivered[r] < 2 /\ Ledger!Sends(r)
      BY <1>0, <1>10 DEF Published, HonestFor, Ledger!Sends
    <2>2. Ledger!TrueAnswer(r, 202)
      BY <1>0, <1>8, <1>10 DEF Published, Ledger!TrueAnswer
    <2> QED BY <1>3, <1>10, <2>1, <2>2 DEF Published
  <1>11. CASE NotConnected(r)
    BY <1>6, <1>11 DEF NotConnected
  <1>12. CASE LostAck(r)
    <2>1. Ledger!Sends(r)  BY <1>0, <1>12 DEF LostAck, HonestFor, Ledger!Sends
    <2> QED BY <1>6, <1>12, <2>1 DEF LostAck
  <1>13. CASE LostQuietly(r)
    <2>1. Ledger!TrueAnswer(r, 202)
      BY <1>13 DEF LostQuietly, Ledger!TrueAnswer, Assured
    <2> QED BY <1>3, <1>13, <2>1 DEF LostQuietly
  <1>14. CASE ReconnectExit(r)
    BY <1>4, <1>14 DEF ReconnectExit, Locked
  <1>15. CASE ReconnectEnter(r)
    BY <1>3, <1>4, <1>5, <1>15 DEF ReconnectEnter, AfterReconnect, Locked
  <1> QED BY <1>9, <1>10, <1>11, <1>12, <1>13, <1>14, <1>15 DEF Proceed

\* A request on its way to the lock is refused, or joins the line at its end.
LEMMA CheckJoins ==
  ASSUME IInv, NEW r \in Request, Check(r) \/ CheckFault(r)
  PROVE  Ledger!Refuse(r) \/ Ledger!Join(r)
  <1> USE DEF history
  <1>0. TypeOK /\ HolderFirst  BY DEF IInv
  <1>1. at[r] = "new" /\ LedgerStage[r] = "new" /\ Assured' = Assured
    BY StageNames DEF Check, CheckFault, LedgerStage, Assured
  <1>2. delivered' = delivered  BY DEF Check, CheckFault
  <1>3. ~Holds(r)
    <2>1. queue \in Seq(Request)  BY <1>0 DEF TypeOK
    <2>2. queue # << >> => Head(queue) = queue[1] /\ 1 \in 1..Len(queue)  BY <2>1
    <2>3. LineInFlight  BY DEF IInv
    <2> QED BY <1>1, <2>2, <2>3 DEF Holds, LineInFlight, InFlight
  <1>4. ASSUME NEW code \in {404, 500}, Answer(r, code) PROVE Ledger!Refuse(r)
    BY <1>0, <1>1, <1>2, <1>3, <1>4, AnswerLeaves DEF Ledger!Refuse
  <1>5. ASSUME at' = [at EXCEPT ![r] = "wait"], queue' = Queued(r), status' = status
        PROVE  Ledger!Join(r)
    <2>1. "wait" \in Stage  BY DEF Stage
    <2>2. LedgerStage' = [LedgerStage EXCEPT ![r] = "inside"]
      BY <1>0, <1>5, <2>1, StageMoves, StageNames
    <2> QED BY <1>1, <1>2, <1>5, <2>2 DEF Ledger!Join, Queued
  <1> QED BY <1>4, <1>5 DEF Check, CheckFault

\* Every step of the publisher is a step of the ledger, or leaves it alone.
LEMMA LedgerStep ==
  IInv /\ [Next]_vars
    => [Ledger!Next]_<<queue, LedgerStage, status, delivered, Assured>>
  <1> SUFFICES ASSUME IInv, [Next]_vars
               PROVE  \/ Ledger!Next
                      \/ UNCHANGED <<queue, LedgerStage, status, delivered, Assured>>
    OBVIOUS
  <1> USE DEF process, request
  <1>1. CASE Startup \/ Shutdown \/ BrokerDown \/ BrokerUp \/ Drop \/ UNCHANGED vars
    <2>1. UNCHANGED <<queue, at, status, delivered, qos>>
      BY <1>1 DEF Startup, Shutdown, BrokerDown, BrokerUp, Drop, vars
    <2> QED BY <2>1 DEF LedgerStage, Assured
  <1>2. CASE Kill
    <2>1. /\ queue' = << >>
          /\ at' = [r \in Request |-> IF at[r] = "new" THEN "new" ELSE "done"]
          /\ UNCHANGED <<status, delivered, qos>>
      BY <1>2 DEF Kill
    <2>2. LedgerStage' = [r \in Request |-> IF LedgerStage[r] = "inside" THEN "through"
                                            ELSE LedgerStage[r]]
      BY <2>1 DEF LedgerStage, StageOf
    <2>3. Ledger!Die  BY <2>1, <2>2 DEF Ledger!Die, Assured
    <2> QED BY <2>3 DEF Ledger!Next
  <1>3. ASSUME NEW r \in Request, Check(r) \/ Proceed(r) \/ Failure(r) PROVE Ledger!Next
    BY <1>3, HolderServes, CheckJoins DEF Failure, Ledger!Next
  <1> QED BY <1>1, <1>2, <1>3 DEF Next

\* One client behind one lock, with its reconnects, lost acknowledgements and deaths,
\* implements the line of commands: no command is sent out of its turn or after its
\* answer, every holder passes the lock on, and no answer is untrue.
THEOREM ImplementsLedger == Spec => KeepsCommandLedger
  <1>1. Init => Ledger!Init
    <2> SUFFICES ASSUME Init PROVE Ledger!Init  OBVIOUS
    <2>1. LedgerStage = [r \in Request |-> "new"]
      BY StageNames DEF Init, LedgerStage
    <2> QED BY <2>1 DEF Init, Ledger!Init, Assured
  <1> QED BY <1>1, LedgerStep, Inductive, PTL DEF Spec, KeepsCommandLedger, Ledger!Spec

=============================================================================
