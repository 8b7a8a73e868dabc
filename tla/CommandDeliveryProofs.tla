------------------------ MODULE CommandDeliveryProofs ------------------------
(***************************************************************************)
(* Theorems about CommandDelivery, for every value of its constants: the   *)
(* types of its variables; that it implements CommandPromise: each command *)
(* is run at most once, in the order of the list of the master, through    *)
(* lost and late calls, restarts of either side and drains; and that the   *)
(* master is right about its commands.                                     *)
(*                                                                         *)
(* The argument is that a command moves through pending, response, queue   *)
(* and work to executed without overtaking another: at any time all that   *)
(* is further on was queued earlier.                                       *)
(***************************************************************************)
EXTENDS CommandDelivery, SequenceTheorems, FiniteSetTheorems, TLAPS

-----------------------------------------------------------------------------
(* Sequences of numbers.                                                   *)

Increasing(s) == \A i, j \in DOMAIN s : i < j => s[i] < s[j]
Before(s, t)  == \A i \in DOMAIN s, j \in DOMAIN t : s[i] < t[j]
Over(c, s)    == \A i \in DOMAIN s : s[i] < c
Under(c, s)   == \A i \in DOMAIN s : c < s[i]

\* A number over all elements can be appended.
LEMMA AppendIncreasing ==
  ASSUME NEW s \in Seq(Nat), Increasing(s), NEW c \in Nat, Over(c, s)
  PROVE  Increasing(Append(s, c))
  BY DEF Increasing, Over

\* What is under a sequence and a number is under the sequence with the number.
LEMMA AppendUnder ==
  ASSUME NEW s \in Seq(Nat), NEW c \in Nat, NEW d \in Nat, Under(d, s), d < c
  PROVE  Under(d, Append(s, c))
  BY DEF Under

\* The same for what is over it.
LEMMA AppendOver ==
  ASSUME NEW s \in Seq(Nat), NEW c \in Nat, NEW d \in Nat, Over(d, s), c < d
  PROVE  Over(d, Append(s, c))
  BY DEF Over

\* A sequence goes before one that is extended by a number over it.
LEMMA AppendBefore ==
  ASSUME NEW s \in Seq(Nat), NEW t \in Seq(Nat), NEW c \in Nat, Before(s, t),
         Over(c, s)
  PROVE  Before(s, Append(t, c))
  BY DEF Before, Over

\* A sequence extended by a number under another goes before the other.
LEMMA AppendAfter ==
  ASSUME NEW s \in Seq(Nat), NEW t \in Seq(Nat), NEW c \in Nat, Before(s, t),
         Under(c, t)
  PROVE  Before(Append(s, c), t)
  BY DEF Before, Under

\* Head and tail, element by element.
LEMMA TailElements ==
  ASSUME NEW S, NEW s \in Seq(S), s # <<>>
  PROVE  /\ Tail(s) \in Seq(S) /\ Head(s) = s[1]
         /\ DOMAIN s = 1..Len(s) /\ DOMAIN Tail(s) = 1..(Len(s) - 1)
         /\ Len(s) \in Nat \ {0}
         /\ \A i \in 1..(Len(s) - 1) : Tail(s)[i] = s[i + 1]
<1>1. Len(s) \in Nat \ {0} /\ DOMAIN s = 1..Len(s)
  BY EmptySeq, LenProperties
<1>2. Len(Tail(s)) = Len(s) - 1 /\ Tail(s) \in Seq(S)
  BY HeadTailProperties
<1> QED
  BY <1>1, <1>2

\* An increasing sequence without its head is increasing, and over its head.
LEMMA TailIncreasing ==
  ASSUME NEW s \in Seq(Nat), s # <<>>, Increasing(s)
  PROVE  Increasing(Tail(s)) /\ Under(Head(s), Tail(s))
<1>1. \A i \in DOMAIN Tail(s) :
        i \in Nat /\ 1 \in DOMAIN s /\ i + 1 \in DOMAIN s /\ Tail(s)[i] = s[i + 1]
  BY TailElements
<1>2. Increasing(Tail(s))
  BY <1>1, TailElements DEF Increasing
<1>3. \A i \in DOMAIN Tail(s) : s[1] < s[i + 1]
  BY <1>1, TailElements DEF Increasing
<1> QED
  BY <1>1, <1>2, <1>3, TailElements DEF Under

\* What relates to a sequence relates to its head and to its tail.
LEMMA TailRelated ==
  ASSUME NEW s \in Seq(Nat), s # <<>>, NEW t \in Seq(Nat), NEW c \in Nat
  PROVE  /\ Before(s, t) => Before(Tail(s), t) /\ Under(Head(s), t)
         /\ Before(t, s) => Before(t, Tail(s)) /\ Over(Head(s), t)
         /\ Over(c, s) => Over(c, Tail(s)) /\ Head(s) < c
         /\ Under(c, s) => Under(c, Tail(s)) /\ c < Head(s)
<1>1. \A i \in DOMAIN Tail(s) : i + 1 \in DOMAIN s /\ Tail(s)[i] = s[i + 1]
  BY TailElements
<1>2. 1 \in DOMAIN s /\ Head(s) = s[1]
  BY TailElements
<1> QED
  BY <1>1, <1>2 DEF Before, Over, Under

\* The empty sequence.
LEMMA EmptyRelated ==
  /\ Increasing(<<>>)
  /\ \A s : Before(<<>>, s) /\ Before(s, <<>>)
  /\ \A c : Over(c, <<>>) /\ Under(c, <<>>)
  BY DEF Increasing, Before, Over, Under

-----------------------------------------------------------------------------
(* The inductive invariant.                                                *)

Lines ==
  /\ Increasing(executed) /\ Increasing(queue)
  /\ Increasing(response) /\ Increasing(pending)

InLine ==
  /\ Before(executed, queue) /\ Before(executed, response)
  /\ Before(executed, pending)
  /\ Before(queue, response) /\ Before(queue, pending)
  /\ Before(response, pending)

AtWork ==
  work # 0 =>
    /\ result = None => Over(work, executed)
    /\ Under(work, queue) /\ Under(work, response) /\ Under(work, pending)
    /\ work < issued + 1

Queued ==
  /\ Over(issued + 1, executed) /\ Over(issued + 1, queue)
  /\ Over(issued + 1, response) /\ Over(issued + 1, pending)

QueueingOK == beat = "queueing" => response # <<>>

OrderInv == Lines /\ InLine /\ AtWork /\ Queued

IInv == TypeOK /\ QueueingOK /\ OrderInv

lineVars == <<issued, pending, response, queue, work, result, executed>>

\* The sequences of the invariant are sequences of numbers.
LEMMA NumberLines ==
  ASSUME TypeOK
  PROVE  /\ pending \in Seq(Nat) /\ response \in Seq(Nat)
         /\ queue \in Seq(Nat) /\ executed \in Seq(Nat)
         /\ issued \in Nat /\ work \in Nat
<1>1. CommandIds \subseteq Nat
  BY DEF CommandIds
<1>2. \A s \in Seq(CommandIds) : s \in Seq(Nat)
  BY <1>1, SeqMonotonic
<1>3. issued \in Nat /\ work \in Nat
  BY DEF TypeOK, CommandIds, DeliveryAssumption
<1> QED
  BY <1>2, <1>3 DEF TypeOK

\* The head of a sequence of commands is a command, its tail is one of commands.
LEMMA HeadTail ==
  ASSUME NEW s \in Seq(CommandIds), s # <<>>
  PROVE  /\ Head(s) \in CommandIds /\ Tail(s) \in Seq(CommandIds)
         /\ Len(Tail(s)) = Len(s) - 1
  OBVIOUS

\* A command that has been handed out is not in the list of the master.
LEMMA WithoutPending ==
  ASSUME IInv, work # 0
  PROVE  Without(pending, work) = pending
<1>1. Under(work, pending) /\ pending \in Seq(Nat) /\ work \in Nat
  BY NumberLines DEF IInv, OrderInv, AtWork
<1>2. ~ \E i \in DOMAIN pending : pending[i] = work
  BY <1>1 DEF Under
<1> QED
  BY <1>2 DEF Without

\* A step that moves no command keeps the order.
LEMMA OrderFrame ==
  ASSUME OrderInv, UNCHANGED lineVars
  PROVE  OrderInv'
  BY DEF OrderInv, Lines, InLine, AtWork, Queued, Increasing, Before, Over,
         Under, lineVars

\* The order when a command enters the list.
LEMMA EnqueueOrder ==
  ASSUME IInv, NEW c \in Command, Enqueue(c)
  PROVE  OrderInv'
<1> DEFINE n == issued + 1
<1>1. /\ issued' = n /\ pending' = Append(pending, n) /\ n \in Nat
      /\ UNCHANGED <<response, queue, work, result, executed>>
  BY DEF Enqueue, IInv, TypeOK, CommandIds, loopVars, workerVars, doneVars
<1>2. /\ Over(n, pending) /\ Over(n, response) /\ Over(n, queue)
      /\ Over(n, executed)
  BY DEF IInv, OrderInv, Queued
<1>3. Increasing(pending')
  BY <1>1, <1>2, NumberLines, AppendIncreasing DEF IInv, OrderInv, Lines
<1>4. /\ Before(executed, pending') /\ Before(queue, pending')
      /\ Before(response, pending')
  BY <1>1, <1>2, NumberLines, AppendBefore DEF IInv, OrderInv, InLine
<1>5. work # 0 => Under(work, pending') /\ work < n + 1
  BY <1>1, NumberLines, AppendUnder DEF IInv, OrderInv, AtWork
<1>6. \A s \in Seq(Nat) : Over(n, s) => Over(n + 1, s)
  BY <1>1, ElementOfSeq, LenProperties DEF Over
<1>7. /\ Over(n + 1, response) /\ Over(n + 1, queue) /\ Over(n + 1, executed)
      /\ Over(n + 1, pending')
  BY <1>1, <1>2, <1>6, NumberLines, AppendOver DEF IInv
<1>8. Lines' /\ InLine'
  BY <1>1, <1>3, <1>4 DEF IInv, OrderInv, Lines, InLine
<1>9. AtWork' /\ Queued'
  BY <1>1, <1>5, <1>7 DEF IInv, OrderInv, AtWork, Queued
<1> QED
  BY <1>8, <1>9 DEF OrderInv

\* The order when the master hands out its list.
LEMMA HeartbeatOrder ==
  ASSUME IInv, Heartbeat
  PROVE  OrderInv'
<1>1. /\ pending' = <<>> /\ response' = pending
      /\ UNCHANGED <<issued, queue, work, result, executed>>
  BY DEF Heartbeat, HeartbeatHandled, Dequeue, issueVars, workerVars, doneVars
<1> QED
  BY <1>1, EmptyRelated
     DEF IInv, OrderInv, Lines, InLine, AtWork, Queued

\* The order when the list, or an answer, is lost.
LEMMA LossOrder ==
  ASSUME IInv, UNCHANGED <<issued, queue, work, result, executed>>,
         pending' \in {pending, <<>>}, response' \in {response, <<>>}
  PROVE  OrderInv'
  BY EmptyRelated DEF IInv, OrderInv, Lines, InLine, AtWork, Queued

\* The order when the slave starts again.
LEMMA RestartOrder ==
  ASSUME IInv, SlaveRestart
  PROVE  OrderInv'
<1>1. /\ response' = <<>> /\ queue' = <<>> /\ work' = 0
      /\ UNCHANGED <<issued, pending, executed>>
  BY DEF SlaveRestart, issueVars, masterVars, doneVars
<1> QED
  BY <1>1, EmptyRelated DEF IInv, OrderInv, Lines, InLine, AtWork, Queued

\* The order when a command of the answer is queued, or not.
LEMMA QueueOrder ==
  ASSUME IInv, QueueSlaveCommand
  PROVE  OrderInv'
<1> DEFINE c == Head(response)
<1>1. /\ response # <<>> /\ response' = Tail(response)
      /\ queue' \in {queue, Append(queue, c)}
      /\ UNCHANGED <<issued, pending, work, result, executed>>
  BY DEF QueueSlaveCommand, IInv, QueueingOK, issueVars, masterVars, doneVars
<1>2. /\ response \in Seq(Nat) /\ queue \in Seq(Nat) /\ executed \in Seq(Nat)
      /\ pending \in Seq(Nat) /\ issued + 1 \in Nat /\ work \in Nat
      /\ c \in Nat /\ Tail(response) \in Seq(Nat)
  BY <1>1, NumberLines, TailElements, HeadTailProperties DEF IInv
<1>3. Increasing(Tail(response)) /\ Under(c, Tail(response))
  BY <1>1, <1>2, TailIncreasing DEF IInv, OrderInv, Lines
<1>4. /\ Before(executed, Tail(response)) /\ Over(c, executed)
      /\ Before(queue, Tail(response)) /\ Over(c, queue)
      /\ Before(Tail(response), pending) /\ Under(c, pending)
      /\ Over(issued + 1, Tail(response)) /\ c < issued + 1
      /\ work # 0 => Under(work, Tail(response)) /\ work < c
  BY <1>1, <1>2, TailRelated DEF IInv, OrderInv, InLine, AtWork, Queued
<1>5. CASE queue' = queue
  BY <1>1, <1>3, <1>4, <1>5 DEF IInv, OrderInv, Lines, InLine, AtWork, Queued
<1>6. CASE queue' = Append(queue, c)
  <2>1. Increasing(queue') /\ Before(executed, queue') /\ Over(issued + 1, queue')
    BY <1>2, <1>4, <1>6, AppendIncreasing, AppendBefore, AppendOver
       DEF IInv, OrderInv, Lines, InLine, Queued
  <2>2. Before(queue', Tail(response)) /\ Before(queue', pending)
    BY <1>2, <1>3, <1>4, <1>6, AppendAfter DEF IInv, OrderInv, InLine
  <2>3. work # 0 => Under(work, queue')
    BY <1>2, <1>4, <1>6, AppendUnder DEF IInv, OrderInv, AtWork
  <2> QED
    BY <1>1, <1>3, <1>4, <2>1, <2>2, <2>3
       DEF IInv, OrderInv, Lines, InLine, AtWork, Queued
<1> QED
  BY <1>1, <1>5, <1>6

\* The order when the worker takes a command.
LEMMA TakeOrder ==
  ASSUME IInv, TakeCommand
  PROVE  OrderInv'
<1>1. /\ queue # <<>> /\ work' = Head(queue) /\ queue' = Tail(queue)
      /\ UNCHANGED <<issued, pending, response, executed>>
  BY DEF TakeCommand, issueVars, masterVars, loopVars, doneVars
<1>2. /\ response \in Seq(Nat) /\ queue \in Seq(Nat) /\ executed \in Seq(Nat)
      /\ pending \in Seq(Nat) /\ issued + 1 \in Nat
  BY NumberLines DEF IInv
<1>3. Increasing(Tail(queue)) /\ Under(Head(queue), Tail(queue))
  BY <1>1, <1>2, TailIncreasing DEF IInv, OrderInv, Lines
<1>4. /\ Before(executed, Tail(queue)) /\ Over(Head(queue), executed)
      /\ Before(Tail(queue), response) /\ Under(Head(queue), response)
      /\ Before(Tail(queue), pending) /\ Under(Head(queue), pending)
      /\ Over(issued + 1, Tail(queue)) /\ Head(queue) < issued + 1
  BY <1>1, <1>2, TailRelated DEF IInv, OrderInv, InLine, Queued
<1> QED
  BY <1>1, <1>3, <1>4 DEF IInv, OrderInv, Lines, InLine, AtWork, Queued

\* The order when the command is executed.
LEMMA ExecuteOrder ==
  ASSUME IInv, Execute
  PROVE  OrderInv' /\ Over(work, executed)
<1>1. /\ work # 0 /\ result = None /\ executed' = Append(executed, work)
      /\ result' # None
      /\ UNCHANGED <<issued, pending, response, queue, work>>
  <2>1. \A r \in Statuses : r # None
    BY DeliveryAssumption DEF DeliveryAssumption
  <2>2. "completed" \in Statuses /\ "failed" \in Statuses
    BY DEF Statuses
  <2> QED
    BY <2>1, <2>2 DEF Execute, issueVars, masterVars, loopVars
<1>2. /\ executed \in Seq(Nat) /\ queue \in Seq(Nat) /\ response \in Seq(Nat)
      /\ pending \in Seq(Nat) /\ work \in Nat /\ issued + 1 \in Nat
  BY NumberLines DEF IInv
<1>3. /\ Over(work, executed) /\ Under(work, queue) /\ Under(work, response)
      /\ Under(work, pending) /\ work < issued + 1
  BY <1>1 DEF IInv, OrderInv, AtWork
<1>4. Increasing(executed') /\ Over(issued + 1, executed')
  BY <1>1, <1>2, <1>3, AppendIncreasing, AppendOver
     DEF IInv, OrderInv, Lines, Queued
<1>5. /\ Before(executed', queue) /\ Before(executed', response)
      /\ Before(executed', pending)
  BY <1>1, <1>2, <1>3, AppendAfter DEF IInv, OrderInv, InLine
<1> QED
  BY <1>1, <1>3, <1>4, <1>5 DEF IInv, OrderInv, Lines, InLine, AtWork, Queued

\* The order when a result is reported.
LEMMA ReportOrder ==
  ASSUME IInv, ReportResult \/ ReportFails
  PROVE  OrderInv'
<1>1. /\ pending' = pending /\ work' \in {work, 0}
      /\ UNCHANGED <<issued, response, queue, result, executed>>
  BY WithoutPending
     DEF ReportResult, ReportFails, ResultReported, issueVars, masterVars,
         loopVars, doneVars
<1> QED
  BY <1>1 DEF IInv, OrderInv, Lines, InLine, AtWork, Queued

-----------------------------------------------------------------------------
(* Types.                                                                  *)

\* The types hold at first.
LEMMA InitType == Init => TypeOK /\ QueueingOK
<1> SUFFICES ASSUME Init PROVE TypeOK /\ QueueingOK
  OBVIOUS
<1>1. <<>> \in Seq(CommandIds) /\ Len(<<>>) = 0
  BY EmptySeq
<1>2. instance \in [Keys -> RunIds \cup {None}] /\ used \subseteq RunIds
  BY DEF Init, Host!Init
<1>3. command \in [CommandIds -> Command]
  BY DEF Init, Checkout, Command
<1>4. issued \in 0..MaxCommands /\ Len(queue) <= QueueCap
  BY <1>1, DeliveryAssumption DEF Init, DeliveryAssumption
<1>5. /\ known \in [CommandIds -> {"no", "queued", "dispatched"}]
      /\ answers \in [CommandIds -> SUBSET Statuses]
      /\ hit \in [CommandIds -> RunIds \cup {None}]
  BY DEF Init
<1>6. attempt \in Nat /\ losses \in Nat /\ restarts \in Nat
  BY DEF Init
<1> QED
  BY <1>1, <1>2, <1>3, <1>4, <1>5, <1>6 DEF Init, TypeOK, QueueingOK

\* A failed call is counted.
LEMMA CountedLoss ==
  ASSUME TypeOK, NEW hazard, MayLose(hazard)
  PROVE  losses' \in Nat
  BY DEF TypeOK, MayLose

\* The types when a command enters the list.
LEMMA EnqueueType ==
  ASSUME IInv, NEW c \in Command, Enqueue(c)
  PROVE  TypeOK' /\ QueueingOK'
<1>1. issued' \in CommandIds /\ issued' \in 0..MaxCommands
  BY DeliveryAssumption DEF Enqueue, IInv, TypeOK, CommandIds, DeliveryAssumption
<1>2. pending' \in Seq(CommandIds)
  BY <1>1 DEF Enqueue, IInv, TypeOK
<1> QED
  BY <1>1, <1>2
     DEF Enqueue, IInv, TypeOK, QueueingOK, loopVars, workerVars, doneVars,
         hostVars, faultVars

\* The types when the main loop of the slave or the master takes a step.
LEMMA LoopType ==
  ASSUME IInv,
         \/ MainLoop \/ Heartbeat \/ RegisterFails \/ HeartbeatFails
         \/ LateHeartbeat
  PROVE  TypeOK' /\ QueueingOK'
<1> USE DEF IInv, TypeOK, QueueingOK, issueVars, masterVars, loopVars, workerVars,
            doneVars, hostVars, faultVars
<1>1. <<>> \in Seq(CommandIds)
  BY EmptySeq
<1>2. CASE Register
  BY <1>2 DEF Register
<1>3. CASE RegisterFails
  <2>1. losses' \in Nat
    BY <1>3, CountedLoss DEF RegisterFails
  <2> QED
    BY <1>3, <2>1 DEF RegisterFails
<1>4. CASE SendHeartbeat \/ HeartbeatRefused
  BY <1>4 DEF SendHeartbeat, HeartbeatRefused
<1>5. CASE Heartbeat
  BY <1>1, <1>5 DEF Heartbeat, HeartbeatHandled, Dequeue
<1>6. CASE LateHeartbeat
  <2>1. late' \in Nat
    BY <1>6 DEF LateHeartbeat
  <2> QED
    BY <1>1, <1>6, <2>1 DEF LateHeartbeat, HeartbeatHandled, Dequeue
<1>7. CASE HeartbeatFails
  <2>1. losses' \in Nat
    BY <1>7, CountedLoss DEF HeartbeatFails
  <2>2. late' \in Nat
    BY <1>7 DEF HeartbeatFails
  <2> QED
    BY <1>1, <1>7, <2>1, <2>2 DEF HeartbeatFails
<1>8. CASE ReceiveCommands
  BY <1>8 DEF ReceiveCommands
<1>9. CASE QueueSlaveCommand
  <2>1. response # <<>>
    BY <1>9 DEF QueueSlaveCommand
  <2>2. Head(response) \in CommandIds /\ Tail(response) \in Seq(CommandIds)
    BY <2>1, HeadTail
  <2>3. /\ Append(queue, Head(response)) \in Seq(CommandIds)
        /\ Len(Append(queue, Head(response))) = Len(queue) + 1
    BY <2>2, AppendProperties
  <2>4. queue' \in Seq(CommandIds) /\ Len(queue') <= QueueCap
    <3>1. QueueCap \in Nat /\ Len(queue) \in Nat /\ Len(queue) <= QueueCap
      BY LenProperties, DeliveryAssumption DEF DeliveryAssumption
    <3>2. CASE queue' = queue
      BY <3>1, <3>2
    <3>3. CASE HasRoom /\ queue' = Append(queue, Head(response))
      BY <2>3, <3>1, <3>3 DEF HasRoom
    <3> QED
      BY <1>9, <3>2, <3>3 DEF QueueSlaveCommand
  <2>5. seen' \subseteq CommandIds
    BY <1>9, <2>2 DEF QueueSlaveCommand
  <2> QED
    BY <1>9, <2>2, <2>4, <2>5 DEF QueueSlaveCommand
<1> QED
  BY <1>2, <1>3, <1>4, <1>5, <1>6, <1>7, <1>8, <1>9 DEF MainLoop

\* The types when the worker takes a step.
LEMMA WorkerType ==
  ASSUME IInv, Worker \/ ReportFails
  PROVE  TypeOK' /\ QueueingOK'
<1> USE DEF IInv, TypeOK, QueueingOK, issueVars, masterVars, loopVars, workerVars,
            doneVars, hostVars, faultVars
<1>1. CASE TakeCommand
  <2>1. queue # <<>>
    BY <1>1 DEF TakeCommand
  <2>2. /\ Head(queue) \in CommandIds /\ Tail(queue) \in Seq(CommandIds)
        /\ Len(Tail(queue)) = Len(queue) - 1
    BY <2>1, HeadTail
  <2>3. Len(Tail(queue)) <= QueueCap
    BY <2>2, LenProperties, DeliveryAssumption DEF DeliveryAssumption
  <2> QED
    BY <1>1, <2>2, <2>3 DEF TakeCommand, Fresh
<1>2. CASE Execute
  <2>1. executed' \in Seq(CommandIds)
    BY <1>2 DEF Execute
  <2>2. result' \in Statuses
    BY <1>2 DEF Execute, Statuses
  <2>3. /\ hit' \in [CommandIds -> RunIds \cup {None}]
        /\ instance' \in [Keys -> RunIds \cup {None}] /\ used' \subseteq RunIds
    BY <1>2 DEF Execute, Targets, Host!End
  <2> QED
    BY <1>2, <2>1, <2>2, <2>3 DEF Execute
<1>3. CASE ReportResult
  BY <1>3, WithoutPending DEF ReportResult, ResultReported
<1>4. CASE ReportFails
  <2>1. losses' \in Nat /\ attempt' \in Nat
    BY <1>4, CountedLoss DEF ReportFails
  <2>2. work' \in CommandIds \cup {0}
    BY <1>4 DEF ReportFails
  <2>3. /\ slave' \in {"unknown", "registered", "disconnected"}
        /\ pending' \in Seq(CommandIds)
        /\ known' \in [CommandIds -> {"no", "queued", "dispatched"}]
        /\ answers' \in [CommandIds -> SUBSET Statuses]
    <3>1. CASE ResultReported
      BY <1>4, <3>1, WithoutPending DEF ReportFails, ResultReported
    <3>2. CASE UNCHANGED masterVars
      BY <3>2
    <3> QED
      BY <1>4, <3>1, <3>2 DEF ReportFails
  <2> QED
    BY <1>4, <2>1, <2>2, <2>3 DEF ReportFails
<1> QED
  BY <1>1, <1>2, <1>3, <1>4 DEF Worker

\* The types when somebody else does.
LEMMA OutsideType ==
  ASSUME IInv, Sweep \/ Drain \/ MasterRestart \/ SlaveRestart \/ ProcessesChange
  PROVE  TypeOK' /\ QueueingOK'
<1> USE DEF IInv, TypeOK, QueueingOK, issueVars, masterVars, loopVars, workerVars,
            doneVars, hostVars, faultVars
<1>1. <<>> \in Seq(CommandIds) /\ Len(<<>>) = 0
  BY EmptySeq
<1>2. CASE Sweep
  BY <1>2 DEF Sweep
<1>3. CASE Drain
  <2>1. restarts' \in Nat
    BY <1>3 DEF Drain
  <2>2. known' \in [CommandIds -> {"no", "queued", "dispatched"}]
    BY <1>3 DEF Drain, Cleared
  <2> QED
    BY <1>1, <1>3, <2>1, <2>2 DEF Drain, Cleared
<1>4. CASE MasterRestart
  <2>1. restarts' \in Nat
    BY <1>4 DEF MasterRestart
  <2>2. known' \in [CommandIds -> {"no", "queued", "dispatched"}]
    BY <1>4 DEF MasterRestart
  <2>3. /\ registered' \in BOOLEAN
        /\ beat' \in {"idle", "sent", "answered", "queueing"}
    BY <1>4 DEF MasterRestart
  <2> QED
    BY <1>1, <1>4, <2>1, <2>2, <2>3 DEF MasterRestart
<1>5. CASE SlaveRestart
  <2>1. restarts' \in Nat /\ attempt' \in Nat
    BY <1>5 DEF SlaveRestart
  <2>2. late' \in Nat
    BY <1>5 DEF SlaveRestart
  <2>3. Len(queue') <= QueueCap
    BY <1>1, <1>5, DeliveryAssumption DEF SlaveRestart, DeliveryAssumption
  <2> QED
    BY <1>1, <1>5, <2>1, <2>2, <2>3 DEF SlaveRestart
<1>6. CASE ProcessesChange
  BY <1>6, DeliveryAssumption
     DEF ProcessesChange, Host!Launch, Host!End, DeliveryAssumption
<1> QED
  BY <1>2, <1>3, <1>4, <1>5, <1>6

-----------------------------------------------------------------------------
(* The theorems.                                                           *)

\* What a caller of the master may queue is a command.
LEMMA QueuedCommand ==
  ASSUME IInv, QueueSlaveKill \/ CheckoutProjectOnSlave
  PROVE  \E c \in Command : Enqueue(c)
  BY DEF QueueSlaveKill, CheckoutProjectOnSlave, Checkout, Command, IInv, TypeOK

\* Every step keeps the invariant.
LEMMA Inductive ==
  ASSUME IInv, [Next]_vars
  PROVE  IInv'
<1>1. CASE QueueSlaveKill \/ CheckoutProjectOnSlave
  BY <1>1, QueuedCommand, EnqueueType, EnqueueOrder DEF IInv
<1>2. CASE MainLoop \/ Heartbeat \/ RegisterFails \/ HeartbeatFails \/ LateHeartbeat
  <2>1. TypeOK' /\ QueueingOK'
    BY <1>2, LoopType
  <2>2. OrderInv'
    <3>1. CASE QueueSlaveCommand
      BY <3>1, QueueOrder
    <3>2. CASE Heartbeat
      BY <3>2, HeartbeatOrder
    <3>3. CASE HeartbeatFails \/ LateHeartbeat
      BY <3>3, LossOrder
         DEF HeartbeatFails, LateHeartbeat, HeartbeatHandled, Dequeue, issueVars,
             masterVars, workerVars, doneVars
    <3>4. CASE \/ Register \/ RegisterFails \/ SendHeartbeat \/ HeartbeatRefused
              \/ ReceiveCommands
      BY <3>4, OrderFrame
         DEF IInv, Register, RegisterFails, SendHeartbeat, HeartbeatRefused,
             ReceiveCommands, issueVars, masterVars, loopVars, workerVars,
             doneVars, lineVars
    <3> QED
      BY <1>2, <3>1, <3>2, <3>3, <3>4 DEF MainLoop
  <2> QED
    BY <2>1, <2>2 DEF IInv
<1>3. CASE Worker \/ ReportFails
  BY <1>3, WorkerType, TakeOrder, ExecuteOrder, ReportOrder DEF IInv, Worker
<1>4. CASE Sweep \/ Drain \/ MasterRestart \/ SlaveRestart \/ ProcessesChange
  <2>1. TypeOK' /\ QueueingOK'
    BY <1>4, OutsideType
  <2>2. CASE Drain \/ MasterRestart
    BY <2>1, <2>2, LossOrder
       DEF IInv, Drain, MasterRestart, Cleared, issueVars, loopVars, workerVars,
           doneVars
  <2>3. CASE SlaveRestart
    BY <2>1, <2>3, RestartOrder DEF IInv
  <2>4. CASE Sweep \/ ProcessesChange
    BY <2>1, <2>4, OrderFrame
       DEF IInv, Sweep, ProcessesChange, issueVars, masterVars, loopVars,
           workerVars, doneVars, lineVars
  <2> QED
    BY <1>4, <2>2, <2>3, <2>4
<1>5. CASE UNCHANGED vars
  <2>1. OrderInv'
    BY <1>5, OrderFrame
       DEF IInv, vars, issueVars, masterVars, loopVars, workerVars, doneVars,
           lineVars
  <2> QED
    BY <1>5, <2>1
       DEF IInv, TypeOK, QueueingOK, vars, issueVars, masterVars, loopVars,
           workerVars, doneVars, hostVars, faultVars
<1> QED
  BY <1>1, <1>2, <1>3, <1>4, <1>5 DEF Next

\* The invariant holds at first.
LEMMA InitInv == Init => IInv
  BY InitType, EmptyRelated
     DEF Init, IInv, OrderInv, Lines, InLine, AtWork, Queued

\* The invariant holds always.
LEMMA Invariance == Spec => []IInv
  BY InitInv, Inductive, PTL DEF Spec

\* Every variable of the delivery keeps its type; the queue of the slave never
\* exceeds its capacity.
THEOREM TypeCorrect == Spec => []TypeOK
<1>1. IInv => TypeOK
  BY DEF IInv
<1> QED
  BY <1>1, Invariance, PTL

\* A step of the delivery is a step of the promise, or none.
LEMMA StepPromise ==
  ASSUME IInv, [Next]_vars
  PROVE  [Promise!Next]_<<issued, executed>>
<1>1. CASE QueueSlaveKill \/ CheckoutProjectOnSlave
  BY <1>1, QueuedCommand DEF Enqueue, doneVars, Promise!Next, Promise!Issue
<1>2. CASE Execute
  <2>1. /\ Over(work, executed) /\ work \in 1..issued
    BY <1>2, ExecuteOrder, NumberLines DEF Execute, IInv, OrderInv, AtWork
  <2>2. Promise!Run(work)
    BY <1>2, <2>1 DEF Execute, issueVars, Promise!Run, Over
  <2> QED
    BY <2>1, <2>2 DEF Promise!Next
<1>3. CASE MainLoop \/ Heartbeat \/ RegisterFails \/ HeartbeatFails \/ LateHeartbeat
  BY <1>3
     DEF MainLoop, Register, SendHeartbeat, HeartbeatRefused, ReceiveCommands,
         QueueSlaveCommand, Heartbeat, RegisterFails, HeartbeatFails,
         LateHeartbeat, issueVars, doneVars
<1>4. CASE TakeCommand \/ ReportResult \/ ReportFails
  BY <1>4 DEF TakeCommand, ReportResult, ReportFails, issueVars, doneVars
<1>5. CASE Sweep \/ Drain \/ MasterRestart \/ SlaveRestart \/ ProcessesChange
  BY <1>5
     DEF Sweep, Drain, MasterRestart, SlaveRestart, ProcessesChange, issueVars,
         doneVars
<1>6. CASE UNCHANGED vars
  BY <1>6 DEF vars, issueVars, doneVars
<1> QED
  BY <1>1, <1>2, <1>3, <1>4, <1>5, <1>6 DEF Next, Worker

\* The delivery implements its promise: every command is run at most once, and in
\* the order in which the commands were queued.
THEOREM DeliversInOrder == Spec => RunInOrderOnce
<1>1. Init => Promise!Init
  BY DEF Init, Promise!Init
<1> QED
  BY <1>1, StepPromise, Invariance, PTL
     DEF Spec, RunInOrderOnce, Promise!Spec

-----------------------------------------------------------------------------
(* The master is right: a command is recorded as queued exactly while it   *)
(* is in the list, and a published result is the one of its execution.     *)
(* It rests on the order above: a command the worker has taken has not     *)
(* been executed before and is in the list no more.                        *)

In(c, s) == \E i \in DOMAIN s : s[i] = c

\* What a result says agrees with what the execution did.
Agrees(c, res) ==
  res \in Statuses /\ (command[c] # Checkout => (res = "completed" <=> hit[c] # None))

\* Only what was executed has hit a process or has an answer, and all its answers
\* are one result.
Published ==
  \A c \in CommandIds :
    /\ hit[c] # None => In(c, executed)
    /\ answers[c] # {} => /\ In(c, executed)
                          /\ \E res \in Statuses : answers[c] = {res} /\ Agrees(c, res)

\* The worker's result is the one of its command, and any answer is that result.
WorkerRight ==
  work # 0 /\ result # None =>
    /\ In(work, executed) /\ Agrees(work, result) /\ answers[work] \subseteq {result}

AnswerInv == QueuedIsPending /\ Published /\ WorkerRight

answerVars == <<command, pending, known, answers, work, result, executed, hit>>

-----------------------------------------------------------------------------
\* What is in a sequence is in it when something is appended.
LEMMA InAppend ==
  ASSUME NEW S, NEW s \in Seq(S), NEW c \in S, NEW d
  PROVE  In(d, Append(s, c)) <=> (In(d, s) \/ d = c)
<1>1. /\ DOMAIN Append(s, c) = 1..(Len(s) + 1) /\ DOMAIN s = 1..Len(s)
      /\ Len(s) \in Nat /\ Append(s, c)[Len(s) + 1] = c
      /\ \A i \in 1..Len(s) : Append(s, c)[i] = s[i]
  BY AppendProperties, LenProperties
<1> QED
  BY <1>1 DEF In

\* The result of a command is not "no value".
LEMMA ResultIsSome == "completed" \in Statuses /\ "failed" \in Statuses /\ None \notin Statuses
  BY DeliveryAssumption DEF DeliveryAssumption, Statuses

\* A step that touches nothing of the invariant keeps it.
LEMMA AnswerFrame ==
  ASSUME AnswerInv, UNCHANGED answerVars
  PROVE  AnswerInv'
  BY DEF AnswerInv, QueuedIsPending, Published, WorkerRight, Agrees, In, answerVars

\* A command that enters the list has neither hit a process nor an answer, and the
\* commands that do are the ones they were.
LEMMA EnqueueAnswers ==
  ASSUME IInv, AnswerInv, NEW c \in Command, Enqueue(c)
  PROVE  AnswerInv'
<1> DEFINE n == issued + 1
<1>1. /\ n \in CommandIds /\ pending \in Seq(CommandIds) /\ pending' = Append(pending, n)
      /\ known \in [CommandIds -> {"no", "queued", "dispatched"}]
      /\ known' = [known EXCEPT ![n] = "queued"]
      /\ command \in [CommandIds -> Command]
      /\ command' = [command EXCEPT ![n] = c]
      /\ UNCHANGED <<answers, work, result, executed, hit>>
  BY DeliveryAssumption
     DEF Enqueue, IInv, TypeOK, CommandIds, DeliveryAssumption, workerVars, doneVars
<1>2. ~In(n, executed)
  BY <1>1, NumberLines DEF IInv, OrderInv, Queued, Over, In
<1>3. QueuedIsPending'
  <2>1. \A d \in CommandIds : In(d, pending') <=> (In(d, pending) \/ d = n)
    BY <1>1, InAppend
  <2>2. \A d \in CommandIds : known'[d] = "queued" <=> (known[d] = "queued" \/ d = n)
    BY <1>1
  <2> QED
    BY <2>1, <2>2 DEF AnswerInv, QueuedIsPending, In
<1>4. \A d \in CommandIds : \A res : d # n => (Agrees(d, res)' <=> Agrees(d, res))
  BY <1>1 DEF Agrees
<1>5. Published'
  BY <1>1, <1>2, <1>4 DEF AnswerInv, Published, In
<1>6. WorkerRight'
  <2>1. work # 0 => work \in CommandIds
    BY DEF IInv, TypeOK
  <2> QED
    BY <1>1, <1>2, <1>4, <2>1 DEF AnswerInv, WorkerRight, In, Agrees
<1> QED
  BY <1>3, <1>5, <1>6 DEF AnswerInv

\* The master hands out its list, or forgets it, with the records of it.
LEMMA ListAnswers ==
  ASSUME IInv, AnswerInv, HeartbeatHandled \/ (Cleared /\ answers' = answers),
         UNCHANGED <<command, work, result, executed, hit>>
  PROVE  AnswerInv'
<1>1. pending' = <<>> /\ answers' = answers
  BY DEF HeartbeatHandled, Dequeue, Cleared
<1>2. \A c \in CommandIds : known'[c] # "queued"
  <2>1. CASE HeartbeatHandled
    BY <2>1 DEF HeartbeatHandled, AnswerInv, QueuedIsPending
  <2>2. CASE Cleared
    BY <2>2 DEF Cleared
  <2> QED
    BY <2>1, <2>2
<1>3. QueuedIsPending'
  BY <1>1, <1>2 DEF QueuedIsPending
<1> QED
  BY <1>1, <1>3 DEF AnswerInv, Published, WorkerRight, Agrees, In

\* The worker takes a command, or forgets the one it has.
LEMMA TakeAnswers ==
  ASSUME AnswerInv, work' = 0 \/ result' = None,
         UNCHANGED <<command, pending, known, answers, executed, hit>>
  PROVE  AnswerInv'
  BY DEF AnswerInv, QueuedIsPending, Published, WorkerRight, Agrees, In

\* The worker executes its command, which has neither hit a process nor an answer.
LEMMA ExecuteAnswers ==
  ASSUME IInv, AnswerInv, Execute
  PROVE  AnswerInv'
<1>1. /\ work # 0 /\ work \in CommandIds /\ executed \in Seq(CommandIds)
      /\ hit \in [CommandIds -> RunIds \cup {None}]
      /\ executed' = Append(executed, work)
      /\ UNCHANGED <<command, pending, known, answers, work>>
  BY DEF Execute, IInv, TypeOK, issueVars, masterVars, loopVars
<1>2. ~In(work, executed)
  BY <1>1, ExecuteOrder, NumberLines DEF IInv, Over, In
<1>3. hit[work] = None /\ answers[work] = {}
  BY <1>1, <1>2 DEF AnswerInv, Published
<1>4. \A c : In(c, executed') <=> (In(c, executed) \/ c = work)
  BY <1>1, InAppend
<1>5. /\ \A c \in CommandIds \ {work} : hit'[c] = hit[c]
      /\ Agrees(work, result)'
  <2>1. CASE \E k \in Targets(command[work]) :
               hit' = [hit EXCEPT ![work] = instance[k]] /\ result' = "completed"
    <3>1. PICK k \in Targets(command[work]) :
            hit' = [hit EXCEPT ![work] = instance[k]] /\ result' = "completed"
      BY <2>1
    <3>2. instance[k] # None
      BY DEF Targets
    <3> QED
      BY <1>1, <3>1, <3>2, ResultIsSome DEF Agrees
  <2>2. CASE /\ result' \in (IF command[work] = Checkout THEN Statuses ELSE {"failed"})
             /\ hit' = hit
    <3>1. result' \in Statuses
      BY <2>2, ResultIsSome
    <3>2. command[work] # Checkout => result' = "failed"
      BY <2>2
    <3> QED
      BY <1>1, <1>3, <2>2, <3>1, <3>2 DEF Agrees
  <2> QED
    BY <2>1, <2>2 DEF Execute
<1>6. Published'
  <2>1. ASSUME NEW c \in CommandIds, hit'[c] # None
        PROVE  In(c, executed')
    BY <1>1, <1>4, <1>5, <2>1 DEF AnswerInv, Published
  <2>2. ASSUME NEW c \in CommandIds, answers'[c] # {}
        PROVE  /\ In(c, executed')
               /\ \E res \in Statuses : answers'[c] = {res} /\ Agrees(c, res)'
    <3>1. c # work /\ answers[c] # {} /\ answers'[c] = answers[c]
      BY <1>1, <1>3, <2>2
    <3>2. PICK res \in Statuses : answers[c] = {res} /\ Agrees(c, res)
      BY <3>1 DEF AnswerInv, Published
    <3>3. Agrees(c, res)'
      BY <1>1, <1>5, <3>1, <3>2 DEF Agrees
    <3> QED
      BY <1>4, <3>1, <3>2, <3>3 DEF AnswerInv, Published
  <2> QED
    BY <2>1, <2>2 DEF Published
<1>7. WorkerRight'
  BY <1>1, <1>3, <1>4, <1>5 DEF WorkerRight
<1>8. QueuedIsPending'
  BY <1>1 DEF AnswerInv, QueuedIsPending
<1> QED
  BY <1>6, <1>7, <1>8 DEF AnswerInv

\* A report reaches the master: the record goes, the answer is the worker's result.
LEMMA ReportAnswers ==
  ASSUME IInv, AnswerInv, work # 0, result # None, ResultReported, work' \in {work, 0},
         UNCHANGED <<command, result, executed, hit>>
  PROVE  AnswerInv'
<1>1. /\ work \in CommandIds /\ pending' = pending
      /\ known \in [CommandIds -> {"no", "queued", "dispatched"}]
      /\ known' = [known EXCEPT ![work] = "no"]
      /\ answers \in [CommandIds -> SUBSET Statuses]
      /\ answers' = [answers EXCEPT ![work] = @ \cup {result}]
  BY WithoutPending DEF ResultReported, IInv, TypeOK
<1>2. ~In(work, pending)
  BY <1>1, NumberLines DEF IInv, OrderInv, AtWork, Under, In
<1>3. QueuedIsPending'
  BY <1>1, <1>2 DEF AnswerInv, QueuedIsPending, In
<1>4. answers'[work] = {result} /\ In(work, executed) /\ Agrees(work, result)
  BY <1>1 DEF AnswerInv, WorkerRight
<1>5. \A c \in CommandIds \ {work} : answers'[c] = answers[c]
  BY <1>1
<1>6. result \in Statuses
  BY <1>4 DEF Agrees
<1>7. Published'
  BY <1>1, <1>4, <1>5, <1>6 DEF AnswerInv, Published, Agrees, In
<1>8. WorkerRight'
  BY <1>4 DEF AnswerInv, WorkerRight, Agrees, In
<1> QED
  BY <1>3, <1>7, <1>8 DEF AnswerInv

-----------------------------------------------------------------------------
\* It holds at first.
LEMMA InitAnswers == Init => AnswerInv
  BY DEF Init, AnswerInv, QueuedIsPending, Published, WorkerRight

\* Every step keeps it.
LEMMA InductiveAnswers ==
  ASSUME IInv, AnswerInv, [Next]_vars
  PROVE  AnswerInv'
<1> USE DEF issueVars, masterVars, loopVars, workerVars, doneVars
<1>1. CASE QueueSlaveKill \/ CheckoutProjectOnSlave
  BY <1>1, QueuedCommand, EnqueueAnswers
<1>2. CASE Heartbeat
  BY <1>2, ListAnswers DEF Heartbeat
<1>3. CASE LateHeartbeat
  <2>1. CASE HeartbeatHandled
    BY <1>3, <2>1, ListAnswers DEF LateHeartbeat
  <2>2. CASE UNCHANGED masterVars
    BY <1>3, <2>2, AnswerFrame DEF LateHeartbeat, answerVars
  <2> QED
    BY <1>3, <2>1, <2>2 DEF LateHeartbeat
<1>4. CASE Drain \/ MasterRestart
  BY <1>4, ListAnswers DEF Drain, MasterRestart, Cleared
<1>5. CASE TakeCommand \/ SlaveRestart
  BY <1>5, TakeAnswers DEF TakeCommand, SlaveRestart, Fresh
<1>6. CASE Execute
  BY <1>6, ExecuteAnswers
<1>7. CASE ReportResult
  BY <1>7, ReportAnswers DEF ReportResult
<1>8. CASE ReportFails
  <2>1. work' \in {work, 0}
    BY <1>8 DEF ReportFails
  <2>2. CASE ResultReported
    BY <1>8, <2>1, <2>2, ReportAnswers DEF ReportFails
  <2>3. CASE UNCHANGED masterVars
    BY <1>8, <2>1, <2>3 
       DEF ReportFails, AnswerInv, QueuedIsPending, Published, WorkerRight, Agrees, In
  <2> QED
    BY <1>8, <2>2, <2>3 DEF ReportFails
<1>9. CASE \/ Register \/ SendHeartbeat \/ HeartbeatRefused \/ ReceiveCommands
           \/ QueueSlaveCommand \/ RegisterFails \/ HeartbeatFails \/ Sweep
           \/ ProcessesChange
  <2>1. UNCHANGED answerVars
    BY <1>9
       DEF Register, SendHeartbeat, HeartbeatRefused, ReceiveCommands, QueueSlaveCommand,
           RegisterFails, HeartbeatFails, Sweep, ProcessesChange, answerVars
  <2> QED
    BY <2>1, AnswerFrame
<1>10. CASE UNCHANGED vars
  BY <1>10, AnswerFrame DEF vars, answerVars
<1> QED
  BY <1>1, <1>2, <1>3, <1>4, <1>5, <1>6, <1>7, <1>8, <1>9, <1>10
     DEF Next, MainLoop, Worker

\* The master is right: a command is recorded as queued exactly while it is in the
\* list, and whatever is lost, late, repeated or restarted, a published result is the
\* one result of a command that was executed, "completed" for a kill exactly when it
\* hit a process.
THEOREM MasterKnowsRight == Spec => []MasterIsRight
<1>1. ASSUME AnswerInv PROVE MasterIsRight
  <2>1. ASSUME NEW c \in CommandIds, answers[c] # {}
        PROVE  /\ In(c, executed) /\ Cardinality(answers[c]) = 1
               /\ command[c] # Checkout => ("completed" \in answers[c] <=> hit[c] # None)
    <3>1. PICK res \in Statuses : answers[c] = {res} /\ Agrees(c, res)
      BY <1>1, <2>1 DEF AnswerInv, Published
    <3>2. Cardinality(answers[c]) = 1
      BY <3>1, FS_Singleton
    <3> QED
      BY <1>1, <2>1, <3>1, <3>2 DEF AnswerInv, Published, Agrees
  <2> QED
    BY <1>1, <2>1 DEF MasterIsRight, AnswerInv, AnswersAreTrue, In
<1>2. Init /\ [][Next]_vars => []AnswerInv
  BY InitAnswers, InductiveAnswers, Invariance, PTL DEF Spec
<1> QED
  BY <1>1, <1>2, PTL DEF Spec
=============================================================================
