------------------------ MODULE TimeoutQueueProofs ------------------------
(***************************************************************************)
(* Proofs about TimeoutQueue, for any target, delays, number of messages   *)
(* and bounds on deliveries and failures.                                  *)
(***************************************************************************)
EXTENDS TimeoutQueue, FiniteSetTheorems, TLAPS

LEMMA NewIsFree ==
    ASSUME \E m \in Messages : place[m] = "free"
    PROVE  NewMessage \in Messages /\ place[NewMessage] = "free"
BY DEF NewMessage

\* No delay is negative, and none reaches beyond the target, or the next tick.
LEMMA DelayBounds ==
    ASSUME TypeOK
    PROVE  /\ FirstDelay \in Nat
           /\ now + FirstDelay <= Greater(Target, now + 1)
           /\ Greater(Target, now + 1) \in Nat \ {0}
           /\ Greater(Target, now + 1) >= Target
           /\ now < Target => HopDelay \in Nat /\ now + HopDelay <= Target
BY TimesAssumption DEF TypeOK, FirstDelay, HopDelay, Lesser, Greater

-----------------------------------------------------------------------------
(* Type correctness.                                                       *)

\* A queued message has a receive left.
TypeInv ==
    /\ TypeOK
    /\ \A m \in Messages : place[m] = "queued" => receives[m] < MaxReceives

LEMMA InitType == Init => TypeInv
<1> SUFFICES ASSUME Init PROVE TypeInv
  OBVIOUS
<1>1. 1 \in 1..MaxDeliveries /\ 0 \in 0..MaxReceives /\ 0 \in 0..MaxFailures
  BY BoundsAssumption
<1>2. /\ place \in [Messages -> Places]
      /\ visibleAt \in [Messages -> Nat]
      /\ receives \in [Messages -> 0..MaxReceives]
  BY <1>1 DEF Init, Places
<1>3. failures = 0 /\ copies \in 0..failures
  BY DEF Init
<1>4. \A m \in Messages : place[m] = "free"
  BY DEF Init
<1> QED
  BY <1>1, <1>2, <1>3, <1>4 DEF Init, TypeInv, TypeOK, Labels

LEMMA RecordStepType ==
    ASSUME TypeInv, RecordStep
    PROVE  TypeInv'
<1>0. TypeOK
  BY DEF TypeInv
<1>1. CASE SendTimeout
  <2>1. NewMessage \in Messages
    BY <1>1, NewIsFree DEF SendTimeout, Send
  <2>2. now + FirstDelay \in Nat /\ 0 \in 0..MaxReceives
    BY <1>0, DelayBounds, BoundsAssumption DEF TypeOK
  <2>3. /\ place' \in [Messages -> Places]
        /\ visibleAt' \in [Messages -> Nat]
        /\ receives' \in [Messages -> 0..MaxReceives]
    BY <1>0, <1>1, <2>1, <2>2 DEF TypeOK, SendTimeout, Send, Places
  <2>4. due' \in Nat
    BY <1>0, <1>1, DelayBounds DEF TypeOK, SendTimeout
  <2>5. TypeOK'
    BY <1>0, <1>1, <2>3, <2>4 DEF TypeOK, SendTimeout, Labels
  <2>6. \A m \in Messages : place'[m] = "queued" => receives'[m] < MaxReceives
    BY <1>0, <1>1, <2>1, BoundsAssumption DEF TypeInv, TypeOK, SendTimeout, Send
  <2> QED
    BY <2>5, <2>6 DEF TypeInv
<1>2. CASE FanOut \/ CheckScheduled \/ MarkScheduled
  <2>1. TypeOK'
    BY <1>0, <1>2 DEF TypeOK, FanOut, CheckScheduled, MarkScheduled, Labels
  <2> QED
    BY <1>2, <2>1 DEF TypeInv, FanOut, CheckScheduled, MarkScheduled
<1> QED
  BY <1>1, <1>2 DEF RecordStep

LEMMA MessageStepType ==
    ASSUME TypeInv, NEW m \in Messages, MessageStep(m)
    PROVE  TypeInv'
<1>0. TypeOK
  BY DEF TypeInv
<1>1. CASE Receive(m)
  <2>1. receives[m] \in 0..MaxReceives /\ receives[m] < MaxReceives
    BY <1>0, <1>1 DEF TypeInv, TypeOK, Receive
  <2>2. receives[m] + 1 \in 0..MaxReceives
    BY <2>1, BoundsAssumption
  <2>3. TypeOK'
    BY <1>0, <1>1, <2>2 DEF TypeOK, Receive, Places
  <2>4. \A n \in Messages : place'[n] = "queued" => receives'[n] < MaxReceives
    BY <1>0, <1>1 DEF TypeInv, TypeOK, Receive
  <2> QED
    BY <2>3, <2>4 DEF TypeInv
<1>2. CASE Hop(m)
  <2>1. NewMessage \in Messages
    BY <1>2, NewIsFree DEF Hop, Send
  <2>2. now + HopDelay \in Nat /\ 0 \in 0..MaxReceives
    BY <1>0, <1>2, DelayBounds, BoundsAssumption DEF TypeOK, Hop
  <2>3. /\ place' \in [Messages -> Places]
        /\ visibleAt' \in [Messages -> Nat]
        /\ receives' \in [Messages -> 0..MaxReceives]
    BY <1>0, <1>2, <2>1, <2>2 DEF TypeOK, Hop, Send, Places
  <2>4. TypeOK'
    BY <1>0, <1>2, <2>3 DEF TypeOK, Hop
  <2>5. \A n \in Messages : place'[n] = "queued" => receives'[n] < MaxReceives
    BY <1>0, <1>2, <2>1, BoundsAssumption DEF TypeInv, TypeOK, Hop, Send
  <2> QED
    BY <2>4, <2>5 DEF TypeInv
<1>3. CASE Fire(m) \/ Delete(m)
  <2>1. TypeOK'
    BY <1>0, <1>3 DEF TypeOK, Fire, Delete, Places
  <2>2. \A n \in Messages : place'[n] = "queued" => receives'[n] < MaxReceives
    BY <1>0, <1>3 DEF TypeInv, TypeOK, Fire, Delete
  <2> QED
    BY <2>1, <2>2 DEF TypeInv
<1> QED
  BY <1>1, <1>2, <1>3 DEF MessageStep

LEMMA FailureType ==
    ASSUME TypeInv, FailRecord \/ \E m \in Messages : FailMessage(m) \/ Duplicate(m)
    PROVE  TypeInv'
<1>0. TypeOK
  BY DEF TypeInv
<1>1. CASE FailRecord
  <2>1. TypeOK'
    BY <1>0, <1>1, BoundsAssumption DEF TypeOK, FailRecord, SomethingFails, Labels
  <2> QED
    BY <1>1, <2>1 DEF TypeInv, FailRecord
<1>2. ASSUME NEW m \in Messages, FailMessage(m)
      PROVE  TypeInv'
  <2>1. /\ failures' \in 0..MaxFailures
        /\ copies' \in 0..failures'
    BY <1>0, <1>2, BoundsAssumption DEF TypeOK, FailMessage, SomethingFails
  <2>2. now + Visibility \in Nat
    BY <1>0, TimesAssumption DEF TypeOK
  <2>3. /\ place' \in [Messages -> Places]
        /\ visibleAt' \in [Messages -> Nat]
    BY <1>0, <1>2, <2>2 DEF TypeOK, FailMessage, Places
  <2>4. TypeOK'
    BY <1>0, <1>2, <2>1, <2>3 DEF TypeOK, FailMessage
  <2>5. \A n \in Messages : place'[n] = "queued" => receives'[n] < MaxReceives
    BY <1>0, <1>2 DEF TypeInv, TypeOK, FailMessage, Receivable
  <2> QED
    BY <2>4, <2>5 DEF TypeInv
<1>3. ASSUME NEW m \in Messages, Duplicate(m)
      PROVE  TypeInv'
  <2>1. NewMessage \in Messages
    BY <1>3, NewIsFree DEF Duplicate
  <2>2. TypeOK'
    BY <1>0, <1>3, <2>1, BoundsAssumption DEF TypeOK, Duplicate, SomethingFails, Places
  <2>3. \A n \in Messages : place'[n] = "queued" => receives'[n] < MaxReceives
    BY <1>0, <1>3, <2>1 DEF TypeInv, TypeOK, Duplicate
  <2> QED
    BY <2>2, <2>3 DEF TypeInv
<1> QED
  BY <1>1, <1>2, <1>3

LEMMA NextType == TypeInv /\ [Next]_vars => TypeInv'
<1> SUFFICES ASSUME TypeInv, [Next]_vars PROVE TypeInv'
  OBVIOUS
<1>1. CASE Tick
  BY <1>1 DEF TypeInv, TypeOK, Tick
<1>2. CASE UNCHANGED vars
  BY <1>2 DEF TypeInv, TypeOK, vars
<1> QED
  BY <1>1, <1>2, RecordStepType, MessageStepType, FailureType DEF Next

\* Every attribute, clock value and count stays in range, for any bounds.
THEOREM TypeCorrect == Spec => []TypeOK
<1>1. TypeInv => TypeOK
  BY DEF TypeInv
<1> QED
  BY <1>1, InitType, NextType, PTL DEF Spec

-----------------------------------------------------------------------------
(* Some message is always on its way, and in time.                         *)

\* What SQS and failures may have added to the due time.
Delay == failures * (Visibility + Lag)

\* A queued message is not overdue by more than the lag.
QueuedInTime == \A m \in Messages : place[m] = "queued" => now <= visibleAt[m] + Lag

\* m will be received in time, or has been.
Timely(m) ==
    \/ place[m] = "held" /\ now <= due + Lag + Delay
    \/ place[m] = "queued" /\ visibleAt[m] <= due + Delay

SomeMessageIsTimely == due # 0 /\ ~fired /\ ~InDLQ => \E m \in Messages : Timely(m)

DueInv ==
    /\ due # 0 => due >= Target
    /\ scheduled \/ pc = "mark" => due # 0

TInv == TypeInv /\ QueuedInTime /\ SomeMessageIsTimely /\ DueInv

LEMMA DelayFacts ==
    ASSUME TypeOK
    PROVE  /\ Delay \in Nat
           /\ failures' = failures => Delay' = Delay
           /\ failures' = failures + 1 => Delay' = Delay + Visibility + Lag
<1> DEFINE K == Visibility + Lag
<1>1. K \in Nat /\ failures \in Nat
  BY TimesAssumption, BoundsAssumption DEF TypeOK
<1>2. failures * K \in Nat /\ (failures + 1) * K = failures * K + K
  BY <1>1
<1>3. Delay = failures * K /\ Delay' = failures' * K
  BY DEF Delay
<1>4. K = Visibility + Lag
  OBVIOUS
<1> QED
  BY <1>2, <1>3, <1>4, TimesAssumption

LEMMA InitTimely == Init => TInv
BY InitType DEF Init, TInv, QueuedInTime, SomeMessageIsTimely, DueInv

\* A message that is timely stays so if neither it nor the times change.
LEMMA StillTimely ==
    ASSUME TInv, TypeOK', NEW m \in Messages, Timely(m),
           place'[m] = place[m], visibleAt'[m] = visibleAt[m],
           now' = now, due' = due,
           failures' = failures \/ failures' = failures + 1
    PROVE  Timely(m)'
<1>1. Delay \in Nat /\ Delay' \in Nat /\ Delay <= Delay'
  BY DelayFacts, TimesAssumption DEF TInv, TypeInv, TypeOK
<1>2. now \in Nat /\ due \in Nat /\ visibleAt[m] \in Nat
  BY DEF TInv, TypeInv, TypeOK
<1>3. CASE place[m] = "held" /\ now <= due + Lag + Delay
  <2>1. \A a, b, c, d, e \in Nat : a <= b + c + d /\ d <= e => a <= b + c + e
    OBVIOUS
  <2>2. now <= due + Lag + Delay'
    BY <1>1, <1>2, <1>3, <2>1, TimesAssumption, Zenon
  <2> QED
    BY <1>3, <2>2 DEF Timely
<1>4. CASE place[m] = "queued" /\ visibleAt[m] <= due + Delay
  BY <1>1, <1>2, <1>4 DEF Timely
<1> QED
  BY <1>3, <1>4 DEF Timely

LEMMA RecordStepTimely ==
    ASSUME TInv, RecordStep \/ FailRecord
    PROVE  TInv'
<1>0. /\ TypeOK /\ TypeOK'
      /\ TypeInv'
  BY NextType DEF TInv, TypeInv, Next
<1>1. CASE SendTimeout
  <2>1. NewMessage \in Messages /\ place[NewMessage] = "free"
    BY <1>1, NewIsFree DEF SendTimeout, Send
  <2>2. /\ place' = [place EXCEPT ![NewMessage] = "queued"]
        /\ visibleAt' = [visibleAt EXCEPT ![NewMessage] = now + FirstDelay]
        /\ UNCHANGED <<now, scheduled, fired, failures>>
    BY <1>1 DEF SendTimeout, Send
  <2>3. QueuedInTime'
    BY <1>0, <2>1, <2>2, DelayBounds, TimesAssumption DEF TInv, QueuedInTime, TypeOK
  <2>4. DueInv'
    BY <1>0, <1>1, DelayBounds DEF TInv, DueInv, SendTimeout, TypeOK
  <2>5. SomeMessageIsTimely'
    <3>1. CASE due = 0
      <4>1. PICK n \in Messages : n = NewMessage
        BY <2>1
      <4>2. place'[n] = "queued" /\ visibleAt'[n] = now + FirstDelay
        BY <1>0, <2>2, <4>1 DEF TypeOK
      <4>3. due' = Greater(Target, now + 1)
        BY <1>1, <3>1 DEF SendTimeout
      <4>4. visibleAt'[n] <= due' + Delay'
        BY <1>0, <2>2, <4>2, <4>3, DelayBounds, DelayFacts DEF TypeOK
      <4> QED
        BY <4>2, <4>4 DEF SomeMessageIsTimely, Timely
    <3>2. CASE due # 0
      <4>1. due' = due
        BY <1>1, <3>2 DEF SendTimeout
      <4>2. InDLQ => InDLQ'
        BY <1>0, <2>1, <2>2 DEF InDLQ, TypeOK
      <4>3. ASSUME NEW m \in Messages, Timely(m)
            PROVE  Timely(m)'
        <5>1. m # NewMessage
          BY <2>1, <4>3 DEF Timely
        <5> QED
          BY <1>0, <2>1, <2>2, <4>1, <4>3, <5>1, StillTimely DEF TypeOK
      <4> QED
        BY <2>2, <3>2, <4>1, <4>2, <4>3 DEF TInv, SomeMessageIsTimely
    <3> QED
      BY <3>1, <3>2
  <2> QED
    BY <1>0, <2>3, <2>4, <2>5 DEF TInv
<1>2. CASE FanOut \/ CheckScheduled \/ MarkScheduled \/ FailRecord
  <2>1. /\ UNCHANGED <<now, place, visibleAt, fired, due>>
        /\ failures' = failures \/ failures' = failures + 1
    BY <1>2 DEF FanOut, CheckScheduled, MarkScheduled, FailRecord, SomethingFails
  <2>2. QueuedInTime'
    BY <2>1 DEF TInv, QueuedInTime
  <2>3. SomeMessageIsTimely'
    BY <1>0, <2>1, StillTimely DEF TInv, SomeMessageIsTimely, InDLQ
  <2>4. DueInv'
    BY <1>2, <2>1
    DEF TInv, DueInv, FanOut, CheckScheduled, MarkScheduled, MarkDue, FailRecord
  <2> QED
    BY <1>0, <2>2, <2>3, <2>4 DEF TInv
<1> QED
  BY <1>1, <1>2 DEF RecordStep

LEMMA MessageStepTimely ==
    ASSUME TInv, NEW m \in Messages, MessageStep(m)
    PROVE  TInv'
<1>0. /\ TypeOK /\ TypeOK'
      /\ TypeInv'
  BY NextType DEF TInv, TypeInv, Next
<1>1. /\ UNCHANGED <<now, pc, scheduled, due, failures>>
      /\ DueInv'
  BY DEF MessageStep, Receive, Hop, Fire, Delete, TInv, DueInv
<1>2. CASE Receive(m)
  <2>1. QueuedInTime'
    BY <1>0, <1>1, <1>2 DEF TInv, QueuedInTime, Receive, TypeOK
  <2>2. InDLQ => InDLQ'
    BY <1>0, <1>2 DEF InDLQ, Receive, TypeOK
  <2>3. Timely(m) => Timely(m)'
    BY <1>0, <1>1, <1>2, DelayFacts, TimesAssumption
    DEF Timely, Receive, TInv, QueuedInTime, TypeOK
  <2>4. ASSUME NEW n \in Messages, n # m, Timely(n)
        PROVE  Timely(n)'
    BY <1>0, <1>1, <1>2, <2>4, StillTimely DEF Receive, TypeOK
  <2>5. SomeMessageIsTimely'
    BY <1>1, <1>2, <2>2, <2>3, <2>4 DEF TInv, SomeMessageIsTimely, Receive
  <2> QED
    BY <1>0, <1>1, <2>1, <2>5 DEF TInv
<1>3. CASE Hop(m)
  <2>1. NewMessage \in Messages /\ place[NewMessage] = "free"
    BY <1>3, NewIsFree DEF Hop, Send
  <2>2. /\ place' = [place EXCEPT ![m] = "handled", ![NewMessage] = "queued"]
        /\ visibleAt' = [visibleAt EXCEPT ![NewMessage] = now + HopDelay]
        /\ place[m] = "held"
        /\ HopDelay \in Nat
        /\ now + HopDelay <= Target
        /\ UNCHANGED fired
    BY <1>0, <1>3, DelayBounds DEF Hop, Send
  <2>3. QueuedInTime'
    BY <1>0, <1>1, <2>1, <2>2, TimesAssumption DEF TInv, QueuedInTime, TypeOK
  <2>4. PICK n \in Messages : n = NewMessage
    BY <2>1
  <2>5. place'[n] = "queued" /\ visibleAt'[n] = now + HopDelay
    BY <1>0, <2>1, <2>2, <2>4 DEF TypeOK
  <2>6. ASSUME due # 0
        PROVE  visibleAt'[n] <= due + Delay'
    <3>1. due >= Target /\ due \in Nat /\ now \in Nat
      BY <1>0, <2>6 DEF TInv, DueInv, TypeOK
    <3>2. Delay' \in Nat
      BY <1>0, <1>1, DelayFacts
    <3> QED
      BY <2>2, <2>5, <3>1, <3>2, TimesAssumption
  <2>7. SomeMessageIsTimely'
    BY <1>1, <2>5, <2>6 DEF SomeMessageIsTimely, Timely
  <2> QED
    BY <1>0, <1>1, <2>3, <2>7 DEF TInv
<1>4. CASE Fire(m)
  BY <1>0, <1>1, <1>4 DEF TInv, QueuedInTime, SomeMessageIsTimely, Fire, TypeOK
<1>5. CASE Delete(m)
  <2>1. QueuedInTime'
    BY <1>0, <1>1, <1>5 DEF TInv, QueuedInTime, Delete, TypeOK
  <2>2. InDLQ => InDLQ'
    BY <1>0, <1>5 DEF InDLQ, Delete, TypeOK
  <2>3. ASSUME NEW n \in Messages, Timely(n)
        PROVE  Timely(n)'
    <3>1. n # m
      BY <1>5, <2>3 DEF Timely, Delete
    <3> QED
      BY <1>0, <1>1, <1>5, <2>3, <3>1, StillTimely DEF Delete, TypeOK
  <2>4. SomeMessageIsTimely'
    BY <1>1, <1>5, <2>2, <2>3 DEF TInv, SomeMessageIsTimely, Delete
  <2> QED
    BY <1>0, <1>1, <2>1, <2>4 DEF TInv
<1> QED
  BY <1>2, <1>3, <1>4, <1>5 DEF MessageStep

LEMMA FailMessageTimely ==
    ASSUME TInv, NEW m \in Messages, FailMessage(m)
    PROVE  TInv'
<1>0. /\ TypeOK /\ TypeOK'
      /\ TypeInv'
  BY NextType DEF TInv, TypeInv, Next
<1>1. /\ UNCHANGED <<now, pc, scheduled, due, fired>>
      /\ failures' = failures + 1
      /\ DueInv'
  BY DEF FailMessage, SomethingFails, TInv, DueInv
<1>2. CASE Receivable(m)
  <2>1. /\ place' = [place EXCEPT ![m] = "queued"]
        /\ visibleAt' = [visibleAt EXCEPT ![m] = now + Visibility]
    BY <1>2 DEF FailMessage
  <2>2. QueuedInTime'
    BY <1>0, <1>1, <2>1, TimesAssumption DEF TInv, QueuedInTime, TypeOK
  <2>3. InDLQ => InDLQ'
    BY <1>0, <2>1 DEF InDLQ, FailMessage, TypeOK
  <2>4. Timely(m) => Timely(m)'
    <3>1. SUFFICES ASSUME Timely(m) PROVE Timely(m)'
      OBVIOUS
    <3>2. now <= due + Lag + Delay
      BY <3>1 DEF Timely, FailMessage
    <3>3. now + Visibility <= due + Delay'
      BY <1>0, <1>1, <3>2, DelayFacts, TimesAssumption DEF TypeOK
    <3> QED
      BY <1>0, <1>1, <2>1, <3>3 DEF Timely, TypeOK
  <2>5. ASSUME NEW n \in Messages, n # m, Timely(n)
        PROVE  Timely(n)'
    BY <1>0, <1>1, <2>1, <2>5, StillTimely DEF TypeOK
  <2>6. SomeMessageIsTimely'
    BY <1>1, <2>3, <2>4, <2>5 DEF TInv, SomeMessageIsTimely
  <2> QED
    BY <1>0, <1>1, <2>2, <2>6 DEF TInv
<1>3. CASE ~Receivable(m)
  <2>1. place' = [place EXCEPT ![m] = "dead"] /\ UNCHANGED visibleAt
    BY <1>3 DEF FailMessage
  <2>2. QueuedInTime' /\ InDLQ'
    BY <1>0, <1>1, <2>1 DEF TInv, QueuedInTime, InDLQ, TypeOK
  <2> QED
    BY <1>0, <1>1, <2>2 DEF TInv, SomeMessageIsTimely
<1> QED
  BY <1>2, <1>3

LEMMA DuplicateTimely ==
    ASSUME TInv, NEW m \in Messages, Duplicate(m)
    PROVE  TInv'
<1>0. /\ TypeOK /\ TypeOK'
      /\ TypeInv'
  BY NextType DEF TInv, TypeInv, Next
<1>1. NewMessage \in Messages /\ place[NewMessage] = "free"
  BY NewIsFree DEF Duplicate
<1>2. /\ place' = [place EXCEPT ![NewMessage] = "queued"]
      /\ visibleAt' = [visibleAt EXCEPT ![NewMessage] = visibleAt[m]]
      /\ UNCHANGED <<now, pc, scheduled, due, fired>>
      /\ failures' = failures + 1
      /\ place[m] = "queued"
  BY DEF Duplicate, SomethingFails
<1>3. DueInv'
  BY <1>2 DEF TInv, DueInv
<1>4. QueuedInTime'
  BY <1>0, <1>1, <1>2 DEF TInv, QueuedInTime, TypeOK
<1>5. InDLQ => InDLQ'
  BY <1>0, <1>1, <1>2 DEF InDLQ, TypeOK
<1>6. ASSUME NEW n \in Messages, Timely(n)
      PROVE  Timely(n)'
  <2>1. n # NewMessage
    BY <1>1, <1>6 DEF Timely
  <2> QED
    BY <1>0, <1>1, <1>2, <1>6, <2>1, StillTimely DEF TypeOK
<1>7. SomeMessageIsTimely'
  BY <1>2, <1>5, <1>6 DEF TInv, SomeMessageIsTimely
<1> QED
  BY <1>0, <1>3, <1>4, <1>7 DEF TInv

LEMMA TickTimely ==
    ASSUME TInv, Tick
    PROVE  TInv'
<1>0. /\ TypeOK /\ TypeOK'
      /\ TypeInv'
  BY NextType DEF TInv, TypeInv, Next
<1>1. QueuedInTime'
  BY <1>0, TimesAssumption DEF QueuedInTime, Tick, TypeOK
<1>2. ASSUME NEW n \in Messages, Timely(n)
      PROVE  Timely(n)'
  BY <1>0, <1>2, DelayFacts DEF Timely, Tick
<1>3. SomeMessageIsTimely'
  BY <1>2 DEF TInv, SomeMessageIsTimely, InDLQ, Tick
<1>4. DueInv'
  BY DEF TInv, DueInv, Tick
<1> QED
  BY <1>0, <1>1, <1>3, <1>4 DEF TInv

LEMMA NextTimely == TInv /\ [Next]_vars => TInv'
<1> SUFFICES ASSUME TInv, [Next]_vars PROVE TInv'
  OBVIOUS
<1>1. CASE UNCHANGED vars
  BY <1>1 DEF vars, TInv, TypeInv, TypeOK, QueuedInTime, SomeMessageIsTimely, Timely, Delay, InDLQ,
              DueInv
<1> QED
  BY <1>1, RecordStepTimely, MessageStepTimely, FailMessageTimely, DuplicateTimely, TickTimely
  DEF Next

LEMMA TimelyHolds == Spec => []TInv
BY InitTimely, NextTimely, PTL DEF Spec

\* The timeout fires in time whatever the delays, the number of hops and the failures:
\* what SQS is late counts once, not once per hop.
THEOREM FiresInTime == Spec => []FiresOnTime
<1>1. TInv => FiresOnTime
  <2> SUFFICES ASSUME TInv, due # 0, ~fired, ~InDLQ
               PROVE  now <= due + Lag + Delay
    BY DelayFacts, TimesAssumption DEF FiresOnTime, Delay, TInv, TypeInv, TypeOK
  <2>1. PICK m \in Messages : Timely(m)
    BY DEF TInv, SomeMessageIsTimely
  <2> QED
    BY <2>1, DelayFacts, TimesAssumption DEF TInv, TypeInv, Timely, QueuedInTime, TypeOK
<1> QED
  BY <1>1, TimelyHolds, PTL

\* A record that says "scheduled" has a message under way until the timeout fires.
THEOREM MarkerIsTrue == Spec => []MarkedIsUnderWay
<1>1. TInv => MarkedIsUnderWay
  BY DEF TInv, DueInv, SomeMessageIsTimely, Timely, MarkedIsUnderWay, Live
<1> QED
  BY <1>1, TimelyHolds, PTL

-----------------------------------------------------------------------------
(* The number of messages.                                                 *)

\* One message is allowed by the send that the marker records or is about to.
Sent == scheduled \/ pc = "mark"
Allowed == IF Sent THEN copies + 1 ELSE copies

UnmarkedSend == pc \in {"send", "mark"} => ~scheduled

CInv == TypeInv /\ UnmarkedSend /\ Cardinality(Live) <= Allowed

LEMMA LiveIsFinite == IsFiniteSet(Live) /\ Cardinality(Live) \in Nat
<1>1. IsFiniteSet(Live)
  BY BoundsAssumption, FS_Subset DEF Live
<1> QED
  BY <1>1, FS_CardinalityType

LEMMA LiveChanges ==
    ASSUME NEW m
    PROVE  /\ m \notin Live => Cardinality(Live \union {m}) = Cardinality(Live) + 1
           /\ m \in Live => Cardinality(Live \ {m}) = Cardinality(Live) - 1
BY LiveIsFinite, FS_AddElement, FS_RemoveElement

LEMMA AllowedFacts ==
    ASSUME TypeOK, TypeOK'
    PROVE  /\ copies \in Nat /\ copies' \in Nat
           /\ Allowed \in Nat
           /\ (Sent' <=> Sent) /\ copies' = copies => Allowed' = Allowed
           /\ (Sent' <=> Sent) /\ copies' = copies + 1 => Allowed' = Allowed + 1
<1>1. copies \in Nat /\ copies' \in Nat
  BY DEF TypeOK
<1>2. CASE Sent
  <2>1. Allowed = copies + 1 /\ (Sent' => Allowed' = copies' + 1)
    BY <1>2 DEF Allowed
  <2> QED
    BY <1>1, <1>2, <2>1
<1>3. CASE ~Sent
  <2>1. Allowed = copies /\ (~Sent' => Allowed' = copies')
    BY <1>3 DEF Allowed
  <2> QED
    BY <1>1, <1>3, <2>1
<1> QED
  BY <1>2, <1>3

\* The steps that leave the messages alone.
LEMMA RecordCounts ==
    ASSUME CInv, TypeInv', FanOut \/ CheckScheduled \/ MarkScheduled \/ FailRecord \/ Tick
    PROVE  CInv'
<1>0. TypeOK /\ TypeOK'
  BY DEF CInv, TypeInv
<1>1. Live' = Live
  BY DEF FanOut, CheckScheduled, MarkScheduled, FailRecord, Tick, Live
<1>2. UnmarkedSend'
  BY DEF CInv, UnmarkedSend, FanOut, CheckScheduled, AlreadyScheduled, MarkScheduled,
         FailRecord, Tick
<1>3. Allowed' \in Nat /\ Allowed <= Allowed'
  <2>1. CASE FailRecord /\ pc = "mark"
    <3>1. Sent /\ copies' = copies + 1
      BY <2>1 DEF Sent, FailRecord
    <3> QED
      BY <1>0, <3>1, AllowedFacts DEF Allowed
  <2>2. CASE ~(FailRecord /\ pc = "mark")
    <3>1. copies' = copies
      BY <2>2 DEF FanOut, CheckScheduled, MarkScheduled, FailRecord, Tick
    <3>2. Sent => Sent'
      BY <2>2 DEF Sent, FanOut, CheckScheduled, MarkScheduled, FailRecord, Tick
    <3> QED
      BY <1>0, <3>1, <3>2, AllowedFacts DEF Allowed
  <2> QED
    BY <2>1, <2>2
<1> QED
  BY <1>0, <1>1, <1>2, <1>3, LiveIsFinite, AllowedFacts DEF CInv

LEMMA SendCounts ==
    ASSUME CInv, TypeInv', SendTimeout
    PROVE  CInv'
<1>0. TypeOK /\ TypeOK'
  BY DEF CInv, TypeInv
<1>1. NewMessage \in Messages /\ place[NewMessage] = "free"
  BY NewIsFree DEF SendTimeout, Send
<1>2. Live' = Live \union {NewMessage} /\ NewMessage \notin Live
  BY <1>0, <1>1 DEF Live, SendTimeout, Send, TypeOK
<1>3. ~Sent /\ Sent' /\ UnmarkedSend'
  BY DEF CInv, UnmarkedSend, Sent, SendTimeout
<1>4. copies' = copies
  BY DEF SendTimeout
<1>5. Allowed = copies /\ Allowed' = copies + 1
  BY <1>3, <1>4 DEF Allowed
<1> QED
  BY <1>0, <1>2, <1>3, <1>5, LiveIsFinite, LiveChanges, AllowedFacts DEF CInv

\* A hop puts one message in the place of another.
LEMMA HopReplaces ==
    ASSUME TypeOK, TypeOK', NEW m \in Messages, Hop(m)
    PROVE  Cardinality(Live') = Cardinality(Live)
<1>1. NewMessage \in Messages /\ place[NewMessage] = "free"
  BY NewIsFree DEF Hop, Send
<1>2. /\ Live' = (Live \ {m}) \union {NewMessage}
      /\ NewMessage \notin Live \ {m} /\ m \in Live
  BY <1>1 DEF Live, Hop, Send, TypeOK
<1>3. IsFiniteSet(Live \ {m})
  BY LiveIsFinite, FS_RemoveElement
<1>4. Cardinality(Live') = Cardinality(Live \ {m}) + 1
  BY <1>2, <1>3, FS_AddElement
<1> QED
  BY <1>2, <1>4, LiveIsFinite, LiveChanges

LEMMA MessageCounts ==
    ASSUME CInv, TypeInv', NEW m \in Messages,
           MessageStep(m) \/ FailMessage(m) \/ Duplicate(m)
    PROVE  CInv'
<1>0. TypeOK /\ TypeOK'
  BY DEF CInv, TypeInv
<1>1. (Sent' <=> Sent) /\ UnmarkedSend'
  BY DEF MessageStep, Receive, Hop, Fire, Delete, FailMessage, Duplicate, CInv, UnmarkedSend,
         Sent
<1>2. ASSUME Cardinality(Live') <= Cardinality(Live), Cardinality(Live') \in Nat,
             copies' = copies
      PROVE  CInv'
  BY <1>0, <1>1, <1>2, AllowedFacts, LiveIsFinite DEF CInv
<1>3. ASSUME Cardinality(Live') = Cardinality(Live) + 1, copies' = copies + 1
      PROVE  CInv'
  BY <1>0, <1>1, <1>3, AllowedFacts, LiveIsFinite DEF CInv
<1>4. ASSUME Live' \subseteq Live
      PROVE  Cardinality(Live') <= Cardinality(Live) /\ Cardinality(Live') \in Nat
  BY <1>4, LiveIsFinite, FS_Subset, FS_CardinalityType
<1>5. CASE Hop(m)
  <2>1. Cardinality(Live') <= Cardinality(Live) /\ Cardinality(Live') \in Nat
    BY <1>0, <1>5, HopReplaces, LiveIsFinite
  <2> QED
    BY <1>2, <1>5, <2>1 DEF Hop
<1>6. CASE Receive(m) \/ Fire(m) \/ Delete(m)
  <2>1. Live' \subseteq Live /\ copies' = copies
    BY <1>0, <1>6 DEF Live, Receive, Fire, Delete, TypeOK
  <2> QED
    BY <1>2, <1>4, <2>1
<1>7. CASE FailMessage(m) /\ place[m] = "handled" /\ Receivable(m)
  <2>1. Live' = Live \union {m} /\ m \notin Live
    BY <1>0, <1>7 DEF Live, FailMessage, TypeOK
  <2>2. copies' = copies + 1
    BY <1>7 DEF FailMessage
  <2> QED
    BY <1>3, <2>1, <2>2, LiveChanges
<1>8. CASE FailMessage(m) /\ ~(place[m] = "handled" /\ Receivable(m))
  <2>1. Live' \subseteq Live
    BY <1>0, <1>8 DEF Live, FailMessage, TypeOK
  <2>2. copies' = copies
    BY <1>8 DEF FailMessage
  <2> QED
    BY <1>2, <1>4, <2>1, <2>2
<1>9. CASE Duplicate(m)
  <2>1. NewMessage \in Messages /\ place[NewMessage] = "free"
    BY <1>9, NewIsFree DEF Duplicate
  <2>2. Live' = Live \union {NewMessage} /\ NewMessage \notin Live
    BY <1>0, <1>9, <2>1 DEF Live, Duplicate, TypeOK
  <2>3. copies' = copies + 1
    BY <1>9 DEF Duplicate
  <2> QED
    BY <1>3, <2>2, <2>3, LiveChanges
<1> QED
  BY <1>5, <1>6, <1>7, <1>8, <1>9 DEF MessageStep

LEMMA NextCounts == CInv /\ [Next]_vars => CInv'
<1> SUFFICES ASSUME CInv, [Next]_vars PROVE CInv'
  OBVIOUS
<1>0. TypeInv'
  BY NextType DEF CInv
<1>1. CASE UNCHANGED vars
  <2>1. Live' = Live /\ (Sent' <=> Sent) /\ UnmarkedSend' /\ copies' = copies
    BY <1>1 DEF vars, Live, Sent, UnmarkedSend, CInv
  <2> QED
    BY <1>0, <2>1, AllowedFacts DEF CInv, TypeInv
<1> QED
  BY <1>0, <1>1, RecordCounts, SendCounts, MessageCounts DEF Next, RecordStep

LEMMA CountHolds == Spec => []CInv
<1>1. Init => CInv
  <2>1. Init => Live = {}
    BY DEF Init, Live
  <2> QED
    BY <2>1, InitType, FS_EmptySet DEF Init, CInv, UnmarkedSend, Sent, Allowed
<1> QED
  BY <1>1, NextCounts, PTL DEF Spec

\* One message per transfer, and one more per failure that may have repeated a send.
THEOREM MessagesDoNotMultiply == Spec => []NoAmplification
<1>1. CInv => NoAmplification
  <2> SUFFICES ASSUME CInv PROVE NoAmplification
    OBVIOUS
  <2>1. copies \in Nat /\ Cardinality(Live) \in Nat
    BY LiveIsFinite DEF CInv, TypeInv, TypeOK
  <2> QED
    BY <2>1 DEF CInv, Allowed, NoAmplification
<1> QED
  BY <1>1, CountHolds, PTL

-----------------------------------------------------------------------------
(* The abstract call.                                                      *)

LEMMA CallInit == Init => Call!Init
<1>1. Init => Live = {} /\ ~InDLQ
  BY DEF Init, Live, InDLQ
<1> QED
  BY <1>1, FS_EmptySet DEF Init, Call!Init

\* The messages of the record's handling.
LEMMA RecordRefines ==
    ASSUME TInv, CInv, TypeInv', RecordStep \/ FailRecord
    PROVE  Call!Next \/ UNCHANGED Call!vars
<1>0. TypeOK /\ TypeOK'
  BY DEF TInv, TypeInv
<1>1. CASE SendTimeout
  <2>1. NewMessage \in Messages /\ place[NewMessage] = "free"
    BY <1>1, NewIsFree DEF SendTimeout, Send
  <2>2. Live' = Live \union {NewMessage} /\ NewMessage \notin Live /\ InDLQ' = InDLQ
    BY <1>0, <1>1, <2>1 DEF Live, InDLQ, SendTimeout, Send, TypeOK
  <2>3. Cardinality(Live') = Cardinality(Live) + 1
    BY <2>2, LiveChanges
  <2>4. /\ ~(scheduled \/ pc = "mark") /\ (scheduled \/ pc = "mark")' = TRUE
        /\ UNCHANGED <<now, fired, failures>>
    BY <1>1 DEF CInv, UnmarkedSend, SendTimeout
  <2>5. due' = IF due # 0 THEN due ELSE IF Target > now + 1 THEN Target ELSE now + 1
    BY <1>1 DEF SendTimeout, Greater
  <2> QED
    BY <2>2, <2>3, <2>4, <2>5 DEF Call!Next, Call!Ask
<1>2. CASE FanOut \/ CheckScheduled \/ MarkScheduled
  <2>1. Live' = Live /\ InDLQ' = InDLQ /\ UNCHANGED <<now, due, fired, failures>>
    BY <1>2 DEF FanOut, CheckScheduled, MarkScheduled, Live, InDLQ
  <2>2. (scheduled \/ pc = "mark")' = (scheduled \/ pc = "mark")
    BY <1>0, <1>2
    DEF FanOut, CheckScheduled, AlreadyScheduled, MarkScheduled, MarkDue, TypeOK
  <2> QED
    BY <2>1, <2>2 DEF Call!vars
<1>3. CASE FailRecord
  <2>1. /\ Live' = Live /\ InDLQ' = InDLQ
        /\ UNCHANGED <<now, due, fired>> /\ failures' = failures + 1
    BY <1>3 DEF FailRecord, SomethingFails, Live, InDLQ
  <2>2. \/ (scheduled \/ pc = "mark")' = (scheduled \/ pc = "mark")
        \/ (scheduled \/ pc = "mark")' = FALSE
    BY <1>0, <1>3 DEF FailRecord, TypeOK
  <2> QED
    BY <2>1, <2>2 DEF Call!Next, Call!Setback
<1> QED
  BY <1>1, <1>2, <1>3 DEF RecordStep

\* Receiving, hopping and deleting change nothing; firing is the call.
LEMMA MessageRefines ==
    ASSUME TInv, CInv, TypeInv', NEW m \in Messages, MessageStep(m)
    PROVE  Call!Next \/ UNCHANGED Call!vars
<1>0. TypeOK /\ TypeOK'
  BY DEF TInv, TypeInv
<1>1. UNCHANGED <<now, pc, scheduled, due, failures>>
  BY DEF MessageStep, Receive, Hop, Fire, Delete
<1>2. CASE Receive(m) \/ Delete(m)
  <2>1. Live' = Live /\ InDLQ' = InDLQ /\ fired' = fired
    BY <1>0, <1>2 DEF Receive, Delete, Live, InDLQ, TypeOK
  <2> QED
    BY <1>1, <2>1 DEF Call!vars
<1>3. CASE Hop(m)
  <2>1. NewMessage \in Messages /\ place[NewMessage] = "free"
    BY <1>3, NewIsFree DEF Hop, Send
  <2>2. Cardinality(Live') = Cardinality(Live)
    BY <1>0, <1>3, HopReplaces
  <2>3. InDLQ' = InDLQ /\ fired' = fired
    BY <1>0, <1>3, <2>1 DEF Hop, Send, InDLQ, TypeOK
  <2> QED
    BY <1>1, <2>2, <2>3 DEF Call!vars
<1>4. CASE Fire(m)
  <2>1. Live' = Live \ {m} /\ m \in Live /\ InDLQ' = InDLQ /\ fired' = TRUE
    BY <1>0, <1>4 DEF Fire, Live, InDLQ, TypeOK
  <2>2. Cardinality(Live') = Cardinality(Live) - 1 /\ Cardinality(Live) > 0
    <3>1. Cardinality(Live') = Cardinality(Live) - 1
      BY <2>1, LiveChanges
    <3>2. Cardinality(Live') \in Nat
      BY <2>1, LiveIsFinite, FS_Subset, FS_CardinalityType
    <3> QED
      BY <3>1, <3>2, LiveIsFinite
  <2>3. now >= Target
    BY <1>4 DEF Fire
  <2> QED
    BY <1>1, <2>1, <2>2, <2>3 DEF Call!Next, Call!Call
<1> QED
  BY <1>2, <1>3, <1>4 DEF MessageStep

\* A message that comes again, or ends in the DLQ.
LEMMA FailMessageRefines ==
    ASSUME TInv, CInv, TypeInv', NEW m \in Messages, FailMessage(m)
    PROVE  Call!Next \/ UNCHANGED Call!vars
<1>0. TypeOK /\ TypeOK'
  BY DEF TInv, TypeInv
<1>1. UNCHANGED <<now, pc, scheduled, due, fired>> /\ failures' = failures + 1
  BY DEF FailMessage, SomethingFails
<1>2. CASE Receivable(m)
  <2>1. InDLQ' = InDLQ
    BY <1>0, <1>2 DEF FailMessage, InDLQ, TypeOK
  <2>2. CASE place[m] = "held"
    <3>1. Live' = Live
      BY <1>0, <1>2, <2>2 DEF FailMessage, Live, TypeOK
    <3> QED
      BY <1>1, <2>1, <3>1 DEF Call!Next, Call!Setback
  <2>3. CASE place[m] = "handled"
    <3>1. Live' = Live \union {m} /\ m \notin Live
      BY <1>0, <1>2, <2>3 DEF FailMessage, Live, TypeOK
    <3>2. Cardinality(Live') = Cardinality(Live) + 1
      BY <3>1, LiveChanges
    <3> QED
      BY <1>1, <2>1, <3>2 DEF Call!Next, Call!Setback
  <2> QED
    BY <2>2, <2>3 DEF FailMessage
<1>3. CASE ~Receivable(m)
  <2>1. InDLQ' = TRUE
    BY <1>0, <1>3 DEF FailMessage, InDLQ, TypeOK
  <2>2. CASE place[m] = "held"
    <3>1. Live' = Live \ {m} /\ m \in Live
      BY <1>0, <1>3, <2>2 DEF FailMessage, Live, TypeOK
    <3>2. Cardinality(Live') = Cardinality(Live) - 1
      BY <3>1, LiveChanges
    <3>3. Cardinality(Live') \in Nat
      BY <3>1, LiveIsFinite, FS_Subset, FS_CardinalityType
    <3>4. Cardinality(Live) > 0
      BY <3>2, <3>3, LiveIsFinite
    <3> QED
      BY <1>1, <2>1, <3>2, <3>4 DEF Call!Next, Call!Setback
  <2>3. CASE place[m] = "handled"
    <3>1. Live' = Live
      BY <1>0, <1>3, <2>3 DEF FailMessage, Live, TypeOK
    <3> QED
      BY <1>1, <2>1, <3>1 DEF Call!Next, Call!Setback
  <2> QED
    BY <2>2, <2>3 DEF FailMessage
<1> QED
  BY <1>2, <1>3

LEMMA DuplicateRefines ==
    ASSUME TInv, CInv, TypeInv', NEW m \in Messages, Duplicate(m)
    PROVE  Call!Next \/ UNCHANGED Call!vars
<1>0. TypeOK /\ TypeOK'
  BY DEF TInv, TypeInv
<1>1. NewMessage \in Messages /\ place[NewMessage] = "free"
  BY NewIsFree DEF Duplicate
<1>2. /\ Live' = Live \union {NewMessage} /\ NewMessage \notin Live
      /\ InDLQ' = InDLQ
  BY <1>0, <1>1 DEF Live, InDLQ, Duplicate, TypeOK
<1>3. Cardinality(Live') = Cardinality(Live) + 1
  BY <1>2, LiveChanges
<1>4. UNCHANGED <<now, pc, scheduled, due, fired>> /\ failures' = failures + 1
  BY DEF Duplicate, SomethingFails
<1> QED
  BY <1>2, <1>3, <1>4 DEF Call!Next, Call!Setback

\* The clock waits for a timely message.
LEMMA TickRefines ==
    ASSUME TInv, CInv, TypeInv', Tick
    PROVE  Call!Next \/ UNCHANGED Call!vars
<1>0. TypeOK /\ Delay \in Nat
  BY DelayFacts DEF TInv, TypeInv
<1>1. ASSUME due # 0, ~fired, ~InDLQ
      PROVE  now < due + Lag + Delay
  <2>1. PICK m \in Messages : Timely(m)
    BY <1>1 DEF TInv, SomeMessageIsTimely
  <2>2. visibleAt[m] <= due + Delay /\ now < visibleAt[m] + Lag
    BY <2>1 DEF Timely, Tick
  <2> QED
    BY <1>0, <2>2, TimesAssumption DEF TypeOK
<1>2. Live' = Live /\ InDLQ' = InDLQ
  BY DEF Tick, Live, InDLQ
<1> QED
  BY <1>1, <1>2 DEF Delay, Tick, Call!Next, Call!Tick, Call!Expected

LEMMA CallNext == TInv /\ CInv /\ [Next]_vars => [Call!Next]_(Call!vars)
<1> SUFFICES ASSUME TInv, CInv, [Next]_vars
             PROVE  Call!Next \/ UNCHANGED Call!vars
  OBVIOUS
<1>0. TypeInv'
  BY NextType DEF TInv
<1>1. CASE UNCHANGED vars
  BY <1>1 DEF vars, Live, InDLQ, Call!vars
<1> QED
  BY <1>0, <1>1, RecordRefines, MessageRefines, FailMessageRefines, DuplicateRefines,
     TickRefines DEF Next

\* The messages, their hops, repetitions and losses implement one delayed call with a
\* deadline, for any target, longest delay, visibility and lag.
THEOREM QueueImplementsCall == Spec => ImplementsCall
BY CallInit, CallNext, TimelyHolds, CountHolds, PTL DEF Spec, ImplementsCall, Call!Spec
=============================================================================
