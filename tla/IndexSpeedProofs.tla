--------------------------- MODULE IndexSpeedProofs ---------------------------
(***************************************************************************)
(* The last word of the idle monitor is what the extractor goes by, for    *)
(* any number of messages, changes and monitors.                           *)
(***************************************************************************)
EXTENDS IndexSpeed, TLAPS

Messages == [type : {"registered", "unregistered", "changed"}, idle : BOOLEAN]

\* What each variable can hold; indexSpeedChanged() tells what is so.
Types ==
  /\ {monitor, isIdle, sessionIdle, unheard} \subseteq BOOLEAN /\ requests \in Nat
  /\ bus \in Seq(Messages)
  /\ \A n \in 1..Len(bus) : bus[n].type = "unregistered" => ~bus[n].idle
  /\ thread \in {"none", "between", "batch"} /\ queued \in Seq(BOOLEAN) /\ fast \in BOOLEAN
  /\ emits = <<>> \/ emits = <<sessionIdle>>

\* Once all messages are received, m_sessionIdle is w.
Registers(n) == bus[n].type = "registered"
LastWord(w) ==
  \/ sessionIdle = w /\ \A n \in 1..Len(bus) : Registers(n)
  \/ \E n \in 1..Len(bus) : ~Registers(n) /\ bus[n].idle = w /\ \A m \in (n + 1)..Len(bus) : Registers(m)

\* What is on its way says how the session is, if there was anything to hear of it.
MessagesAreRight == LastWord(monitor /\ isIdle /\ ~unheard)

\* So does what waits for the loop of a batch.
ExtractorIsTold ==
  /\ thread = "none" => queued = <<>>
  /\ thread # "none" /\ ~untold /\ emits = <<>> =>
       /\ queued # <<>> => queued[Len(queued)] = sessionIdle
       /\ queued = <<>> /\ thread = "batch" => fast = sessionIdle

SpeedInv == Types /\ MessagesAreRight /\ ExtractorIsTold
-----------------------------------------------------------------------------
(* Sequences. *)

LEMMA Sent ==
  ASSUME NEW S, NEW s \in Seq(S), NEW e \in S
  PROVE  /\ Append(s, e) \in Seq(S) /\ Len(s) \in Nat /\ Len(Append(s, e)) = Len(s) + 1
         /\ \A n \in 1..Len(s) : Append(s, e)[n] = s[n]
         /\ Append(s, e)[Len(s) + 1] = e
OBVIOUS

LEMMA Received ==
  ASSUME NEW S, NEW s \in Seq(S), s # <<>>
  PROVE  /\ Tail(s) \in Seq(S) /\ Len(s) \in Nat \ {0} /\ Len(Tail(s)) = Len(s) - 1 /\ Head(s) = s[1] /\ Head(s) \in S
         /\ \A n \in 1..(Len(s) - 1) : Tail(s)[n] = s[n + 1]
OBVIOUS

-----------------------------------------------------------------------------
(* Messages. *)

LEMMA LastWordSent ==
  ASSUME Types, NEW w, NEW m \in Messages, bus' = Append(bus, m), sessionIdle' = sessionIdle,
         m.type = "registered" => LastWord(w), m.type # "registered" => m.idle = w
  PROVE  LastWord(w)'
<1>1. /\ Len(bus) \in Nat /\ Len(bus') = Len(bus) + 1 /\ bus'[Len(bus) + 1] = m
      /\ \A n \in 1..Len(bus) : bus'[n] = bus[n]
  BY Sent DEF Types, Messages
<1>2. CASE m.type # "registered"
  BY <1>1, <1>2 DEF LastWord, Registers
<1>3. CASE m.type = "registered" /\ sessionIdle = w /\ \A n \in 1..Len(bus) : Registers(n)
  BY <1>1, <1>3 DEF LastWord, Registers
<1>4. ASSUME m.type = "registered",
             NEW n \in 1..Len(bus), ~Registers(n), bus[n].idle = w, \A k \in (n + 1)..Len(bus) : Registers(k)
      PROVE  LastWord(w)'
  <2>1. n \in 1..Len(bus') /\ ~Registers(n)' /\ bus'[n].idle = w
    BY <1>1, <1>4 DEF Registers
  <2>2. \A k \in (n + 1)..Len(bus') : Registers(k)'
    BY <1>1, <1>4 DEF Registers
  <2> QED BY <2>1, <2>2 DEF LastWord
<1> QED BY <1>2, <1>3, <1>4 DEF LastWord

LEMMA LastWordReceived ==
  ASSUME Types, NEW w, bus # <<>>, LastWord(w), bus' = Tail(bus),
         sessionIdle' = IF Head(bus).type = "registered" THEN sessionIdle ELSE Head(bus).idle
  PROVE  LastWord(w)'
<1>1. /\ Len(bus) \in Nat \ {0} /\ Len(bus') = Len(bus) - 1 /\ Head(bus) = bus[1]
      /\ \A n \in 1..Len(bus') : bus'[n] = bus[n + 1]
  BY Received DEF Types
<1>2. CASE sessionIdle = w /\ \A n \in 1..Len(bus) : Registers(n)
  BY <1>1, <1>2 DEF LastWord, Registers
<1>3. ASSUME NEW n \in 1..Len(bus), ~Registers(n), bus[n].idle = w, \A k \in (n + 1)..Len(bus) : Registers(k)
      PROVE  LastWord(w)'
  <2>1. CASE n = 1
    <3>1. sessionIdle' = w
      BY <1>1, <1>3, <2>1 DEF Registers
    <3>2. \A k \in 1..Len(bus') : Registers(k)'
      BY <1>1, <1>3, <2>1 DEF Registers
    <3> QED BY <3>1, <3>2 DEF LastWord
  <2>2. CASE n # 1
    <3>1. n - 1 \in 1..Len(bus') /\ bus'[n - 1] = bus[n]
      BY <1>1, <2>2
    <3>2. \A k \in n..Len(bus') : Registers(k)'
      BY <1>1, <1>3, <2>2 DEF Registers
    <3>3. (n - 1) + 1 = n
      OBVIOUS
    <3> QED BY <1>3, <3>1, <3>2, <3>3 DEF LastWord, Registers
  <2> QED BY <2>1, <2>2
<1> QED BY <1>2, <1>3 DEF LastWord

LEMMA LastWordKept ==
  ASSUME NEW w, LastWord(w), UNCHANGED <<bus, sessionIdle>> PROVE LastWord(w)'
BY DEF LastWord, Registers

LEMMA TypesNext ==
  ASSUME Types, [Next]_vars PROVE Types'
<1> DEFINE BusOK == /\ bus \in Seq(Messages)
                    /\ \A n \in 1..Len(bus) : bus[n].type = "unregistered" => ~bus[n].idle
<1> USE DEF session, indexer, pool, ghosts
<1>1. BusOK
  BY DEF Types, Messages
<1>2. BusOK'
  <2>1. ASSUME NEW m \in Messages, m.type = "unregistered" => ~m.idle, bus' = Append(bus, m) PROVE BusOK'
    <3>1. /\ bus' \in Seq(Messages) /\ Len(bus) \in Nat /\ Len(bus') = Len(bus) + 1
          /\ \A n \in 1..Len(bus) : bus'[n] = bus[n]
          /\ bus'[Len(bus) + 1] = m
      BY <1>1, <2>1, Sent
    <3> QED BY <1>1, <2>1, <3>1
  <2>2. ASSUME bus # <<>>, bus' = Tail(bus) PROVE BusOK'
    <3>1. /\ bus' \in Seq(Messages) /\ Len(bus) \in Nat \ {0} /\ Len(bus') = Len(bus) - 1
          /\ \A n \in 1..(Len(bus) - 1) : bus'[n] = bus[n + 1]
      BY <1>1, <2>2, Received
    <3> QED BY <1>1, <3>1
  <2>3. CASE start \/ change \/ end
    <3>1. isIdle' \in BOOLEAN
      BY <2>3 DEF start, change, end, Types
    <3>2. \A type \in {"registered", "unregistered", "changed"}, idle \in BOOLEAN :
            [type |-> type, idle |-> idle] \in Messages
      BY DEF Messages
    <3> QED BY <1>1, <2>1, <2>3, <3>1, <3>2 DEF start, change, end, Send, Types
  <2>4. CASE serviceRegistered \/ serviceUnregistered \/ setSessionIdle
    BY <2>2, <2>4 DEF serviceRegistered, serviceUnregistered, setSessionIdle, Receive
  <2>5. CASE UNCHANGED bus
    BY <1>1, <2>5
  <2> QED BY <2>3, <2>4, <2>5 DEF Next, vars, answer, indexSpeedChanged, run, index, deliver, batchEnds, runEnds
<1>3. {monitor', isIdle', unheard'} \subseteq BOOLEAN /\ requests' \in Nat
  <2>1. requests' \in Nat
    <3>1. requests \in Nat
      BY DEF Types
    <3>2. \/ requests' = requests \/ requests' = 0 \/ requests' = requests + 1
          \/ requests > 0 /\ requests' = requests - 1
      BY DEF Next, vars, start, change, answer, end, serviceRegistered, serviceUnregistered, setSessionIdle,
             indexSpeedChanged, run, index, deliver, batchEnds, runEnds
    <3> QED BY <3>1, <3>2
  <2>2. monitor' \in BOOLEAN
    BY DEF Types, Next, vars, start, change, answer, end, serviceRegistered, serviceUnregistered, setSessionIdle,
           indexSpeedChanged, run, index, deliver, batchEnds, runEnds
  <2>3. isIdle' \in BOOLEAN
    BY DEF Types, Next, vars, start, change, answer, end, serviceRegistered, serviceUnregistered, setSessionIdle,
           indexSpeedChanged, run, index, deliver, batchEnds, runEnds
  <2>4. unheard' \in BOOLEAN
    BY DEF Types, Next, vars, start, change, answer, end, serviceRegistered, serviceUnregistered, setSessionIdle,
           indexSpeedChanged, run, index, deliver, batchEnds, runEnds
  <2> QED BY <2>1, <2>2, <2>3, <2>4
<1>4. sessionIdle' \in BOOLEAN /\ (emits' = <<>> \/ emits' = <<sessionIdle'>>)
  <2>1. bus # <<>> => Head(bus).idle \in BOOLEAN
    BY <1>1, Received DEF Messages
  <2> QED BY <2>1 DEF Types, Next, vars, start, change, answer, end, serviceRegistered, serviceUnregistered,
                      setSessionIdle, Receive, indexSpeedChanged, run, index, deliver, batchEnds, runEnds
<1>5. thread' \in {"none", "between", "batch"} /\ fast' \in BOOLEAN
  <2>1. queued # <<>> => Head(queued) \in BOOLEAN
    BY Received DEF Types
  <2> QED BY <2>1 DEF Types, Next, vars, start, change, answer, end, serviceRegistered, serviceUnregistered,
                      setSessionIdle, indexSpeedChanged, run, index, deliver, batchEnds, runEnds
<1>6. queued' \in Seq(BOOLEAN)
  <2>1. CASE indexSpeedChanged
    <3>1. emits \in Seq(BOOLEAN)
      <4>1. \A b \in BOOLEAN : <<b>> \in Seq(BOOLEAN)
        OBVIOUS
      <4>2. <<>> \in Seq(BOOLEAN)
        OBVIOUS
      <4> QED BY <4>1, <4>2 DEF Types
    <3>2. queued \o emits \in Seq(BOOLEAN) /\ <<>> \in Seq(BOOLEAN)
      BY <3>1 DEF Types
    <3> QED BY <2>1, <3>2 DEF indexSpeedChanged
  <2>2. CASE deliver
    BY <2>2, Received DEF deliver, Types
  <2>3. CASE UNCHANGED queued \/ queued' = <<>>
    <3>1. <<>> \in Seq(BOOLEAN)
      OBVIOUS
    <3> QED BY <2>3, <3>1 DEF Types
  <2> QED BY <2>1, <2>2, <2>3 DEF Next, vars, start, change, answer, end, serviceRegistered, serviceUnregistered,
                                  setSessionIdle, run, index, batchEnds, runEnds
<1> QED BY <1>2, <1>3, <1>4, <1>5, <1>6 DEF Types, Messages

LEMMA MessagesAreRightNext ==
  ASSUME Types, MessagesAreRight, [Next]_vars PROVE MessagesAreRight'
<1> USE DEF session, indexer, pool, ghosts
<1> DEFINE Heard == monitor /\ isIdle /\ ~unheard
<1> SUFFICES ASSUME NEW w \in BOOLEAN, Heard' = w PROVE LastWord(w)'
  BY DEF MessagesAreRight
<1>1. /\ [type |-> "registered", idle |-> FALSE] \in Messages
      /\ [type |-> "unregistered", idle |-> FALSE] \in Messages
      /\ [type |-> "changed", idle |-> w] \in Messages
  BY DEF Messages
<1>2. Heard = w => LastWord(w)
  BY DEF MessagesAreRight
<1>3. CASE start
  <2>1. w = FALSE /\ Heard = FALSE
    BY <1>3 DEF start
  <2> QED BY <1>1, <1>2, <1>3, <2>1, LastWordSent DEF start, Send
<1>4. CASE change
  <2>1. isIdle' = w
    BY <1>4 DEF change, Types
  <2> QED BY <1>1, <1>4, <2>1, LastWordSent DEF change, Send
<1>5. CASE end
  <2>1. w = FALSE
    BY <1>5 DEF end
  <2> QED BY <1>1, <1>5, <2>1, LastWordSent DEF end, Send
<1>6. CASE serviceRegistered \/ serviceUnregistered \/ setSessionIdle
  <2>1. LastWord(w)
    BY <1>2, <1>6 DEF serviceRegistered, serviceUnregistered, setSessionIdle
  <2>2. bus # <<>> /\ bus' = Tail(bus)
    BY <1>6 DEF serviceRegistered, serviceUnregistered, setSessionIdle, Receive
  <2>3. Head(bus).type = "unregistered" => Head(bus).idle = FALSE
    <3>1. Len(bus) \in Nat \ {0} /\ Head(bus) = bus[1] /\ Head(bus) \in Messages
      BY <2>2, Received DEF Types
    <3> QED BY <3>1 DEF Types, Messages
  <2>4. sessionIdle' = IF Head(bus).type = "registered" THEN sessionIdle ELSE Head(bus).idle
    BY <1>6, <2>3 DEF serviceRegistered, serviceUnregistered, setSessionIdle, Receive
  <2> QED BY <2>1, <2>2, <2>4, LastWordReceived
<1>7. CASE UNCHANGED <<monitor, isIdle, unheard, bus, sessionIdle>>
  BY <1>2, <1>7, LastWordKept
<1> QED BY <1>3, <1>4, <1>5, <1>6, <1>7
        DEF Next, vars, answer, indexSpeedChanged, run, index, deliver, batchEnds, runEnds

LEMMA ExtractorIsToldNext ==
  ASSUME Types, ExtractorIsTold, [Next]_vars PROVE ExtractorIsTold'
<1> USE DEF session, indexer, pool, ghosts
<1>1. CASE UNCHANGED <<indexer, pool, untold>>
  BY <1>1 DEF ExtractorIsTold
<1>2. CASE serviceUnregistered
  BY <1>2 DEF serviceUnregistered, Receive, ExtractorIsTold, Types
<1>3. CASE setSessionIdle
  BY <1>3 DEF setSessionIdle, Receive, ExtractorIsTold, Types
<1>4. CASE indexSpeedChanged
  <2>1. emits = <<sessionIdle>>
    BY <1>4 DEF indexSpeedChanged, Types
  <2>2. Len(queued \o emits) = Len(queued) + 1 /\ Len(queued) \in Nat /\ (queued \o emits)[Len(queued) + 1] = sessionIdle
    BY <2>1 DEF Types
  <2>3. queued \o emits # <<>>
    BY <2>2
  <2> QED BY <1>4, <2>2, <2>3 DEF indexSpeedChanged, ExtractorIsTold
<1>5. CASE run \/ index \/ batchEnds \/ runEnds
  BY <1>5 DEF run, index, batchEnds, runEnds, ExtractorIsTold, Types
<1>6. CASE deliver
  <2>1. /\ Len(queued) \in Nat \ {0} /\ Len(queued') = Len(queued) - 1 /\ Head(queued) = queued[1]
        /\ \A n \in 1..(Len(queued) - 1) : queued'[n] = queued[n + 1]
    BY <1>6, Received DEF deliver, Types
  <2>2. CASE Len(queued) = 1
    <3>1. queued' = <<>>
      BY <1>6, <2>2 DEF deliver, Types
    <3> QED BY <1>6, <2>1, <2>2, <3>1 DEF deliver, ExtractorIsTold
  <2>3. CASE Len(queued) # 1
    <3>1. queued' # <<>> /\ queued'[Len(queued')] = queued[Len(queued)]
      BY <2>1, <2>3
    <3> QED BY <1>6, <3>1 DEF deliver, ExtractorIsTold
  <2> QED BY <2>2, <2>3
<1> QED BY <1>1, <1>2, <1>3, <1>4, <1>5, <1>6
        DEF Next, vars, start, change, answer, end, serviceRegistered

-----------------------------------------------------------------------------

\* The inductive invariant: the messages under way, and what waits for the loop
\* of a batch, end with what is so.
THEOREM SpeedInvariant == Spec => []SpeedInv
<1>1. Init => SpeedInv
  <2> SUFFICES ASSUME Init PROVE SpeedInv
    OBVIOUS
  <2>1. Types
    <3>1. <<>> \in Seq(Messages) /\ <<>> \in Seq(BOOLEAN)
      OBVIOUS
    <3>2. monitor \in BOOLEAN /\ isIdle \in BOOLEAN /\ unheard \in BOOLEAN
      BY DEF Init
    <3>3. Len(bus) = 0 /\ bus \in Seq(Messages) /\ queued \in Seq(BOOLEAN)
      BY <3>1 DEF Init
    <3>4. requests = 1 /\ sessionIdle = FALSE /\ emits = <<>> /\ thread = "none" /\ fast = FALSE
      BY DEF Init
    <3>5. \A n \in 1..Len(bus) : bus[n].type = "unregistered" => ~bus[n].idle
      BY <3>3
    <3>6. requests \in Nat /\ sessionIdle \in BOOLEAN /\ thread \in {"none", "between", "batch"} /\ fast \in BOOLEAN
      BY <3>4
    <3> QED BY <3>2, <3>3, <3>4, <3>5, <3>6 DEF Types, Messages
  <2>2. MessagesAreRight
    <3>1. sessionIdle = (monitor /\ isIdle /\ ~unheard) /\ Len(bus) = 0
      BY DEF Init
    <3> QED BY <3>1 DEF MessagesAreRight, LastWord
  <2>3. ExtractorIsTold
    BY DEF Init, ExtractorIsTold
  <2> QED BY <2>1, <2>2, <2>3 DEF SpeedInv
<1>2. SpeedInv /\ [Next]_vars => SpeedInv'
  BY TypesNext, MessagesAreRightNext, ExtractorIsToldNext DEF SpeedInv
<1> QED BY <1>1, <1>2, PTL DEF Spec

\* When nothing is under way, the extractor of a batch goes by what the monitor has
\* seen last since the daemon started, and without a monitor nobody is taken for idle.
THEOREM LastWordWins == Spec => []SpeedFollowsSession
<1>1. SpeedInv => SpeedFollowsSession
  BY DEF SpeedInv, Types, MessagesAreRight, ExtractorIsTold, LastWord, SpeedFollowsSession
<1> QED BY <1>1, SpeedInvariant, PTL
=============================================================================
