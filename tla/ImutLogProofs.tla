---------------------------- MODULE ImutLogProofs ----------------------------
(***************************************************************************)
(* Theorems about ImutLog, for every flush threshold and any number of     *)
(* posts and drains, with a worker that may die at any moment.             *)
(***************************************************************************)
EXTENDS ImutLog, SequenceTheorems, WellFoundedInduction, TLAPS

-----------------------------------------------------------------------------
(* The position the next message of the channel continues from. *)
Before(k) == IF k = 1 THEN received ELSE channel[k - 1].seq

(* The channel goes on where the staging queue ends: each entry is the     *)
(* next one, and a DRAIN repeats the position of the message before it.    *)
ChannelContinues ==
    \A k \in DOMAIN channel :
        channel[k].seq = Before(k) + (IF channel[k].kind = "entry" THEN 1 ELSE 0)

(* The positions in the channel grow from what the worker has to what was  *)
(* posted.                                                                 *)
ChannelBetween ==
    /\ \A k \in DOMAIN channel : /\ received <= channel[k].seq
                                 /\ channel[k].seq <= posted
    /\ \A k, l \in DOMAIN channel : k <= l => channel[k].seq <= channel[l].seq
    /\ received <= posted

(* Nothing is between the end of the channel and the last post. *)
ChannelReachesPosted ==
    worker = "live" => posted = Before(Len(channel) + 1)

(* A worker that does not live has nothing staged and nothing to read.     *)
NoWorkerNoState ==
    /\ worker # "live" => channel = <<>> /\ queue = <<>>
    /\ worker = "none" => posted = 0 /\ log = <<>>

QueueShort == Len(queue) < FLUSH_THRESHOLD

IInv ==
    /\ TypeOK
    /\ LogAndQueueInOrder
    /\ ChannelContinues
    /\ ChannelBetween
    /\ ChannelReachesPosted
    /\ NoWorkerNoState
    /\ QueueShort

-----------------------------------------------------------------------------
(* Concatenation, index by index. *)
LEMMA Concat ==
    ASSUME NEW s \in Seq(Nat), NEW t \in Seq(Nat)
    PROVE  /\ s \o t \in Seq(Nat)
           /\ Len(s \o t) = Len(s) + Len(t)
           /\ \A i \in 1 .. Len(s) + Len(t) :
                (s \o t)[i] = IF i <= Len(s) THEN s[i] ELSE t[i - Len(s)]
BY ConcatProperties

LEMMA InitIInv == Init => IInv
BY ImutLogAssumption
DEF Init, IInv, TypeOK, LogAndQueueInOrder, ChannelContinues, ChannelBetween,
    ChannelReachesPosted, NoWorkerNoState, QueueShort, received

(* Sending appends the message to the channel of a worker that lives, the  *)
(* first send creating it, and changes nothing else.                       *)
LEMMA SendProperties ==
    ASSUME IInv, NEW m \in Message, Send(m)
    PROVE  \/ /\ worker # "dead" /\ worker' = "live"
              /\ channel' \in Seq(Message)
              /\ Len(channel') = Len(channel) + 1
              /\ DOMAIN channel' = 1 .. Len(channel) + 1
              /\ DOMAIN channel = 1 .. Len(channel)
              /\ Len(channel) \in Nat
              /\ channel'[Len(channel) + 1] = m
              /\ \A k \in DOMAIN channel : channel'[k] = channel[k]
           \/ worker = "dead" /\ UNCHANGED <<worker, channel>>
BY DEF IInv, TypeOK, Send, get_worker

(* post() and drain() extend the channel by a message that continues it.   *)
LEMMA SendKeepsIInv ==
    ASSUME IInv, NEW m \in Message, Send(m),
           UNCHANGED <<queue, log, acks, mainVars>>,
           posted' \in Nat, drained' \in Nat,
           posted' = posted + (IF m.kind = "entry" THEN 1 ELSE 0),
           m.seq = posted'
    PROVE  IInv'
<1> USE DEF IInv
<1>0. /\ received' = received /\ received \in Nat
      /\ posted \in Nat /\ posted <= posted' /\ m.seq \in Nat
  BY DEF received, TypeOK, Message
<1>1. TypeOK'
  BY SendProperties DEF TypeOK, mainVars
<1>2. LogAndQueueInOrder' /\ QueueShort'
  BY DEF LogAndQueueInOrder, QueueShort
<1>3. CASE worker = "dead"
  <2>1. UNCHANGED <<worker, channel>>
    BY <1>3, SendProperties
  <2>2. channel = <<>>
    BY <1>3 DEF NoWorkerNoState
  <2> QED
    BY <1>0, <1>1, <1>2, <1>3, <2>1, <2>2
    DEF ChannelContinues, ChannelBetween, ChannelReachesPosted, NoWorkerNoState
<1>4. CASE worker # "dead"
  <2> DEFINE n == Len(channel) + 1
  <2>1. /\ worker' = "live"
        /\ channel' \in Seq(Message)
        /\ Len(channel') = n /\ n - 1 \in Nat
        /\ DOMAIN channel' = 1 .. n
        /\ DOMAIN channel = 1 .. n - 1
        /\ channel'[n] = m
        /\ \A k \in 1 .. n - 1 : channel'[k] = channel[k]
    BY <1>4, SendProperties
  <2>2. \A k \in DOMAIN channel : channel[k] \in Message
    BY ElementOfSeq, LenProperties DEF TypeOK
  <2>3. posted = Before(n)
    <3>1. CASE worker = "live"
      BY <3>1 DEF ChannelReachesPosted
    <3>2. CASE worker = "none"
      <4>1. channel = <<>> /\ queue = <<>> /\ log = <<>> /\ posted = 0
        BY <3>2 DEF NoWorkerNoState
      <4> QED
        BY <4>1 DEF Before, received
    <3> QED
      BY <1>4, <3>1, <3>2 DEF TypeOK
  <2> HIDE DEF n
  <2>4. \A k \in 1 .. n : Before(k)' = Before(k)
    BY <1>0, <2>1 DEF Before
  <2>5. ChannelContinues'
    BY <1>0, <2>1, <2>3, <2>4 DEF ChannelContinues
  <2>6. ChannelBetween'
    <3>1. \A k \in DOMAIN channel : /\ received <= channel[k].seq
                                    /\ channel[k].seq <= posted
                                    /\ channel[k].seq \in Nat
      BY <2>2 DEF ChannelBetween, Message
    <3>2. received <= posted'
      BY <1>0 DEF ChannelBetween
    <3>3. \A k \in 1 .. n : /\ received <= channel'[k].seq
                             /\ channel'[k].seq <= posted'
      BY <1>0, <2>1, <3>1, <3>2
    <3>4. \A k, l \in 1 .. n : k <= l => channel'[k].seq <= channel'[l].seq
      <4>1. ASSUME NEW k \in 1 .. n, NEW l \in 1 .. n, k <= l
            PROVE  channel'[k].seq <= channel'[l].seq
        <5>1. CASE l = n
          BY <1>0, <2>1, <3>3, <5>1
        <5>2. CASE l # n
          <6>1. k \in 1 .. n - 1 /\ l \in 1 .. n - 1
            BY <2>1, <4>1, <5>2
          <6> QED
            BY <2>1, <4>1, <6>1 DEF ChannelBetween
        <5> QED
          BY <5>1, <5>2
      <4> QED
        BY <4>1
    <3> QED
      BY <1>0, <2>1, <3>2, <3>3, <3>4 DEF ChannelBetween
  <2>7. ChannelReachesPosted'
    BY <2>1 DEF Before, ChannelReachesPosted
  <2>8. NoWorkerNoState'
    BY <2>1 DEF NoWorkerNoState
  <2> QED
    BY <1>1, <1>2, <2>5, <2>6, <2>7, <2>8
<1> QED
  BY <1>3, <1>4

-----------------------------------------------------------------------------
(* Taking the first message leaves a channel that continues from it.       *)
LEMMA ReceiveProperties ==
    ASSUME IInv, NEW kind \in {"entry", "drain"}, Receive(kind),
           UNCHANGED <<worker, posted>>,
           received' = received + (IF kind = "entry" THEN 1 ELSE 0)
    PROVE  /\ Head(channel) \in Message
           /\ Head(channel).kind = kind
           /\ Head(channel).seq = received'
           /\ channel' \in Seq(Message)
           /\ ChannelContinues' /\ ChannelBetween'
           /\ ChannelReachesPosted' /\ NoWorkerNoState'
<1> USE DEF IInv
<1> DEFINE n == Len(channel)
<1>1. /\ n \in Nat /\ n > 0
      /\ DOMAIN channel = 1 .. n
      /\ Head(channel) = channel[1]
      /\ channel' \in Seq(Message)
      /\ Len(channel') = n - 1
      /\ DOMAIN channel' = 1 .. n - 1
      /\ \A k \in 1 .. n - 1 : channel'[k] = channel[k + 1]
      /\ channel[1].kind = kind
      /\ worker = "live"
  BY DEF Receive, TypeOK
<1>2. \A k \in 1 .. n : channel[k] \in Message /\ channel[k].seq \in Nat
  <2>1. \A k \in DOMAIN channel : channel[k] \in Message
    BY ElementOfSeq, LenProperties DEF TypeOK
  <2> QED
    BY <1>1, <2>1 DEF Message
<1>3. received \in Nat /\ posted \in Nat
  BY DEF received, TypeOK
<1> HIDE DEF n
<1>4. channel[1].seq = received'
  BY <1>1 DEF ChannelContinues, Before
<1>5. \A k \in 1 .. n : Before(k)' = Before(k + 1)
  <2>1. ASSUME NEW k \in 1 .. n
        PROVE  Before(k)' = Before(k + 1)
    <3>1. CASE k = 1
      BY <1>1, <1>4, <3>1 DEF Before
    <3>2. CASE k # 1
      <4>1. k - 1 \in 1 .. n - 1 /\ (k - 1) + 1 = k /\ (k + 1) - 1 = k /\ k + 1 # 1
        BY <1>1, <3>2
      <4> QED
        BY <1>1, <3>2, <4>1 DEF Before
    <3> QED
      BY <3>1, <3>2
  <2> QED
    BY <2>1
<1>6. ChannelContinues'
  <2>1. ASSUME NEW k \in DOMAIN channel'
        PROVE  channel'[k].seq
                 = Before(k)' + (IF channel'[k].kind = "entry" THEN 1 ELSE 0)
    <3>1. k \in 1 .. n /\ k + 1 \in 1 .. n /\ channel'[k] = channel[k + 1]
      BY <1>1, <2>1
    <3> QED
      BY <1>1, <1>5, <3>1 DEF ChannelContinues
  <2> QED
    BY <2>1 DEF ChannelContinues, Before
<1>7. ChannelBetween'
  <2>1. \A k \in 1 .. n - 1 : k + 1 \in 1 .. n /\ 1 <= k + 1 /\ 1 \in 1 .. n
    BY <1>1
  <2>2. \A k \in 1 .. n - 1 : /\ received' <= channel[k + 1].seq
                              /\ channel[k + 1].seq <= posted
    BY <1>1, <1>4, <2>1 DEF ChannelBetween
  <2>3. \A k, l \in 1 .. n - 1 :
          k <= l => channel[k + 1].seq <= channel[l + 1].seq
    <3>1. ASSUME NEW k \in 1 .. n - 1, NEW l \in 1 .. n - 1, k <= l
          PROVE  channel[k + 1].seq <= channel[l + 1].seq
      <4>1. k + 1 <= l + 1 /\ k + 1 \in 1 .. n /\ l + 1 \in 1 .. n
        BY <1>1, <3>1
      <4> QED
        BY <1>1, <4>1 DEF ChannelBetween
    <3> QED
      BY <3>1
  <2>4. received' <= posted
    BY <1>1, <1>4 DEF ChannelBetween
  <2> QED
    BY <1>1, <2>2, <2>3, <2>4 DEF ChannelBetween
<1>8. ChannelReachesPosted'
  BY <1>1, <1>5 DEF ChannelReachesPosted, n, Before
<1>9. NoWorkerNoState'
  BY <1>1 DEF NoWorkerNoState
<1> QED
  BY <1>1, <1>2, <1>4, <1>6, <1>7, <1>8, <1>9

(* Flushing a queue that goes on where the log ends extends the log by it. *)
LEMMA FlushProperties ==
    ASSUME NEW q \in Seq(Nat), log \in Seq(Nat), acks \in Seq(Nat \ {0}),
           \A i \in DOMAIN log : log[i] = i,
           \A j \in DOMAIN q : q[j] = Len(log) + j,
           Flush(q)
    PROVE  /\ log' \in Seq(Nat)
           /\ queue' = <<>>
           /\ acks' \in Seq(Nat \ {0})
           /\ Len(log') = Len(log) + Len(q)
           /\ \A i \in DOMAIN log' : log'[i] = i
<1>1. CASE q = <<>>
  BY <1>1 DEF Flush
<1>2. CASE q # <<>>
  <2>1. log' = log \o q /\ queue' = <<>> /\ acks' = Append(acks, Len(q))
    BY <1>2 DEF Flush, FlushedCount
  <2>2. Len(q) \in Nat \ {0}
    BY <1>2, EmptySeq, LenProperties
  <2>3. acks' \in Seq(Nat \ {0})
    BY <2>1, <2>2
  <2>4. \A i \in 1 .. Len(log) + Len(q) : log'[i] = i
    BY <2>1, Concat
  <2> QED
    BY <2>1, <2>3, <2>4, Concat
<1> QED
  BY <1>1, <1>2

(* Handling an entry takes it from the channel into the queue or, with     *)
(* the queue, into the log.                                                *)
LEMMA HandleEntryTakes ==
    ASSUME IInv, HandleEntry
    PROVE  /\ log' \in Seq(Nat) /\ queue' \in Seq(Nat) /\ acks' \in Seq(Nat \ {0})
           /\ LogAndQueueInOrder'
           /\ received' = received + 1
           /\ QueueShort'
<1> USE DEF IInv
<1> DEFINE m == Head(channel)
           q == Stage(m)
<1>1. Receive("entry") /\ UNCHANGED <<worker, posted, drained, mainVars>>
  BY DEF HandleEntry
<1>2. m \in Message /\ m.seq = received + 1
  <2>1. m = channel[1] /\ 1 \in DOMAIN channel /\ m.kind = "entry"
    BY <1>1 DEF Receive, TypeOK
  <2>2. m \in Message
    BY <2>1, ElementOfSeq, LenProperties DEF TypeOK
  <2> QED
    BY <2>1, <2>2 DEF ChannelContinues, Before
<1>3. /\ q \in Seq(Nat)
      /\ Len(q) = Len(queue) + 1
      /\ \A j \in DOMAIN q : q[j] = Len(log) + j
  <2>1. /\ q \in Seq(Nat) /\ Len(q) = Len(queue) + 1
        /\ DOMAIN q = 1 .. Len(queue) + 1
        /\ q[Len(queue) + 1] = received + 1
        /\ \A j \in 1 .. Len(queue) : j \in DOMAIN queue /\ q[j] = queue[j]
    BY <1>2 DEF Stage, TypeOK, Message
  <2>2. \A j \in 1 .. Len(queue) : q[j] = Len(log) + j
    BY <2>1 DEF LogAndQueueInOrder
  <2>3. Len(log) \in Nat /\ Len(queue) \in Nat
    BY DEF TypeOK
  <2>4. q[Len(queue) + 1] = Len(log) + (Len(queue) + 1)
    BY <2>1, <2>3 DEF received
  <2> HIDE DEF q
  <2>5. ASSUME NEW j \in 1 .. Len(queue) + 1
        PROVE  q[j] = Len(log) + j
    <3>1. j \in 1 .. Len(queue) \/ j = Len(queue) + 1
      BY <2>3
    <3> QED
      BY <2>2, <2>4, <3>1
  <2> QED
    BY <2>1, <2>5
<1> HIDE DEF q
<1>4. CASE FlushDue(q)
  <2>1. Flush(q)
    BY <1>4 DEF HandleEntry, q
  <2>2. /\ log' \in Seq(Nat) /\ queue' = <<>> /\ acks' \in Seq(Nat \ {0})
        /\ Len(log') = Len(log) + Len(q)
        /\ \A i \in DOMAIN log' : log'[i] = i
    BY <1>3, <2>1, FlushProperties DEF TypeOK, LogAndQueueInOrder
  <2> QED
    BY <1>3, <2>2, ImutLogAssumption
    DEF LogAndQueueInOrder, received, QueueShort, TypeOK
<1>5. CASE ~FlushDue(q)
  <2>1. queue' = q /\ UNCHANGED <<log, acks>>
    BY <1>5 DEF HandleEntry, q
  <2>2. LogAndQueueInOrder'
    BY <1>3, <2>1 DEF LogAndQueueInOrder
  <2>3. received' = received + 1
    <3>1. /\ Len(log) \in Nat /\ Len(queue) \in Nat
          /\ Len(log') = Len(log) /\ Len(queue') = Len(queue) + 1
      BY <1>3, <2>1 DEF TypeOK
    <3> QED
      BY <3>1 DEF received
  <2>4. QueueShort'
    BY <1>3, <1>5, <2>1, ImutLogAssumption DEF QueueShort, FlushDue
  <2> QED
    BY <1>3, <2>1, <2>2, <2>3, <2>4 DEF TypeOK
<1> QED
  BY <1>4, <1>5
LEMMA HandleEntryKeepsIInv ==
    ASSUME IInv, HandleEntry
    PROVE  IInv'
<1> USE DEF IInv
<1>1. Receive("entry") /\ UNCHANGED <<worker, posted, drained, mainVars>>
  BY DEF HandleEntry
<1>4. /\ log' \in Seq(Nat) /\ queue' \in Seq(Nat) /\ acks' \in Seq(Nat \ {0})
      /\ LogAndQueueInOrder'
      /\ received' = received + 1
      /\ QueueShort'
  BY HandleEntryTakes
<1>5. /\ channel' \in Seq(Message)
      /\ ChannelContinues' /\ ChannelBetween'
      /\ ChannelReachesPosted' /\ NoWorkerNoState'
  BY <1>1, <1>4, ReceiveProperties
<1>6. TypeOK'
  BY <1>1, <1>4, <1>5 DEF TypeOK, mainVars
<1> QED
  BY <1>4, <1>5, <1>6

(* Handling a drain moves the queue into the log.                          *)
LEMMA HandleDrainFlushes ==
    ASSUME IInv, HandleDrain
    PROVE  /\ log' \in Seq(Nat) /\ queue' = <<>> /\ acks' \in Seq(Nat \ {0})
           /\ LogAndQueueInOrder'
           /\ received' = received
           /\ QueueShort'
<1> USE DEF IInv
<1>1. Flush(queue)
  BY DEF HandleDrain
<1>2. /\ log' \in Seq(Nat) /\ queue' = <<>> /\ acks' \in Seq(Nat \ {0})
      /\ Len(log') = Len(log) + Len(queue)
      /\ \A i \in DOMAIN log' : log'[i] = i
  BY <1>1, FlushProperties DEF TypeOK, LogAndQueueInOrder
<1> QED
  BY <1>2, ImutLogAssumption DEF LogAndQueueInOrder, received, QueueShort, TypeOK

LEMMA HandleDrainKeepsIInv ==
    ASSUME IInv, HandleDrain
    PROVE  IInv'
<1> USE DEF IInv
<1>1. Receive("drain") /\ UNCHANGED <<worker, posted, drained, mainVars>>
  BY DEF HandleDrain
<1>2. log' \in Seq(Nat) /\ queue' = <<>> /\ acks' \in Seq(Nat \ {0})
  BY HandleDrainFlushes
<1>3. LogAndQueueInOrder' /\ received' = received /\ QueueShort'
  BY HandleDrainFlushes
<1>4. /\ channel' \in Seq(Message)
      /\ ChannelContinues' /\ ChannelBetween'
      /\ ChannelReachesPosted' /\ NoWorkerNoState'
  BY <1>1, <1>3, ReceiveProperties DEF received, TypeOK
<1>5. TypeOK'
  BY <1>1, <1>2, <1>4 DEF TypeOK, mainVars
<1> QED
  BY <1>3, <1>4, <1>5

(* The end of the worker, by an error or with its process, empties what it *)
(* held and leaves the log as it is.                                       *)
LEMMA LossKeepsIInv ==
    ASSUME IInv, worker' = "dead", channel' = <<>>, queue' = <<>>,
           UNCHANGED <<log, posted>>, TypeOK'
    PROVE  IInv'
<1>1. Len(log) <= posted
  BY DEF IInv, ChannelBetween, received, TypeOK
<1> QED
  BY <1>1, ImutLogAssumption
  DEF IInv, LogAndQueueInOrder, ChannelContinues, ChannelBetween,
      ChannelReachesPosted, NoWorkerNoState, QueueShort, received, TypeOK

-----------------------------------------------------------------------------
LEMMA NextIInv == IInv /\ [Next]_vars => IInv'
<1> SUFFICES ASSUME IInv, [Next]_vars
             PROVE  IInv'
  OBVIOUS
<1>1. CASE Post
  <2> DEFINE m == [kind |-> "entry", seq |-> posted + 1]
  <2>1. m \in Message /\ m.kind = "entry" /\ m.seq = posted + 1
    BY DEF Message, IInv, TypeOK
  <2>2. Send(m) /\ posted' = posted + 1
    BY <1>1 DEF Post
  <2> HIDE DEF m
  <2> QED
    BY <1>1, <2>1, <2>2, SendKeepsIInv DEF Post, workerVars, IInv, TypeOK
<1>2. CASE Drain
  <2> DEFINE m == [kind |-> "drain", seq |-> posted]
  <2>1. m \in Message /\ m.kind = "drain" /\ m.seq = posted
    BY DEF Message, IInv, TypeOK
  <2>2. Send(m) /\ posted' = posted
    BY <1>2 DEF Drain
  <2> HIDE DEF m
  <2> QED
    BY <1>2, <2>1, <2>2, SendKeepsIInv DEF Drain, workerVars, IInv, TypeOK
<1>3. CASE HandleEntry
  BY <1>3, HandleEntryKeepsIInv
<1>4. CASE HandleDrain
  BY <1>4, HandleDrainKeepsIInv
<1>5. CASE WorkerError
  <2>1. TypeOK'
    BY <1>5 DEF WorkerError, IInv, TypeOK, mainVars
  <2> QED
    BY <1>5, <2>1, LossKeepsIInv DEF WorkerError
<1>6. CASE Exit
  <2>1. TypeOK'
    BY <1>6 DEF Exit, IInv, TypeOK
  <2> QED
    BY <1>6, <2>1, LossKeepsIInv DEF Exit
<1>7. CASE Stop \/ ManifestHook \/ UNCHANGED vars
  <2>1. UNCHANGED <<worker, channel, queue, log, posted>>
    BY <1>7 DEF Stop, ManifestHook, vars, workerVars
  <2>2. TypeOK'
    <3>1. CASE Stop
      BY <3>1 DEF Stop, workerVars, IInv, TypeOK
    <3>2. CASE ManifestHook
      BY <3>2, HeadTailProperties DEF ManifestHook, IInv, TypeOK
    <3>3. CASE UNCHANGED vars
      BY <3>3 DEF vars, IInv, TypeOK
    <3> QED
      BY <1>7, <3>1, <3>2, <3>3
  <2> QED
    BY <2>1, <2>2
    DEF IInv, LogAndQueueInOrder, ChannelContinues, ChannelBetween, Before,
        ChannelReachesPosted, NoWorkerNoState, QueueShort, received
<1> QED
  BY <1>1, <1>2, <1>3, <1>4, <1>5, <1>6, <1>7 DEF Next, Handle

THEOREM Invariance == Spec => []IInv
BY InitIInv, NextIInv, PTL DEF Spec

(* The variables keep their types.                                         *)
THEOREM TypeCorrect == Spec => []TypeOK
<1>1. IInv => TypeOK
  BY DEF IInv
<1> QED
  BY Invariance, <1>1, PTL

(* The log is the beginning of what was posted.                            *)
LogIsPrefix ==
    /\ \A i \in DOMAIN log : log[i] = i
    /\ Len(log) <= posted

(* No entry is missing from the middle of the log, repeated or out of      *)
(* order, for any threshold and any failure of the worker.                 *)
THEOREM LogIsAPrefix == Spec => []LogIsPrefix
<1>1. IInv => LogIsPrefix
  BY DEF IInv, LogAndQueueInOrder, ChannelBetween, received, LogIsPrefix, TypeOK
<1> QED
  BY Invariance, <1>1, PTL

(* Once the worker has read its channel, fewer than FLUSH_THRESHOLD of the *)
(* posted entries are outside the log.                                     *)
THEOREM ExposureBounded == Spec => []BoundedExposure
<1>1. IInv => BoundedExposure
  <2> SUFFICES ASSUME IInv, worker = "live", channel = <<>>
               PROVE  posted - Len(log) < FLUSH_THRESHOLD
    BY DEF BoundedExposure
  <2>1. posted = received
    BY DEF IInv, ChannelReachesPosted, Before
  <2> QED
    BY <2>1, ImutLogAssumption DEF IInv, QueueShort, received, TypeOK
<1> QED
  BY Invariance, <1>1, PTL

-----------------------------------------------------------------------------
(* Every post the worker has not taken is in the channel.                  *)
ChannelComplete ==
    worker = "live" =>
        \A n \in received + 1 .. posted :
            \E k \in DOMAIN channel : IsEntry(k) /\ channel[k].seq = n

(* A post or a drain leaves what is in the channel of a live worker where  *)
(* it is; before the first of them there is nothing.                       *)
LEMMA SendKeepsComplete ==
    ASSUME IInv, ChannelComplete, NEW m \in Message, Send(m),
           UNCHANGED <<queue, log>>,
           \/ posted' = posted
           \/ posted' = posted + 1 /\ m.kind = "entry" /\ m.seq = posted + 1
    PROVE  ChannelComplete'
<1> SUFFICES ASSUME worker' = "live",
                    NEW n \in received + 1 .. posted'
             PROVE  \E k \in DOMAIN channel' :
                      channel'[k].kind = "entry" /\ channel'[k].seq = n
  BY DEF ChannelComplete, received, IsEntry
<1>1. /\ worker # "dead"
      /\ DOMAIN channel' = 1 .. Len(channel) + 1
      /\ DOMAIN channel = 1 .. Len(channel)
      /\ Len(channel) \in Nat
      /\ channel'[Len(channel) + 1] = m
      /\ \A k \in DOMAIN channel : channel'[k] = channel[k]
  BY SendProperties
<1>2. posted \in Nat /\ received \in Nat
  BY DEF IInv, TypeOK, received
<1>3. CASE n <= posted
  <2>1. worker = "live"
    <3>1. worker = "none" => posted = 0
      BY DEF IInv, NoWorkerNoState
    <3> QED
      BY <1>1, <1>2, <1>3, <3>1 DEF IInv, TypeOK
  <2>2. PICK k \in DOMAIN channel : channel[k].kind = "entry" /\ channel[k].seq = n
    BY <1>2, <1>3, <2>1 DEF ChannelComplete, IsEntry
  <2>3. k \in DOMAIN channel' /\ channel'[k] = channel[k]
    BY <1>1, <2>2
  <2> QED
    BY <2>2, <2>3
<1>4. CASE ~(n <= posted)
  <2>1. n = posted + 1 /\ m.kind = "entry" /\ m.seq = n
    BY <1>2, <1>4
  <2>2. Len(channel) + 1 \in DOMAIN channel'
    BY <1>1
  <2> QED
    BY <1>1, <2>1, <2>2
<1> QED
  BY <1>3, <1>4

(* Taking the first message takes at most the next post.                   *)
LEMMA ReceiveKeepsComplete ==
    ASSUME IInv, ChannelComplete, NEW kind \in {"entry", "drain"}, Receive(kind),
           UNCHANGED <<worker, posted>>,
           received' = received + (IF kind = "entry" THEN 1 ELSE 0)
    PROVE  ChannelComplete'
<1>1. /\ Head(channel) = channel[1]
      /\ channel[1].kind = kind /\ channel[1].seq = received'
      /\ DOMAIN channel = 1 .. Len(channel) /\ Len(channel) \in Nat
      /\ DOMAIN channel' = 1 .. Len(channel) - 1
      /\ \A k \in 1 .. Len(channel) - 1 : channel'[k] = channel[k + 1]
      /\ worker = "live"
  BY ReceiveProperties DEF Receive, IInv, TypeOK
<1>2. posted \in Nat /\ received \in Nat /\ received' \in Nat /\ received' >= received
  BY DEF IInv, TypeOK, received
<1>3. ASSUME NEW n \in received' + 1 .. posted
      PROVE  \E k \in DOMAIN channel' :
               channel'[k].kind = "entry" /\ channel'[k].seq = n
  <2>1. PICK k \in DOMAIN channel : channel[k].kind = "entry" /\ channel[k].seq = n
    BY <1>1, <1>2, <1>3 DEF ChannelComplete, IsEntry
  <2>2. k # 1
    BY <1>1, <1>2, <1>3, <2>1
  <2>3. k - 1 \in DOMAIN channel' /\ channel'[k - 1] = channel[k]
    BY <1>1, <2>1, <2>2
  <2> QED
    BY <2>1, <2>3
<1> QED
  BY <1>3 DEF ChannelComplete, IsEntry, received

LEMMA NextComplete == IInv /\ ChannelComplete /\ [Next]_vars => ChannelComplete'
<1> SUFFICES ASSUME IInv, ChannelComplete, [Next]_vars
             PROVE  ChannelComplete'
  OBVIOUS
<1>1. CASE Post
  <2>1. [kind |-> "entry", seq |-> posted + 1] \in Message
    BY DEF Message, IInv, TypeOK
  <2> QED
    BY <1>1, <2>1, SendKeepsComplete DEF Post, workerVars
<1>2. CASE Drain
  <2>1. [kind |-> "drain", seq |-> posted] \in Message
    BY DEF Message, IInv, TypeOK
  <2> QED
    BY <1>2, <2>1, SendKeepsComplete DEF Drain, workerVars
<1>3. CASE HandleEntry
  BY <1>3, HandleEntryTakes, ReceiveKeepsComplete DEF HandleEntry
<1>4. CASE HandleDrain
  <2>1. received' = received + 0
    BY <1>4, HandleDrainFlushes DEF IInv, TypeOK, received
  <2> QED
    BY <1>4, <2>1, ReceiveKeepsComplete DEF HandleDrain
<1>5. CASE WorkerError \/ Exit
  BY <1>5 DEF WorkerError, Exit, ChannelComplete
<1>6. CASE Stop \/ ManifestHook \/ UNCHANGED vars
  <2>1. UNCHANGED <<worker, channel, queue, log, posted>>
    BY <1>6 DEF Stop, ManifestHook, vars, workerVars
  <2> QED
    BY <2>1 DEF ChannelComplete, received, IsEntry
<1> QED
  BY <1>1, <1>2, <1>3, <1>4, <1>5, <1>6 DEF Next, Handle

(* An entry in the channel is none that was taken before, and later than   *)
(* those in front of it.                                                   *)
LEMMA ChannelEntriesGrow ==
    ASSUME IInv, NEW k \in DOMAIN channel, IsEntry(k)
    PROVE  /\ channel[k].seq \in received + 1 .. posted
           /\ \A l \in 1 .. k - 1 : IsEntry(l) => channel[l].seq < channel[k].seq
<1>1. /\ received \in Nat /\ posted \in Nat
      /\ DOMAIN channel = 1 .. Len(channel) /\ Len(channel) \in Nat
  BY LenProperties DEF IInv, TypeOK, received
<1>2. \A l \in DOMAIN channel : channel[l].seq \in Nat
  <2>1. \A l \in DOMAIN channel : channel[l] \in Message
    BY ElementOfSeq, LenProperties DEF IInv, TypeOK
  <2> QED
    BY <2>1 DEF Message
<1>3. channel[k].seq = Before(k) + 1
  BY DEF IInv, ChannelContinues, IsEntry
<1>4. CASE k = 1
  BY <1>1, <1>2, <1>3, <1>4 DEF Before, IInv, ChannelBetween
<1>5. CASE k # 1
  <2>1. k - 1 \in DOMAIN channel /\ Before(k) = channel[k - 1].seq
    BY <1>1, <1>5 DEF Before
  <2>2. \A l \in 1 .. k - 1 : channel[l].seq <= channel[k - 1].seq
    BY <1>1, <2>1 DEF IInv, ChannelBetween
  <2>3. received <= channel[k - 1].seq /\ channel[k].seq <= posted
    BY <2>1 DEF IInv, ChannelBetween
  <2>4. \A l \in 1 .. k - 1 : channel[l].seq < channel[k].seq
    <3>1. ASSUME NEW l \in 1 .. k - 1
          PROVE  channel[l].seq < channel[k].seq
      <4>1. l \in DOMAIN channel
        BY <1>1
      <4> QED
        BY <1>2, <1>3, <2>1, <2>2, <4>1
    <3> QED
      BY <3>1
  <2> QED
    BY <1>1, <1>2, <1>3, <2>1, <2>3, <2>4
<1> QED
  BY <1>4, <1>5

(* While the worker lives no post is lost, repeated or overtaken on its    *)
(* way from the client into the log.                                       *)
THEOREM NothingLost == Spec => []NothingLostWhileLive
<1>1. Init => ChannelComplete
  BY DEF Init, ChannelComplete
<1>2. IInv /\ ChannelComplete => NothingLostWhileLive
  BY ChannelEntriesGrow
  DEF IInv, ChannelComplete, NothingLostWhileLive, RestOnItsWay
<1> QED
  BY Invariance, NextComplete, <1>1, <1>2, PTL DEF Spec

-----------------------------------------------------------------------------
(* Sums over a sequence, as they are computed: left to right.              *)
IsTotal(f, s) == f = [k \in 0 .. Len(s) |-> IF k = 0 THEN 0 ELSE f[k - 1] + s[k]]

(* A set of naturals that is not empty has a least element. *)
LEMMA Least ==
    ASSUME NEW T \in SUBSET Nat, T # {}
    PROVE  \E x \in T : \A y \in T : x <= y
<1> DEFINE R == {ss \in Nat \X Nat : ss[1] < ss[2]}
<1>1. IsWellFoundedOn(R, Nat)
  BY NatLessThanWellFounded DEF OpToRel
<1>2. \A x, y \in Nat : y < x => <<y, x>> \in R
  OBVIOUS
<1> HIDE DEF R
<1>3. PICK x \in T : \A y \in T : ~ (<<y, x>> \in R)
  BY <1>1, WFMin
<1>4. ASSUME NEW y \in T
      PROVE  x <= y
  <2>1. x \in Nat /\ y \in Nat /\ ~(<<y, x>> \in R)
    BY <1>3
  <2>2. ~(y < x)
    BY <1>2, <2>1
  <2> QED
    BY <2>1, <2>2
<1> QED
  BY <1>4

(* Induction, of a set instead of a predicate. *)
LEMMA SetInduction ==
    ASSUME NEW S, 0 \in S, \A n \in Nat : n \in S => n + 1 \in S
    PROVE  Nat \subseteq S
<1> DEFINE T == Nat \ S
<1>1. SUFFICES ASSUME T # {}
               PROVE  FALSE
  OBVIOUS
<1>2. PICK x \in T : \A y \in T : x <= y
  BY <1>1, Least
<1>3. x # 0 /\ x - 1 \in Nat
  OBVIOUS
<1>4. x - 1 \in S
  BY <1>2, <1>3
<1> QED
  BY <1>3, <1>4

(* f adds up the first n elements of s. *)
AddsUp(f, n, s) ==
    /\ f = [k \in 0 .. n |-> f[k]]
    /\ \A k \in 0 .. n : f[k] = IF k = 0 THEN 0 ELSE f[k - 1] + s[k]

LEMMA TotalAddsUp ==
    ASSUME NEW s \in Seq(Nat), NEW f
    PROVE  IsTotal(f, s) <=> AddsUp(f, Len(s), s)
BY DEF IsTotal, AddsUp

(* One element more. *)
LEMMA AddsUpFurther ==
    ASSUME NEW n \in Nat, NEW f \in [0 .. n -> Nat], NEW s, NEW t,
           AddsUp(f, n, s), \A k \in 1 .. n : t[k] = s[k], t[n + 1] \in Nat
    PROVE  \E g \in [0 .. n + 1 -> Nat] : AddsUp(g, n + 1, t) /\ g[n + 1] = f[n] + t[n + 1]
<1> DEFINE g == [k \in 0 .. n + 1 |-> IF k <= n THEN f[k] ELSE f[n] + t[n + 1]]
<1>1. /\ g \in [0 .. n + 1 -> Nat]
      /\ g = [k \in 0 .. n + 1 |-> g[k]]
      /\ g[n + 1] = f[n] + t[n + 1]
      /\ \A k \in 0 .. n : g[k] = f[k]
  OBVIOUS
<1> HIDE DEF g
<1>2. ASSUME NEW k \in 0 .. n + 1
      PROVE  g[k] = IF k = 0 THEN 0 ELSE g[k - 1] + t[k]
  <2>1. CASE k = 0
    BY <1>1, <2>1 DEF AddsUp
  <2>2. CASE k = n + 1
    <3>1. k # 0 /\ k - 1 = n /\ n \in 0 .. n
      BY <2>2
    <3> QED
      BY <1>1, <2>2, <3>1
  <2>3. CASE k # 0 /\ k # n + 1
    <3>1. k \in 1 .. n /\ k \in 0 .. n /\ k - 1 \in 0 .. n
      BY <2>3
    <3>2. f[k] = f[k - 1] + s[k]
      BY <2>3, <3>1 DEF AddsUp
    <3> QED
      BY <1>1, <2>3, <3>1, <3>2
  <2> QED
    BY <2>1, <2>2, <2>3
<1> QED
  BY <1>1, <1>2 DEF AddsUp

(* There is a function that adds up, and there is one only. *)
LEMMA TotalExists ==
    ASSUME NEW s \in Seq(Nat)
    PROVE  \E f \in [0 .. Len(s) -> Nat] : IsTotal(f, s)
<1> DEFINE S == {n \in Nat : n <= Len(s) => \E f \in [0 .. n -> Nat] : AddsUp(f, n, s)}
<1>1. Len(s) \in Nat /\ \A k \in 1 .. Len(s) : s[k] \in Nat
  BY ElementOfSeq, LenProperties
<1>2. 0 \in S
  <2> DEFINE f == [k \in 0 .. 0 |-> 0]
  <2>1. f \in [0 .. 0 -> Nat] /\ AddsUp(f, 0, s)
    BY DEF AddsUp
  <2> HIDE DEF f
  <2> QED
    BY <2>1
<1>3. ASSUME NEW n \in Nat, n \in S, n + 1 <= Len(s)
      PROVE  \E f \in [0 .. n + 1 -> Nat] : AddsUp(f, n + 1, s)
  <2>1. n <= Len(s) /\ s[n + 1] \in Nat
    BY <1>1, <1>3
  <2>2. PICK f \in [0 .. n -> Nat] : AddsUp(f, n, s)
    BY <1>3, <2>1
  <2> QED
    BY <2>1, <2>2, AddsUpFurther
<1>4. ASSUME NEW n \in Nat, n \in S
      PROVE  n + 1 \in S
  <2>1. CASE n + 1 <= Len(s)
    <3>1. \E f \in [0 .. n + 1 -> Nat] : AddsUp(f, n + 1, s)
      BY <1>3, <1>4, <2>1
    <3> QED
      BY <3>1
  <2>2. CASE ~(n + 1 <= Len(s))
    BY <2>2
  <2> QED
    BY <2>1, <2>2
<1> HIDE DEF S
<1>5. Len(s) \in S
  BY <1>1, <1>2, <1>4, SetInduction
<1>6. \E f \in [0 .. Len(s) -> Nat] : AddsUp(f, Len(s), s)
  BY <1>1, <1>5 DEF S
<1> QED
  BY <1>6, TotalAddsUp

LEMMA TotalUnique ==
    ASSUME NEW s \in Seq(Nat), NEW f, NEW g, IsTotal(f, s), IsTotal(g, s)
    PROVE  f[Len(s)] = g[Len(s)]
<1> DEFINE S == {n \in Nat : n <= Len(s) => f[n] = g[n]}
<1>1. Len(s) \in Nat
  OBVIOUS
<1>2. \A k \in 0 .. Len(s) : /\ f[k] = IF k = 0 THEN 0 ELSE f[k - 1] + s[k]
                             /\ g[k] = IF k = 0 THEN 0 ELSE g[k - 1] + s[k]
  BY DEF IsTotal
<1>3. 0 \in S
  BY <1>1, <1>2
<1>4. ASSUME NEW n \in Nat, n \in S
      PROVE  n + 1 \in S
  BY <1>1, <1>2, <1>4
<1> HIDE DEF S
<1>5. Len(s) \in S
  BY <1>1, <1>3, <1>4, SetInduction
<1> QED
  BY <1>1, <1>5 DEF S

LEMMA TotalIs ==
    ASSUME NEW s \in Seq(Nat), NEW f, IsTotal(f, s)
    PROVE  Total(s) = f[Len(s)]
<1> DEFINE upto[k \in 0 .. Len(s)] == IF k = 0 THEN 0 ELSE upto[k - 1] + s[k]
<1>1. IsTotal(upto, s)
  BY DEF IsTotal
<1>2. Total(s) = upto[Len(s)]
  BY DEF Total
<1> HIDE DEF upto
<1> QED
  BY <1>1, <1>2, TotalUnique

LEMMA TotalType ==
    ASSUME NEW s \in Seq(Nat)
    PROVE  Total(s) \in Nat
<1>1. PICK f \in [0 .. Len(s) -> Nat] : IsTotal(f, s)
  BY TotalExists
<1>2. Total(s) = f[Len(s)] /\ Len(s) \in Nat
  BY <1>1, TotalIs
<1> QED
  BY <1>2

(* What appending and taking do to a total. *)
LEMMA TotalAppend ==
    ASSUME NEW s \in Seq(Nat), NEW x \in Nat
    PROVE  Total(Append(s, x)) = Total(s) + x
<1> DEFINE a == Append(s, x)
           n == Len(s)
<1>1. PICK f \in [0 .. n -> Nat] : IsTotal(f, s)
  BY TotalExists
<1>2. /\ a \in Seq(Nat) /\ n \in Nat /\ Len(a) = n + 1 /\ a[n + 1] = x
      /\ \A k \in 1 .. n : a[k] = s[k]
  OBVIOUS
<1>3. AddsUp(f, n, s)
  BY <1>1, TotalAddsUp
<1> HIDE DEF a, n
<1>4. PICK g \in [0 .. n + 1 -> Nat] : AddsUp(g, n + 1, a) /\ g[n + 1] = f[n] + x
  <2>1. a[n + 1] \in Nat /\ n \in Nat
    BY <1>2
  <2>2. \E g \in [0 .. n + 1 -> Nat] :
          AddsUp(g, n + 1, a) /\ g[n + 1] = f[n] + a[n + 1]
    BY <1>2, <1>3, <2>1, AddsUpFurther
  <2> QED
    BY <1>2, <2>2
<1>5. IsTotal(g, a)
  BY <1>2, <1>4, TotalAddsUp
<1>6. Total(a) = g[n + 1] /\ Total(s) = f[n]
  BY <1>1, <1>2, <1>5, TotalIs DEF n
<1> QED
  BY <1>4, <1>6 DEF a

LEMMA TotalTail ==
    ASSUME NEW s \in Seq(Nat), s # <<>>
    PROVE  Total(s) = Head(s) + Total(Tail(s))
<1> DEFINE t == Tail(s)
           n == Len(s)
<1>1. PICK f \in [0 .. n -> Nat] : IsTotal(f, s)
  BY TotalExists
<1>2. /\ t \in Seq(Nat) /\ n \in Nat \ {0} /\ Len(t) = n - 1 /\ Head(s) = s[1]
      /\ s[1] \in Nat
      /\ \A k \in 1 .. n - 1 : t[k] = s[k + 1]
  BY EmptySeq, ElementOfSeq
<1>3. \A k \in 0 .. n : f[k] = IF k = 0 THEN 0 ELSE f[k - 1] + s[k]
  BY <1>1, TotalAddsUp DEF AddsUp
<1>4. \A k \in 1 .. n : s[k] \in Nat
  BY ElementOfSeq
<1> HIDE DEF t, n
<1> DEFINE g == [k \in 0 .. n - 1 |-> f[k + 1] - s[1]]
<1>5. \A k \in 0 .. n - 1 : g[k] = f[k + 1] - s[1]
  OBVIOUS
<1>6. g = [k \in 0 .. n - 1 |-> g[k]] /\ g[n - 1] = f[n] - s[1] /\ f[n] \in Nat
  BY <1>2
<1> HIDE DEF g
<1>7. \A k \in 0 .. n - 1 : g[k] = IF k = 0 THEN 0 ELSE g[k - 1] + t[k]
  <2>1. f[1] = f[0] + s[1] /\ f[0] = 0
    BY <1>2, <1>3
  <2>2. ASSUME NEW k \in 1 .. n - 1
        PROVE  g[k] = g[k - 1] + t[k]
    <3>1. /\ k + 1 \in 0 .. n /\ k \in 0 .. n - 1 /\ k - 1 \in 0 .. n - 1
          /\ (k + 1) - 1 = k /\ (k - 1) + 1 = k
      BY <1>2
    <3>2. g[k] = f[k + 1] - s[1] /\ g[k - 1] = f[k] - s[1]
      BY <1>5, <3>1
    <3>3. f[k + 1] = f[k] + s[k + 1]
      BY <1>3, <3>1
    <3>4. t[k] = s[k + 1]
      BY <1>2
    <3>5. s[k + 1] \in Nat /\ f[k] \in Nat /\ s[1] \in Nat
      BY <1>2, <1>4, <3>1
    <3> QED
      BY <3>2, <3>3, <3>4, <3>5
  <2>3. g[0] = 0
    BY <1>2, <1>5, <2>1
  <2> QED
    BY <1>2, <2>2, <2>3
<1>8. IsTotal(g, t)
  BY <1>2, <1>6, <1>7 DEF IsTotal
<1>9. Total(t) = g[n - 1] /\ Total(s) = f[n]
  BY <1>1, <1>2, <1>8, TotalIs DEF n
<1> QED
  BY <1>2, <1>6, <1>9 DEF t

LEMMA TotalEmpty == Total(<<>>) = 0
<1>1. IsTotal([k \in 0 .. 0 |-> 0], <<>>)
  BY DEF IsTotal
<1> QED
  BY <1>1, TotalIs

-----------------------------------------------------------------------------
(* A flush announces what it adds to the log, the hook takes what was      *)
(* announced first.                                                        *)
LEMMA NextManifest == TypeOK /\ ManifestExact /\ [Next]_vars => ManifestExact'
<1> SUFFICES ASSUME TypeOK, ManifestExact, [Next]_vars, process' = "up"
             PROVE  manifest' + Total(acks') = Len(log')
  BY DEF ManifestExact
<1>1. acks \in Seq(Nat) /\ manifest \in Nat /\ log \in Seq(Nat) /\ Len(log) \in Nat
  BY SeqMonotonic DEF TypeOK
<1>2. Total(acks) \in Nat
  BY <1>1, TotalType
<1>3. process = "up" => manifest + Total(acks) = Len(log)
  BY DEF ManifestExact
<1>4. ASSUME NEW q \in Seq(Nat), Flush(q), UNCHANGED <<manifest, process>>
      PROVE  manifest' + Total(acks') = Len(log')
  <2>1. CASE q = <<>>
    BY <1>3, <1>4, <2>1 DEF Flush
  <2>2. CASE q # <<>>
    <3>1. log' = log \o q /\ acks' = Append(acks, Len(q)) /\ Len(q) \in Nat
      BY <1>4, <2>2 DEF Flush, FlushedCount
    <3>2. Len(log') = Len(log) + Len(q)
      BY <1>1, <3>1, Concat
    <3>3. Total(acks') = Total(acks) + Len(q)
      BY <1>1, <3>1, TotalAppend
    <3> QED
      BY <1>1, <1>2, <1>3, <1>4, <3>1, <3>2, <3>3
  <2> QED
    BY <2>1, <2>2
<1>5. CASE HandleEntry
  <2>1. Stage(Head(channel)) \in Seq(Nat)
    <3>1. Head(channel) = channel[1] /\ 1 \in DOMAIN channel
      BY <1>5 DEF HandleEntry, Receive, TypeOK
    <3>2. Head(channel) \in Message
      BY <3>1, ElementOfSeq, LenProperties DEF TypeOK
    <3> QED
      BY <3>2 DEF Stage, Message, TypeOK
  <2>2. CASE FlushDue(Stage(Head(channel)))
    BY <1>4, <1>5, <2>1, <2>2 DEF HandleEntry, mainVars
  <2>3. CASE ~FlushDue(Stage(Head(channel)))
    BY <1>3, <1>5, <2>3 DEF HandleEntry, mainVars
  <2> QED
    BY <2>2, <2>3
<1>6. CASE HandleDrain
  BY <1>4, <1>6 DEF HandleDrain, mainVars, TypeOK
<1>7. CASE ManifestHook
  <2>1. /\ manifest' = manifest + Head(acks) /\ acks' = Tail(acks) /\ acks # <<>>
        /\ log' = log /\ process = "up"
    BY <1>7 DEF ManifestHook
  <2>2. Total(acks) = Head(acks) + Total(acks')
    BY <1>1, <2>1, TotalTail
  <2>3. Head(acks) \in Nat /\ acks' \in Seq(Nat)
    BY <1>1, <2>1, HeadTailProperties
  <2>4. Total(acks') \in Nat
    BY <2>3, TotalType
  <2> QED
    BY <1>1, <1>3, <2>1, <2>2, <2>3, <2>4
<1>8. CASE Exit
  BY <1>8 DEF Exit
<1>9. CASE Post \/ Drain \/ Stop \/ WorkerError \/ UNCHANGED vars
  BY <1>3, <1>9 DEF Post, Drain, Stop, WorkerError, vars, workerVars, mainVars
<1> QED
  BY <1>5, <1>6, <1>7, <1>8, <1>9 DEF Next, Handle

(* What the manifest was told and what it will be told is what is in the   *)
(* log.                                                                    *)
THEOREM ManifestCounts == Spec => []ManifestExact
<1>1. Init => ManifestExact
  BY TotalEmpty DEF Init, ManifestExact
<1> QED
  BY TypeCorrect, NextManifest, <1>1, PTL DEF Spec

-----------------------------------------------------------------------------
(* Handling a DRAIN flushes everything posted before the drain(): the      *)
(* message was behind those entries in the channel, and what it carried is *)
(* the position the worker has reached.                                    *)
THEOREM DrainBarrier == Spec => DrainIsBarrier
<1>1. ASSUME IInv, HandleDrain
      PROVE  queue' = <<>> /\ Len(log') >= Head(channel).seq
  <2>1. /\ Receive("drain") /\ Flush(queue)
        /\ UNCHANGED <<worker, posted, drained, mainVars>>
    BY <1>1 DEF HandleDrain
  <2>2. queue' = <<>> /\ Len(log') = received
    BY <1>1, <2>1, FlushProperties
    DEF IInv, TypeOK, LogAndQueueInOrder, received
  <2>3. received' = received
    BY <1>1, <2>2 DEF IInv, TypeOK, received
  <2>4. Head(channel).seq = received'
    BY <1>1, <2>1, <2>3, ReceiveProperties DEF IInv, TypeOK, received
  <2> QED
    BY <1>1, <2>2, <2>3, <2>4 DEF IInv, TypeOK, received
<1>2. IInv /\ [Next]_vars
      => [HandleDrain => queue' = <<>> /\ Len(log') >= Head(channel).seq]_vars
  BY <1>1
<1> QED
  BY Invariance, <1>2, PTL DEF Spec, DrainIsBarrier

(* A log that holds 1, 2, 3, ... and has no more than was posted grows by  *)
(* a step of the abstract log.                                             *)
LEMMA GrowthIsPersist ==
    ASSUME IInv, IInv', UNCHANGED posted, log' \in Seq(Nat),
           Len(log') >= Len(log)
    PROVE  \/ UNCHANGED <<posted, log>>
           \/ \E n \in 1 .. posted : Abstract!Persist(n)
<1> DEFINE n == Len(log')
<1>1. /\ log \in Seq(Nat) /\ Len(log) \in Nat /\ n \in Nat
      /\ DOMAIN log = 1 .. Len(log) /\ DOMAIN log' = 1 .. n
      /\ log = [i \in 1 .. Len(log) |-> log[i]]
      /\ log' = [i \in 1 .. n |-> log'[i]]
  BY DEF IInv, TypeOK
<1>2. /\ \A i \in 1 .. Len(log) : log[i] = i
      /\ \A i \in 1 .. n : log'[i] = i
  BY <1>1 DEF IInv, LogAndQueueInOrder
<1>3. log' = [i \in 1 .. n |-> i] /\ log = [i \in 1 .. Len(log) |-> i]
  BY <1>1, <1>2
<1>4. n <= posted
  BY <1>1 DEF IInv, ChannelBetween, received, TypeOK
<1>5. CASE n = Len(log)
  <2>1. log' = log
    BY <1>3, <1>5
  <2> QED
    BY <2>1
<1>6. CASE n > Len(log)
  <2>1. n \in 1 .. posted
    BY <1>1, <1>4, <1>6 DEF IInv, TypeOK
  <2>2. Abstract!Persist(n)
    BY <1>3, <1>4, <1>6 DEF Abstract!Persist
  <2> QED
    BY <2>1, <2>2
<1>7. n = Len(log) \/ n > Len(log)
  <2>1. n \in Nat /\ Len(log) \in Nat /\ n >= Len(log)
    BY <1>1
  <2> HIDE DEF n
  <2> QED
    BY <2>1
<1> HIDE DEF n
<1> QED
  BY <1>5, <1>6, <1>7

LEMMA StepRefines ==
    ASSUME IInv, IInv', [Next]_vars
    PROVE  [Abstract!Next]_(Abstract!vars)
<1>1. CASE Post
  BY <1>1 DEF Post, workerVars, Abstract!Next, Abstract!Post
<1>2. CASE HandleEntry \/ HandleDrain
  <2>1. UNCHANGED posted /\ log' \in Seq(Nat)
    BY <1>2 DEF HandleEntry, HandleDrain, IInv, TypeOK
  <2>2. Len(log') >= Len(log)
    <3>1. \A q : Flush(q) => log' = log \/ log' = log \o q
      BY DEF Flush
    <3>2. \E q \in Seq(Nat) : log' = log \/ log' = log \o q
      <4>1. CASE HandleDrain
        BY <3>1, <4>1 DEF HandleDrain, IInv, TypeOK
      <4>2. CASE HandleEntry
        <5>1. Head(channel) \in Message
          <6>1. Head(channel) = channel[1] /\ 1 \in DOMAIN channel
            BY <4>2 DEF HandleEntry, Receive, IInv, TypeOK
          <6> QED
            BY <6>1, ElementOfSeq, LenProperties DEF IInv, TypeOK
        <5>2. Stage(Head(channel)) \in Seq(Nat)
          BY <5>1 DEF Stage, Message, IInv, TypeOK
        <5> QED
          BY <3>1, <4>2, <5>2 DEF HandleEntry
      <4> QED
        BY <1>2, <4>1, <4>2
    <3>3. log \in Seq(Nat) /\ Len(log) \in Nat
      BY DEF IInv, TypeOK
    <3>4. \A q \in Seq(Nat) : Len(log \o q) = Len(log) + Len(q) /\ Len(q) \in Nat
      BY <3>3, Concat, LenProperties
    <3> QED
      BY <3>2, <3>3, <3>4
  <2> QED
    BY <2>1, <2>2, GrowthIsPersist DEF Abstract!Next, Abstract!vars
<1>3. CASE Drain \/ Stop \/ Exit \/ WorkerError \/ ManifestHook \/ UNCHANGED vars
  BY <1>3 DEF Drain, Stop, Exit, WorkerError, ManifestHook, vars, workerVars,
              Abstract!vars
<1> QED
  BY <1>1, <1>2, <1>3 DEF Next, Handle

(* Client, channels and worker implement the append-only log.              *)
THEOREM ImutLogImplementsAppendLog == Spec => ImplementsAppendLog
<1>1. Init => Abstract!Init
  BY DEF Init, Abstract!Init
<1>2. IInv /\ IInv' /\ [Next]_vars => [Abstract!Next]_(Abstract!vars)
  BY StepRefines
<1> QED
  BY Invariance, <1>1, <1>2, PTL DEF Spec, ImplementsAppendLog, Abstract!Spec
=============================================================================
