--------------------------- MODULE Metrology_proofs ---------------------------
(* WholeCycle for every buffer size, queue length and reading period, and  *)
(* NoLostBuffer for every queue of at least three messages.                *)
EXTENDS Metrology, TLAPS

\* The task has initialized itself and no sample has come yet.
LEMMA InitHolds == Init => IInv
BY MetrologyAssumption DEF Init, IInv, TypeOK, Buffers

\* Every step of the interrupt and of the task keeps the invariant.
LEMMA NextKeeps == IInv /\ [Next]_vars => IInv'
<1> SUFFICES ASSUME IInv, [Next]_vars PROVE IInv'
  OBVIOUS
<1> USE MetrologyAssumption DEF IInv, TypeOK, Buffers, samples, taskVars, sampling
<1>1. CASE WrongCrc
  BY <1>1 DEF WrongCrc, Metering_SampleReset
<1>2. CASE SampleAdd
  <2>1. RunWithSample = current_sample + 1
    BY <1>2 DEF SampleAdd, RunWithSample
  <2>2. TypeOK'
    <3>1. current_sample + 1 \in 0 .. BufSamples
      BY <1>2 DEF SampleAdd
    <3>2. run' \in [Buffers -> 0 .. BufSamples]
      BY <1>2, <2>1, <3>1 DEF SampleAdd
    <3> QED BY <1>2, <3>1, <3>2 DEF SampleAdd
  <2>3. \A b \in Buffers : inUse'[b] => run'[b] = BufSamples
    BY <1>2 DEF SampleAdd
  <2>4. run'[wr_buffer'] = current_sample' /\ ~inUse'[wr_buffer'] /\ ~gap'
    BY <1>2, <2>1 DEF SampleAdd
  <2> QED BY <1>2, <2>2, <2>3, <2>4 DEF SampleAdd
<1>3. CASE SampleLast
  <2>1. RunWithSample = BufSamples
    BY <1>3 DEF SampleLast, RunWithSample
  <2>2. queue' \in Seq(Buffers) /\ Len(queue') <= QueueLength
    BY <1>3 DEF SampleLast, Metering_SampleFinish, Metering_StartProcessing
  <2>3. TypeOK'
    <3>1. run' \in [Buffers -> 0 .. BufSamples]
      BY <1>3, <2>1 DEF SampleLast
    <3>2. inUse' \in [Buffers -> BOOLEAN] /\ wr_buffer' \in Buffers /\ rd_buffer' \in Buffers
      BY <1>3 DEF SampleLast, Metering_SampleFinish
    <3>3. current_sample' \in 0 .. BufSamples
      BY <1>3 DEF SampleLast, Metering_SampleFinish
    <3>4. gap' \in BOOLEAN /\ transferred' \in BOOLEAN /\ telemetry' \in BOOLEAN
      BY <1>3 DEF SampleLast
    <3>5. UNCHANGED <<at, read_index, read_period, crcErrors>>
      BY <1>3 DEF SampleLast
    <3> QED BY <2>2, <3>1, <3>2, <3>3, <3>4, <3>5, Zenon
  <2>4. \A b \in Buffers : inUse'[b] => run'[b] = BufSamples
    BY <1>3, <2>1 DEF SampleLast, Metering_SampleFinish
  <2> QED BY <1>3, <2>3, <2>4 DEF SampleLast, Metering_SampleFinish
<1>4. CASE SampleDropped
  BY <1>4 DEF SampleDropped
<1>5. CASE AFE_Init
  BY <1>5 DEF AFE_Init
<1>6. CASE CleanEverything
  BY <1>6 DEF CleanEverything
<1>7. CASE MsgQGet
  BY <1>7 DEF MsgQGet
<1>8. CASE Processed
  BY <1>8 DEF Processed, Release
<1>9. CASE Averaged
  BY <1>9 DEF Averaged, Release
<1>10. CASE CheckInUse
  BY <1>10 DEF CheckInUse
<1>11. CASE TakeTelemetry
  BY <1>11 DEF TakeTelemetry
<1>12. CASE UNCHANGED vars
  BY <1>12 DEF vars
<1> QED
  BY <1>1, <1>2, <1>3, <1>4, <1>5, <1>6, <1>7, <1>8, <1>9, <1>10, <1>11, <1>12
  DEF Next, Interrupt, Task

\* A buffer in use is complete and unbroken, and the task computes over no other: for
\* every number of samples, length of the queue, reading period and number of errors.
THEOREM BuffersInvariant == Spec => []IInv
BY InitHolds, NextKeeps, PTL DEF Spec

\* The metrology task stays in its types, and its queue within its length.
THEOREM MetrologyTypes == Spec => []TypeOK
<1>1. IInv => TypeOK
  BY DEF IInv
<1> QED BY <1>1, BuffersInvariant, PTL

\* metrology_process only computes over one unbroken run of samples.
THEOREM CyclesAreWhole == Spec => []WholeCycle
<1>1. IInv => WholeCycle
  BY DEF IInv, TypeOK, WholeCycle
<1> QED BY <1>1, BuffersInvariant, PTL
-----------------------------------------------------------------------------
(* No buffer is lost in a queue of at least three messages.  (In a shorter *)
(* one a stale message and two new ones leave no room for the last.)       *)

One(condition) == IF condition THEN 1 ELSE 0

\* By how much the messages in the queue or at work stay below the buffers in use and
\* two stale ones.  No step after the cleaning makes it smaller: a message comes with a
\* buffer and goes with it; a stale message goes alone, and a dropped one never comes.
Slack ==
  One(inUse[0]) + One(inUse[1]) + 2 - Len(queue) - One(at \in {"check", "calculate"})

\* The messages, and the one that comes next.
Word == Append(queue, wr_buffer)

\* The buffers take turns in a word, or do so but for one place.
Alternates(q) == \A i \in 1 .. Len(q) - 1 : q[i] # q[i + 1]
OneBreak(q) ==
  \A i, k \in 1 .. Len(q) - 1 : q[i] = q[i + 1] /\ q[k] = q[k + 1] => i = k

\* Until the cleaning the task takes no message: each buffer is filled once.
BeforeCleaning ==
  \/ Len(queue) = 0 /\ ~inUse[0] /\ ~inUse[1] /\ wr_buffer = 0
  \/ Len(queue) = 1 /\ queue[1] = 0 /\ inUse[0] /\ ~inUse[1] /\ wr_buffer = 1
  \/ Len(queue) = 2 /\ queue[1] = 0 /\ queue[2] = 1 /\ inUse[0] /\ inUse[1] /\ wr_buffer = 0

\* After it a message is only dropped without slack, from a queue in which the buffers
\* take turns and which therefore names both of them.
AfterCleaning ==
  /\ Slack >= 0 /\ OneBreak(Word)
  /\ Slack = 0 => Alternates(Word)
  /\ NoLostBuffer

QInv ==
  IF at \in {"wait", "clean"} THEN BeforeCleaning ELSE AfterCleaning

\* The other buffer goes to the end of a word.
LEMMA WordGrows ==
  ASSUME NEW q \in Seq(Buffers), NEW b \in Buffers
  PROVE  LET u == Append(q, b)
             v == Append(u, 1 - b)
         IN  (OneBreak(u) => OneBreak(v)) /\ (Alternates(u) => Alternates(v))
<1> DEFINE u == Append(q, b)
           v == Append(u, 1 - b)
<1>1. /\ Len(u) = Len(q) + 1 /\ Len(v) = Len(q) + 2 /\ Len(q) \in Nat
      /\ \A i \in 1 .. Len(q) + 1 : v[i] = u[i]
      /\ u[Len(q) + 1] = b /\ v[Len(q) + 2] = 1 - b /\ b # 1 - b
  BY DEF Buffers
<1> HIDE DEF u, v
<1>2. \A i \in 1 .. Len(v) - 1 : v[i] = v[i + 1] => i \in 1 .. Len(u) - 1 /\ u[i] = u[i + 1]
  BY <1>1
<1> QED
  BY <1>1, <1>2 DEF OneBreak, Alternates, u, v

\* The last buffer of a word in which the buffers take turns is replaced by the other.
LEMMA WordFlips ==
  ASSUME NEW q \in Seq(Buffers), NEW b \in Buffers, Alternates(Append(q, b))
  PROVE  OneBreak(Append(q, 1 - b))
<1> DEFINE u == Append(q, b)
           v == Append(q, 1 - b)
<1>1. /\ Len(u) = Len(q) + 1 /\ Len(v) = Len(q) + 1 /\ Len(q) \in Nat
      /\ \A i \in 1 .. Len(q) : v[i] = u[i]
  BY DEF Buffers
<1> HIDE DEF u, v
<1>2. \A i \in 1 .. Len(v) - 1 : v[i] = v[i + 1] => i = Len(q)
  <2> SUFFICES ASSUME NEW i \in 1 .. Len(v) - 1, v[i] = v[i + 1], i # Len(q)
               PROVE  FALSE
    OBVIOUS
  <2>1. i \in 1 .. Len(u) - 1 /\ i \in 1 .. Len(q) /\ i + 1 \in 1 .. Len(q)
    BY <1>1
  <2>2. u[i] = u[i + 1]
    BY <1>1, <2>1
  <2> QED
    BY <2>1, <2>2 DEF Alternates, u
<1> QED
  BY <1>2 DEF OneBreak, v

\* The first message of a word goes.
LEMMA WordShrinks ==
  ASSUME NEW q \in Seq(Buffers), NEW b \in Buffers, q # << >>
  PROVE  LET u == Append(q, b)
             v == Append(Tail(q), b)
         IN  (OneBreak(u) => OneBreak(v)) /\ (Alternates(u) => Alternates(v))
<1> DEFINE u == Append(q, b)
           v == Append(Tail(q), b)
<1>1. /\ Len(u) = Len(q) + 1 /\ Len(v) = Len(q) /\ Len(q) \in Nat \ {0}
      /\ \A i \in 1 .. Len(q) : v[i] = u[i + 1]
  OBVIOUS
<1> HIDE DEF u, v
<1>2. \A i \in 1 .. Len(v) - 1 :
        /\ i + 1 \in 1 .. Len(u) - 1
        /\ v[i] = v[i + 1] => u[i + 1] = u[(i + 1) + 1]
  BY <1>1
<1>3. OneBreak(u) => OneBreak(v)
  <2> SUFFICES ASSUME OneBreak(u), NEW i \in 1 .. Len(v) - 1, NEW k \in 1 .. Len(v) - 1,
                      v[i] = v[i + 1], v[k] = v[k + 1]
               PROVE  i = k
    BY DEF OneBreak
  <2>1. i + 1 = k + 1
    BY <1>2 DEF OneBreak
  <2> QED
    BY <1>1, <2>1
<1>4. Alternates(u) => Alternates(v)
  BY <1>1, <1>2 DEF Alternates
<1> QED
  BY <1>3, <1>4 DEF u, v

\* Two messages of buffers that take turns name both buffers.
LEMMA WordNamesBoth ==
  ASSUME NEW q \in Seq(Buffers), NEW b \in Buffers, Alternates(Append(q, b)), Len(q) >= 2,
         NEW c \in Buffers
  PROVE  \E i \in 1 .. Len(q) : q[i] = c
<1> DEFINE u == Append(q, b)
<1>1. /\ Len(u) = Len(q) + 1 /\ u[1] = q[1] /\ u[2] = q[2] /\ Len(q) \in Nat
      /\ q[1] \in Buffers /\ q[2] \in Buffers
  OBVIOUS
<1> HIDE DEF u
<1>2. q[1] # q[2]
  <2>1. 1 \in 1 .. Len(u) - 1
    BY <1>1
  <2>2. u[1] # u[1 + 1]
    BY <2>1 DEF Alternates, u
  <2> QED
    BY <1>1, <2>2
<1> QED
  BY <1>1, <1>2 DEF Buffers

\* A step that changes neither buffers nor queue nor the place of the task.
LEMMA SameMessages ==
  ASSUME QInv, UNCHANGED <<inUse, wr_buffer, queue, at, read_index>>
  PROVE  QInv'
  BY DEF QInv, BeforeCleaning, AfterCleaning, Slack, Word, NoLostBuffer

\* A buffer is filled: its message goes to the queue, or is dropped from one that names it.
LEMMA FillKeeps ==
  ASSUME QueueLength >= 3, IInv, QInv, SampleLast
  PROVE  QInv'
<1>1. /\ inUse \in [Buffers -> BOOLEAN] /\ wr_buffer \in Buffers
      /\ queue \in Seq(Buffers) /\ QueueLength \in Nat /\ Len(queue) <= QueueLength
  BY MetrologyAssumption DEF IInv, TypeOK
<1>2. /\ ~inUse[wr_buffer] /\ inUse' = [inUse EXCEPT ![wr_buffer] = TRUE]
      /\ wr_buffer' = 1 - wr_buffer /\ UNCHANGED <<at, read_index>>
      /\ queue' = IF Len(queue) < QueueLength THEN Append(queue, wr_buffer) ELSE queue
  BY DEF SampleLast, Metering_SampleFinish, Metering_StartProcessing, taskVars
<1>3. CASE at \in {"wait", "clean"}
  <2>1. BeforeCleaning
    BY <1>3 DEF QInv
  <2>2. CASE Len(queue) = 0 /\ ~inUse[0] /\ ~inUse[1] /\ wr_buffer = 0
    <3>1. Len(queue') = 1 /\ queue'[1] = 0
      BY <1>1, <1>2, <2>2
    <3>2. inUse'[0] /\ ~inUse'[1] /\ wr_buffer' = 1
      BY <1>1, <1>2, <2>2 DEF Buffers
    <3> QED
      BY <1>2, <1>3, <3>1, <3>2 DEF QInv, BeforeCleaning
  <2>3. CASE Len(queue) = 1 /\ queue[1] = 0 /\ inUse[0] /\ ~inUse[1] /\ wr_buffer = 1
    <3>1. queue' = Append(queue, 1)
      BY <1>1, <1>2, <2>3
    <3>2. Len(queue') = 2 /\ queue'[1] = 0 /\ queue'[2] = 1
      BY <1>1, <2>3, <3>1 DEF Buffers
    <3>3. inUse'[0] /\ inUse'[1] /\ wr_buffer' = 0
      BY <1>1, <1>2, <2>3 DEF Buffers
    <3> QED
      BY <1>2, <1>3, <3>2, <3>3 DEF QInv, BeforeCleaning
  <2>4. CASE Len(queue) = 2 /\ queue[1] = 0 /\ queue[2] = 1 /\ inUse[0] /\ inUse[1] /\ wr_buffer = 0
    BY <1>2, <2>4
  <2> QED
    BY <2>1, <2>2, <2>3, <2>4 DEF BeforeCleaning
<1>4. CASE at \notin {"wait", "clean"}
  <2>1. AfterCleaning
    BY <1>4 DEF QInv
  <2> DEFINE n == One(inUse[0]) + One(inUse[1])
             m == One(at \in {"check", "calculate"})
  <2>2. n \in {0, 1} /\ (One(inUse[0]) + One(inUse[1]))' = n + 1 /\ m \in {0, 1}
    BY <1>1, <1>2 DEF One, Buffers
  <2>3. Slack = n + 2 - Len(queue) - m /\ Len(queue) \in Nat
    BY <1>1 DEF Slack
  <2>4. Slack' = n + 1 + 2 - Len(queue') - m
    BY <1>2, <2>2 DEF Slack
  <2> HIDE DEF n, m
  <2>5. CASE Len(queue) < QueueLength
    <3>1. queue' = Append(queue, wr_buffer) /\ Len(queue') = Len(queue) + 1
      BY <1>1, <1>2, <2>5
    <3>2. Slack' = Slack
      BY <2>2, <2>3, <2>4, <3>1
    <3>3. Word' = Append(Append(queue, wr_buffer), 1 - wr_buffer)
      BY <1>2, <3>1 DEF Word
    <3>4. (OneBreak(Word) => OneBreak(Word')) /\ (Alternates(Word) => Alternates(Word'))
      BY <1>1, <3>3, WordGrows DEF Word
    <3>5. NoLostBuffer'
      <4>1. \A b \in Buffers : inUse'[b] => inUse[b] \/ b = wr_buffer
        BY <1>1, <1>2
      <4>2. \A i \in 1 .. Len(queue) : i \in 1 .. Len(queue') /\ queue'[i] = queue[i]
        BY <1>1, <3>1
      <4>3. Len(queue') \in 1 .. Len(queue') /\ queue'[Len(queue')] = wr_buffer
        BY <1>1, <3>1
      <4> QED
        BY <1>2, <2>1, <4>1, <4>2, <4>3 DEF AfterCleaning, NoLostBuffer
    <3> QED
      BY <1>2, <1>4, <2>1, <3>2, <3>4, <3>5 DEF QInv, AfterCleaning
  <2>6. CASE ~(Len(queue) < QueueLength)
    <3>1. queue' = queue /\ Len(queue) >= 3
      BY <1>1, <1>2, <2>3, <2>6
    <3>2. Slack = 0 /\ Slack' = 1
      BY <2>1, <2>2, <2>3, <2>4, <3>1 DEF AfterCleaning
    <3>3. Alternates(Append(queue, wr_buffer))
      BY <2>1, <3>2 DEF AfterCleaning, Word
    <3>4. OneBreak(Word')
      BY <1>1, <1>2, <3>1, <3>3, WordFlips DEF Word
    <3>5. \A b \in Buffers : \E i \in 1 .. Len(queue) : queue[i] = b
      BY <1>1, <2>3, <3>1, <3>3, WordNamesBoth
    <3>6. NoLostBuffer'
      BY <3>1, <3>5 DEF NoLostBuffer
    <3> QED
      BY <1>2, <1>4, <3>2, <3>4, <3>6 DEF QInv, AfterCleaning
  <2> QED
    BY <2>5, <2>6
<1> QED
  BY <1>3, <1>4

\* The cleaning frees both buffers and leaves at most two stale messages.
LEMMA CleanKeeps ==
  ASSUME IInv, QInv, CleanEverything
  PROVE  QInv'
<1>1. /\ BeforeCleaning /\ at' = "get" /\ queue' = queue /\ wr_buffer' = 0
      /\ ~inUse'[0] /\ ~inUse'[1]
  BY DEF QInv, CleanEverything, Buffers
<1>2. Slack' = 2 - Len(queue)
  BY <1>1 DEF Slack, One, IInv, TypeOK
<1>3. NoLostBuffer'
  BY <1>1 DEF NoLostBuffer, Buffers
<1>4. Len(Word') = Len(queue) + 1 /\ Word'[Len(queue) + 1] = 0
      /\ \A i \in 1 .. Len(queue) : Word'[i] = queue[i]
  BY <1>1 DEF Word, IInv, TypeOK, Buffers
<1>5. /\ Slack' >= 0 /\ OneBreak(Word')
      /\ Slack' = 0 => Alternates(Word')
  <2>1. CASE Len(queue) = 0
    BY <1>2, <1>4, <2>1 DEF OneBreak, Alternates
  <2>2. CASE Len(queue) = 1
    BY <1>2, <1>4, <2>2 DEF OneBreak, Alternates
  <2>3. CASE Len(queue) = 2 /\ queue[1] = 0 /\ queue[2] = 1
    <3>1. Len(Word') = 3 /\ Word'[1] = 0 /\ Word'[2] = 1 /\ Word'[3] = 0
      BY <1>4, <2>3
    <3>2. Alternates(Word') /\ OneBreak(Word')
      BY <3>1 DEF OneBreak, Alternates
    <3> QED
      BY <1>2, <2>3, <3>2
  <2> QED
    BY <1>1, <2>1, <2>2, <2>3 DEF BeforeCleaning
<1> QED
  BY <1>1, <1>3, <1>5 DEF QInv, AfterCleaning

\* The task takes a message, finds its buffer in use or not, and gives it back.
LEMMA TaskKeeps ==
  ASSUME IInv, QInv, MsgQGet \/ CheckInUse \/ Release, UNCHANGED <<current_sample, wr_buffer>>,
         ~MsgQGet => UNCHANGED <<queue, read_index>>
  PROVE  QInv'
<1>1. /\ inUse \in [Buffers -> BOOLEAN] /\ wr_buffer \in Buffers /\ read_index \in Buffers
      /\ queue \in Seq(Buffers) /\ Len(queue) \in Nat
  BY DEF IInv, TypeOK
<1>2. AfterCleaning
  BY DEF QInv, MsgQGet, CheckInUse, Release
<1>3. CASE MsgQGet
  <2>1. /\ at = "get" /\ at' = "check" /\ queue # << >> /\ UNCHANGED inUse
        /\ read_index' = Head(queue) /\ queue' = Tail(queue)
    BY <1>3 DEF MsgQGet, sampling
  <2>2. /\ Len(queue') = Len(queue) - 1 /\ Head(queue) = queue[1]
        /\ \A i \in 1 .. Len(queue) - 1 : queue'[i] = queue[i + 1]
    BY <1>1, <2>1
  <2>3. One(at' \in {"check", "calculate"}) = 1 /\ One(at \in {"check", "calculate"}) = 0
    BY <2>1 DEF One
  <2>4. Slack' = Slack
    <3> DEFINE n == One(inUse[0]) + One(inUse[1])
    <3>1. n \in Nat
      BY DEF One
    <3>2. Slack = n + 2 - Len(queue) - 0 /\ Slack' = n + 2 - (Len(queue) - 1) - 1
      BY <2>1, <2>2, <2>3 DEF Slack
    <3> HIDE DEF n
    <3> QED
      BY <1>1, <3>1, <3>2
  <2>5. (OneBreak(Word) => OneBreak(Word')) /\ (Alternates(Word) => Alternates(Word'))
    BY <1>1, <2>1, WordShrinks DEF Word
  <2>6. NoLostBuffer'
    <3> SUFFICES ASSUME NEW b \in Buffers, inUse[b], b # read_index'
                 PROVE  \E i \in 1 .. Len(queue') : queue'[i] = b
      BY <2>1 DEF NoLostBuffer
    <3>1. PICK i \in 1 .. Len(queue) : queue[i] = b
      BY <1>2, <2>1 DEF AfterCleaning, NoLostBuffer
    <3>2. i # 1
      BY <2>1, <2>2, <3>1
    <3>3. i - 1 \in 1 .. Len(queue) - 1
      BY <1>1, <3>1, <3>2
    <3>4. queue'[i - 1] = queue[(i - 1) + 1] /\ (i - 1) + 1 = i
      BY <2>2, <3>1, <3>3
    <3> QED
      BY <2>2, <3>1, <3>3, <3>4
  <2> QED
    BY <1>2, <2>1, <2>4, <2>5, <2>6 DEF QInv, AfterCleaning
<1>4. CASE CheckInUse /\ ~MsgQGet
  <2>1. /\ at = "check" /\ at' = IF inUse[read_index] THEN "calculate" ELSE "get"
        /\ UNCHANGED <<inUse, queue, wr_buffer, read_index>>
    BY <1>4 DEF CheckInUse, sampling
  <2>2. Word' = Word /\ NoLostBuffer'
    BY <1>2, <2>1 DEF Word, AfterCleaning, NoLostBuffer
  <2>3. Slack' = Slack \/ Slack' = Slack + 1
    <3> DEFINE n == One(inUse[0]) + One(inUse[1])
    <3>1. n \in Nat
      BY DEF One
    <3>2. Slack = n + 2 - Len(queue) - 1
      BY <2>1 DEF Slack, One
    <3>3. Slack' = n + 2 - Len(queue) - One(inUse[read_index])
      BY <2>1 DEF Slack, One
    <3>4. One(inUse[read_index]) \in {0, 1}
      BY DEF One
    <3> HIDE DEF n
    <3> QED
      BY <1>1, <3>1, <3>2, <3>3, <3>4
  <2>4. Slack \in Int
    BY <1>1 DEF Slack, One
  <2> QED
    BY <1>2, <2>1, <2>2, <2>3, <2>4 DEF QInv, AfterCleaning
<1>5. CASE Release /\ ~MsgQGet
  <2>1. /\ at = "calculate" /\ at' = "get" /\ inUse[read_index]
        /\ inUse' = [inUse EXCEPT ![read_index] = FALSE]
        /\ UNCHANGED <<queue, wr_buffer, read_index>>
    BY <1>5 DEF Release, IInv
  <2>2. Word' = Word
    BY <2>1 DEF Word
  <2>3. NoLostBuffer'
    BY <1>1, <1>2, <2>1 DEF AfterCleaning, NoLostBuffer
  <2>4. Slack' = Slack
    <3> DEFINE n == One(inUse[0]) + One(inUse[1])
               k == One(inUse'[0]) + One(inUse'[1])
    <3>1. n \in Nat /\ k = n - 1
      BY <1>1, <2>1 DEF One, Buffers
    <3>2. Slack = n + 2 - Len(queue) - 1 /\ Slack' = k + 2 - Len(queue) - 0
      BY <2>1 DEF Slack, One
    <3> HIDE DEF n, k
    <3> QED
      BY <1>1, <3>1, <3>2
  <2> QED
    BY <1>2, <2>1, <2>2, <2>3, <2>4 DEF QInv, AfterCleaning
<1> QED
  BY <1>3, <1>4, <1>5

LEMMA QStep ==
  ASSUME QueueLength >= 3, IInv, QInv, [Next]_vars
  PROVE  QInv'
<1>1. CASE WrongCrc
  BY <1>1, SameMessages DEF WrongCrc, Metering_SampleReset, taskVars
<1>2. CASE SampleAdd
  BY <1>2, SameMessages DEF SampleAdd, taskVars
<1>3. CASE SampleLast
  BY <1>3, FillKeeps
<1>4. CASE SampleDropped
  BY <1>4, SameMessages DEF SampleDropped, sampling, taskVars
<1>5. CASE AFE_Init
  BY <1>5 DEF AFE_Init, sampling, QInv, BeforeCleaning
<1>6. CASE CleanEverything
  BY <1>6, CleanKeeps
<1>7. CASE MsgQGet
  BY <1>7, TaskKeeps DEF MsgQGet, sampling
<1>8. CASE CheckInUse
  BY <1>8, TaskKeeps DEF CheckInUse, sampling
<1>9. CASE Processed
  BY <1>9, TaskKeeps DEF Processed, Release
<1>10. CASE Averaged
  BY <1>10, TaskKeeps DEF Averaged, Release
<1>11. CASE TakeTelemetry
  BY <1>11, SameMessages DEF TakeTelemetry, sampling
<1>12. CASE UNCHANGED vars
  BY <1>12, SameMessages DEF vars, sampling, taskVars
<1> QED
  BY <1>1, <1>2, <1>3, <1>4, <1>5, <1>6, <1>7, <1>8, <1>9, <1>10, <1>11, <1>12
     DEF Next, Interrupt, Task

\* With a queue of three messages, as in the code, a buffer in use is always on its way
\* back to the interrupt, stale and dropped messages notwithstanding.
THEOREM NoBufferLost ==
  ASSUME QueueLength >= 3
  PROVE  Spec => []NoLostBuffer
<1>1. Init => QInv
  BY DEF Init, QInv, BeforeCleaning, Buffers
<1>2. IInv /\ QInv /\ [Next]_vars => QInv'
  BY QStep
<1>3. QInv => NoLostBuffer
  BY DEF QInv, AfterCleaning, NoLostBuffer
<1> QED
  BY <1>1, <1>2, <1>3, BuffersInvariant, PTL DEF Spec
=============================================================================
