------------------------------ MODULE Metrology ------------------------------
(***************************************************************************)
(* The path of the samples of the external front end: the DMA interrupt    *)
(* (ext_afe_mkm.c) writes them into one of two buffers and puts the number *)
(* of a full one in a queue; the metrology task (EVSE_Metrology.c) takes   *)
(* it, computes, and gives the buffer back.  Neither waits for the other:  *)
(* a sample that finds its buffer in use is dropped, and so is a message   *)
(* that finds the queue full.                                              *)
(*                                                                         *)
(* The interrupt is atomic, the task can be interrupted between its steps. *)
(* A sample is not modelled, only whether those of a buffer are consecutive.*)
(***************************************************************************)
EXTENDS Integers, Sequences

CONSTANTS
  BufSamples,    \* buf_samples, 64 in the code
  QueueLength,   \* messages of metrology_queue_handle, 3 in the code
  ReadPeriod,    \* buffers between two readings of the averages, 50 in the code
  MaxCrcErrors   \* bound: packets with a wrong CRC

ASSUME MetrologyAssumption ==
  /\ BufSamples \in Nat \ {0} /\ QueueLength \in Nat \ {0}
  /\ ReadPeriod \in Nat \ {0} /\ MaxCrcErrors \in Nat

Buffers == {0, 1}

VARIABLES
  inUse,          \* buffer_inUse
  current_sample,
  wr_buffer, rd_buffer,
  queue,          \* the buffer numbers of the Metrology_DataRCV messages
  transferred,    \* isTransferCompleted
  at,             \* where the task is
  read_index,     \* the message it is working on
  read_period,
  telemetry,      \* the telemetry bit of the OCPP task
  run,            \* samples a buffer holds, 0 if one is missing between two of them
  gap,            \* a sample was lost since the last one that was stored
  crcErrors       \* how much of the bound was used

sampling == <<inUse, current_sample, wr_buffer, rd_buffer>>
samples == <<run, gap, crcErrors>>
taskVars == <<at, read_index, read_period, telemetry>>
vars == <<sampling, queue, transferred, taskVars, samples>>

TypeOK ==
  /\ inUse \in [Buffers -> BOOLEAN] /\ current_sample \in 0 .. BufSamples
  /\ wr_buffer \in Buffers /\ rd_buffer \in Buffers /\ read_index \in Buffers
  /\ queue \in Seq(Buffers) /\ Len(queue) <= QueueLength
  /\ at \in {"wait", "clean", "get", "check", "calculate"}
  /\ read_period \in 0 .. ReadPeriod - 1
  /\ transferred \in BOOLEAN /\ telemetry \in BOOLEAN /\ gap \in BOOLEAN
  /\ run \in [Buffers -> 0 .. BufSamples] /\ crcErrors \in 0 .. MaxCrcErrors

\* The task has initialized itself and started the front end; is_init is set, as the
\* daemon task that created the metrology task outranks it.
Init ==
  /\ inUse = [b \in Buffers |-> FALSE] /\ current_sample = 0
  /\ wr_buffer = 0 /\ rd_buffer = 0 /\ queue = <<>> /\ transferred = FALSE
  /\ at = "wait" /\ read_index = 0 /\ read_period = 0 /\ telemetry = FALSE
  /\ run = [b \in Buffers |-> 0] /\ gap = FALSE /\ crcErrors = 0
-----------------------------------------------------------------------------
(* The interrupt, AFE_SPIRxDMACallback.                                    *)

\* Mutant: a wrong CRC does not start the buffer anew.
SampleResetSkipped == UNCHANGED sampling

Metering_SampleReset ==
  /\ current_sample' = 0
  /\ UNCHANGED <<inUse, wr_buffer, rd_buffer>>

WrongCrc ==
  /\ crcErrors < MaxCrcErrors /\ crcErrors' = crcErrors + 1
  /\ transferred' = TRUE /\ gap' = TRUE
  /\ Metering_SampleReset
  /\ UNCHANGED <<queue, taskVars, run>>

\* What the buffer holds once the sample is stored at current_sample.
RunWithSample ==
  IF current_sample = 0 THEN 1
  ELSE IF gap \/ run[wr_buffer] # current_sample THEN 0 ELSE current_sample + 1

\* Metering_SampleAdd stores the sample; the buffer is not full yet.
SampleAdd ==
  /\ ~inUse[wr_buffer] /\ current_sample + 1 < BufSamples
  /\ current_sample' = current_sample + 1
  /\ run' = [run EXCEPT ![wr_buffer] = RunWithSample] /\ gap' = FALSE
  /\ transferred' = TRUE
  /\ UNCHANGED <<inUse, wr_buffer, rd_buffer, queue, taskVars, crcErrors>>

\* Mutants: the limit of the queue is missed by one; the message names the buffer that
\* is written next.
StartProcessingOverfull ==
  queue' = IF Len(queue) <= QueueLength THEN Append(queue, rd_buffer') ELSE queue

StartProcessingNext ==
  queue' = IF Len(queue) < QueueLength THEN Append(queue, 1 - rd_buffer') ELSE queue

\* Metering_StartProcessing: the queue does not wait.
Metering_StartProcessing ==
  queue' = IF Len(queue) < QueueLength THEN Append(queue, rd_buffer') ELSE queue

Metering_SampleFinish ==
  /\ inUse' = [inUse EXCEPT ![wr_buffer] = TRUE]
  /\ current_sample' = 0
  /\ rd_buffer' = wr_buffer /\ wr_buffer' = 1 - wr_buffer

\* Metering_SampleAdd stores the last sample of the buffer.
SampleLast ==
  /\ ~inUse[wr_buffer] /\ current_sample + 1 = BufSamples
  /\ run' = [run EXCEPT ![wr_buffer] = RunWithSample] /\ gap' = FALSE
  /\ Metering_SampleFinish
  /\ Metering_StartProcessing
  /\ transferred' = TRUE
  /\ UNCHANGED <<taskVars, crcErrors>>

\* Metering_SampleAdd drops the sample (buffers_not_process_in_time).
SampleDropped ==
  /\ inUse[wr_buffer] /\ gap' = TRUE /\ transferred' = TRUE
  /\ UNCHANGED <<sampling, queue, taskVars, run, crcErrors>>
-----------------------------------------------------------------------------
(* The task.                                                               *)

\* The loop of AFE_Init.
AFE_Init ==
  /\ at = "wait" /\ transferred /\ at' = "clean"
  /\ UNCHANGED <<sampling, queue, transferred, read_index, read_period, telemetry, samples>>

\* Metering_CleanEverything, with interrupts off; the queue keeps its messages.
CleanEverything ==
  /\ at = "clean" /\ at' = "get"
  /\ inUse' = [b \in Buffers |-> FALSE] /\ current_sample' = 0
  /\ wr_buffer' = 0 /\ rd_buffer' = 0
  /\ UNCHANGED <<queue, transferred, read_index, read_period, telemetry, samples>>

MsgQGet ==
  /\ at = "get" /\ queue # <<>> /\ at' = "check"
  /\ read_index' = Head(queue) /\ queue' = Tail(queue)
  /\ UNCHANGED <<sampling, transferred, read_period, telemetry, samples>>

\* Mutant: the buffer of every message is processed.
CheckNothing ==
  /\ at = "check" /\ at' = "calculate"
  /\ UNCHANGED <<sampling, queue, transferred, read_index, read_period, telemetry, samples>>

\* metrology_process: a message from before the cleaning may name an unfinished buffer.
CheckInUse ==
  /\ at = "check" /\ at' = IF inUse[read_index] THEN "calculate" ELSE "get"
  /\ UNCHANGED <<sampling, queue, transferred, read_index, read_period, telemetry, samples>>

\* Mutant: the buffer is not given back.
ReleaseForgotten == at = "calculate" /\ at' = "get" /\ UNCHANGED sampling

Release ==
  /\ at = "calculate" /\ at' = "get"
  /\ inUse' = [inUse EXCEPT ![read_index] = FALSE]
  /\ UNCHANGED <<current_sample, wr_buffer, rd_buffer>>

\* The end of metrology_process without and with a reading of the averages.
Processed ==
  /\ Release /\ read_period + 1 # ReadPeriod /\ read_period' = read_period + 1
  /\ UNCHANGED <<queue, transferred, read_index, telemetry, samples>>

Averaged ==
  /\ Release /\ read_period + 1 = ReadPeriod /\ read_period' = 0
  /\ telemetry' = TRUE
  /\ UNCHANGED <<queue, transferred, read_index, samples>>

\* The OCPP task takes the bit.
TakeTelemetry ==
  /\ telemetry /\ telemetry' = FALSE
  /\ UNCHANGED <<sampling, queue, transferred, at, read_index, read_period, samples>>

Interrupt == SampleAdd \/ SampleLast \/ SampleDropped
Task == AFE_Init \/ CleanEverything \/ MsgQGet \/ CheckInUse \/ Processed \/ Averaged
Next == WrongCrc \/ Interrupt \/ Task \/ TakeTelemetry

Spec == Init /\ [][Next]_vars

\* The front end samples on and the task is scheduled.
FairSpec == Spec /\ WF_vars(Interrupt) /\ WF_vars(Task)
-----------------------------------------------------------------------------
(* Properties.                                                             *)

\* A buffer that is in use is on its way back: the task works on it or a message for it
\* is in the queue, although CleanEverything leaves stale messages there and a full
\* queue drops new ones.  Otherwise the interrupt would find it in use for ever.
NoLostBuffer ==
  at \notin {"wait", "clean"} => \A b \in Buffers :
    inUse[b] => \/ at \in {"check", "calculate"} /\ read_index = b
                \/ \E i \in 1 .. Len(queue) : queue[i] = b

\* The task computes over one unbroken run of samples, which no interrupt touches in
\* the meantime, whatever was dropped, refused by its CRC or announced twice before.
WholeCycle == at = "calculate" => run[read_index] = BufSamples

\* WholeCycle is not inductive.  A buffer in use is complete, and only such a one is
\* computed over; a buffer that is being filled is not in use, nothing was lost since
\* its last sample, and all samples before it are there.
IInv ==
  /\ TypeOK
  /\ \A b \in Buffers : inUse[b] => run[b] = BufSamples
  /\ current_sample > 0 => ~inUse[wr_buffer] /\ ~gap /\ run[wr_buffer] = current_sample
  /\ current_sample < BufSamples
  /\ at = "calculate" => inUse[read_index]

\* Metering never comes to a halt: the averages are read again and again.
MeteringGoesOn == []<><<Averaged>>_vars
=============================================================================
