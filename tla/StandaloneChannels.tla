------------------------- MODULE StandaloneChannels -------------------------
(***************************************************************************)
(* What the three parties of standalone training share: the TransferQueue  *)
(* store of ready samples, the two Ray queues, the producer's gate, and    *)
(* how the actors of the producer and of the consumer stand.               *)
(*                                                                         *)
(* A sample is its run-global sequence number.  A put to a Ray queue that  *)
(* times out may have landed, and the sender puts the same message again.  *)
(* Ray keeps the calls of one caller in order, so the second copy lands    *)
(* before anything else this sender puts.                                  *)
(***************************************************************************)
EXTENDS Integers, Sequences, FiniteSets

CONSTANTS
  NumSamples,   \* records of the input
  Batch,        \* global_batch_size
  Depth,        \* consumer_prefetch_batches
  MaxSteps,     \* training.max_steps, 0 for no budget
  Transports,   \* feature stores to consider: "tq", "reference"
  Faults,       \* what may go wrong
  MaxFaults     \* bound: faults in all

ASSUME SizesAssumption ==
  NumSamples \in Nat /\ Batch \in Nat \ {0} /\ Depth \in Nat /\ MaxSteps \in Nat
ASSUME TransportsAssumption == Transports \subseteq {"tq", "reference"}
ASSUME FaultsAssumption ==
  /\ Faults \subseteq {"put", "copy", "drop", "fail", "crash"}
  /\ MaxFaults \in Nat

Samples == 0..(NumSamples - 1)

Kinds == {"none", "batch", "stop", "ready", "published", "samples", "producer_done",
          "completed"}
Message == [kind : Kinds, id : Nat, keys : SUBSET Samples]

Msg(kind, id, keys) == [kind |-> kind, id |-> id, keys |-> keys]
None == Msg("none", 0, {})

VARIABLES
  transport,  \* feature store of this pipeline
  run,        \* "up", "down" after a failure, "confused" after an internal error
  producer,   \* status of the producer actor
  consumer,   \* status of the consumer workers
  paused,     \* the producer's gate is closed
  tq,         \* ready samples of this run in the TransferQueue
  events,     \* events_queue
  commands,   \* commands_queue
  faults      \* faults so far

channelVars == <<transport, run, producer, consumer, paused, tq, events,
                 commands, faults>>

ChannelsTypeOK ==
  /\ transport \in Transports
  /\ run \in {"up", "down", "confused"}
  /\ producer \in {"running", "done", "failed", "stopped"}
  /\ consumer \in {"starting", "running", "ended", "failed", "lost"}
  /\ paused \in BOOLEAN
  /\ tq \subseteq Samples
  /\ events \in Seq(Message)
  /\ commands \in Seq(Message)
  /\ faults \in Nat

ChannelsInit ==
  /\ run = "up" /\ producer = "running" /\ consumer = "starting"
  /\ paused = FALSE
  /\ tq = {}
  /\ events = <<>> /\ commands = <<>>

(* A new launch has a run id, and so a store, of its own.                  *)
ChannelsRelaunch ==
  /\ run' = "up" /\ producer' = "running" /\ consumer' = "starting"
  /\ paused' = FALSE
  /\ tq' = {}
  /\ events' = <<>> /\ commands' = <<>>
  /\ UNCHANGED transport

Fault(kind) ==
  /\ kind \in Faults /\ faults < MaxFaults
  /\ faults' = faults + 1

(* retry_io puts the same message again when the outcome is unknown.       *)
Send(queue, m, after) ==
  \/ after = Append(queue, m) /\ UNCHANGED faults
  \/ Fault("copy") /\ after = queue \o <<m, m>>

PutEvent(m) == Send(events, m, events') /\ UNCHANGED commands
PutCommand(m) == Send(commands, m, commands') /\ UNCHANGED events
=============================================================================
