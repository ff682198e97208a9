------------------------- MODULE StandaloneConsumer -------------------------
(***************************************************************************)
(* The standalone consumer.  A prefetch thread takes commands and fetches  *)
(* their samples ahead of training; the training loop trains one batch at  *)
(* a time; a completed batch is cleared from the store and then announced  *)
(* to the driver, by the loop itself or, for hidden references, by a       *)
(* finalizer thread that trails behind it.  Checkpoints are written in the *)
(* background.  The ranks act in lockstep and appear as one.               *)
(***************************************************************************)
EXTENDS StandaloneChannels

CONSTANT
  SaveInterval  \* steps between checkpoints, 0 for the final one alone

ASSUME ConsumerAssumption == SaveInterval \in Nat

VARIABLES
  lastPlan,   \* last_plan_id
  fetched,    \* batches fetched and not yet taken
  sourceDone, \* the stop command was taken
  cur,        \* batch in the training loop
  finals,     \* trained batches yet to be cleared and announced
  cleared,    \* the first of them is cleared
  optStep,    \* optimizer_step
  consumed,   \* consumed_sequence_nos
  due,        \* a checkpoint is due
  saving,     \* checkpoint being written
  model,      \* history: how often the model was trained on each sample
  ckpt        \* latest complete checkpoint

consumerVars == <<lastPlan, fetched, sourceDone, cur, finals, cleared, optStep,
                  consumed, due, saving, model, ckpt>>

Checkpoint == [step : Nat, consumed : SUBSET Samples, model : [Samples -> Nat]]
NoSave == [step |-> 0]

ConsumerTypeOK ==
  /\ lastPlan \in Nat
  /\ fetched \in Seq(Message) /\ finals \in Seq(Message)
  /\ cur \in Message
  /\ sourceDone \in BOOLEAN /\ cleared \in BOOLEAN /\ due \in BOOLEAN
  /\ optStep \in Nat
  /\ consumed \subseteq Samples
  /\ saving \in Checkpoint \union {NoSave}
  /\ model \in [Samples -> Nat]
  /\ ckpt \in Checkpoint

ConsumerInit ==
  /\ lastPlan = 0 /\ fetched = <<>> /\ sourceDone = FALSE
  /\ cur = None /\ finals = <<>> /\ cleared = FALSE
  /\ due = FALSE /\ saving = NoSave
  /\ optStep = 0 /\ consumed = {}
  /\ model = [s \in Samples |-> 0]
  /\ ckpt = [step |-> 0, consumed |-> {}, model |-> [s \in Samples |-> 0]]

(* The trainer and load_standalone_resume restore one checkpoint.          *)
ConsumerRelaunch ==
  /\ lastPlan' = 0 /\ fetched' = <<>> /\ sourceDone' = FALSE
  /\ cur' = None /\ finals' = <<>> /\ cleared' = FALSE
  /\ due' = FALSE /\ saving' = NoSave
  /\ optStep' = ckpt.step
  /\ consumed' = ckpt.consumed
  /\ model' = ckpt.model
  /\ UNCHANGED ckpt

(* Mutant: a checkpoint does not say what was consumed.                    *)
SnapshotWeights == [step |-> optStep, model |-> model]

Snapshot == [step |-> optStep, consumed |-> consumed, model |-> model]

Active == run = "up" /\ consumer = "running"
MoreSteps == MaxSteps = 0 \/ optStep < MaxSteps
Idle == cur = None /\ ~due

Start ==
  /\ run = "up" /\ consumer = "starting"
  /\ PutEvent(Msg("ready", optStep, {}))
  /\ consumer' = "running"
  /\ UNCHANGED <<transport, run, producer, paused, tq, consumerVars>>

-----------------------------------------------------------------------------
(* The prefetch thread *)

(* A slot is free; without prefetching the loop itself asks for the next.  *)
HasSlot ==
  IF Depth = 0 THEN Idle /\ fetched = <<>> /\ MoreSteps ELSE Len(fetched) < Depth

TakeCommand(kind) ==
  /\ Active /\ ~sourceDone /\ HasSlot
  /\ commands # <<>> /\ Head(commands).kind = kind
  /\ commands' = Tail(commands)
  /\ UNCHANGED <<transport, run, producer, paused, tq, events, faults, cur,
                 finals, cleared, optStep, consumed, due, saving, model, ckpt>>

(* A plan taken before is skipped.                                         *)
SkipCommand ==
  /\ TakeCommand("batch") /\ Head(commands).id <= lastPlan
  /\ UNCHANGED <<consumer, lastPlan, fetched, sourceDone>>

(* Every sample must still be in the store.                                *)
Fetch ==
  /\ TakeCommand("batch") /\ Head(commands).id > lastPlan
  /\ lastPlan' = Head(commands).id
  /\ fetched' = Append(fetched, Head(commands))
  /\ consumer' = IF transport = "tq" /\ ~(Head(commands).keys \subseteq tq)
                   THEN "lost" ELSE consumer
  /\ UNCHANGED sourceDone

TakeStop ==
  /\ TakeCommand("stop")
  /\ sourceDone' = TRUE
  /\ UNCHANGED <<consumer, lastPlan, fetched>>

-----------------------------------------------------------------------------
(* The training loop *)

(* The optimizer step; the batch then goes to its finalization, which has  *)
(* room for one batch more than are prefetched.                            *)
Train ==
  /\ Active /\ Idle /\ MoreSteps
  /\ fetched # <<>> /\ Len(finals) <= Depth
  /\ cur' = Head(fetched)
  /\ fetched' = Tail(fetched)
  /\ finals' = Append(finals, Head(fetched))
  /\ model' = [s \in Samples |-> model[s] + IF s \in Head(fetched).keys THEN 1 ELSE 0]
  /\ UNCHANGED <<channelVars, lastPlan, sourceDone, cleared, optStep, consumed,
                 due, saving, ckpt>>

(* A rank fails in its step, or every attempt to clear or to announce a    *)
(* batch has failed: what is not cleared stays in the store.               *)
Fail ==
  /\ Active
  /\ (Idle /\ fetched # <<>>) \/ finals # <<>>
  /\ Fault("fail")
  /\ consumer' = "failed"
  /\ UNCHANGED <<transport, run, producer, paused, tq, events, commands,
                 consumerVars>>

(* With the store the loop waits until its batch is finalized.             *)
Account ==
  /\ Active /\ cur # None
  /\ transport = "tq" => finals = <<>>
  /\ consumed' = consumed \union cur.keys
  /\ optStep' = optStep + 1
  /\ due' = (SaveInterval > 0 /\ (optStep + 1) % SaveInterval = 0)
  /\ cur' = None
  /\ UNCHANGED <<channelVars, lastPlan, fetched, sourceDone, finals, cleared,
                 saving, model, ckpt>>

-----------------------------------------------------------------------------
(* Finalization of a trained batch *)

Clear ==
  /\ Active /\ transport = "tq"
  /\ finals # <<>> /\ ~cleared
  /\ tq' = tq \ Head(finals).keys
  /\ cleared' = TRUE
  /\ UNCHANGED <<transport, run, producer, consumer, paused, events, commands,
                 faults, lastPlan, fetched, sourceDone, cur, finals, optStep,
                 consumed, due, saving, model, ckpt>>

Announce ==
  /\ Active /\ finals # <<>>
  /\ transport = "tq" => cleared
  /\ PutEvent(Msg("completed", Head(finals).id, Head(finals).keys))
  /\ finals' = Tail(finals)
  /\ cleared' = FALSE
  /\ UNCHANGED <<transport, run, producer, consumer, paused, tq, lastPlan,
                 fetched, sourceDone, cur, optStep, consumed, due, saving,
                 model, ckpt>>

-----------------------------------------------------------------------------
(* Checkpoints *)

(* A save waits for the finalizer and for the previous save; what is       *)
(* consumed is copied when it starts.                                      *)
Save ==
  /\ Active /\ due
  /\ finals = <<>> /\ saving = NoSave
  /\ saving' = Snapshot
  /\ due' = FALSE
  /\ UNCHANGED <<channelVars, lastPlan, fetched, sourceDone, cur, finals,
                 cleared, optStep, consumed, model, ckpt>>

(* Mutant: what is consumed is read when the weights are written.          *)
WrittenLate == [saving EXCEPT !.consumed = consumed]

Written == saving

(* The writer publishes weights and consumed samples as one checkpoint.    *)
FinalizeSave ==
  /\ run = "up" /\ saving # NoSave
  /\ ckpt' = Written
  /\ saving' = NoSave
  /\ UNCHANGED <<channelVars, lastPlan, fetched, sourceDone, cur, finals,
                 cleared, optStep, consumed, due, model>>

(* The loop ends with the budget or the data, saves what is not saved yet, *)
(* and the worker returns.                                                 *)
End ==
  /\ Active /\ Idle
  /\ MoreSteps => sourceDone /\ fetched = <<>>
  /\ finals = <<>> /\ saving = NoSave
  /\ ckpt' = IF optStep = ckpt.step THEN ckpt ELSE Snapshot
  /\ consumer' = "ended"
  /\ UNCHANGED <<transport, run, producer, paused, tq, events, commands,
                 faults, lastPlan, fetched, sourceDone, cur, finals, cleared,
                 optStep, consumed, due, saving, model>>

ConsumerStep ==
  \/ Start
  \/ SkipCommand \/ Fetch \/ TakeStop
  \/ Train \/ Fail \/ Account
  \/ Clear \/ Announce
  \/ Save \/ FinalizeSave \/ End
=============================================================================
