------------------------- MODULE StandaloneProducer -------------------------
(***************************************************************************)
(* The standalone producer.  Request workers take the next input, ask vLLM *)
(* for its features, and hand them on in any order.  With the TransferQueue *)
(* several publishers put one sample each and a notifier tells the driver  *)
(* the total so far; with hidden references one publisher submits batches  *)
(* of metadata as numbered events.                                         *)
(***************************************************************************)
EXTENDS StandaloneChannels

CONSTANT
  Inflight      \* max_inflight_requests

ASSUME ProducerAssumption == Inflight \in Nat \ {0}

VARIABLES
  todo,       \* inputs not yet requested in this run
  asked,      \* requested, not yet published
  published,  \* _published_total
  told,       \* _notified_published_total
  batchId,    \* batches of metadata submitted
  handed,     \* history: samples that reached the store, or the event queue
  twice       \* history: samples that reached the store again after leaving it

producerVars == <<todo, asked, published, told, batchId, handed, twice>>

ProducerTypeOK ==
  /\ todo \subseteq Samples
  /\ asked \subseteq Samples
  /\ published \in Nat /\ told \in Nat /\ batchId \in Nat
  /\ handed \subseteq Samples /\ twice \subseteq Samples

ProducerInit ==
  /\ todo = Samples
  /\ asked = {}
  /\ published = 0 /\ told = 0 /\ batchId = 0
  /\ handed = {} /\ twice = {}

(* iter_requests skips what the checkpoint says is consumed.               *)
ProducerRelaunch(skip) ==
  /\ todo' = Samples \ skip
  /\ asked' = {}
  /\ published' = 0 /\ told' = 0 /\ batchId' = 0
  /\ handed' = {}
  /\ UNCHANGED twice

Running == run = "up" /\ producer = "running"

(* A request worker passes the gate with the next input.                   *)
Request ==
  /\ Running /\ ~paused
  /\ Cardinality(asked) < Inflight
  /\ \E s \in todo :
       /\ \A t \in todo : s <= t
       /\ todo' = todo \ {s}
       /\ asked' = asked \union {s}
  /\ UNCHANGED <<channelVars, published, told, batchId, handed, twice>>

(* A failed request, a filtered or misaligned sample is dropped (the input *)
(* is read once, max_samples <= 0, so no replacement is requested).        *)
Drop(s) ==
  /\ Running /\ s \in asked
  /\ Fault("drop")
  /\ asked' = asked \ {s}
  /\ UNCHANGED <<transport, run, producer, consumer, paused, tq, events,
                 commands, todo, published, told, batchId, handed, twice>>

(* put_sample: a sample that is still in the store is replaced.            *)
Put(s) ==
  /\ tq' = tq \union {s}
  /\ handed' = handed \union {s}
  /\ twice' = IF s \in handed \ tq THEN twice \union {s} ELSE twice

Publishing(s) == Running /\ transport = "tq" /\ s \in asked

PublishOne(s) ==
  /\ Publishing(s)
  /\ Put(s)
  /\ asked' = asked \ {s}
  /\ published' = published + 1
  /\ UNCHANGED <<transport, run, producer, consumer, paused, events, commands,
                 faults, todo, told, batchId>>

(* An attempt raises although its put took effect: the sample is put again *)
(* later.  (Without effect, only the retry shows.)                         *)
PublishAmbiguous(s) ==
  /\ Publishing(s)
  /\ Fault("put")
  /\ Put(s)
  /\ UNCHANGED <<transport, run, producer, consumer, paused, events, commands,
                 todo, asked, published, told, batchId>>

(* The last of publish_max_attempts raises, with or without effect.        *)
PublishFails(s) ==
  /\ Publishing(s)
  /\ Fault("put")
  /\ producer' = "failed"
  /\ Put(s) \/ UNCHANGED <<tq, handed, twice>>
  /\ UNCHANGED <<transport, run, consumer, paused, events, commands, todo,
                 asked, published, told, batchId>>

(* _notify_published_totals coalesces publications into one running total. *)
Notify ==
  /\ Running /\ transport = "tq"
  /\ told < published
  /\ PutEvent(Msg("published", published, {}))
  /\ told' = published
  /\ UNCHANGED <<transport, run, producer, consumer, paused, tq, todo, asked,
                 published, batchId, handed, twice>>

(* _on_references; that all its retries raise is left to the crash.        *)
SubmitReferences ==
  /\ Running /\ transport = "reference"
  /\ \E keys \in SUBSET asked :
       /\ keys # {} /\ Cardinality(keys) <= Batch
       /\ PutEvent(Msg("samples", batchId + 1, keys))
       /\ asked' = asked \ keys
       /\ handed' = handed \union keys
  /\ batchId' = batchId + 1
  /\ UNCHANGED <<transport, run, producer, consumer, paused, tq, todo,
                 published, told, twice>>

Exhausted == Running /\ todo = {} /\ asked = {}

(* With the TransferQueue the producer stays until the store is empty, as  *)
(* closing its client would take unconsumed samples away, and until the    *)
(* last total is notified.                                                 *)
Return(drained) ==
  /\ Exhausted /\ transport = "tq"
  /\ drained <=> tq = {}
  /\ told = published
  /\ producer' = "done"
  /\ UNCHANGED <<transport, run, consumer, paused, tq, events, commands, faults,
                 producerVars>>

Drained == Return(TRUE)
DrainTimeout == Return(FALSE)

(* The ordered completion event follows every batch of metadata.           *)
ReturnReferences ==
  /\ Exhausted /\ transport = "reference"
  /\ PutEvent(Msg("producer_done", 0, {}))
  /\ producer' = "done"
  /\ UNCHANGED <<transport, run, consumer, paused, tq, producerVars>>

ProducerStep ==
  \/ Request
  \/ \E s \in Samples : Drop(s) \/ PublishOne(s) \/ PublishAmbiguous(s) \/ PublishFails(s)
  \/ Notify
  \/ SubmitReferences
  \/ Drained \/ DrainTimeout \/ ReturnReferences
=============================================================================
