------------------------ MODULE CollectionTransaction ------------------------
(***************************************************************************)
(* The two-phase transaction that moves rollout samples into the drafter   *)
(* owners: SyncCollectionStrategy.execute on the driver, the stage,        *)
(* commit, abort, rollback and finalize handlers of SpecoWorker on each    *)
(* owner, and the Ray calls between them.                                  *)
(*                                                                         *)
(* An owner is an asynchronous Ray actor: it starts its calls in the order *)
(* in which the driver sent them, and commit_rollout_features is a         *)
(* coroutine that may be suspended before every sample, while it awaits    *)
(* the object reference of its tensors.  The other handlers run to         *)
(* completion.  A commit that is suspended does not hold back the calls    *)
(* queued behind it.                                                       *)
(***************************************************************************)
EXTENDS Naturals, Sequences

CONSTANTS
  Owners,          \* drafter owners (replica ranks)
  MaxCollections,  \* bound on the collection sequence number
  MaxBucket,       \* bound on the samples routed to one owner
  MaxRestarts,     \* bound on the owner processes replaced in a behaviour
  CollectOnly,     \* training.mode = collect_only (samples go to the Feature Store)
  FlushEveryStep   \* feature_store.flush_interval_steps = 1

ASSUME OwnersAssumption == Owners # {}
ASSUME BoundsAssumption ==
  /\ MaxCollections \in Nat
  /\ MaxBucket \in Nat
  /\ MaxRestarts \in Nat
ASSUME ModesAssumption == 
  CollectOnly \in BOOLEAN /\ FlushEveryStep \in BOOLEAN

VARIABLES
  phase,     \* where execute() stands
  cause,     \* outcome that follows a clean abort or rollback
  cur,       \* sequence number of the current (or last) collection
  outcome,   \* per collection: what execute() returned or raised
  bucket,    \* per collection and owner: number of samples routed
  ackInc,    \* per collection and owner: incarnation that committed, 0 before
  reply,     \* per owner: answer to the call the driver waits for
  inbox,     \* per owner: calls sent and not started
  stepSet,   \* per owner: last_global_step is not None
  inc,       \* per owner: number of the process (worker_incarnation)
  staged,    \* per owner: _staged_rollout_features
  journal,   \* per owner and collection: _collection_commit_journals
  running,   \* per owner and collection: suspended commit coroutine
  buffer,    \* per owner: samples in the trainer's in-memory buffers
  unflushed, \* per owner: samples the Feature Store writer holds in memory
  shards     \* per owner: samples in the Feature Store's shard files

driverVars == <<phase, cause, cur, outcome, bucket, ackInc>>
callVars   == <<reply, inbox>>
workerVars == <<stepSet, inc, staged, journal, running, buffer, unflushed, shards>>
vars       == <<driverVars, callVars, workerVars>>

Collections == 1..MaxCollections
Samples     == Collections \X (1..MaxBucket)
SamplesOf(c) == {s \in Samples : s[1] = c}
Share(c, o) == {s \in SamplesOf(c) : s[2] <= bucket[c][o]}

Incarnations == 1..(MaxRestarts + 1)

Ops      == {"stage", "commit", "abort", "rollback", "finalize"}
Phases   == {"idle", "halted"} \union Ops
Failures == {"stage_failed", "rejected", "raised"}
Outcomes == {"none", "completed", "ambiguous"} \union Failures
Kinds    == {"staged", "not_ready", "committed", "not_staged", "cleaned",
             "finalized", "absent", "raise"}

Answers  == [kind : Kinds, rejected : 0..MaxBucket, inc : Incarnations]
NoReply  == [kind |-> "none"]
NoEntry  == [kind |-> "none"]
Entries  == [kind : {"journal"}, snapshot : SUBSET Samples, pending : SUBSET Samples]
NoCommit == [kind |-> "none"]
Commits  == [kind : {"commit"}, next : 1..MaxBucket, rejected : 0..MaxBucket]

TypeOK ==
  /\ phase \in Phases
  /\ cause \in Failures
  /\ cur \in 0..MaxCollections
  /\ phase # "idle" => cur \in Collections
  /\ outcome \in [Collections -> Outcomes]
  /\ bucket \in [Collections -> [Owners -> 0..MaxBucket]]
  /\ ackInc \in [Collections -> [Owners -> {0} \union Incarnations]]
  /\ reply \in [Owners -> Answers \union {NoReply}]
  /\ inbox \in [Owners -> Seq(Ops \X Collections)]
  /\ stepSet \in [Owners -> BOOLEAN]
  /\ inc \in [Owners -> Incarnations]
  /\ staged \in [Owners -> SUBSET Collections]
  /\ journal \in [Owners -> [Collections -> Entries \union {NoEntry}]]
  /\ running \in [Owners -> [Collections -> Commits \union {NoCommit}]]
  /\ buffer \in [Owners -> SUBSET Samples]
  /\ unflushed \in [Owners -> SUBSET Samples]
  /\ shards \in [Owners -> SUBSET Samples]

Init ==
  /\ phase = "idle"
  /\ cause = "raised"
  /\ cur = 0
  /\ outcome = [c \in Collections |-> "none"]
  /\ bucket = [c \in Collections |-> [o \in Owners |-> 0]]
  /\ ackInc = [c \in Collections |-> [o \in Owners |-> 0]]
  /\ reply = [o \in Owners |-> NoReply]
  /\ inbox = [o \in Owners |-> <<>>]
  /\ stepSet = [o \in Owners |-> FALSE]
  /\ inc = [o \in Owners |-> 1]
  /\ staged = [o \in Owners |-> {}]
  /\ journal = [o \in Owners |-> [c \in Collections |-> NoEntry]]
  /\ running = [o \in Owners |-> [c \in Collections |-> NoCommit]]
  /\ buffer = [o \in Owners |-> {}]
  /\ unflushed = [o \in Owners |-> {}]
  /\ shards = [o \in Owners |-> {}]

-----------------------------------------------------------------------------
(* The driver: SyncCollectionStrategy.execute.                             *)

(* One request per owner, empty buckets included; forget older answers.    *)
SendAll(op, c) ==
  /\ inbox' = [o \in Owners |-> Append(inbox[o], <<op, c>>)]
  /\ reply' = [o \in Owners |-> NoReply]

AllAnswered == \A o \in Owners : reply[o] # NoReply
SomeRaised  == \E o \in Owners : reply[o].kind = "raise"

(* ray.get returns all results, or raises as soon as one call has failed:  *)
(* the others may then be still running, or not even started.              *)
Resolved == AllAnswered /\ ~SomeRaised
Raised   == SomeRaised

(* set_global_step on every owner, then stage; an empty payload is not     *)
(* attempted.                                                              *)
Begin ==
  /\ phase = "idle"
  /\ cur < MaxCollections
  /\ \E b \in [Owners -> 0..MaxBucket] :
        /\ \E o \in Owners : b[o] > 0
        /\ bucket' = [bucket EXCEPT ![cur + 1] = b]
  /\ cur' = cur + 1
  /\ stepSet' = [o \in Owners |-> TRUE]
  /\ SendAll("stage", cur + 1)
  /\ phase' = "stage"
  /\ UNCHANGED <<cause, outcome, ackInc, inc, staged, journal, running, buffer, unflushed, shards>>

Cleanup(op, why) ==
  /\ SendAll(op, cur)
  /\ phase' = op
  /\ cause' = why
  /\ UNCHANGED <<cur, outcome, bucket, ackInc, workerVars>>

Proceed(op) ==
  /\ SendAll(op, cur)
  /\ phase' = op
  /\ UNCHANGED <<cause, cur, outcome, bucket, workerVars>>

Finish(result, next) ==
  /\ outcome' = [outcome EXCEPT ![cur] = result]
  /\ phase' = next
  /\ UNCHANGED <<cause, cur, bucket, ackInc, callVars, workerVars>>

StageValid == \A o \in Owners : reply[o].kind = "staged"

AfterStage ==
  /\ phase = "stage"
  /\ \/ Raised /\ Cleanup("abort", "raised")
     \/ Resolved /\ ~StageValid /\ Cleanup("abort", "stage_failed")
     \/ Resolved /\ StageValid /\ Proceed("commit") /\ UNCHANGED ackInc

(* Mutant: the driver does not look at rejected samples.                   *)
CommitCompleteIgnoringRejects == \A o \in Owners : reply[o].kind = "committed"

(* No rejected sample, and every owner accepted exactly its bucket.        *)
CommitComplete ==
  \A o \in Owners : reply[o].kind = "committed" /\ reply[o].rejected = 0

AfterCommit ==
  /\ phase = "commit"
  /\ \/ Raised /\ Cleanup("rollback", "raised")
     \/ Resolved /\ ~CommitComplete /\ Cleanup("rollback", "rejected")
     \/ /\ Resolved /\ CommitComplete
        /\ Proceed("finalize")
        /\ ackInc' = [ackInc EXCEPT ![cur] = [o \in Owners |-> reply[o].inc]]

(* Every owner finalized, in the incarnation that committed.               *)
FinalizeAcked ==
  \A o \in Owners : reply[o].kind = "finalized" /\ reply[o].inc = ackInc[cur][o]

(* An incomplete finalize raises CollectionFinalizeError: no rollback, and *)
(* the trainer keeps the error and collects no more.                       *)
AfterFinalize ==
  /\ phase = "finalize"
  /\ \/ Resolved /\ FinalizeAcked /\ Finish("completed", "idle")
     \/ (Raised \/ (Resolved /\ ~FinalizeAcked)) /\ Finish("ambiguous", "halted")

(* A failing abort or rollback replaces the outcome by its exception; the  *)
(* idle event loop of the trainer logs it and goes on.                     *)
AfterCleanup ==
  /\ phase \in {"abort", "rollback"}
  /\ \/ Resolved /\ Finish(cause, "idle")
     \/ Raised /\ Finish("raised", "idle")

Driver == Begin \/ AfterStage \/ AfterCommit \/ AfterFinalize \/ AfterCleanup

-----------------------------------------------------------------------------
(* The owners: SpecoWorker handlers.                                       *)

(* Building a result raises while last_global_step is None.                *)
Answer(o, kind, rejected) ==
  [kind |-> IF stepSet[o] THEN kind ELSE "raise", rejected |-> rejected, inc |-> inc[o]]

Failed(o) == [kind |-> "raise", rejected |-> 0, inc |-> inc[o]]

(* The driver listens only to the call it is waiting for.                  *)
Return(o, op, c, answer) ==
  reply' = IF phase = op /\ cur = c THEN [reply EXCEPT ![o] = answer] ELSE reply

Starts(o, op, c) ==
  /\ inbox[o] # <<>>
  /\ Head(inbox[o]) = <<op, c>>
  /\ inbox' = [inbox EXCEPT ![o] = Tail(inbox[o])]

(* The drafter of this owner may be disabled, outside the training group   *)
(* or not built yet.  Expired stages of other collections are dropped.     *)
Stage(o, c) ==
  /\ Starts(o, "stage", c)
  /\ \E expired \in SUBSET staged[o] :
       \/ /\ staged' = [staged EXCEPT ![o] = @ \ expired]
          /\ Return(o, "stage", c, Answer(o, "not_ready", 0))
       \/ /\ c \notin staged[o] \ expired
          /\ journal[o][c] = NoEntry
          /\ staged' = [staged EXCEPT ![o] = (@ \ expired) \union {c}]
          /\ Return(o, "stage", c, Answer(o, "staged", 0))
  /\ UNCHANGED <<driverVars, stepSet, inc, journal, running, buffer, unflushed, shards>>

(* Take the staged samples, keep a snapshot of the buffers for rollback    *)
(* and start the coroutine; an empty bucket is committed at once.          *)
StartCommit(o, c) ==
  /\ Starts(o, "commit", c)
  /\ IF c \in staged[o]
     THEN /\ staged' = [staged EXCEPT ![o] = @ \ {c}]
          /\ journal' = [journal EXCEPT ![o][c] =
                [kind |-> "journal", snapshot |-> buffer[o], pending |-> {}]]
          /\ IF bucket[c][o] = 0
             THEN /\ Return(o, "commit", c, Answer(o, "committed", 0))
                  /\ UNCHANGED running
             ELSE /\ running' = [running EXCEPT ![o][c] =
                        [kind |-> "commit", next |-> 1, rejected |-> 0]]
                  /\ UNCHANGED reply
     ELSE /\ Return(o, "commit", c, Answer(o, "not_staged", 0))
          /\ UNCHANGED <<staged, journal, running>>
  /\ UNCHANGED <<driverVars, stepSet, inc, buffer, unflushed, shards>>

(* The coroutine is done with a sample: with the last one it returns.      *)
Advance(o, c, rejected) ==
  IF running[o][c].next = bucket[c][o]
  THEN /\ running' = [running EXCEPT ![o][c] = NoCommit]
       /\ Return(o, "commit", c,
                 [kind |-> "committed", rejected |-> rejected, inc |-> inc[o]])
  ELSE /\ running' = [running EXCEPT ![o][c] =
             [kind |-> "commit", next |-> @.next + 1, rejected |-> rejected]]
       /\ UNCHANGED reply

(* Mutant: the exception is swallowed and nothing is answered.             *)
SwallowInCommit(o, c) ==
  /\ running' = [running EXCEPT ![o][c] = NoCommit]
  /\ UNCHANGED reply

RaiseInCommit(o, c) ==
  /\ running' = [running EXCEPT ![o][c] = NoCommit]
  /\ Return(o, "commit", c, Failed(o))

(* Mutant: collect_only hands the sample to the writer during commit.      *)
AcceptSampleUnjournaled(o, c) ==
  /\ running[o][c] # NoCommit
  /\ LET sample == <<c, running[o][c].next>> IN
     /\ IF CollectOnly
        THEN unflushed' = [unflushed EXCEPT ![o] = @ \union {sample}] /\ UNCHANGED buffer
        ELSE buffer' = [buffer EXCEPT ![o] = @ \union {sample}] /\ UNCHANGED unflushed
     /\ Advance(o, c, running[o][c].rejected)
  /\ UNCHANGED <<driverVars, inbox, stepSet, inc, staged, journal, shards>>

(* Online training puts the sample into the trainer's buffer; collect_only *)
(* parks it in the journal, and raises when the journal is gone.           *)
AcceptSample(o, c) ==
  /\ running[o][c] # NoCommit
  /\ LET sample == <<c, running[o][c].next>> IN
     IF CollectOnly
     THEN /\ IF journal[o][c] = NoEntry
             THEN RaiseInCommit(o, c) /\ UNCHANGED journal
             ELSE /\ journal' = [journal EXCEPT ![o][c].pending = @ \union {sample}]
                  /\ Advance(o, c, running[o][c].rejected)
          /\ UNCHANGED buffer
     ELSE /\ buffer' = [buffer EXCEPT ![o] = @ \union {sample}]
          /\ Advance(o, c, running[o][c].rejected)
          /\ UNCHANGED journal
  /\ UNCHANGED <<driverVars, inbox, stepSet, inc, staged, unflushed, shards>>

(* An empty sample, missing hidden states, or a store that declines.       *)
RejectSample(o, c) ==
  /\ running[o][c] # NoCommit
  /\ Advance(o, c, running[o][c].rejected + 1)
  /\ UNCHANGED <<driverVars, inbox, stepSet, inc, staged, journal, buffer, unflushed, shards>>

(* A lost object reference, or a payload the handler refuses.              *)
FailSample(o, c) ==
  /\ running[o][c] # NoCommit
  /\ RaiseInCommit(o, c)
  /\ UNCHANGED <<driverVars, inbox, stepSet, inc, staged, journal, buffer, unflushed, shards>>

(* Mutant: abort forgets the staged samples.                               *)
AbortKeepingStage(o, c) ==
  /\ Starts(o, "abort", c)
  /\ Return(o, "abort", c, Answer(o, "cleaned", 0))
  /\ UNCHANGED <<driverVars, workerVars>>

Abort(o, c) ==
  /\ Starts(o, "abort", c)
  /\ staged' = [staged EXCEPT ![o] = @ \ {c}]
  /\ Return(o, "abort", c, Answer(o, "cleaned", 0))
  /\ UNCHANGED <<driverVars, stepSet, inc, journal, running, buffer, unflushed, shards>>

(* Mutant: rollback drops the journal without restoring the buffers.       *)
RollbackWithoutRestore(o, c) ==
  /\ Starts(o, "rollback", c)
  /\ staged' = [staged EXCEPT ![o] = @ \ {c}]
  /\ journal' = [journal EXCEPT ![o][c] = NoEntry]
  /\ Return(o, "rollback", c, Answer(o, "cleaned", 0))
  /\ UNCHANGED <<driverVars, stepSet, inc, running, buffer, unflushed, shards>>

(* Mutant: rollback empties the buffers instead of restoring the snapshot. *)
RollbackClearing(o, c) ==
  /\ Starts(o, "rollback", c)
  /\ staged' = [staged EXCEPT ![o] = @ \ {c}]
  /\ journal' = [journal EXCEPT ![o][c] = NoEntry]
  /\ buffer' = IF journal[o][c] = NoEntry THEN buffer ELSE [buffer EXCEPT ![o] = {}]
  /\ Return(o, "rollback", c, Answer(o, "cleaned", 0))
  /\ UNCHANGED <<driverVars, stepSet, inc, running, unflushed, shards>>

(* Drop the stage, restore the buffers from the journal if there is one.   *)
Rollback(o, c) ==
  /\ Starts(o, "rollback", c)
  /\ staged' = [staged EXCEPT ![o] = @ \ {c}]
  /\ journal' = [journal EXCEPT ![o][c] = NoEntry]
  /\ buffer' = IF journal[o][c] = NoEntry THEN buffer
               ELSE [buffer EXCEPT ![o] = journal[o][c].snapshot]
  /\ Return(o, "rollback", c, Answer(o, "cleaned", 0))
  /\ UNCHANGED <<driverVars, stepSet, inc, running, unflushed, shards>>

(* Mutant: the step boundary does not flush the writer.                    *)
WriteWithoutFlush(o, c, last, full) ==
  /\ unflushed' = [unflushed EXCEPT
        ![o] = @ \union {s \in journal[o][c].pending : s[2] <= last}]
  /\ UNCHANGED shards

(* TorchShardFeatureStore.write_many appends the parked samples to the     *)
(* writer's memory, up to position last, and flushes whenever a shard is   *)
(* full: everything up to position full is then in a shard file.           *)
Write(o, c, last, full) ==
  LET held == unflushed[o] \union {s \in journal[o][c].pending : s[2] <= last}
      out  == {s \in held : full > 0 /\ (s[1] # c \/ s[2] <= full)}
  IN  /\ shards' = [shards EXCEPT ![o] = @ \union out]
      /\ unflushed' = [unflushed EXCEPT ![o] = held \ out]

(* Write the parked samples, then drop the journal.  Writing may raise     *)
(* part-way; the journal stays.                                            *)
Finalize(o, c) ==
  /\ Starts(o, "finalize", c)
  /\ \/ /\ journal[o][c] = NoEntry
        /\ Return(o, "finalize", c, Answer(o, "absent", 0))
        /\ UNCHANGED <<journal, unflushed, shards>>
     \/ /\ journal[o][c] # NoEntry
        /\ IF journal[o][c].pending = {}
           THEN UNCHANGED <<unflushed, shards>>
           ELSE \E full \in IF FlushEveryStep THEN {MaxBucket} ELSE 0..MaxBucket :
                   Write(o, c, MaxBucket, full)
        /\ journal' = [journal EXCEPT ![o][c] = NoEntry]
        /\ Return(o, "finalize", c, Answer(o, "finalized", 0))
     \/ /\ journal[o][c] # NoEntry
        /\ journal[o][c].pending # {}
        /\ \E last \in 0..MaxBucket, full \in 0..MaxBucket :
              full <= last /\ Write(o, c, last, full)
        /\ Return(o, "finalize", c, Failed(o))
        /\ UNCHANGED journal
  /\ UNCHANGED <<driverVars, stepSet, inc, staged, running, buffer>>

(* The process of an owner is replaced: memory is lost, the calls it had   *)
(* accepted fail, last_global_step is None until the next collection.      *)
Restart(o) ==
  /\ inc[o] <= MaxRestarts
  /\ inc' = [inc EXCEPT ![o] = @ + 1]
  /\ stepSet' = [stepSet EXCEPT ![o] = FALSE]
  /\ staged' = [staged EXCEPT ![o] = {}]
  /\ journal' = [journal EXCEPT ![o] = [c \in Collections |-> NoEntry]]
  /\ running' = [running EXCEPT ![o] = [c \in Collections |-> NoCommit]]
  /\ buffer' = [buffer EXCEPT ![o] = {}]
  /\ unflushed' = [unflushed EXCEPT ![o] = {}]
  /\ inbox' = [inbox EXCEPT ![o] = <<>>]
  /\ reply' = IF phase \in Ops /\ reply[o] = NoReply
              THEN [reply EXCEPT ![o] = Failed(o)] ELSE reply
  /\ UNCHANGED <<driverVars, shards>>

OwnerCall(o, c) ==
  \/ Stage(o, c)
  \/ StartCommit(o, c)
  \/ AcceptSample(o, c)
  \/ RejectSample(o, c)
  \/ FailSample(o, c)
  \/ Abort(o, c)
  \/ Rollback(o, c)
  \/ Finalize(o, c)

Next ==
  \/ Driver
  \/ \E o \in Owners, c \in Collections : OwnerCall(o, c)
  \/ \E o \in Owners : Restart(o)

Spec == Init /\ [][Next]_vars

(* The driver thread keeps running, an owner's event loop serves its calls *)
(* and every awaited object reference resolves or fails.  No fairness on   *)
(* starting a collection or on restarts.                                   *)
DriverResumes == AfterStage \/ AfterCommit \/ AfterFinalize \/ AfterCleanup

FairSpec ==
  /\ Spec
  /\ WF_vars(DriverResumes)
  /\ \A o \in Owners : WF_vars(\E c \in Collections : OwnerCall(o, c))
=============================================================================
