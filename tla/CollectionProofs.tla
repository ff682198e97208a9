--------------------------- MODULE CollectionProofs ---------------------------
(***************************************************************************)
(* Proofs about the collection transaction, for any number of owners,      *)
(* collections, samples and restarts.                                      *)
(***************************************************************************)
EXTENDS CollectionProperties, SequenceTheorems, TLAPS

USE OwnersAssumption, BoundsAssumption, ModesAssumption

-----------------------------------------------------------------------------
(* Type correctness.                                                       *)

(* The initial state is well typed.                                        *)
LEMMA InitTypeOK == Init => TypeOK
  BY DEF Init, TypeOK, Phases, Ops, Failures, Outcomes, NoReply, NoEntry, NoCommit,
         Incarnations

(* Sending a call to all owners keeps the calls and answers well typed.    *)
LEMMA SendAllType ==
  ASSUME TypeOK, NEW op \in Ops, NEW c \in Collections, SendAll(op, c)
  PROVE  /\ inbox' \in [Owners -> Seq(Ops \X Collections)]
         /\ reply' \in [Owners -> Answers \union {NoReply}]
  BY DEF TypeOK, SendAll

(* So does an answer.                                                      *)
LEMMA ReturnType ==
  ASSUME TypeOK, NEW o \in Owners, NEW op, NEW c, NEW answer \in Answers,
         Return(o, op, c, answer)
  PROVE  reply' \in [Owners -> Answers \union {NoReply}]
  BY DEF TypeOK, Return

(* The answers of the handlers are answers.                                *)
LEMMA AnswerType ==
  ASSUME TypeOK, NEW o \in Owners, NEW kind \in Kinds, NEW n \in 0..MaxBucket
  PROVE  /\ Answer(o, kind, n) \in Answers
         /\ Failed(o) \in Answers
         /\ [kind |-> kind, rejected |-> n, inc |-> inc[o]] \in Answers
  BY DEF TypeOK, Answer, Failed, Answers, Kinds

(* Starting a call takes the oldest one off the owner's queue.             *)
LEMMA StartsType ==
  ASSUME TypeOK, NEW o \in Owners, NEW op, NEW c, Starts(o, op, c)
  PROVE  /\ inbox' \in [Owners -> Seq(Ops \X Collections)]
         /\ inbox[o] \in Seq(Ops \X Collections)
         /\ inbox[o] # <<>>
         /\ inbox[o][1] = <<op, c>>
         /\ \A p \in Owners \ {o} : inbox'[p] = inbox[p]
         /\ Len(inbox'[o]) = Len(inbox[o]) - 1
         /\ \A i \in 1..Len(inbox'[o]) : inbox'[o][i] = inbox[o][i + 1]
<1>1. inbox[o] \in Seq(Ops \X Collections) /\ inbox[o] # <<>>
  BY DEF TypeOK, Starts
<1>2. /\ Tail(inbox[o]) \in Seq(Ops \X Collections)
      /\ Len(Tail(inbox[o])) = Len(inbox[o]) - 1
      /\ \A i \in 1..Len(Tail(inbox[o])) : Tail(inbox[o])[i] = inbox[o][i + 1]
  BY <1>1, HeadTailProperties
<1>3. inbox' = [inbox EXCEPT ![o] = Tail(inbox[o])]
  BY DEF Starts
<1>4. Head(inbox[o]) = inbox[o][1]
  BY <1>1
<1>5. inbox'[o] = Tail(inbox[o])
  BY <1>3 DEF TypeOK
<1>. QED BY <1>1, <1>2, <1>3, <1>4, <1>5 DEF TypeOK, Starts

(* Driver steps keep the state well typed.                                 *)
LEMMA DriverTypeOK == TypeOK /\ Driver => TypeOK'
<1>. SUFFICES ASSUME TypeOK, Driver PROVE TypeOK'
  OBVIOUS
<1>. USE DEF driverVars, callVars, workerVars
<1>1. CASE Begin
  <2>1. cur + 1 \in Collections /\ "stage" \in Ops /\ "stage" \in Phases
    BY <1>1 DEF Begin, TypeOK, Collections, Ops, Phases
  <2>2. /\ inbox' \in [Owners -> Seq(Ops \X Collections)]
        /\ reply' \in [Owners -> Answers \union {NoReply}]
    BY <1>1, <2>1, SendAllType DEF Begin
  <2>3. bucket' \in [Collections -> [Owners -> 0..MaxBucket]]
    BY <1>1, <2>1 DEF Begin, TypeOK
  <2>4. cur' \in 0..MaxCollections /\ cur' \in Collections
    BY <1>1, <2>1 DEF Begin, Collections
  <2>5. stepSet' \in [Owners -> BOOLEAN] /\ phase' \in Phases
    BY <1>1, <2>1 DEF Begin
  <2>. QED BY <1>1, <2>2, <2>3, <2>4, <2>5 DEF Begin, TypeOK
<1>2. ASSUME NEW op \in Ops, NEW why \in Failures, phase # "idle", Cleanup(op, why)
      PROVE  TypeOK'
  <2>1. cur \in Collections /\ op \in Phases
    BY <1>2 DEF TypeOK, Phases
  <2>2. /\ inbox' \in [Owners -> Seq(Ops \X Collections)]
        /\ reply' \in [Owners -> Answers \union {NoReply}]
    BY <1>2, <2>1, SendAllType DEF Cleanup
  <2>. QED BY <1>2, <2>1, <2>2 DEF Cleanup, TypeOK
<1>3. ASSUME NEW op \in Ops, phase # "idle", Proceed(op),
             ackInc' \in [Collections -> [Owners -> {0} \union Incarnations]]
      PROVE  TypeOK'
  <2>1. cur \in Collections /\ op \in Phases
    BY <1>3 DEF TypeOK, Phases
  <2>2. /\ inbox' \in [Owners -> Seq(Ops \X Collections)]
        /\ reply' \in [Owners -> Answers \union {NoReply}]
    BY <1>3, <2>1, SendAllType DEF Proceed
  <2>. QED BY <1>3, <2>1, <2>2 DEF Proceed, TypeOK
<1>4. ASSUME NEW result \in Outcomes, NEW next \in Phases, phase # "idle",
             Finish(result, next)
      PROVE  TypeOK'
  BY <1>4 DEF Finish, TypeOK
<1>5. CASE AfterStage
  BY <1>2, <1>3, <1>5 DEF AfterStage, TypeOK, Ops, Failures
<1>6. CASE AfterCommit
  <2>1. ASSUME Resolved
        PROVE  [o \in Owners |-> reply[o].inc] \in [Owners -> {0} \union Incarnations]
    BY <2>1 DEF Resolved, AllAnswered, TypeOK, Answers
  <2>2. CASE /\ Resolved
             /\ Proceed("finalize")
             /\ ackInc' = [ackInc EXCEPT ![cur] = [o \in Owners |-> reply[o].inc]]
    <3>1. ackInc' \in [Collections -> [Owners -> {0} \union Incarnations]]
      BY <1>6, <2>1, <2>2 DEF AfterCommit, TypeOK
    <3>. QED BY <1>3, <1>6, <2>2, <3>1 DEF AfterCommit, Ops
  <2>. QED BY <1>2, <1>6, <2>2 DEF AfterCommit, Ops, Failures
<1>7. CASE AfterFinalize
  BY <1>4, <1>7 DEF AfterFinalize, Outcomes, Phases
<1>8. CASE AfterCleanup
  <2>1. cause \in Outcomes /\ "raised" \in Outcomes
    BY DEF TypeOK, Outcomes, Failures
  <2>. QED BY <1>4, <1>8, <2>1 DEF AfterCleanup, Phases
<1>. QED BY <1>1, <1>5, <1>6, <1>7, <1>8 DEF Driver

-----------------------------------------------------------------------------
(* Handlers keep the state well typed.                                     *)

(* Storing one owner's journal entry, coroutine or staged collections.     *)
LEMMA JournalType ==
  ASSUME TypeOK, NEW o \in Owners, NEW c \in Collections,
         NEW entry \in Entries \union {NoEntry},
         journal' = [journal EXCEPT ![o][c] = entry]
  PROVE  journal' \in [Owners -> [Collections -> Entries \union {NoEntry}]]
<1>1. [journal[o] EXCEPT ![c] = entry] \in [Collections -> Entries \union {NoEntry}]
  BY DEF TypeOK
<1>. QED BY <1>1 DEF TypeOK

(* The same for a commit coroutine.                                        *)
LEMMA RunningType ==
  ASSUME TypeOK, NEW o \in Owners, NEW c \in Collections,
         NEW commit \in Commits \union {NoCommit},
         running' = [running EXCEPT ![o][c] = commit]
  PROVE  running' \in [Owners -> [Collections -> Commits \union {NoCommit}]]
<1>1. [running[o] EXCEPT ![c] = commit] \in [Collections -> Commits \union {NoCommit}]
  BY DEF TypeOK
<1>. QED BY <1>1 DEF TypeOK

(* The same for the staged collections.                                    *)
LEMMA StagedType ==
  ASSUME TypeOK, NEW o \in Owners, NEW S \in SUBSET Collections,
         staged' = [staged EXCEPT ![o] = S]
  PROVE  staged' \in [Owners -> SUBSET Collections]
  BY DEF TypeOK

(* stage_rollout_features.                                                 *)
LEMMA StageTypeOK ==
  ASSUME TypeOK, NEW o \in Owners, NEW c \in Collections, Stage(o, c)
  PROVE  TypeOK'
<1>1. inbox' \in [Owners -> Seq(Ops \X Collections)]
  BY StartsType DEF Stage
<1>2. "not_ready" \in Kinds /\ "staged" \in Kinds /\ 0 \in 0..MaxBucket
  BY DEF Kinds
<1>3. Answer(o, "not_ready", 0) \in Answers /\ Answer(o, "staged", 0) \in Answers
  BY <1>2, AnswerType
<1>4. PICK expired \in SUBSET staged[o] :
       \/ /\ staged' = [staged EXCEPT ![o] = @ \ expired]
          /\ Return(o, "stage", c, Answer(o, "not_ready", 0))
       \/ /\ staged' = [staged EXCEPT ![o] = (@ \ expired) \union {c}]
          /\ Return(o, "stage", c, Answer(o, "staged", 0))
  BY DEF Stage
<1>5. reply' \in [Owners -> Answers \union {NoReply}]
  BY <1>3, <1>4, ReturnType
<1>6. staged[o] \in SUBSET Collections
  BY DEF TypeOK
<1>7. /\ staged[o] \ expired \in SUBSET Collections
      /\ (staged[o] \ expired) \union {c} \in SUBSET Collections
  BY <1>6
<1>8. staged' \in [Owners -> SUBSET Collections]
  BY <1>4, <1>7, StagedType
<1>. QED BY <1>1, <1>5, <1>8 DEF Stage, TypeOK, driverVars

(* commit_rollout_features, up to its first await.                         *)
LEMMA StartCommitTypeOK ==
  ASSUME TypeOK, NEW o \in Owners, NEW c \in Collections, StartCommit(o, c)
  PROVE  TypeOK'
<1>1. inbox' \in [Owners -> Seq(Ops \X Collections)]
  BY StartsType DEF StartCommit
<1>2. "committed" \in Kinds /\ "not_staged" \in Kinds /\ 0 \in 0..MaxBucket
  BY DEF Kinds
<1>3. Answer(o, "committed", 0) \in Answers /\ Answer(o, "not_staged", 0) \in Answers
  BY <1>2, AnswerType
<1>4. CASE c \in staged[o]
  <2>1. staged[o] \ {c} \in SUBSET Collections
    BY DEF TypeOK
  <2>2. staged' \in [Owners -> SUBSET Collections]
    BY <1>4, <2>1, StagedType DEF StartCommit
  <2>3. [kind |-> "journal", snapshot |-> buffer[o], pending |-> {}] \in Entries
    BY DEF TypeOK, Entries
  <2>4. journal' \in [Owners -> [Collections -> Entries \union {NoEntry}]]
    BY <1>4, <2>3, JournalType DEF StartCommit
  <2>5. CASE bucket[c][o] = 0
    <3>1. reply' \in [Owners -> Answers \union {NoReply}]
      BY <1>3, <1>4, <2>5, ReturnType DEF StartCommit
    <3>. QED BY <1>1, <1>4, <2>2, <2>4, <2>5, <3>1 DEF StartCommit, TypeOK, driverVars
  <2>6. CASE bucket[c][o] # 0
    <3>1. bucket[c][o] \in 1..MaxBucket
      BY <2>6 DEF TypeOK
    <3>2. [kind |-> "commit", next |-> 1, rejected |-> 0] \in Commits
      BY <3>1 DEF Commits
    <3>3. running' \in [Owners -> [Collections -> Commits \union {NoCommit}]]
      BY <1>4, <2>6, <3>2, RunningType DEF StartCommit
    <3>. QED BY <1>1, <1>4, <2>2, <2>4, <2>6, <3>3 DEF StartCommit, TypeOK, driverVars
  <2>. QED BY <2>5, <2>6
<1>5. CASE c \notin staged[o]
  <2>1. reply' \in [Owners -> Answers \union {NoReply}]
    BY <1>3, <1>5, ReturnType DEF StartCommit
  <2>. QED BY <1>1, <1>5, <2>1 DEF StartCommit, TypeOK, driverVars
<1>. QED BY <1>4, <1>5

(* The coroutine moves to the next sample, returns or raises.              *)
LEMMA AdvanceType ==
  ASSUME TypeOK, CommitInBucket, NEW o \in Owners, NEW c \in Collections,
         running[o][c] # NoCommit,
         NEW n \in {running[o][c].rejected, running[o][c].rejected + 1},
         Advance(o, c, n) \/ RaiseInCommit(o, c)
  PROVE  /\ reply' \in [Owners -> Answers \union {NoReply}]
         /\ running' \in [Owners -> [Collections -> Commits \union {NoCommit}]]
<1>1. /\ running[o][c] \in Commits
      /\ running[o][c].rejected < running[o][c].next
      /\ running[o][c].next <= bucket[c][o]
      /\ bucket[c][o] \in 0..MaxBucket
  BY DEF TypeOK, CommitInBucket
<1>2. n \in 0..MaxBucket /\ "committed" \in Kinds
  BY <1>1 DEF Commits, Kinds
<1>3. /\ [kind |-> "committed", rejected |-> n, inc |-> inc[o]] \in Answers
      /\ Failed(o) \in Answers
  BY <1>2, AnswerType
<1>4. CASE Advance(o, c, n) /\ running[o][c].next # bucket[c][o]
  <2>1. [kind |-> "commit", next |-> running[o][c].next + 1, rejected |-> n] \in Commits
    BY <1>1, <1>2, <1>4 DEF Commits
  <2>2. running' = [running EXCEPT ![o][c] =
            [kind |-> "commit", next |-> running[o][c].next + 1, rejected |-> n]]
    BY <1>4 DEF Advance, TypeOK
  <2>. QED BY <1>4, <2>1, <2>2, RunningType DEF Advance, TypeOK
<1>5. CASE Advance(o, c, n) /\ running[o][c].next = bucket[c][o]
  BY <1>3, <1>5, ReturnType, RunningType DEF Advance
<1>6. CASE RaiseInCommit(o, c)
  BY <1>3, <1>6, ReturnType, RunningType DEF RaiseInCommit
<1>. QED BY <1>4, <1>5, <1>6

(* One sample of a commit.                                                 *)
LEMMA SampleTypeOK ==
  ASSUME TypeOK, CommitInBucket, NEW o \in Owners, NEW c \in Collections,
         AcceptSample(o, c) \/ RejectSample(o, c) \/ FailSample(o, c)
  PROVE  TypeOK'
<1>1. running[o][c] # NoCommit
  BY DEF AcceptSample, RejectSample, FailSample
<1>2. /\ running[o][c] \in Commits
      /\ running[o][c].next <= bucket[c][o]
      /\ bucket[c][o] \in 0..MaxBucket
  BY <1>1 DEF TypeOK, CommitInBucket
<1>3. <<c, running[o][c].next>> \in Samples
  BY <1>2 DEF Samples, Commits
<1>4. /\ reply' \in [Owners -> Answers \union {NoReply}]
      /\ running' \in [Owners -> [Collections -> Commits \union {NoCommit}]]
  BY <1>1, AdvanceType DEF AcceptSample, RejectSample, FailSample
<1>5. CASE AcceptSample(o, c)
  <2>1. CASE CollectOnly /\ journal[o][c] # NoEntry
    <3>1. journal[o][c] \in Entries
      BY <2>1 DEF TypeOK
    <3>2. [journal[o][c] EXCEPT !.pending = @ \union {<<c, running[o][c].next>>}] \in Entries
      BY <1>3, <3>1 DEF Entries
    <3>3. journal' = [journal EXCEPT ![o][c] =
             [journal[o][c] EXCEPT !.pending = @ \union {<<c, running[o][c].next>>}]]
      BY <1>5, <2>1, <3>1 DEF AcceptSample, TypeOK, Entries
    <3>4. journal' \in [Owners -> [Collections -> Entries \union {NoEntry}]]
      BY <3>2, <3>3, JournalType
    <3>. QED BY <1>4, <1>5, <2>1, <3>4 DEF AcceptSample, TypeOK, driverVars
  <2>2. CASE CollectOnly /\ journal[o][c] = NoEntry
    BY <1>4, <1>5, <2>2 DEF AcceptSample, TypeOK, driverVars
  <2>3. CASE ~CollectOnly
    <3>1. buffer' = [buffer EXCEPT ![o] = @ \union {<<c, running[o][c].next>>}]
      BY <1>5, <2>3 DEF AcceptSample
    <3>2. buffer[o] \union {<<c, running[o][c].next>>} \in SUBSET Samples
      BY <1>3 DEF TypeOK
    <3>3. buffer' \in [Owners -> SUBSET Samples]
      BY <3>1, <3>2 DEF TypeOK
    <3>. QED BY <1>4, <1>5, <2>3, <3>3 DEF AcceptSample, TypeOK, driverVars
  <2>. QED BY <2>1, <2>2, <2>3
<1>6. CASE RejectSample(o, c) \/ FailSample(o, c)
  BY <1>4, <1>6 DEF RejectSample, FailSample, TypeOK, driverVars
<1>. QED BY <1>5, <1>6

(* abort_rollout_features and rollback_rollout_features.                   *)
LEMMA CleanupTypeOK ==
  ASSUME TypeOK, NEW o \in Owners, NEW c \in Collections,
         Abort(o, c) \/ Rollback(o, c)
  PROVE  TypeOK'
<1>1. inbox' \in [Owners -> Seq(Ops \X Collections)]
  BY StartsType DEF Abort, Rollback
<1>2. "cleaned" \in Kinds /\ 0 \in 0..MaxBucket
  BY DEF Kinds
<1>3. Answer(o, "cleaned", 0) \in Answers
  BY <1>2, AnswerType
<1>4. reply' \in [Owners -> Answers \union {NoReply}]
  BY <1>3, ReturnType DEF Abort, Rollback
<1>5. staged[o] \ {c} \in SUBSET Collections
  BY DEF TypeOK
<1>6. staged' \in [Owners -> SUBSET Collections]
  BY <1>5, StagedType DEF Abort, Rollback
<1>7. CASE Abort(o, c)
  BY <1>1, <1>4, <1>6, <1>7 DEF Abort, TypeOK, driverVars
<1>8. CASE Rollback(o, c)
  <2>1. journal' \in [Owners -> [Collections -> Entries \union {NoEntry}]]
    BY <1>8, JournalType DEF Rollback
  <2>2. buffer' \in [Owners -> SUBSET Samples]
    <3>1. CASE journal[o][c] = NoEntry
      BY <1>8, <3>1 DEF Rollback, TypeOK
    <3>2. CASE journal[o][c] # NoEntry
      <4>1. journal[o][c] \in Entries
        BY <3>2 DEF TypeOK
      <4>2. journal[o][c].snapshot \in SUBSET Samples
        BY <4>1 DEF Entries
      <4>. QED BY <1>8, <3>2, <4>2 DEF Rollback, TypeOK
    <3>. QED BY <3>1, <3>2
  <2>. QED BY <1>1, <1>4, <1>6, <1>8, <2>1, <2>2 DEF Rollback, TypeOK, driverVars
<1>. QED BY <1>7, <1>8

(* What the writer takes over comes from the journal.                      *)
LEMMA WriteType ==
  ASSUME TypeOK, NEW o \in Owners, NEW c \in Collections, journal[o][c] # NoEntry,
         NEW last, NEW full, Write(o, c, last, full)
  PROVE  /\ unflushed' \in [Owners -> SUBSET Samples]
         /\ shards' \in [Owners -> SUBSET Samples]
         /\ \A p \in Owners : 
               unflushed'[p] \union shards'[p] \subseteq
                  unflushed[p] \union shards[p] \union
                     (IF p = o THEN journal[o][c].pending ELSE {})
<1>1. journal[o][c] \in Entries
  BY DEF TypeOK
<1>2. journal[o][c].pending \in SUBSET Samples
  BY <1>1 DEF Entries
<1>3. PICK held, out : 
         /\ held \subseteq unflushed[o] \union journal[o][c].pending
         /\ out \subseteq held
         /\ shards' = [shards EXCEPT ![o] = @ \union out]
         /\ unflushed' = [unflushed EXCEPT ![o] = held \ out]
  BY DEF Write
<1>4. unflushed[o] \in SUBSET Samples /\ shards[o] \in SUBSET Samples
  BY DEF TypeOK
<1>5. held \ out \in SUBSET Samples /\ shards[o] \union out \in SUBSET Samples
  BY <1>2, <1>3, <1>4
<1>. QED BY <1>3, <1>5 DEF TypeOK

(* finalize_rollout_features.                                              *)
LEMMA FinalizeTypeOK ==
  ASSUME TypeOK, NEW o \in Owners, NEW c \in Collections, Finalize(o, c)
  PROVE  TypeOK'
<1>1. inbox' \in [Owners -> Seq(Ops \X Collections)]
  BY StartsType DEF Finalize
<1>2. "absent" \in Kinds /\ "finalized" \in Kinds /\ 0 \in 0..MaxBucket
  BY DEF Kinds
<1>3. /\ Answer(o, "absent", 0) \in Answers
      /\ Answer(o, "finalized", 0) \in Answers
      /\ Failed(o) \in Answers
  BY <1>2, AnswerType
<1>4. reply' \in [Owners -> Answers \union {NoReply}]
  BY <1>3, ReturnType DEF Finalize
<1>5. journal' \in [Owners -> [Collections -> Entries \union {NoEntry}]]
  <2>1. CASE journal' = journal
    BY <2>1 DEF TypeOK
  <2>2. CASE journal' = [journal EXCEPT ![o][c] = NoEntry]
    BY <2>2, JournalType
  <2>. QED BY <2>1, <2>2 DEF Finalize
<1>6. /\ unflushed' \in [Owners -> SUBSET Samples]
      /\ shards' \in [Owners -> SUBSET Samples]
  <2>1. CASE unflushed' = unflushed /\ shards' = shards
    BY <2>1 DEF TypeOK
  <2>2. CASE journal[o][c] # NoEntry /\ \E last, full : Write(o, c, last, full)
    BY <2>2, WriteType
  <2>. QED BY <2>1, <2>2 DEF Finalize
<1>. QED BY <1>1, <1>4, <1>5, <1>6 DEF Finalize, TypeOK, driverVars

(* A replaced process starts empty.                                        *)
LEMMA RestartTypeOK ==
  ASSUME TypeOK, NEW o \in Owners, Restart(o)
  PROVE  TypeOK'
<1>1. inc[o] \in Incarnations /\ inc[o] + 1 \in Incarnations
  BY DEF TypeOK, Restart, Incarnations
<1>2. Failed(o) \in Answers
  BY <1>1 DEF Failed, Answers, Kinds
<1>3. inc' \in [Owners -> Incarnations]
  BY <1>1 DEF TypeOK, Restart
<1>4. reply' \in [Owners -> Answers \union {NoReply}]
  BY <1>2 DEF TypeOK, Restart
<1>5. inbox' \in [Owners -> Seq(Ops \X Collections)]
  BY DEF TypeOK, Restart
<1>6. /\ [c \in Collections |-> NoEntry] \in [Collections -> Entries \union {NoEntry}]
      /\ [c \in Collections |-> NoCommit] \in [Collections -> Commits \union {NoCommit}]
  OBVIOUS
<1>7. /\ journal' \in [Owners -> [Collections -> Entries \union {NoEntry}]]
      /\ running' \in [Owners -> [Collections -> Commits \union {NoCommit}]]
  BY <1>6 DEF TypeOK, Restart
<1>8. /\ stepSet' \in [Owners -> BOOLEAN]
      /\ staged' \in [Owners -> SUBSET Collections]
      /\ buffer' \in [Owners -> SUBSET Samples]
      /\ unflushed' \in [Owners -> SUBSET Samples]
  BY DEF TypeOK, Restart
<1>. QED BY <1>3, <1>4, <1>5, <1>7, <1>8 DEF TypeOK, Restart, driverVars

(* Every step keeps the state well typed.                                  *)
LEMMA NextTypeOK == TypeOK /\ CommitInBucket /\ [Next]_vars => TypeOK'
<1>. SUFFICES ASSUME TypeOK, CommitInBucket, [Next]_vars PROVE TypeOK'
  OBVIOUS
<1>1. CASE Driver
  BY <1>1, DriverTypeOK
<1>2. ASSUME NEW o \in Owners, NEW c \in Collections, OwnerCall(o, c) PROVE TypeOK'
  BY <1>2, StageTypeOK, StartCommitTypeOK, SampleTypeOK, CleanupTypeOK, FinalizeTypeOK
     DEF OwnerCall
<1>3. ASSUME NEW o \in Owners, Restart(o) PROVE TypeOK'
  BY <1>3, RestartTypeOK
<1>4. CASE UNCHANGED vars
  BY <1>4 DEF TypeOK, vars, driverVars, callVars, workerVars
<1>. QED BY <1>1, <1>2, <1>3, <1>4 DEF Next

-----------------------------------------------------------------------------
(* The invariant behind FailedLeavesNothing.                               *)

(* A driver step keeps the owners' state, and the point of no return of    *)
(* every collection; every call it sends is for the current collection,    *)
(* and a finalize call only after its point of no return.                  *)
LEMMA DriverStep ==
  ASSUME TypeOK, OutcomeLast, Driver
  PROVE  /\ UNCHANGED <<staged, journal, running, unflushed, shards>>
         /\ cur <= cur'
         /\ \A c \in 1..cur, o \in Owners : bucket'[c][o] = bucket[c][o]
         /\ \A c \in Collections : PointOfNoReturn(c) => PointOfNoReturn(c)'
         /\ \A o \in Owners : \A call \in Calls(o)' :
               \/ call \in Calls(o)
               \/ call[2] = cur' /\ (call[1] = "finalize" => PointOfNoReturn(cur)')
<1>. USE DEF driverVars, callVars, workerVars
<1>1. ASSUME NEW op \in Ops, NEW c \in Collections, SendAll(op, c), NEW o \in Owners,
             NEW call \in Calls(o)'
      PROVE  call \in Calls(o) \/ call = <<op, c>>
  <2>1. inbox'[o] = Append(inbox[o], <<op, c>>) /\ inbox[o] \in Seq(Ops \X Collections)
    BY <1>1 DEF SendAll, TypeOK
  <2>. QED BY <1>1, <2>1 DEF Calls
<1>2. CASE Begin
  <2>1. cur + 1 \in Collections /\ "stage" \in Ops
    BY <1>2 DEF Begin, TypeOK, Collections, Ops
  <2>2. \A o \in Owners : \A call \in Calls(o)' : call \in Calls(o) \/ call = <<"stage", cur'>>
    BY <1>1, <1>2, <2>1 DEF Begin
  <2>3. \A c \in 1..cur, o \in Owners : bucket'[c][o] = bucket[c][o]
    BY <1>2, <2>1 DEF Begin, TypeOK, Collections
  <2>4. \A c \in Collections : PointOfNoReturn(c) => PointOfNoReturn(c)'
    BY <1>2 DEF Begin, PointOfNoReturn
  <2>5. cur <= cur'
    BY <1>2 DEF Begin, TypeOK
  <2>. QED BY <1>2, <2>2, <2>3, <2>4, <2>5 DEF Begin
<1>3. CASE \E op \in Ops, why \in Failures : phase # "finalize" /\ op # "finalize" /\ phase # "idle" /\ Cleanup(op, why)
  <2>1. PICK op \in Ops, why \in Failures : phase # "finalize" /\ op # "finalize" /\ phase # "idle" /\ Cleanup(op, why)
    BY <1>3
  <2>2. cur \in Collections
    BY <2>1 DEF TypeOK
  <2>3. \A o \in Owners : \A call \in Calls(o)' : call \in Calls(o) \/ call = <<op, cur>>
    BY <1>1, <2>1, <2>2 DEF Cleanup
  <2>4. \A c \in Collections : PointOfNoReturn(c) => PointOfNoReturn(c)'
    BY <2>1 DEF Cleanup, PointOfNoReturn
  <2>. QED BY <2>1, <2>2, <2>3, <2>4 DEF Cleanup, TypeOK, Collections
<1>4. CASE \E op \in {"commit", "finalize"} : phase \in {"stage", "commit"} /\ Proceed(op)
  <2>1. PICK op \in {"commit", "finalize"} : phase \in {"stage", "commit"} /\ Proceed(op)
    BY <1>4
  <2>2. cur \in Collections /\ op \in Ops
    BY <2>1 DEF TypeOK, Ops
  <2>3. \A o \in Owners : \A call \in Calls(o)' : call \in Calls(o) \/ call = <<op, cur>>
    BY <1>1, <2>1, <2>2 DEF Proceed
  <2>4. /\ \A c \in Collections : PointOfNoReturn(c) => PointOfNoReturn(c)'
        /\ op = "finalize" => PointOfNoReturn(cur)'
    BY <2>1 DEF Proceed, PointOfNoReturn
  <2>. QED BY <2>1, <2>2, <2>3, <2>4 DEF Proceed, TypeOK, Collections
<1>5. CASE AfterFinalize \/ AfterCleanup
  <2>1. PICK result \in Outcomes, next \in {"idle", "halted"} :
           /\ Finish(result, next)
           /\ phase \in {"abort", "rollback", "finalize"}
           /\ phase = "finalize" => result \in {"completed", "ambiguous"}
    <3>1. CASE AfterFinalize
      BY <3>1 DEF AfterFinalize, Outcomes
    <3>2. CASE AfterCleanup
      <4>1. cause \in Outcomes /\ "raised" \in Outcomes
        BY DEF Outcomes, Failures, TypeOK
      <4>. QED BY <3>2, <4>1 DEF AfterCleanup
    <3>. QED BY <1>5, <3>1, <3>2
  <2>2. outcome[cur] = "none" /\ cur \in Collections /\ cur \in Nat
    BY <2>1 DEF OutcomeLast, TypeOK, Ops, Collections
  <2>3. \A c \in Collections : PointOfNoReturn(c) => PointOfNoReturn(c)'
    BY <2>1, <2>2 DEF Finish, PointOfNoReturn, TypeOK
  <2>4. \A o \in Owners : Calls(o)' = Calls(o)
    BY <2>1 DEF Finish, Calls
  <2>. QED BY <2>1, <2>2, <2>3, <2>4 DEF Finish
<1>6. CASE AfterStage \/ AfterCommit
  BY <1>3, <1>4, <1>6 DEF AfterStage, AfterCommit, Ops, Failures
<1>. QED BY <1>2, <1>5, <1>6 DEF Driver

(* A handler starts a call that was sent, and sends none.                  *)
LEMMA CallsShrink ==
  ASSUME TypeOK, NEW o \in Owners, NEW op, NEW c, Starts(o, op, c)
  PROVE  /\ <<op, c>> \in Calls(o)
         /\ \A p \in Owners : Calls(p)' \subseteq Calls(p)
<1>1. /\ inbox'[o] \in Seq(Ops \X Collections)
      /\ inbox[o] \in Seq(Ops \X Collections)
      /\ inbox[o] # <<>>
  BY StartsType DEF Starts
<1>2. 1 \in 1..Len(inbox[o])
  BY <1>1
<1>3. <<op, c>> \in Calls(o)
  BY <1>2, StartsType DEF Calls
<1>4. Calls(o)' \subseteq Calls(o)
  BY <1>1, StartsType DEF Calls
<1>5. \A p \in Owners \ {o} : Calls(p)' = Calls(p)
  BY StartsType DEF Calls
<1>. QED BY <1>3, <1>4, <1>5

(* A handler changes none of the driver's state; it writes into the store  *)
(* only while it finalizes.                                                *)
LEMMA OwnerStep ==
  ASSUME TypeOK, NEW o \in Owners, NEW c \in Collections, OwnerCall(o, c)
  PROVE  /\ UNCHANGED driverVars
         /\ \A p \in Owners : Calls(p)' \subseteq Calls(p)
         /\ \/ UNCHANGED <<unflushed, shards>>
            \/ /\ <<"finalize", c>> \in Calls(o)
               /\ \A p \in Owners :
                     unflushed'[p] \union shards'[p] \subseteq
                        unflushed[p] \union shards[p] \union
                           (IF p = o /\ journal[o][c] # NoEntry
                            THEN journal[o][c].pending ELSE {})
<1>. USE DEF driverVars
<1>1. CASE Stage(o, c) \/ StartCommit(o, c) \/ Abort(o, c) \/ Rollback(o, c)
  BY <1>1, CallsShrink DEF Stage, StartCommit, Abort, Rollback
<1>2. CASE AcceptSample(o, c) \/ RejectSample(o, c) \/ FailSample(o, c)
  BY <1>2 DEF AcceptSample, RejectSample, FailSample, Calls
<1>3. CASE Finalize(o, c)
  <2>1. /\ <<"finalize", c>> \in Calls(o)
        /\ \A p \in Owners : Calls(p)' \subseteq Calls(p)
    BY <1>3, CallsShrink DEF Finalize
  <2>2. \/ UNCHANGED <<unflushed, shards>>
        \/ journal[o][c] # NoEntry /\ \E last, full : Write(o, c, last, full)
    BY <1>3 DEF Finalize
  <2>. QED BY <1>3, <2>1, <2>2, WriteType DEF Finalize
<1>. QED BY <1>1, <1>2, <1>3 DEF OwnerCall

(* A replaced owner has nothing left but its shard files.                  *)
LEMMA RestartStep ==
  ASSUME TypeOK, NEW o \in Owners, Restart(o)
  PROVE  /\ UNCHANGED <<driverVars, shards>>
         /\ \A p \in Owners : Calls(p)' \subseteq Calls(p)
         /\ \A p \in Owners : unflushed'[p] \subseteq unflushed[p]
         /\ \A p \in Owners : staged'[p] \subseteq staged[p]
         /\ \A p \in Owners, c \in Collections :
               /\ journal'[p][c] \in {journal[p][c], NoEntry}
               /\ running'[p][c] \in {running[p][c], NoCommit}
<1>1. /\ inbox' = [inbox EXCEPT ![o] = <<>>]
      /\ unflushed' = [unflushed EXCEPT ![o] = {}]
      /\ staged' = [staged EXCEPT ![o] = {}]
      /\ journal' = [journal EXCEPT ![o] = [c \in Collections |-> NoEntry]]
      /\ running' = [running EXCEPT ![o] = [c \in Collections |-> NoCommit]]
  BY DEF Restart
<1>2. \A p \in Owners : inbox'[p] = inbox[p] \/ inbox'[p] = <<>>
  BY <1>1 DEF TypeOK
<1>3. \A p \in Owners : Calls(p)' \subseteq Calls(p)
  BY <1>2 DEF Calls
<1>. QED BY <1>1, <1>3 DEF TypeOK, Restart, driverVars

(* Only the coroutine of a call changes, and only when it is started or    *)
(* has worked on a sample.                                                 *)
LEMMA CommitStep ==
  ASSUME TypeOK, CommitInBucket, CallsIssued,
         NEW o \in Owners, NEW c \in Collections, OwnerCall(o, c)
  PROVE  CommitInBucket'
<1>1. \/ UNCHANGED running
      \/ /\ running' = [running EXCEPT ![o][c] = NoCommit]
      \/ /\ c \in staged[o]
         /\ bucket[c][o] # 0
         /\ running' = [running EXCEPT ![o][c] =
               [kind |-> "commit", next |-> 1, rejected |-> 0]]
      \/ \E n \in {running[o][c].rejected, running[o][c].rejected + 1} :
            /\ running[o][c] # NoCommit
            /\ running[o][c].next # bucket[c][o]
            /\ running' = [running EXCEPT ![o][c] =
                  [kind |-> "commit", next |-> @.next + 1, rejected |-> n]]
  BY DEF OwnerCall, Stage, StartCommit, AcceptSample, RejectSample, FailSample, Abort,
         Rollback, Finalize, Advance, RaiseInCommit
<1>2. UNCHANGED <<cur, bucket>>
  BY OwnerStep DEF driverVars
<1>3. CASE UNCHANGED running
  BY <1>2, <1>3 DEF CommitInBucket
<1>4. CASE running' = [running EXCEPT ![o][c] = NoCommit]
  BY <1>2, <1>4 DEF CommitInBucket, TypeOK
<1>5. CASE /\ c \in staged[o]
           /\ bucket[c][o] # 0
           /\ running' = [running EXCEPT ![o][c] =
                 [kind |-> "commit", next |-> 1, rejected |-> 0]]
  <2>1. c <= cur /\ bucket[c][o] \in 0..MaxBucket
    BY <1>5 DEF CallsIssued, TypeOK
  <2>. QED BY <1>2, <1>5, <2>1 DEF CommitInBucket, TypeOK
<1>6. ASSUME NEW n \in {running[o][c].rejected, running[o][c].rejected + 1},
             running[o][c] # NoCommit,
             running[o][c].next # bucket[c][o],
             running' = [running EXCEPT ![o][c] =
                [kind |-> "commit", next |-> @.next + 1, rejected |-> n]]
      PROVE  CommitInBucket'
  <2>1. /\ running[o][c] \in Commits
        /\ c <= cur
        /\ running[o][c].rejected < running[o][c].next
        /\ running[o][c].next <= bucket[c][o]
        /\ bucket[c][o] \in 0..MaxBucket
    BY <1>6 DEF CommitInBucket, TypeOK
  <2>2. running[o][c].next \in 1..MaxBucket /\ running[o][c].rejected \in 0..MaxBucket
    BY <2>1 DEF Commits
  <2>3. running[o][c].next + 1 <= bucket[c][o] /\ n < running[o][c].next + 1
    BY <1>6, <2>1, <2>2
  <2>4. running'[o][c] = [kind |-> "commit", next |-> running[o][c].next + 1, rejected |-> n]
    BY <1>6 DEF TypeOK
  <2>5. \A p \in Owners, d \in Collections :
           p # o \/ d # c => running'[p][d] = running[p][d]
    BY <1>6 DEF TypeOK
  <2>. QED BY <1>2, <2>1, <2>3, <2>4, <2>5 DEF CommitInBucket
<1>. QED BY <1>1, <1>3, <1>4, <1>5, <1>6

(* A journal is opened empty and takes only samples of its own collection. *)
LEMMA JournalStep ==
  ASSUME TypeOK, JournalIsOwn, NEW o \in Owners, NEW c \in Collections, OwnerCall(o, c)
  PROVE  JournalIsOwn'
<1>1. CASE UNCHANGED journal
  BY <1>1 DEF JournalIsOwn
<1>2. CASE journal' = [journal EXCEPT ![o][c] = NoEntry]
  BY <1>2 DEF JournalIsOwn, TypeOK
<1>3. CASE StartCommit(o, c) /\ c \in staged[o]
  <2>1. journal' = [journal EXCEPT ![o][c] =
           [kind |-> "journal", snapshot |-> buffer[o], pending |-> {}]]
    BY <1>3 DEF StartCommit
  <2>2. journal'[o][c].pending = {}
    BY <2>1 DEF TypeOK
  <2>3. \A p \in Owners, d \in Collections :
           p # o \/ d # c => journal'[p][d] = journal[p][d]
    BY <2>1 DEF TypeOK
  <2>. QED BY <2>2, <2>3 DEF JournalIsOwn
<1>4. CASE AcceptSample(o, c) /\ CollectOnly /\ journal[o][c] # NoEntry
  <2>1. journal[o][c] \in Entries
    BY <1>4 DEF TypeOK
  <2>2. journal' = [journal EXCEPT ![o][c] =
           [journal[o][c] EXCEPT !.pending = @ \union {<<c, running[o][c].next>>}]]
    BY <1>4, <2>1 DEF AcceptSample, TypeOK, Entries
  <2>3. journal'[o][c].pending = journal[o][c].pending \union {<<c, running[o][c].next>>}
    BY <2>1, <2>2 DEF TypeOK, Entries
  <2>4. \A p \in Owners, d \in Collections :
           p # o \/ d # c => journal'[p][d] = journal[p][d]
    BY <2>2 DEF TypeOK
  <2>. QED BY <1>4, <2>3, <2>4 DEF JournalIsOwn
<1>. QED BY <1>1, <1>2, <1>3, <1>4
         DEF OwnerCall, Stage, StartCommit, AcceptSample, RejectSample, FailSample, Abort,
             Rollback, Finalize

(* Only stage adds to the staged collections.                              *)
LEMMA StageStep ==
  ASSUME TypeOK, NEW o \in Owners, NEW c \in Collections, OwnerCall(o, c),
         NEW p \in Owners, NEW d \in staged'[p]
  PROVE  d \in staged[p] \/ (p = o /\ d = c /\ <<"stage", c>> \in Calls(o))
<1>1. CASE Stage(o, c)
  <2>1. <<"stage", c>> \in Calls(o)
    BY <1>1, CallsShrink DEF Stage
  <2>. QED BY <1>1, <2>1 DEF Stage, TypeOK
<1>2. CASE ~Stage(o, c)
  BY <1>2 DEF OwnerCall, StartCommit, AcceptSample, RejectSample, FailSample, Abort, Rollback,
              Finalize, TypeOK
<1>. QED BY <1>1, <1>2

(* Initially nothing is called, staged or stored.                          *)
LEMMA InvInit == Init => CollectionInv
<1>. SUFFICES ASSUME Init PROVE CollectionInv
  OBVIOUS
<1>1. TypeOK
  BY InitTypeOK
<1>2. ASSUME NEW o \in Owners PROVE Calls(o) = {}
  <2>1. Len(inbox[o]) = 0
    BY DEF Init
  <2>. QED BY <2>1 DEF Calls
<1>3. CommitInBucket /\ JournalIsOwn
  BY DEF Init, CommitInBucket, JournalIsOwn
<1>4. OutcomeLast
  BY DEF Init, OutcomeLast, Ops
<1>5. CallsIssued /\ FinalizeIsLast /\ StoredIsFinal
  BY <1>2 DEF Init, CallsIssued, FinalizeIsLast, StoredIsFinal
<1>. QED BY <1>1, <1>3, <1>4, <1>5 DEF CollectionInv

(* The steps of execute() keep the invariant.                              *)
LEMMA InvDriver == CollectionInv /\ Driver => CollectionInv'
<1>. SUFFICES ASSUME CollectionInv, Driver PROVE CollectionInv'
  OBVIOUS
<1>. USE DEF CollectionInv
<1>1. TypeOK'
  BY DriverTypeOK
<1>2. cur \in Nat /\ cur' \in Nat
  BY <1>1 DEF TypeOK
<1>3. CommitInBucket'
  BY <1>2, DriverStep DEF CommitInBucket, Collections
<1>4. CallsIssued'
  <2>1. \A o \in Owners : \A call \in Calls(o) : call[2] <= cur
    BY DEF CallsIssued
  <2>2. \A o \in Owners : \A call \in Calls(o) : call[2] \in Collections
    BY DEF TypeOK, Calls
  <2>3. \A o \in Owners : \A call \in Calls(o)' : call[2] <= cur'
    BY <1>2, <2>1, <2>2, DriverStep DEF Collections
  <2>4. \A o \in Owners : \A c \in staged'[o] : c <= cur'
    BY <1>2, DriverStep DEF CallsIssued, TypeOK, Collections
  <2>. QED BY <2>3, <2>4 DEF CallsIssued
<1>5. OutcomeLast'
  <2>1. CASE Begin
    <3>1. cur' = cur + 1 /\ outcome' = outcome /\ cur' \in Collections
      BY <1>1, <2>1 DEF Begin, TypeOK
    <3>. QED BY <1>2, <3>1 DEF OutcomeLast, Collections
  <2>2. CASE UNCHANGED <<cur, outcome>> /\ phase \in Ops
    BY <2>2 DEF OutcomeLast
  <2>3. CASE \E result, next : next \notin Ops /\ Finish(result, next)
    BY <1>2, <2>3 DEF Finish, OutcomeLast, TypeOK
  <2>4. AfterStage \/ AfterCommit => UNCHANGED <<cur, outcome>> /\ phase \in Ops
    BY DEF AfterStage, AfterCommit, Cleanup, Proceed, Ops
  <2>5. AfterFinalize \/ AfterCleanup => \E result, next : next \notin Ops /\ Finish(result, next)
    BY DEF AfterFinalize, AfterCleanup, Ops
  <2>. QED BY <2>1, <2>2, <2>3, <2>4, <2>5 DEF Driver
<1>6. FinalizeIsLast'
  <2>1. \A o \in Owners : \A call \in Calls(o) : call[2] \in Collections
    BY DEF TypeOK, Calls
  <2>2. \A c \in Collections : PointOfNoReturn(c) => PointOfNoReturn(c)'
    BY DriverStep
  <2>3. \A o \in Owners : \A call \in Calls(o)' :
           \/ call \in Calls(o)
           \/ call[2] = cur' /\ (call[1] = "finalize" => PointOfNoReturn(cur)')
    BY DriverStep
  <2>4. ASSUME NEW o \in Owners, NEW call \in Calls(o)', call[1] = "finalize"
        PROVE  PointOfNoReturn(call[2])'
    <3>1. CASE call \in Calls(o)
      BY <2>1, <2>2, <2>4, <3>1 DEF FinalizeIsLast
    <3>2. CASE call[2] = cur' /\ PointOfNoReturn(cur)'
      BY <3>2 DEF PointOfNoReturn
    <3>3. call \in Calls(o) \/ (call[2] = cur' /\ PointOfNoReturn(cur)')
      BY <2>3, <2>4
    <3>. QED BY <3>1, <3>2, <3>3
  <2>. QED BY <2>4 DEF FinalizeIsLast
<1>7. StoredIsFinal'
  <2>1. UNCHANGED <<unflushed, shards>>
    BY DriverStep
  <2>2. \A c \in Collections : PointOfNoReturn(c) => PointOfNoReturn(c)'
    BY DriverStep
  <2>3. \A o \in Owners : \A s \in unflushed[o] \union shards[o] : s[1] \in Collections
    BY DEF TypeOK, Samples
  <2>. QED BY <2>1, <2>2, <2>3 DEF StoredIsFinal
<1>8. JournalIsOwn'
  BY DriverStep DEF JournalIsOwn
<1>. QED BY <1>1, <1>3, <1>4, <1>5, <1>6, <1>7, <1>8

(* The handlers keep the invariant.                                        *)
LEMMA InvOwner ==
  ASSUME CollectionInv, NEW o \in Owners, NEW c \in Collections, OwnerCall(o, c)
  PROVE  CollectionInv'
<1>. USE DEF CollectionInv
<1>1. TypeOK'
  BY NextTypeOK DEF Next
<1>2. UNCHANGED <<cur, outcome, phase>>
  BY OwnerStep DEF driverVars
<1>3. CallsIssued'
  <2>1. \A p \in Owners : \A call \in Calls(p)' : call[2] <= cur
    BY OwnerStep DEF CallsIssued
  <2>2. <<"stage", c>> \in Calls(o) => c <= cur
    BY DEF CallsIssued
  <2>3. \A p \in Owners : \A d \in staged'[p] : d <= cur
    BY <2>2, StageStep DEF CallsIssued
  <2>. QED BY <1>2, <2>1, <2>3 DEF CallsIssued
<1>4. \A d \in Collections : PointOfNoReturn(d)' = PointOfNoReturn(d)
  BY <1>2 DEF PointOfNoReturn
<1>5. OutcomeLast'
  BY <1>2 DEF OutcomeLast
<1>6. FinalizeIsLast'
  BY <1>2, OwnerStep DEF FinalizeIsLast, PointOfNoReturn
<1>7. StoredIsFinal'
  <2>1. CASE UNCHANGED <<unflushed, shards>>
    BY <1>2, <2>1 DEF StoredIsFinal, PointOfNoReturn
  <2>2. CASE <<"finalize", c>> \in Calls(o)
    <3>1. PointOfNoReturn(c)
      BY <2>2 DEF FinalizeIsLast
    <3>2. journal[o][c] # NoEntry => \A s \in journal[o][c].pending : s[1] = c
      BY DEF JournalIsOwn
    <3>3. \A p \in Owners : \A s \in unflushed'[p] \union shards'[p] :
             s \in unflushed[p] \union shards[p] \/ s[1] = c
      BY <3>2, OwnerStep
    <3>. QED BY <1>2, <3>1, <3>3 DEF StoredIsFinal, PointOfNoReturn
  <2>. QED BY <2>1, <2>2, OwnerStep
<1>. QED BY <1>1, <1>3, <1>5, <1>6, <1>7, CommitStep, JournalStep

(* Replacing a process keeps the invariant.                                *)
LEMMA InvRestart ==
  ASSUME CollectionInv, NEW o \in Owners, Restart(o)
  PROVE  CollectionInv'
<1>. USE DEF CollectionInv
<1>1. TypeOK'
  BY RestartTypeOK
<1>2. UNCHANGED <<cur, outcome, phase, bucket>>
  BY RestartStep DEF driverVars
<1>3. CommitInBucket' /\ JournalIsOwn'
  BY <1>2, RestartStep DEF CommitInBucket, JournalIsOwn
<1>4. CallsIssued' /\ FinalizeIsLast' /\ StoredIsFinal'
  BY <1>2, RestartStep DEF CallsIssued, FinalizeIsLast, StoredIsFinal, PointOfNoReturn
<1>5. OutcomeLast'
  BY <1>2 DEF OutcomeLast
<1>. QED BY <1>1, <1>3, <1>4, <1>5

(* The invariant is inductive.                                             *)
THEOREM CollectionInvariant == Spec => []CollectionInv
<1>1. CollectionInv /\ [Next]_vars => CollectionInv'
  <2>. SUFFICES ASSUME CollectionInv, [Next]_vars PROVE CollectionInv'
    OBVIOUS
  <2>1. CASE Driver
    BY <2>1, InvDriver
  <2>2. ASSUME NEW o \in Owners, NEW c \in Collections, OwnerCall(o, c) PROVE CollectionInv'
    BY <2>2, InvOwner
  <2>3. ASSUME NEW o \in Owners, Restart(o) PROVE CollectionInv'
    BY <2>3, InvRestart
  <2>4. CASE UNCHANGED vars
    <3>1. TypeOK' /\ CommitInBucket' /\ OutcomeLast' /\ JournalIsOwn'
      BY <2>4 DEF CollectionInv, TypeOK, CommitInBucket, OutcomeLast, JournalIsOwn,
                  vars, driverVars, callVars, workerVars
    <3>2. CallsIssued' /\ FinalizeIsLast' /\ StoredIsFinal'
      BY <2>4 DEF CollectionInv, CallsIssued, FinalizeIsLast, StoredIsFinal, Calls,
                  PointOfNoReturn, vars, driverVars, callVars, workerVars
    <3>. QED BY <3>1, <3>2 DEF CollectionInv
  <2>. QED BY <2>1, <2>2, <2>3, <2>4 DEF Next
<1>. QED BY <1>1, InvInit, PTL DEF Spec

(* Every state of the transaction is well typed.                           *)
THEOREM TypeCorrect == Spec => []TypeOK
<1>1. CollectionInv => TypeOK
  BY DEF CollectionInv
<1>. QED BY <1>1, CollectionInvariant, PTL

(* In collect_only mode no sample of a failed collection ever gets into    *)
(* the Feature Store, whatever fails and in whatever order the owners      *)
(* serve the clean-up: a collection is handed to the writer only after     *)
(* every owner has committed it.                                           *)
THEOREM CollectOnlyFailedLeavesNothing == Spec => [](CollectOnly => FailedLeavesNothing)
<1>1. CollectionInv => (CollectOnly => FailedLeavesNothing)
  <2>. SUFFICES ASSUME CollectionInv, CollectOnly, NEW c \in Collections,
                       outcome[c] \in Failures, NEW o \in Owners
                PROVE  Trainable(o) \intersect SamplesOf(c) = {}
    BY DEF FailedLeavesNothing, LeavesNothing
  <2>1. ~PointOfNoReturn(c)
    BY DEF PointOfNoReturn, CollectionInv, OutcomeLast, Failures, Ops
  <2>2. \A s \in Trainable(o) : PointOfNoReturn(s[1])
    BY DEF Trainable, CollectionInv, StoredIsFinal
  <2>. QED BY <2>1, <2>2 DEF SamplesOf
<1>. QED BY <1>1, CollectionInvariant, PTL
===============================================================================
