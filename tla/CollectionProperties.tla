------------------------ MODULE CollectionProperties ------------------------
(***************************************************************************)
(* Correctness of the collection transaction.                              *)
(***************************************************************************)
EXTENDS CollectionTransaction

(* What training can read at an owner.                                     *)
Trainable(o) == IF CollectOnly THEN unflushed[o] \union shards[o] ELSE buffer[o]

(* The calls an owner has yet to start.                                    *)
Calls(o) == {inbox[o][i] : i \in 1..Len(inbox[o])}

CleanupQueued(c) ==
  \E o \in Owners : <<"abort", c>> \in Calls(o) \/ <<"rollback", c>> \in Calls(o)

-----------------------------------------------------------------------------
LeavesNothing(c) ==
  \A o \in Owners : Trainable(o) \intersect SamplesOf(c) = {}

(* A collection that failed before finalize leaves no trainable sample     *)
(* once the abort or rollback calls that were sent for it have been        *)
(* served.                                                                 *)
FailedLeavesNothing ==
  \A c \in Collections :
     outcome[c] \in Failures /\ ~CleanupQueued(c) => LeavesNothing(c)

(* The part of it that online training relies on: execute() returned, its  *)
(* abort or rollback done, because an owner was not ready or a sample was  *)
(* rejected.                                                               *)
RejectedLeavesNothing ==
  \A c \in Collections : outcome[c] \in {"stage_failed", "rejected"} => LeavesNothing(c)

(* A completed collection is trainable in full on every owner that still   *)
(* runs the process that committed it.                                     *)
CompletedEverywhere ==
  \A c \in Collections : outcome[c] = "completed" =>
     \A o \in Owners : inc[o] = ackInc[c][o] => Share(c, o) \subseteq Trainable(o)

(* With a flush on every step, a completed collect_only collection is in   *)
(* the shard files, so that no later restart of an owner can lose it.      *)
CompletedIsDurable ==
  CollectOnly /\ FlushEveryStep =>
     \A c \in Collections : outcome[c] = "completed" =>
        \A o \in Owners : Share(c, o) \subseteq shards[o]

(* Once every owner has committed, nothing takes the samples away from the *)
(* process that holds them: no clean-up of their own collection, and no    *)
(* rollback of a later one, which restores a snapshot of the whole buffer. *)
AllCommitted(c) == \A o \in Owners : ackInc[c][o] # 0

CommittedDataSurvives ==
  [][\A c \in Collections, o \in Owners :
        AllCommitted(c) /\ inc'[o] = inc[o] =>
           Trainable(o) \intersect SamplesOf(c) \subseteq Trainable(o)']_vars

(* Between two collections an owner with no call left to serve holds no    *)
(* staged samples and no journal: nothing leaks, and no later rollback can *)
(* restore an old snapshot.                                                *)
NoTransactionLeft ==
  phase = "idle" =>
     \A o \in Owners : inbox[o] = <<>> =>
        staged[o] = {} /\ \A c \in Collections : journal[o][c] = NoEntry

(* execute() never waits for an answer that nobody will give: an owner     *)
(* that has not answered the call has it in its queue, or works on it.     *)
AnswerComes ==
  phase \in Ops => \A o \in Owners :
    \/ reply[o] # NoReply
    \/ <<phase, cur>> \in Calls(o)
    \/ phase = "commit" /\ running[o][cur] # NoCommit

(* execute() always comes to an end, whatever fails.                       *)
ExecuteEnds == phase \in Ops ~> phase \in {"idle", "halted"}

-----------------------------------------------------------------------------
(* The argument for FailedLeavesNothing in collect_only mode.              *)

(* A coroutine works on a sample of its bucket and has rejected only       *)
(* samples it tried.                                                       *)
CommitInBucket ==
  \A o \in Owners, c \in Collections : running[o][c] # NoCommit =>
     /\ c <= cur
     /\ running[o][c].rejected < running[o][c].next
     /\ running[o][c].next <= bucket[c][o]

(* Every call, and every stage, belongs to a collection that was begun.    *)
CallsIssued ==
  \A o \in Owners :
     /\ \A call \in Calls(o) : call[2] <= cur
     /\ \A c \in staged[o] : c <= cur

(* The current collection has no outcome before it ends.                   *)
OutcomeLast ==
  /\ \A c \in Collections : outcome[c] # "none" => c <= cur
  /\ phase \in Ops => outcome[cur] = "none"

(* Every owner committed the collection and finalize was sent for it.      *)
PointOfNoReturn(c) ==
  outcome[c] \in {"completed", "ambiguous"} \/ (c = cur /\ phase = "finalize")

(* Only then does an owner get a finalize call, and only then does the     *)
(* Feature Store hold a sample of it.  A journal holds only its own.       *)
FinalizeIsLast ==
  \A o \in Owners : \A call \in Calls(o) :
     call[1] = "finalize" => PointOfNoReturn(call[2])

StoredIsFinal ==
  \A o \in Owners : \A s \in unflushed[o] \union shards[o] : PointOfNoReturn(s[1])

JournalIsOwn ==
  \A o \in Owners, c \in Collections : journal[o][c] # NoEntry =>
     \A s \in journal[o][c].pending : s[1] = c

CollectionInv ==
  /\ TypeOK
  /\ CommitInBucket
  /\ CallsIssued
  /\ OutcomeLast
  /\ FinalizeIsLast
  /\ StoredIsFinal
  /\ JournalIsOwn

-----------------------------------------------------------------------------
(* The argument for the other properties: what an owner holds of a         *)
(* collection tells which of its calls it has served, and which must       *)
(* still come.                                                             *)

(* Collections that were not begun are empty, one is acknowledged only     *)
(* when all owners have committed it, and only an unfinished finalize      *)
(* stops the driver.                                                       *)
Milestones ==
  /\ \A c \in Collections, o \in Owners : c > cur => bucket[c][o] = 0
  /\ \A c \in Collections, o \in Owners : ackInc[c][o] # 0 => PointOfNoReturn(c)
  /\ \A c \in Collections : outcome[c] = "ambiguous" => c = cur /\ phase = "halted"

(* The order in which the driver sends the calls of all collections.       *)
Rank(op) == IF op = "stage" THEN 1 ELSE IF op = "commit" THEN 2 ELSE 3

Before(a, b) == a[2] < b[2] \/ (a[2] = b[2] /\ Rank(a[1]) < Rank(b[1]))

(* An owner serves its calls in that order, and has nothing left to serve  *)
(* when it answers the call the driver waits for, or works on its samples. *)
InOrder(o) ==
  /\ \A i, j \in 1..Len(inbox[o]) : i < j => Before(inbox[o][i], inbox[o][j])
  /\ phase \in Ops =>
       \A call \in Calls(o) : call = <<phase, cur>> \/ Before(call, <<phase, cur>>)
  /\ phase \in Ops /\ reply[o] # NoReply => Calls(o) = {}
  /\ phase = "commit" /\ running[o][cur] # NoCommit => Calls(o) = {} /\ reply[o] = NoReply

(* Incarnations only grow; last_global_step, set on all owners for every   *)
(* collection, tells whether an owner was replaced since.                  *)
Dated(o) ==
  /\ reply[o] # NoReply => reply[o].inc <= inc[o]
  /\ \A c \in Collections : ackInc[c][o] <= inc[o]
  /\ phase \in Ops /\ stepSet[o] /\ reply[o] # NoReply => reply[o].inc = inc[o]
  /\ phase = "finalize" /\ stepSet[o] => ackInc[cur][o] = inc[o]

(* A collection that execute() returned from has no call left, and one     *)
(* that all owners have committed has no older call or journal before it.  *)
Settled(o) ==
  \A c \in Collections :
     /\ outcome[c] \in {"stage_failed", "rejected", "completed"} =>
          \A call \in Calls(o) : call[2] # c
     /\ PointOfNoReturn(c) =>
          /\ \A call \in Calls(o) : call[2] > c \/ call = <<"finalize", c>>
          /\ \A d \in Collections : journal[o][d] # NoEntry => d >= c

(* A commit of it raised on some owner, so that others may still be        *)
(* committing when the driver has gone on.                                 *)
CommitRaised(c) ==
  outcome[c] = "raised" \/ (c = cur /\ phase = "rollback" /\ cause = "raised")

(* What is staged or journaled has a later call of its collection coming.  *)
CleanupComes(o) ==
  \A c \in Collections :
     /\ <<"stage", c>> \in Calls(o) \/ c \in staged[o] =>
          \/ c = cur /\ phase = "stage"
          \/ \E op \in {"commit", "abort", "rollback"} : <<op, c>> \in Calls(o)
     /\ <<"commit", c>> \in Calls(o) =>
          \/ c = cur /\ phase = "commit"
          \/ <<"rollback", c>> \in Calls(o) /\ CommitRaised(c)
     /\ running[o][c] # NoCommit =>
          \/ c = cur /\ phase = "commit" /\ journal[o][c] # NoEntry
          \/ CommitRaised(c)
     /\ journal[o][c] # NoEntry =>
          /\ \A call \in Calls(o) : Before(<<"commit", c>>, call)
          /\ \/ c = cur /\ phase = "commit"
             \/ <<"rollback", c>> \in Calls(o)
             \/ c = cur /\ phase = "finalize" /\
                   (<<"finalize", c>> \in Calls(o) \/ reply[o].kind = "raise")
             \/ outcome[c] = "ambiguous"

(* A sample in the buffers can be taken back as long as it is neither      *)
(* there to stay nor left by a commit that went on; a snapshot has only    *)
(* such samples, and all that are there to stay.                           *)
Kept(c) == PointOfNoReturn(c) \/ CommitRaised(c)

Revocable(o) ==
  /\ \A s \in buffer[o] : Kept(s[1]) \/ journal[o][s[1]] # NoEntry
  /\ \A d \in Collections : journal[o][d] # NoEntry =>
       /\ \A s \in journal[o][d].snapshot : Kept(s[1])
       /\ \A s \in buffer[o] : PointOfNoReturn(s[1]) /\ s[1] < d => s \in journal[o][d].snapshot

(* What a commit has done of a collection at an owner.                     *)
Committed(o, c) == IF CollectOnly THEN journal[o][c].pending ELSE buffer[o]

(* A commit that rejects nothing commits all of the owner's share, and all *)
(* of it stays until finalize, which makes it trainable.                   *)
TakesAll(o) ==
  /\ phase = "commit" /\ running[o][cur] # NoCommit /\ running[o][cur].rejected = 0 =>
       \A s \in SamplesOf(cur) : s[2] < running[o][cur].next => s \in Committed(o, cur)
  /\ phase = "commit" /\ reply[o].kind = "committed" /\ reply[o].rejected = 0
       /\ reply[o].inc = inc[o] =>
          journal[o][cur] # NoEntry /\ Share(cur, o) \subseteq Committed(o, cur)
  /\ \A c \in Collections : ackInc[c][o] = inc[o] =>
       \/ /\ <<"finalize", c>> \in Calls(o)
          /\ journal[o][c] # NoEntry /\ Share(c, o) \subseteq Committed(o, c)
       \/ /\ <<"finalize", c>> \notin Calls(o)
          /\ \/ Share(c, o) \subseteq Trainable(o)
             \/ outcome[c] = "ambiguous"
             \/ c = cur /\ phase = "finalize" /\ reply[o].kind = "raise"
  /\ phase = "finalize" /\ reply[o].kind = "finalized" /\ reply[o].inc = ackInc[cur][o]
       /\ CollectOnly /\ FlushEveryStep => Share(cur, o) \subseteq shards[o]

OwnerInv(o) ==
  InOrder(o) /\ Dated(o) /\ Settled(o) /\ CleanupComes(o) /\ Revocable(o) /\ TakesAll(o)

TransactionInv ==
  /\ CollectionInv
  /\ Milestones
  /\ \A o \in Owners : OwnerInv(o)
  /\ CompletedIsDurable

-----------------------------------------------------------------------------
(* The transaction implements the all-or-nothing collection.               *)
IsOpen(c) == c = cur /\ phase \in Ops

AbstractStatus ==
  [c \in Collections |->
     IF IsOpen(c) THEN "open"
     ELSE IF outcome[c] \in Failures THEN "failed" ELSE outcome[c]]

AbstractContent ==
  {s \in Collections \X Owners \X (1..MaxBucket) : s[3] <= bucket[s[1]][s[2]]}

AbstractVisible ==
  {s \in AbstractContent : ~IsOpen(s[1]) /\ <<s[1], s[3]>> \in Trainable(s[2])}

Atomic == INSTANCE AtomicCollection
            WITH status  <- AbstractStatus,
                 content <- AbstractContent,
                 fresh   <- {o \in Owners : ~stepSet[o]},
                 visible <- AbstractVisible

(* Training sees a collection on every owner or on none.                   *)
AllOrNothing == Atomic!Spec
=============================================================================
