-------------------------- MODULE TransactionProofs --------------------------
(***************************************************************************)
(* What an owner keeps of a collection, what becomes of a failed one, and  *)
(* the refinement of the all-or-nothing collection: proofs for any owners, *)
(* collections, samples and restarts.                                      *)
(***************************************************************************)
EXTENDS CollectionProofs

USE OwnersAssumption, BoundsAssumption, ModesAssumption

-----------------------------------------------------------------------------
(* Calls, in their order.                                                  *)

(* The order of the calls.                                                 *)
LEMMA RankOrder ==
  /\ Rank("stage") = 1 /\ Rank("commit") = 2
  /\ Rank("abort") = 3 /\ Rank("rollback") = 3 /\ Rank("finalize") = 3
BY DEF Rank

(* A record of one kind is not of another.                                 *)
LEMMA NoneIsNothing ==
  /\ NoReply \notin Answers /\ NoReply.kind = "none"
  /\ NoEntry \notin Entries
  /\ NoCommit \notin Commits
BY DEF NoReply, Answers, Kinds, NoEntry, Entries, NoCommit, Commits

(* A call is for a collection.                                             *)
LEMMA CallType ==
  ASSUME TypeOK, NEW o \in Owners, NEW call \in Calls(o)
  PROVE  call[1] \in Ops /\ call[2] \in Collections /\ call = <<call[1], call[2]>>
BY DEF TypeOK, Calls

(* An owner starts the first of its calls: all others come after it.       *)
LEMMA CallServed ==
  ASSUME TypeOK, NEW o \in Owners, InOrder(o), NEW op, NEW c, Starts(o, op, c),
         UNCHANGED driverVars
  PROVE  /\ <<op, c>> \in Calls(o) /\ op \in Ops /\ c \in Collections
         /\ \A call \in Calls(o) : call \in Calls(o)' \/ call = <<op, c>>
         /\ \A call \in Calls(o)' : call \in Calls(o) /\ Before(<<op, c>>, call)
         /\ <<op, c>> \notin Calls(o)'
         /\ \A i, j \in 1..Len(inbox'[o]) : i < j => Before(inbox'[o][i], inbox'[o][j])
         /\ phase = op /\ cur = c => Calls(o)' = {}
         /\ phase \in Ops => reply[o] = NoReply
         /\ phase = "commit" => running[o][cur] = NoCommit
<1>1. /\ inbox'[o] \in Seq(Ops \X Collections)
      /\ inbox[o] \in Seq(Ops \X Collections)
      /\ inbox[o] # <<>> /\ inbox[o][1] = <<op, c>>
      /\ Len(inbox'[o]) = Len(inbox[o]) - 1
      /\ \A i \in 1..Len(inbox'[o]) : inbox'[o][i] = inbox[o][i + 1]
  BY StartsType
<1>. DEFINE n == Len(inbox[o])
<1>2. n \in Nat /\ 1 \in 1..n /\ Len(inbox'[o]) = n - 1
  BY <1>1
<1>3. <<op, c>> \in Calls(o)
  BY <1>1, <1>2 DEF Calls
<1>4. \A call \in Calls(o) : call \in Calls(o)' \/ call = <<op, c>>
  <2>. SUFFICES ASSUME NEW i \in 1..n, i # 1 PROVE inbox[o][i] \in Calls(o)'
    BY <1>1 DEF Calls
  <2>1. i - 1 \in 1..Len(inbox'[o]) /\ inbox'[o][i - 1] = inbox[o][(i - 1) + 1] /\ (i - 1) + 1 = i
    BY <1>1, <1>2
  <2>. QED BY <2>1 DEF Calls
<1>5. \A i \in 1..Len(inbox'[o]) : /\ i + 1 \in 1..n /\ inbox'[o][i] = inbox[o][i + 1]
                                   /\ Before(<<op, c>>, inbox[o][i + 1])
  <2>. SUFFICES ASSUME NEW i \in 1..Len(inbox'[o])
                PROVE  /\ i + 1 \in 1..n /\ inbox'[o][i] = inbox[o][i + 1]
                       /\ Before(<<op, c>>, inbox[o][i + 1])
    OBVIOUS
  <2>1. i + 1 \in 1..n /\ 1 < i + 1
    BY <1>2
  <2>2. Before(inbox[o][1], inbox[o][i + 1])
    BY <2>1, <1>2 DEF InOrder
  <2>. QED BY <2>1, <2>2, <1>1
<1>6. \A call \in Calls(o)' : call \in Calls(o) /\ Before(<<op, c>>, call)
  BY <1>5 DEF Calls
<1>7. op \in Ops /\ c \in Collections /\ c \in Nat
  BY <1>3, CallType DEF Collections
<1>8. Rank(op) \in Nat /\ ~Before(<<op, c>>, <<op, c>>)
  BY <1>7 DEF Before, Rank
<1>9. ASSUME NEW i \in 1..Len(inbox'[o]), NEW j \in 1..Len(inbox'[o]), i < j
      PROVE  Before(inbox'[o][i], inbox'[o][j])
  <2>1. i + 1 \in 1..n /\ j + 1 \in 1..n /\ i + 1 < j + 1
    BY <1>2, <1>9
  <2>2. Before(inbox[o][i + 1], inbox[o][j + 1])
    BY <2>1 DEF InOrder
  <2>. QED BY <1>5, <2>2
<1>10. phase = op /\ cur = c => Calls(o)' = {}
  <2>. SUFFICES ASSUME phase = op, cur = c, NEW call \in Calls(o)' PROVE FALSE
    OBVIOUS
  <2>1. call \in Calls(o) /\ Before(<<op, c>>, call)
    BY <1>6
  <2>2. call = <<op, c>> \/ Before(call, <<op, c>>)
    BY <2>1, <1>7 DEF InOrder
  <2>3. call[2] \in Nat /\ Rank(call[1]) \in Nat
    BY <2>1, CallType DEF Collections, Rank
  <2>. QED BY <2>1, <2>2, <2>3, <1>7, <1>8 DEF Before
<1>. QED BY <1>3, <1>4, <1>6, <1>7, <1>8, <1>9, <1>10 DEF InOrder

(* The driver sends to all owners.                                         *)
LEMMA CallSent ==
  ASSUME TypeOK, NEW o \in Owners, NEW op \in Ops, NEW c \in Collections, SendAll(op, c)
  PROVE  /\ Calls(o)' = Calls(o) \union {<<op, c>>}
         /\ reply'[o] = NoReply
         /\ (\A i, j \in 1..Len(inbox[o]) : i < j => Before(inbox[o][i], inbox[o][j]))
              /\ (\A call \in Calls(o) : Before(call, <<op, c>>))
            => \A i, j \in 1..Len(inbox'[o]) : i < j => Before(inbox'[o][i], inbox'[o][j])
<1>1. inbox'[o] = Append(inbox[o], <<op, c>>) /\ inbox[o] \in Seq(Ops \X Collections)
  BY DEF SendAll, TypeOK
<1>. DEFINE n == Len(inbox[o])
<1>2. /\ n \in Nat /\ Len(inbox'[o]) = n + 1
      /\ \A i \in 1..n : inbox'[o][i] = inbox[o][i]
      /\ inbox'[o][n + 1] = <<op, c>>
  BY <1>1
<1>3. Calls(o)' = Calls(o) \union {<<op, c>>}
  <2>1. Calls(o)' \subseteq Calls(o) \union {<<op, c>>}
    <3>. SUFFICES ASSUME NEW i \in 1..Len(inbox'[o])
                  PROVE  inbox'[o][i] \in Calls(o) \union {<<op, c>>}
      BY DEF Calls
    <3>1. i \in 1..n \/ i = n + 1
      BY <1>2
    <3>. QED BY <1>2, <3>1 DEF Calls
  <2>2. Calls(o) \union {<<op, c>>} \subseteq Calls(o)'
    <3>1. n + 1 \in 1..Len(inbox'[o]) /\ 1..n \subseteq 1..Len(inbox'[o])
      BY <1>2
    <3>2. <<op, c>> \in Calls(o)'
      BY <1>2, <3>1 DEF Calls
    <3>3. Calls(o) \subseteq Calls(o)'
      BY <1>2, <3>1 DEF Calls
    <3>. QED BY <3>2, <3>3
  <2>. QED BY <2>1, <2>2
<1>4. ASSUME \A i, j \in 1..n : i < j => Before(inbox[o][i], inbox[o][j]),
             \A call \in Calls(o) : Before(call, <<op, c>>),
             NEW i \in 1..(n + 1), NEW j \in 1..(n + 1), i < j
      PROVE  Before(inbox'[o][i], inbox'[o][j])
  <2>1. i \in 1..n /\ inbox'[o][i] = inbox[o][i]
    BY <1>2, <1>4
  <2>2. CASE j \in 1..n
    BY <2>1, <2>2, <1>2, <1>4
  <2>3. CASE j = n + 1
    BY <2>1, <2>3, <1>2, <1>4 DEF Calls
  <2>. QED BY <2>2, <2>3, <1>2
<1>. QED BY <1>2, <1>3, <1>4 DEF SendAll

-----------------------------------------------------------------------------
(* Owners are served each on its own.                                      *)

(* An owner that no step touches keeps what it has.                        *)
LEMMA OthersKeep ==
  ASSUME UNCHANGED driverVars, NEW p \in Owners, OwnerInv(p),
         inbox'[p] = inbox[p], reply'[p] = reply[p], stepSet'[p] = stepSet[p], inc'[p] = inc[p],
         staged'[p] = staged[p], journal'[p] = journal[p], running'[p] = running[p],
         buffer'[p] = buffer[p], unflushed'[p] = unflushed[p], shards'[p] = shards[p]
  PROVE  OwnerInv(p)'
<1>. USE DEF driverVars, OwnerInv
<1>1. Calls(p)' = Calls(p)
  BY DEF Calls
<1>2. \A c \in Collections :
        /\ PointOfNoReturn(c)' = PointOfNoReturn(c)
        /\ CommitRaised(c)' = CommitRaised(c)
        /\ Kept(c)' = Kept(c)
        /\ Share(c, p)' = Share(c, p)
        /\ Committed(p, c)' = Committed(p, c)
  BY DEF PointOfNoReturn, CommitRaised, Kept, Share, Committed
<1>3. InOrder(p)' /\ Dated(p)'
  BY <1>1 DEF InOrder, Dated
<1>4. Settled(p)' /\ CleanupComes(p)'
  <2>1. Settled(p)'
    BY <1>1 DEF Settled, PointOfNoReturn
  <2>2. CleanupComes(p)'
    BY <1>1 DEF CleanupComes, CommitRaised
  <2>. QED BY <2>1, <2>2
<1>5. Revocable(p)'
  BY DEF Revocable, Kept, PointOfNoReturn, CommitRaised
<1>6. TakesAll(p)'
  BY <1>1, <1>2 DEF TakesAll, Trainable, Committed, Share
<1>. QED BY <1>3, <1>4, <1>5, <1>6

(* A handler changes nothing but its owner, and of the journals and        *)
(* coroutines only those of its collection.                                *)
LEMMA OwnerOnly ==
  ASSUME TypeOK, NEW o \in Owners, NEW c \in Collections, OwnerCall(o, c)
  PROVE  /\ UNCHANGED <<driverVars, stepSet, inc>>
         /\ \A p \in Owners : p # o =>
              /\ inbox'[p] = inbox[p] /\ reply'[p] = reply[p] /\ staged'[p] = staged[p]
              /\ journal'[p] = journal[p] /\ running'[p] = running[p]
              /\ buffer'[p] = buffer[p] /\ unflushed'[p] = unflushed[p] /\ shards'[p] = shards[p]
         /\ \A d \in Collections : d # c =>
              journal'[o][d] = journal[o][d] /\ running'[o][d] = running[o][d]
<1>. USE DEF driverVars
<1>1. UNCHANGED <<driverVars, stepSet, inc>>
  BY DEF OwnerCall, Stage, StartCommit, AcceptSample, RejectSample, FailSample, Abort, Rollback,
     Finalize
<1>2. inbox' = inbox \/ \E op : Starts(o, op, c)
  BY DEF OwnerCall, Stage, StartCommit, AcceptSample, RejectSample, FailSample, Abort, Rollback,
     Finalize
<1>3. reply' = reply \/ \E op, answer : Return(o, op, c, answer)
  BY DEF OwnerCall, Stage, StartCommit, AcceptSample, RejectSample, FailSample, Abort, Rollback,
     Finalize, Advance, RaiseInCommit
<1>4. staged' = staged \/ \E S : staged' = [staged EXCEPT ![o] = S]
  BY DEF OwnerCall, Stage, StartCommit, AcceptSample, RejectSample, FailSample, Abort, Rollback,
     Finalize
<1>5. journal' = journal \/ \E entry : journal' = [journal EXCEPT ![o][c] = entry]
  <2>1. CASE AcceptSample(o, c)
    BY <2>1 DEF AcceptSample
  <2>. QED BY <2>1 DEF OwnerCall, Stage, StartCommit, RejectSample, FailSample, Abort, Rollback,
           Finalize
<1>6. running' = running \/ \E commit : running' = [running EXCEPT ![o][c] = commit]
  BY DEF OwnerCall, Stage, StartCommit, AcceptSample, RejectSample, FailSample, Abort, Rollback,
     Finalize, Advance, RaiseInCommit
<1>7. buffer' = buffer \/ \E S : buffer' = [buffer EXCEPT ![o] = S]
  BY DEF OwnerCall, Stage, StartCommit, AcceptSample, RejectSample, FailSample, Abort, Rollback,
     Finalize
<1>8. UNCHANGED <<unflushed, shards>> \/ \E last, full : Write(o, c, last, full)
  BY DEF OwnerCall, Stage, StartCommit, AcceptSample, RejectSample, FailSample, Abort, Rollback,
     Finalize
<1>. USE DEF TypeOK
<1>9. \A p \in Owners : p # o => inbox'[p] = inbox[p] /\ reply'[p] = reply[p]
  BY <1>2, <1>3 DEF Starts, Return
<1>10. \A p \in Owners : p # o =>
         staged'[p] = staged[p] /\ buffer'[p] = buffer[p] /\ journal'[p] = journal[p]
           /\ running'[p] = running[p]
  BY <1>4, <1>5, <1>6, <1>7
<1>11. \A p \in Owners : p # o => unflushed'[p] = unflushed[p] /\ shards'[p] = shards[p]
  BY <1>8 DEF Write
<1>12. \A d \in Collections : d # c =>
         journal'[o][d] = journal[o][d] /\ running'[o][d] = running[o][d]
  BY <1>5, <1>6
<1>. QED BY <1>1, <1>9, <1>10, <1>11, <1>12

(* An answer counts only for the call the driver waits for.                *)
LEMMA Returned ==
  ASSUME TypeOK, NEW o \in Owners, NEW op, NEW c, NEW answer, Return(o, op, c, answer)
  PROVE  /\ phase = op /\ cur = c => reply'[o] = answer
         /\ ~(phase = op /\ cur = c) => reply'[o] = reply[o]
BY DEF Return, TypeOK

(* The answers of the handlers carry the incarnation.                      *)
LEMMA AnswerInc ==
  ASSUME TypeOK, NEW o \in Owners, NEW kind \in Kinds
  PROVE  /\ Answer(o, kind, 0) \in Answers /\ Answer(o, kind, 0).inc = inc[o]
         /\ Answer(o, kind, 0).kind \in {kind, "raise"} /\ Answer(o, kind, 0).rejected = 0
         /\ Failed(o) \in Answers /\ Failed(o).inc = inc[o] /\ Failed(o).kind = "raise"
         /\ inc[o] \in Nat \ {0}
<1>1. 0 \in 0..MaxBucket
  OBVIOUS
<1>2. Answer(o, kind, 0) \in Answers /\ Failed(o) \in Answers
  BY <1>1, AnswerType
<1>. QED BY <1>2 DEF Answer, Failed, TypeOK, Incarnations

(* Serving a call keeps the order, if the owner answers only that call.    *)
LEMMA ServedInOrder ==
  ASSUME TypeOK, NEW o \in Owners, InOrder(o), NEW op, NEW c, Starts(o, op, c),
         UNCHANGED driverVars,
         (phase = op /\ cur = c) \/ reply'[o] = reply[o],
         phase = "commit" /\ running'[o][cur] # NoCommit =>
           op = "commit" /\ c = cur /\ reply'[o] = reply[o]
  PROVE  InOrder(o)'
<1>1. /\ \A call \in Calls(o)' : call \in Calls(o)
      /\ \A i, j \in 1..Len(inbox'[o]) : i < j => Before(inbox'[o][i], inbox'[o][j])
      /\ phase = op /\ cur = c => Calls(o)' = {}
      /\ phase \in Ops => reply[o] = NoReply
  BY CallServed
<1>. USE DEF driverVars
<1>2. phase' \in Ops =>
        \A call \in Calls(o)' : call = <<phase', cur'>> \/ Before(call, <<phase', cur'>>)
  BY <1>1 DEF InOrder
<1>3. phase' \in Ops /\ reply'[o] # NoReply => Calls(o)' = {}
  BY <1>1
<1>4. phase' = "commit" /\ running'[o][cur'] # NoCommit => Calls(o)' = {} /\ reply'[o] = NoReply
  BY <1>1 DEF Ops
<1>. QED BY <1>1, <1>2, <1>3, <1>4 DEF InOrder

(* Past the point of no return no commit of the collection goes on.        *)
LEMMA NoReturn ==
  ASSUME TypeOK, OutcomeLast, Milestones, NEW c \in Collections, PointOfNoReturn(c)
  PROVE  /\ c <= cur /\ ~CommitRaised(c)
         /\ ~(c = cur /\ phase \in {"stage", "commit", "abort", "rollback"})
         /\ outcome[c] = "completed" \/ outcome[c] = "ambiguous" \/ (c = cur /\ phase = "finalize")
BY DEF PointOfNoReturn, CommitRaised, OutcomeLast, Ops, TypeOK, Collections

(* Which collections are past the point of no return when a call starts.   *)
LEMMA ServedWhen ==
  ASSUME TypeOK, FinalizeIsLast, NEW o \in Owners, Settled(o),
         NEW op, NEW c \in Collections, <<op, c>> \in Calls(o)
  PROVE  /\ op = "finalize" => PointOfNoReturn(c)
         /\ op # "finalize" => ~PointOfNoReturn(c)
         /\ \A d \in Collections : PointOfNoReturn(d) /\ d # c => d < c
<1>1. op = "finalize" => PointOfNoReturn(c)
  BY DEF FinalizeIsLast
<1>2. \A d \in Collections : PointOfNoReturn(d) => c > d \/ <<op, c>> = <<"finalize", d>>
  BY DEF Settled
<1>. QED BY <1>1, <1>2 DEF Collections

(* stage_rollout_features and abort_rollout_features change only what is   *)
(* staged.                                                                 *)
LEMMA StagingKeeps ==
  ASSUME TransactionInv, NEW o \in Owners, NEW c \in Collections, Stage(o, c) \/ Abort(o, c)
  PROVE  OwnerInv(o)'
<1>. USE DEF driverVars
<1>1. TypeOK /\ OwnerInv(o) /\ InOrder(o)
  BY DEF TransactionInv, CollectionInv, OwnerInv
<1>2. UNCHANGED <<driverVars, stepSet, inc, journal, running, buffer, unflushed, shards>>
  BY DEF Stage, Abort
<1>3. PICK op \in {"stage", "abort"} :
        /\ Starts(o, op, c)
        /\ \E answer \in Answers : answer.inc = inc[o] /\ Return(o, op, c, answer)
        /\ op = "stage" => staged'[o] \subseteq staged[o] \union {c}
        /\ op = "abort" => staged'[o] = staged[o] \ {c}
  <2>1. \A kind \in Kinds : Answer(o, kind, 0) \in Answers /\ Answer(o, kind, 0).inc = inc[o]
    BY <1>1, AnswerInc
  <2>2. "staged" \in Kinds /\ "not_ready" \in Kinds /\ "cleaned" \in Kinds
    BY DEF Kinds
  <2>3. CASE Stage(o, c)
    <3>1. staged'[o] \subseteq staged[o] \union {c}
      BY <2>3, <1>1 DEF Stage, TypeOK
    <3>. QED BY <2>1, <2>2, <2>3, <3>1 DEF Stage
  <2>4. CASE Abort(o, c)
    <3>1. staged'[o] = staged[o] \ {c}
      BY <2>4, <1>1 DEF Abort, TypeOK
    <3>. QED BY <2>1, <2>2, <2>4, <3>1 DEF Abort
  <2>. QED BY <2>3, <2>4
<1>4. /\ phase = op /\ cur = c => reply'[o] \in Answers /\ reply'[o].inc = inc[o]
      /\ ~(phase = op /\ cur = c) => reply'[o] = reply[o]
  BY <1>1, <1>3, Returned
<1>5. /\ <<op, c>> \in Calls(o)
      /\ \A call \in Calls(o) : call \in Calls(o)' \/ call = <<op, c>>
      /\ \A call \in Calls(o)' : call \in Calls(o) /\ Before(<<op, c>>, call)
      /\ phase = "commit" => running[o][cur] = NoCommit
  BY <1>1, <1>2, <1>3, CallServed
<1>6. InOrder(o)'
  BY <1>1, <1>2, <1>3, <1>4, <1>5, ServedInOrder
<1>7. Dated(o)'
  <2>1. inc[o] \in Nat
    BY <1>1 DEF TypeOK, Incarnations
  <2>. QED BY <2>1, <1>1, <1>2, <1>4 DEF OwnerInv, Dated
<1>8. Settled(o)'
  BY <1>1, <1>2, <1>5 DEF OwnerInv, Settled, PointOfNoReturn
<1>9. CleanupComes(o)'
  <2>. SUFFICES ASSUME NEW d \in Collections
                PROVE  /\ <<"stage", d>> \in Calls(o)' \/ d \in staged'[o] =>
                            \/ d = cur /\ phase = "stage"
                            \/ \E call \in {"commit", "abort", "rollback"} : <<call, d>> \in Calls(o)'
                       /\ <<"commit", d>> \in Calls(o)' =>
                            \/ d = cur /\ phase = "commit"
                            \/ <<"rollback", d>> \in Calls(o)' /\ CommitRaised(d)
                       /\ running[o][d] # NoCommit =>
                            \/ d = cur /\ phase = "commit" /\ journal[o][d] # NoEntry
                            \/ CommitRaised(d)
                       /\ journal[o][d] # NoEntry =>
                            /\ \A call \in Calls(o)' : Before(<<"commit", d>>, call)
                            /\ \/ d = cur /\ phase = "commit"
                               \/ <<"rollback", d>> \in Calls(o)'
                               \/ d = cur /\ phase = "finalize" /\
                                     (<<"finalize", d>> \in Calls(o)' \/ reply'[o].kind = "raise")
                               \/ outcome[d] = "ambiguous"
    BY <1>2 DEF CleanupComes, CommitRaised
  <2>1. /\ <<"commit", d>> \in Calls(o)' => <<"commit", d>> \in Calls(o)
        /\ <<"rollback", d>> \in Calls(o) => <<"rollback", d>> \in Calls(o)'
        /\ <<"finalize", d>> \in Calls(o) => <<"finalize", d>> \in Calls(o)'
        /\ <<"commit", d>> \in Calls(o) => <<"commit", d>> \in Calls(o)'
    BY <1>5
  <2>2. <<"stage", d>> \in Calls(o)' \/ d \in staged'[o] =>
          \/ d = cur /\ phase = "stage"
          \/ \E call \in {"commit", "abort", "rollback"} : <<call, d>> \in Calls(o)'
    <3>1. CASE op = "stage"
      <4>1. <<"stage", d>> \in Calls(o)' \/ d \in staged'[o] =>
              <<"stage", d>> \in Calls(o) \/ d \in staged[o]
        BY <3>1, <1>3, <1>5
      <4>2. <<"abort", d>> \in Calls(o) => <<"abort", d>> \in Calls(o)'
        BY <3>1, <1>5
      <4>. QED BY <4>1, <4>2, <2>1, <1>1 DEF OwnerInv, CleanupComes
    <3>2. CASE op = "abort" /\ d = c
      <4>1. <<"stage", d>> \notin Calls(o)'
        BY <3>2, <1>5, RankOrder DEF Before, Collections
      <4>. QED BY <4>1, <3>2, <1>3
    <3>3. CASE op = "abort" /\ d # c
      <4>1. <<"abort", d>> \in Calls(o) => <<"abort", d>> \in Calls(o)'
        BY <3>3, <1>5
      <4>. QED BY <4>1, <3>3, <2>1, <1>1, <1>3, <1>5 DEF OwnerInv, CleanupComes
    <3>. QED BY <3>1, <3>2, <3>3
  <2>3. phase = "finalize" => reply'[o] = reply[o]
    BY <1>4
  <2>. QED BY <2>1, <2>2, <2>3, <1>1, <1>5 DEF OwnerInv, CleanupComes
<1>10. Revocable(o)'
  BY <1>1, <1>2 DEF OwnerInv, Revocable, Kept, PointOfNoReturn, CommitRaised
<1>11. TakesAll(o)'
  <2>1. phase \in {"commit", "finalize"} => reply'[o] = reply[o]
    BY <1>4
  <2>2. \A d \in Collections : <<"finalize", d>> \in Calls(o)' <=> <<"finalize", d>> \in Calls(o)
    BY <1>5
  <2>. QED BY <2>1, <2>2, <1>1, <1>2 DEF OwnerInv, TakesAll, Trainable, Committed, Share
<1>. QED BY <1>6, <1>7, <1>8, <1>9, <1>10, <1>11 DEF OwnerInv

(* When a commit starts nothing older is journaled at the owner, so that   *)
(* every sample in the buffers is there to stay or was left by a commit    *)
(* that went on.                                                           *)
LEMMA SnapshotKept ==
  ASSUME TransactionInv, NEW o \in Owners, NEW c \in Collections, Starts(o, "commit", c),
         UNCHANGED driverVars
  PROVE  /\ journal[o][c] = NoEntry
         /\ \A s \in buffer[o] : Kept(s[1])
<1>1. TypeOK /\ OwnerInv(o) /\ InOrder(o) /\ CallsIssued
  BY DEF TransactionInv, CollectionInv, OwnerInv
<1>2. /\ <<"commit", c>> \in Calls(o) /\ c <= cur
      /\ \A call \in Calls(o) : call = <<"commit", c>> \/ Before(<<"commit", c>>, call)
  BY <1>1, CallServed DEF CallsIssued
<1>3. ASSUME NEW d \in Collections, journal[o][d] # NoEntry PROVE d < c
  <2>1. Before(<<"commit", d>>, <<"commit", c>>)
    BY <1>1, <1>2, <1>3 DEF OwnerInv, CleanupComes
  <2>. QED BY <2>1, RankOrder DEF Before, Collections
<1>4. ASSUME NEW d \in Collections, journal[o][d] # NoEntry PROVE FALSE
  <2>1. d < c /\ d \in Nat /\ c \in Nat /\ cur \in Nat
    BY <1>1, <1>3, <1>4 DEF Collections, TypeOK
  <2>2. <<"rollback", d>> \notin Calls(o)
    BY <1>2, <2>1 DEF Before
  <2>3. d # cur /\ outcome[d] # "ambiguous"
    BY <1>2, <2>1 DEF TransactionInv, Milestones
  <2>. QED BY <1>1, <1>4, <2>2, <2>3 DEF OwnerInv, CleanupComes
<1>5. \A s \in buffer[o] : Kept(s[1])
  <2>1. \A s \in buffer[o] : s[1] \in Collections
    BY <1>1 DEF TypeOK, Samples
  <2>. QED BY <2>1, <1>1, <1>4 DEF OwnerInv, Revocable
<1>. QED BY <1>4, <1>5

(* commit_rollout_features, up to its first await.                         *)
LEMMA StartCommitKeeps ==
  ASSUME TransactionInv, NEW o \in Owners, NEW c \in Collections, StartCommit(o, c)
  PROVE  OwnerInv(o)'
<1>. USE DEF driverVars
<1>1. TypeOK /\ OwnerInv(o) /\ InOrder(o) /\ Settled(o) /\ FinalizeIsLast
  BY DEF TransactionInv, CollectionInv, OwnerInv
<1>2. UNCHANGED <<driverVars, stepSet, inc, buffer, unflushed, shards>> /\ Starts(o, "commit", c)
  BY DEF StartCommit
<1>3. /\ <<"commit", c>> \in Calls(o)
      /\ \A call \in Calls(o) : call \in Calls(o)' \/ call = <<"commit", c>>
      /\ \A call \in Calls(o)' : call \in Calls(o) /\ Before(<<"commit", c>>, call)
      /\ <<"commit", c>> \notin Calls(o)'
      /\ phase \in Ops => reply[o] = NoReply
      /\ phase = "commit" => running[o][cur] = NoCommit
  BY <1>1, <1>2, CallServed
<1>4. /\ ~PointOfNoReturn(c)
      /\ \A d \in Collections : PointOfNoReturn(d) => d < c
  BY <1>1, <1>3, ServedWhen
<1>5. \/ c = cur /\ phase = "commit"
      \/ <<"rollback", c>> \in Calls(o)' /\ CommitRaised(c)
  BY <1>1, <1>3 DEF OwnerInv, CleanupComes
<1>6. journal[o][c] = NoEntry /\ \A s \in buffer[o] : Kept(s[1])
  BY <1>2, SnapshotKept
<1>7. \A d \in Collections : d # c => journal'[o][d] = journal[o][d] /\ running'[o][d] = running[o][d]
  BY <1>1, OwnerOnly DEF OwnerCall
<1>8. \/ /\ c \notin staged[o] /\ staged'[o] = staged[o] /\ journal'[o] = journal[o]
         /\ running'[o] = running[o]
         /\ Return(o, "commit", c, Answer(o, "not_staged", 0))
      \/ /\ c \in staged[o] /\ staged'[o] = staged[o] \ {c}
         /\ journal'[o][c] = [kind |-> "journal", snapshot |-> buffer[o], pending |-> {}]
         /\ \/ bucket[c][o] = 0 /\ Return(o, "commit", c, Answer(o, "committed", 0))
                /\ running'[o] = running[o]
            \/ bucket[c][o] # 0 /\ reply'[o] = reply[o]
                /\ running'[o][c] = [kind |-> "commit", next |-> 1, rejected |-> 0]
  <2>1. CASE c \notin staged[o]
    BY <2>1 DEF StartCommit
  <2>2. CASE c \in staged[o]
    <3>1. /\ staged'[o] = staged[o] \ {c}
          /\ journal'[o][c] = [kind |-> "journal", snapshot |-> buffer[o], pending |-> {}]
      <4>1. /\ staged' = [staged EXCEPT ![o] = @ \ {c}]
            /\ journal' = [journal EXCEPT ![o][c] =
                  [kind |-> "journal", snapshot |-> buffer[o], pending |-> {}]]
        BY <2>2 DEF StartCommit
      <4>. QED BY <4>1, <1>1 DEF TypeOK
    <3>2. CASE bucket[c][o] = 0
      BY <2>2, <3>1, <3>2 DEF StartCommit
    <3>3. CASE bucket[c][o] # 0
      <4>1. running'[o][c] = [kind |-> "commit", next |-> 1, rejected |-> 0] /\ reply' = reply
        BY <2>2, <3>3, <1>1 DEF StartCommit, TypeOK
      <4>. QED BY <2>2, <3>1, <3>3, <4>1
    <3>. QED BY <3>2, <3>3
  <2>. QED BY <2>1, <2>2
<1>9. /\ phase = "commit" /\ cur = c => \/ reply'[o] = reply[o]
                                        \/ /\ reply'[o] \in Answers /\ reply'[o].inc = inc[o]
                                           /\ reply'[o].kind \in {"not_staged", "raise"}
                                        \/ /\ reply'[o] \in Answers /\ reply'[o].inc = inc[o]
                                           /\ reply'[o].kind \in {"committed", "raise"}
                                           /\ c \in staged[o] /\ bucket[c][o] = 0
      /\ ~(phase = "commit" /\ cur = c) => reply'[o] = reply[o]
  <2>1. \A kind \in {"not_staged", "committed"} :
          /\ Answer(o, kind, 0) \in Answers /\ Answer(o, kind, 0).inc = inc[o]
          /\ Answer(o, kind, 0).kind \in {kind, "raise"}
    BY <1>1, AnswerInc DEF Kinds
  <2>. QED BY <2>1, <1>1, <1>8, Returned
<1>10. c \notin staged'[o] /\ \A d \in Collections : d # c => (d \in staged'[o] <=> d \in staged[o])
  BY <1>8
<1>11. InOrder(o)'
  <2>1. phase = "commit" /\ running'[o][cur] # NoCommit => c = cur /\ reply'[o] = reply[o]
    <3>. SUFFICES ASSUME phase = "commit", running'[o][cur] # NoCommit
                  PROVE  c = cur /\ reply'[o] = reply[o]
      OBVIOUS
    <3>1. cur \in Collections /\ running[o][cur] = NoCommit
      BY <1>1, <1>3 DEF TypeOK
    <3>. QED BY <3>1, <1>7, <1>8
  <2>. QED BY <2>1, <1>1, <1>2, <1>9, ServedInOrder
<1>12. Dated(o)'
  <2>1. inc[o] \in Nat
    BY <1>1 DEF TypeOK, Incarnations
  <2>. QED BY <2>1, <1>1, <1>2, <1>9 DEF OwnerInv, Dated
<1>13. Settled(o)'
  <2>1. \A d \in Collections : PointOfNoReturn(d) => c >= d
    BY <1>4 DEF Collections
  <2>2. \A d, e \in Collections : PointOfNoReturn(d) /\ journal'[o][e] # NoEntry => e >= d
    BY <2>1, <1>1, <1>7 DEF Settled
  <2>. QED BY <2>2, <1>1, <1>2, <1>3 DEF Settled, PointOfNoReturn
<1>14. CleanupComes(o)'
  <2>. SUFFICES ASSUME NEW d \in Collections
                PROVE  /\ <<"stage", d>> \in Calls(o)' \/ d \in staged'[o] =>
                            \/ d = cur /\ phase = "stage"
                            \/ \E call \in {"commit", "abort", "rollback"} : <<call, d>> \in Calls(o)'
                       /\ <<"commit", d>> \in Calls(o)' =>
                            \/ d = cur /\ phase = "commit"
                            \/ <<"rollback", d>> \in Calls(o)' /\ CommitRaised(d)
                       /\ running'[o][d] # NoCommit =>
                            \/ d = cur /\ phase = "commit" /\ journal'[o][d] # NoEntry
                            \/ CommitRaised(d)
                       /\ journal'[o][d] # NoEntry =>
                            /\ \A call \in Calls(o)' : Before(<<"commit", d>>, call)
                            /\ \/ d = cur /\ phase = "commit"
                               \/ <<"rollback", d>> \in Calls(o)'
                               \/ d = cur /\ phase = "finalize" /\
                                     (<<"finalize", d>> \in Calls(o)' \/ reply'[o].kind = "raise")
                               \/ outcome[d] = "ambiguous"
    BY <1>2 DEF CleanupComes, CommitRaised
  <2>1. CASE d = c
    <3>1. <<"stage", c>> \notin Calls(o)'
      BY <1>3, RankOrder DEF Before, Collections
    <3>2. running'[o][c] # NoCommit => journal'[o][c] # NoEntry \/ CommitRaised(c)
      <4>1. journal'[o][c] = journal[o][c] => running'[o][c] = running[o][c]
        BY <1>6, <1>8 DEF NoEntry
      <4>2. running[o][c] # NoCommit => CommitRaised(c)
        BY <1>1, <1>6 DEF OwnerInv, CleanupComes
      <4>. QED BY <4>1, <4>2, <1>6
    <3>. QED BY <2>1, <3>1, <3>2, <1>3, <1>5, <1>10
  <2>2. CASE d # c
    <3>1. /\ \A op : <<op, d>> \in Calls(o)' <=> <<op, d>> \in Calls(o)
          /\ phase = "finalize" => reply'[o] = reply[o]
      BY <2>2, <1>3, <1>9
    <3>2. journal'[o][d] = journal[o][d] /\ running'[o][d] = running[o][d]
      BY <2>2, <1>7
    <3>. QED BY <2>2, <3>1, <3>2, <1>1, <1>3, <1>10 DEF OwnerInv, CleanupComes
  <2>. QED BY <2>1, <2>2
<1>15. Revocable(o)'
  <2>1. \A d \in Collections : journal[o][d] # NoEntry => d # c /\ journal'[o][d] = journal[o][d]
    BY <1>6, <1>7
  <2>2. journal'[o][c] # NoEntry => journal'[o][c].snapshot = buffer[o]
    BY <1>6, <1>8
  <2>. QED BY <2>1, <2>2, <1>1, <1>2, <1>6, <1>7
           DEF OwnerInv, Revocable, Kept, PointOfNoReturn, CommitRaised
<1>16. TakesAll(o)'
  <2>1. phase = "commit" /\ running'[o][cur] # NoCommit => cur = c /\ running'[o][cur].next = 1
    BY <1>1, <1>3, <1>7, <1>8 DEF TypeOK
  <2>2. \A s \in SamplesOf(cur) : ~(s[2] < 1)
    BY DEF SamplesOf, Samples
  <2>3. phase = "commit" /\ reply'[o].kind = "committed" =>
          cur = c /\ journal'[o][c] # NoEntry /\ Share(c, o) = {}
    <3>1. phase = "commit" /\ reply'[o].kind = "committed" => cur = c /\ c \in staged[o] /\ bucket[c][o] = 0
      BY <1>3, <1>9 DEF Ops, NoReply
    <3>2. bucket[c][o] = 0 => Share(c, o) = {}
      BY DEF Share, SamplesOf, Samples
    <3>3. c \in staged[o] => journal'[o][c] # NoEntry
      BY <1>8 DEF NoEntry
    <3>. QED BY <3>1, <3>2, <3>3
  <2>4. \A d \in Collections : ackInc[d][o] = inc[o] => d # c
    <3>1. \A d \in Collections : ackInc[d][o] = inc[o] => PointOfNoReturn(d)
      BY <1>1 DEF TransactionInv, Milestones, TypeOK, Incarnations
    <3>. QED BY <3>1, <1>4
  <2>5. \A d \in Collections : d # c => Committed(o, d)' = Committed(o, d)
    BY <1>2, <1>7 DEF Committed
  <2>6. /\ \A d : <<"finalize", d>> \in Calls(o)' <=> <<"finalize", d>> \in Calls(o)
        /\ phase = "finalize" => reply'[o] = reply[o]
    BY <1>3, <1>9
  <2>7. \A d \in Collections : Share(d, o)' = Share(d, o)
    BY <1>2 DEF Share
  <2>8. Trainable(o)' = Trainable(o)
    BY <1>2 DEF Trainable
  <2>9. \A d \in Collections : ackInc[d][o] = inc[o] =>
          \/ /\ <<"finalize", d>> \in Calls(o)'
             /\ journal'[o][d] # NoEntry /\ Share(d, o)' \subseteq Committed(o, d)'
          \/ /\ <<"finalize", d>> \notin Calls(o)'
             /\ \/ Share(d, o)' \subseteq Trainable(o)'
                \/ outcome[d] = "ambiguous"
                \/ d = cur /\ phase = "finalize" /\ reply'[o].kind = "raise"
    BY <2>4, <2>5, <2>6, <2>7, <2>8, <1>1, <1>7 DEF OwnerInv, TakesAll
  <2>10. phase = "finalize" => Share(cur, o)' = Share(cur, o)
    BY <1>2 DEF Share
  <2>. QED BY <2>1, <2>2, <2>3, <2>6, <2>7, <2>9, <2>10, <1>1, <1>2 DEF OwnerInv, TakesAll
<1>. QED BY <1>11, <1>12, <1>13, <1>14, <1>15, <1>16 DEF OwnerInv

(* What a coroutine does with a sample: it puts it where it belongs, or    *)
(* counts it as rejected, and goes on or returns; or it raises.            *)
LEMMA SampleEffect ==
  ASSUME TypeOK, CommitInBucket, NEW o \in Owners, NEW c \in Collections,
         AcceptSample(o, c) \/ RejectSample(o, c) \/ FailSample(o, c)
  PROVE  LET commit == running[o][c]
             sample == <<c, commit.next>>
         IN
         /\ UNCHANGED <<driverVars, inbox, stepSet, inc, staged, unflushed, shards>>
         /\ commit \in Commits /\ commit.next <= bucket[c][o]
         /\ journal'[o][c] = NoEntry <=> journal[o][c] = NoEntry
         /\ journal[o][c] # NoEntry =>
              /\ journal'[o][c].snapshot = journal[o][c].snapshot
              /\ journal[o][c].pending \subseteq journal'[o][c].pending
         /\ buffer[o] \subseteq buffer'[o] /\ buffer'[o] \subseteq buffer[o] \union {sample}
         /\ \/ running'[o][c] = NoCommit /\ Return(o, "commit", c, Failed(o))
            \/ \E n \in Nat :
                 /\ n = 0 => commit.rejected = 0 /\ sample \in Committed(o, c)'
                 /\ \/ /\ commit.next = bucket[c][o] /\ running'[o][c] = NoCommit
                       /\ Return(o, "commit", c, [kind |-> "committed", rejected |-> n, inc |-> inc[o]])
                    \/ /\ reply' = reply
                       /\ running'[o][c] = [kind |-> "commit", next |-> commit.next + 1, rejected |-> n]
<1>. DEFINE commit == running[o][c]
            sample == <<c, commit.next>>
<1>1. /\ UNCHANGED <<driverVars, inbox, stepSet, inc, staged, unflushed, shards>>
      /\ commit # NoCommit
  BY DEF AcceptSample, RejectSample, FailSample
<1>2. commit \in Commits /\ commit.next <= bucket[c][o] /\ commit.rejected \in Nat
  BY <1>1 DEF TypeOK, CommitInBucket, Commits
<1>3. ASSUME NEW n, Advance(o, c, n)
      PROVE  \/ /\ commit.next = bucket[c][o] /\ running'[o][c] = NoCommit
                /\ Return(o, "commit", c, [kind |-> "committed", rejected |-> n, inc |-> inc[o]])
             \/ /\ reply' = reply
                /\ running'[o][c] = [kind |-> "commit", next |-> commit.next + 1, rejected |-> n]
  <2>1. CASE commit.next = bucket[c][o]
    <3>1. running' = [running EXCEPT ![o][c] = NoCommit]
      BY <1>3, <2>1 DEF Advance
    <3>2. running'[o][c] = NoCommit
      BY <3>1 DEF TypeOK
    <3>. QED BY <1>3, <2>1, <3>2 DEF Advance
  <2>2. CASE commit.next # bucket[c][o]
    <3>1. /\ running' = [running EXCEPT ![o][c] =
                [kind |-> "commit", next |-> @.next + 1, rejected |-> n]]
          /\ reply' = reply
      BY <1>3, <2>2 DEF Advance
    <3>. QED BY <3>1 DEF TypeOK
  <2>. QED BY <2>1, <2>2
<1>4. ASSUME RaiseInCommit(o, c)
      PROVE  running'[o][c] = NoCommit /\ Return(o, "commit", c, Failed(o))
  BY <1>4 DEF RaiseInCommit, TypeOK
<1>5. CASE AcceptSample(o, c)
  <2>1. CASE CollectOnly /\ journal[o][c] = NoEntry
    BY <1>1, <1>2, <1>4, <1>5, <2>1 DEF AcceptSample
  <2>2. CASE CollectOnly /\ journal[o][c] # NoEntry
    <3>1. /\ journal' = [journal EXCEPT ![o][c].pending = @ \union {sample}]
          /\ Advance(o, c, commit.rejected) /\ buffer' = buffer
      BY <1>5, <2>2 DEF AcceptSample
    <3>2. journal[o][c] \in Entries
      BY <2>2 DEF TypeOK
    <3>3. /\ journal'[o][c] # NoEntry
          /\ journal'[o][c].snapshot = journal[o][c].snapshot
          /\ journal'[o][c].pending = journal[o][c].pending \union {sample}
      BY <3>1, <3>2 DEF TypeOK, Entries, NoEntry
    <3>4. sample \in Committed(o, c)'
      BY <2>2, <3>3 DEF Committed
    <3>. HIDE DEF sample, commit
    <3>. QED BY <1>1, <1>2, <1>3, <2>2, <3>1, <3>3, <3>4 DEF sample, commit
  <2>3. CASE ~CollectOnly
    <3>1. /\ buffer' = [buffer EXCEPT ![o] = @ \union {sample}]
          /\ Advance(o, c, commit.rejected) /\ journal' = journal
      BY <1>5, <2>3 DEF AcceptSample
    <3>2. buffer'[o] = buffer[o] \union {sample}
      BY <3>1 DEF TypeOK
    <3>3. sample \in Committed(o, c)'
      BY <2>3, <3>2 DEF Committed
    <3>. QED BY <1>1, <1>2, <1>3, <3>1, <3>2, <3>3
  <2>. QED BY <2>1, <2>2, <2>3
<1>6. CASE RejectSample(o, c)
  <2>1. /\ UNCHANGED <<journal, buffer>> /\ Advance(o, c, commit.rejected + 1)
        /\ commit.rejected + 1 \in Nat \ {0}
    BY <1>2, <1>6 DEF RejectSample
  <2>. QED BY <1>1, <1>2, <1>3, <2>1
<1>7. CASE FailSample(o, c)
  BY <1>1, <1>2, <1>4, <1>7 DEF FailSample
<1>. QED BY <1>5, <1>6, <1>7

(* The samples of a commit.                                                *)
LEMMA SampleKeeps ==
  ASSUME TransactionInv, NEW o \in Owners, NEW c \in Collections,
         AcceptSample(o, c) \/ RejectSample(o, c) \/ FailSample(o, c)
  PROVE  OwnerInv(o)'
<1>. USE DEF driverVars
<1>. DEFINE commit == running[o][c]
            sample == <<c, commit.next>>
            Done(n) == /\ running'[o][c] = NoCommit /\ commit.next = bucket[c][o]
                       /\ Return(o, "commit", c, [kind |-> "committed", rejected |-> n, inc |-> inc[o]])
            Put(d) == IF CollectOnly THEN journal'[o][d].pending ELSE buffer'[o]
            More(n) == /\ reply' = reply
                       /\ running'[o][c] = [kind |-> "commit", next |-> commit.next + 1, rejected |-> n]
<1>1. TypeOK /\ OwnerInv(o) /\ CommitInBucket /\ OutcomeLast /\ Milestones
  BY DEF TransactionInv, CollectionInv
<1>2. /\ UNCHANGED <<driverVars, inbox, stepSet, inc, staged, unflushed, shards>>
      /\ commit \in Commits /\ commit # NoCommit /\ commit.next <= bucket[c][o]
      /\ journal'[o][c] = NoEntry <=> journal[o][c] = NoEntry
      /\ journal[o][c] # NoEntry =>
           /\ journal'[o][c].snapshot = journal[o][c].snapshot
           /\ journal[o][c].pending \subseteq journal'[o][c].pending
      /\ buffer[o] \subseteq buffer'[o] /\ buffer'[o] \subseteq buffer[o] \union {sample}
  BY <1>1, SampleEffect, NoneIsNothing
<1>3. \/ running'[o][c] = NoCommit /\ Return(o, "commit", c, Failed(o))
      \/ \E n \in Nat : /\ n = 0 => commit.rejected = 0 /\ sample \in Put(c)
                        /\ Done(n) \/ More(n)
  BY <1>1, SampleEffect DEF Committed
<1>4. \/ c = cur /\ phase = "commit" /\ journal[o][c] # NoEntry
      \/ CommitRaised(c)
  BY <1>1, <1>2 DEF OwnerInv, CleanupComes
<1>5. ~PointOfNoReturn(c)
  BY <1>1, <1>4, NoReturn
<1>6. Calls(o)' = Calls(o)
  BY <1>2 DEF Calls
<1>7. \A d \in Collections : d # c => journal'[o][d] = journal[o][d] /\ running'[o][d] = running[o][d]
  BY <1>1, OwnerOnly DEF OwnerCall
<1>8. /\ ~(phase = "commit" /\ cur = c) => reply'[o] = reply[o]
      /\ phase = "commit" /\ cur = c /\ reply'[o] # reply[o] =>
           running'[o][c] = NoCommit /\ reply'[o].inc = inc[o]
  <2>1. Failed(o).inc = inc[o]
    BY DEF Failed
  <2>2. ASSUME NEW answer, answer.inc = inc[o], running'[o][c] = NoCommit,
               Return(o, "commit", c, answer)
        PROVE  /\ ~(phase = "commit" /\ cur = c) => reply'[o] = reply[o]
               /\ phase = "commit" /\ cur = c /\ reply'[o] # reply[o] =>
                    running'[o][c] = NoCommit /\ reply'[o].inc = inc[o]
    BY <2>2, <1>1, Returned
  <2>3. CASE reply' = reply
    BY <2>3
  <2>4. ASSUME NEW n \in Nat PROVE [kind |-> "committed", rejected |-> n, inc |-> inc[o]].inc = inc[o]
    OBVIOUS
  <2>. QED BY <2>1, <2>2, <2>3, <2>4, <1>3
<1>9. inc[o] \in Nat \ {0}
  BY <1>1 DEF TypeOK, Incarnations
<1>. HIDE DEF Done, More, Put
<1>10. InOrder(o)'
  <2>1. phase = "commit" /\ c = cur => Calls(o) = {} /\ reply[o] = NoReply
    BY <1>1, <1>2 DEF OwnerInv, InOrder
  <2>2. phase = "commit" /\ c # cur => running'[o][cur] = running[o][cur]
    BY <1>1, <1>7 DEF TypeOK
  <2>3. phase = "commit" /\ running'[o][cur] # NoCommit => Calls(o) = {} /\ reply'[o] = NoReply
    BY <2>1, <2>2, <1>1, <1>8 DEF OwnerInv, InOrder
  <2>4. phase \in Ops /\ reply'[o] # NoReply => Calls(o) = {}
    BY <2>1, <1>1, <1>8 DEF OwnerInv, InOrder
  <2>5. /\ \A i, j \in 1..Len(inbox'[o]) : i < j => Before(inbox'[o][i], inbox'[o][j])
        /\ phase \in Ops =>
             \A call \in Calls(o) : call = <<phase, cur>> \/ Before(call, <<phase, cur>>)
    BY <1>1, <1>2 DEF OwnerInv, InOrder
  <2>. QED BY <2>3, <2>4, <2>5, <1>2, <1>6 DEF InOrder
<1>11. Dated(o)'
  BY <1>1, <1>2, <1>8, <1>9 DEF OwnerInv, Dated
<1>12. \A d \in Collections : journal'[o][d] # NoEntry <=> journal[o][d] # NoEntry
  BY <1>2, <1>7
<1>13. Settled(o)'
  BY <1>1, <1>2, <1>6, <1>12 DEF OwnerInv, Settled, PointOfNoReturn
<1>14. CleanupComes(o)'
  <2>1. \A d \in Collections : running'[o][d] # NoCommit => running[o][d] # NoCommit
    BY <1>2, <1>7
  <2>2. phase = "finalize" => reply'[o] = reply[o]
    BY <1>8
  <2>. SUFFICES ASSUME NEW d \in Collections
                PROVE  /\ <<"stage", d>> \in Calls(o)' \/ d \in staged'[o] =>
                            \/ d = cur /\ phase = "stage"
                            \/ \E call \in {"commit", "abort", "rollback"} : <<call, d>> \in Calls(o)'
                       /\ <<"commit", d>> \in Calls(o)' =>
                            \/ d = cur /\ phase = "commit"
                            \/ <<"rollback", d>> \in Calls(o)' /\ CommitRaised(d)
                       /\ running'[o][d] # NoCommit =>
                            \/ d = cur /\ phase = "commit" /\ journal'[o][d] # NoEntry
                            \/ CommitRaised(d)
                       /\ journal'[o][d] # NoEntry =>
                            /\ \A call \in Calls(o)' : Before(<<"commit", d>>, call)
                            /\ \/ d = cur /\ phase = "commit"
                               \/ <<"rollback", d>> \in Calls(o)'
                               \/ d = cur /\ phase = "finalize" /\
                                     (<<"finalize", d>> \in Calls(o)' \/ reply'[o].kind = "raise")
                               \/ outcome[d] = "ambiguous"
    BY <1>2 DEF CleanupComes, CommitRaised
  <2>. QED BY <2>1, <2>2, <1>1, <1>2, <1>6, <1>12 DEF OwnerInv, CleanupComes
<1>15. Revocable(o)'
  <2>1. \A s \in buffer'[o] : Kept(s[1]) \/ journal'[o][s[1]] # NoEntry
    <3>1. \A s \in buffer[o] : s[1] \in Collections
      BY <1>1 DEF TypeOK, Samples
    <3>2. Kept(c) \/ journal[o][c] # NoEntry
      BY <1>4 DEF Kept
    <3>. QED BY <3>1, <3>2, <1>1, <1>2, <1>12 DEF OwnerInv, Revocable
  <2>2. \A d \in Collections : journal'[o][d] # NoEntry =>
          journal[o][d] # NoEntry /\ journal'[o][d].snapshot = journal[o][d].snapshot
    BY <1>2, <1>7
  <2>3. \A s \in buffer'[o] : PointOfNoReturn(s[1]) => s \in buffer[o]
    BY <1>2, <1>5
  <2>. QED BY <2>1, <2>2, <2>3, <1>1, <1>2
           DEF OwnerInv, Revocable, Kept, PointOfNoReturn, CommitRaised
<1>16. TakesAll(o)'
  <2>1. \A d \in Collections : journal[o][d] # NoEntry => Committed(o, d) \subseteq Put(d)
    BY <1>2, <1>7 DEF Committed, Put
  <2>2. /\ \A d \in Collections : Share(d, o)' = Share(d, o)
        /\ phase = "finalize" => reply'[o] = reply[o]
        /\ Trainable(o) \subseteq Trainable(o)'
    BY <1>2, <1>8 DEF Share, Trainable
  <2>3. \A d \in Collections : ackInc[d][o] = inc[o] =>
          \/ /\ <<"finalize", d>> \in Calls(o)
             /\ journal'[o][d] # NoEntry /\ Share(d, o) \subseteq Put(d)
          \/ /\ <<"finalize", d>> \notin Calls(o)
             /\ \/ Share(d, o) \subseteq Trainable(o)'
                \/ outcome[d] = "ambiguous"
                \/ d = cur /\ phase = "finalize" /\ reply'[o].kind = "raise"
    <3>1. \A d \in Collections : ackInc[d][o] = inc[o] =>
            \/ /\ <<"finalize", d>> \in Calls(o)
               /\ journal[o][d] # NoEntry /\ Share(d, o) \subseteq Committed(o, d)
            \/ /\ <<"finalize", d>> \notin Calls(o)
               /\ \/ Share(d, o) \subseteq Trainable(o)
                  \/ outcome[d] = "ambiguous"
                  \/ d = cur /\ phase = "finalize" /\ reply[o].kind = "raise"
      BY <1>1 DEF OwnerInv, TakesAll
    <3>. QED BY <3>1, <2>1, <2>2, <1>12
  <2>4. phase = "commit" /\ running'[o][cur] # NoCommit /\ running'[o][cur].rejected = 0 =>
          \A s \in SamplesOf(cur) : s[2] < running'[o][cur].next => s \in Put(cur)
    <3>. SUFFICES ASSUME phase = "commit", running'[o][cur] # NoCommit, running'[o][cur].rejected = 0,
                         NEW s \in SamplesOf(cur), s[2] < running'[o][cur].next
                  PROVE  s \in Put(cur)
      OBVIOUS
    <3>1. cur \in Collections /\ ~CommitRaised(cur) /\ s[2] \in Nat /\ s = <<cur, s[2]>>
      BY <1>1 DEF TypeOK, CommitRaised, OutcomeLast, Ops, SamplesOf, Samples
    <3>2. running[o][cur] # NoCommit
      BY <3>1, <1>2, <1>7
    <3>3. journal[o][cur] # NoEntry
      BY <3>1, <3>2, <1>1 DEF OwnerInv, CleanupComes
    <3>4. CASE c # cur
      <4>1. running'[o][cur] = running[o][cur]
        BY <3>1, <3>4, <1>7
      <4>2. s \in Committed(o, cur)
        BY <4>1, <3>2, <1>1 DEF OwnerInv, TakesAll
      <4>. QED BY <4>2, <3>1, <3>3, <2>1
    <3>5. CASE c = cur
      <4>1. PICK n \in Nat : /\ n = 0 => commit.rejected = 0 /\ sample \in Put(c)
                             /\ More(n)
        <5>1. running'[o][c] # NoCommit
          BY <3>5
        <5>2. \A n : ~Done(n)
          BY <5>1 DEF Done
        <5>. QED BY <5>1, <5>2, <1>3
      <4>2. n = 0 /\ running'[o][c].next = commit.next + 1
        BY <4>1, <3>5 DEF More
      <4>3. s[2] < commit.next \/ s = sample
        BY <4>2, <3>1, <3>5, <1>2 DEF Commits
      <4>4. s[2] < commit.next => s \in Committed(o, cur)
        BY <4>1, <4>2, <3>2, <3>5, <1>1 DEF OwnerInv, TakesAll
      <4>5. Committed(o, cur) \subseteq Put(cur) /\ sample \in Put(cur)
        BY <4>1, <4>2, <3>1, <3>3, <3>5, <2>1
      <4>. QED BY <4>3, <4>4, <4>5
    <3>. QED BY <3>4, <3>5
  <2>5. phase = "commit" /\ reply'[o].kind = "committed" /\ reply'[o].rejected = 0
          /\ reply'[o].inc = inc[o] =>
             journal'[o][cur] # NoEntry /\ Share(cur, o) \subseteq Put(cur)
    <3>. SUFFICES ASSUME phase = "commit", reply'[o].kind = "committed", reply'[o].rejected = 0,
                         reply'[o].inc = inc[o]
                  PROVE  journal'[o][cur] # NoEntry /\ Share(cur, o) \subseteq Put(cur)
      OBVIOUS
    <3>1. cur \in Collections /\ ~CommitRaised(cur)
      BY <1>1 DEF TypeOK, CommitRaised, OutcomeLast, Ops
    <3>2. CASE reply'[o] = reply[o]
      <4>1. journal[o][cur] # NoEntry /\ Share(cur, o) \subseteq Committed(o, cur)
        BY <3>2, <1>1 DEF OwnerInv, TakesAll
      <4>2. Committed(o, cur) \subseteq Put(cur) /\ journal'[o][cur] # NoEntry
        BY <4>1, <3>1, <2>1, <1>12
      <4>. QED BY <4>1, <4>2
    <3>3. CASE reply'[o] # reply[o]
      <4>1. c = cur /\ journal[o][c] # NoEntry
        BY <3>1, <3>3, <1>4, <1>8
      <4>2. PICK n \in Nat : /\ n = 0 => commit.rejected = 0 /\ sample \in Put(c)
                             /\ Done(n)
        <5>1. ~Return(o, "commit", c, Failed(o))
          BY <4>1, <1>1, Returned DEF Failed
        <5>2. \A n : ~More(n)
          BY <3>3 DEF More
        <5>. QED BY <5>1, <5>2, <1>3
      <4>3. n = 0 /\ commit.next = bucket[c][o]
        <5>1. reply'[o] = [kind |-> "committed", rejected |-> n, inc |-> inc[o]]
          BY <4>1, <4>2, <1>1, Returned DEF Done
        <5>. QED BY <5>1, <4>2 DEF Done
      <4>4. \A s \in Share(c, o) : s[2] < commit.next \/ s = sample
        BY <4>3, <1>2 DEF Share, SamplesOf, Samples, Commits
      <4>5. \A s \in SamplesOf(c) : s[2] < commit.next => s \in Committed(o, c)
        BY <4>1, <4>2, <4>3, <1>1, <1>2 DEF OwnerInv, TakesAll
      <4>6. Committed(o, c) \subseteq Put(c) /\ journal'[o][c] # NoEntry
        BY <4>1, <2>1, <1>12
      <4>7. \A s \in Share(c, o) : s \in SamplesOf(c)
        BY DEF Share
      <4>8. \A s \in Share(c, o) : s \in Put(c)
        BY <4>2, <4>3, <4>4, <4>5, <4>6, <4>7
      <4>. QED BY <4>1, <4>6, <4>8
    <3>. QED BY <3>2, <3>3
  <2>6. phase = "finalize" => Share(cur, o)' = Share(cur, o)
    BY <1>2 DEF Share
  <2>7. phase = "commit" => Share(cur, o)' = Share(cur, o)
    BY <1>2 DEF Share
  <2>8. \A d \in Collections : Committed(o, d)' = Put(d)
    BY DEF Committed, Put
  <2>9. cur \in Collections => Committed(o, cur)' = Put(cur)
    BY <1>2 DEF Committed, Put
  <2>10. phase \in {"commit", "finalize"} => cur \in Collections
    BY <1>1 DEF TypeOK
  <2>. QED BY <2>2, <2>3, <2>4, <2>5, <2>6, <2>7, <2>8, <2>9, <2>10, <1>1, <1>2, <1>6
           DEF OwnerInv, TakesAll
<1>. QED BY <1>10, <1>11, <1>13, <1>14, <1>15, <1>16 DEF OwnerInv

(* What remains of the answers of the clean-up and finalize calls.         *)
LEMMA AnsweredNow ==
  ASSUME TypeOK, NEW o \in Owners, NEW op \in {"rollback", "finalize"}, NEW c, NEW answer,
         Return(o, op, c, answer), UNCHANGED phase,
         phase \in Ops => reply[o] = NoReply
  PROVE  /\ phase = op /\ cur = c => reply'[o] = answer
         /\ ~(phase = op /\ cur = c) => reply'[o] = reply[o]
         /\ phase \in Ops /\ ~(phase = op /\ cur = c) => reply'[o].kind = "none"
BY Returned DEF NoReply

(* rollback_rollout_features: no other collection is journaled at the      *)
(* owner, so that the snapshot has all that is there to stay.              *)
LEMMA RollbackKeeps ==
  ASSUME TransactionInv, NEW o \in Owners, NEW c \in Collections, Rollback(o, c)
  PROVE  OwnerInv(o)'
<1>. USE DEF driverVars
<1>1. /\ TypeOK /\ OwnerInv(o) /\ InOrder(o) /\ Settled(o) /\ FinalizeIsLast
      /\ OutcomeLast /\ Milestones /\ CallsIssued
  BY DEF TransactionInv, CollectionInv, OwnerInv
<1>2. UNCHANGED <<driverVars, stepSet, inc, running, unflushed, shards>> /\ Starts(o, "rollback", c)
  BY DEF Rollback
<1>3. /\ <<"rollback", c>> \in Calls(o)
      /\ \A call \in Calls(o) : call \in Calls(o)' \/ call = <<"rollback", c>>
      /\ \A call \in Calls(o)' : call \in Calls(o) /\ Before(<<"rollback", c>>, call)
      /\ phase \in Ops => reply[o] = NoReply
      /\ phase = "commit" => running[o][cur] = NoCommit
  BY <1>1, <1>2, CallServed
<1>4. /\ ~PointOfNoReturn(c)
      /\ \A d \in Collections : PointOfNoReturn(d) => d < c
  BY <1>1, <1>3, ServedWhen
<1>5. /\ staged'[o] = staged[o] \ {c} /\ journal'[o][c] = NoEntry
      /\ buffer'[o] = IF journal[o][c] = NoEntry THEN buffer[o] ELSE journal[o][c].snapshot
  <2>1. staged'[o] = staged[o] \ {c} /\ journal'[o][c] = NoEntry
    BY <1>1 DEF Rollback, TypeOK
  <2>2. buffer' = IF journal[o][c] = NoEntry THEN buffer
                  ELSE [buffer EXCEPT ![o] = journal[o][c].snapshot]
    BY DEF Rollback
  <2>. QED BY <2>1, <2>2, <1>1 DEF TypeOK
<1>6. \A d \in Collections : d # c => journal[o][d] = NoEntry
  <2>. SUFFICES ASSUME NEW d \in Collections, d # c, journal[o][d] # NoEntry PROVE FALSE
    OBVIOUS
  <2>1. c <= cur /\ c \in Nat /\ d \in Nat /\ cur \in Nat
    BY <1>1, <1>3 DEF CallsIssued, Collections, TypeOK
  <2>2. Before(<<"commit", d>>, <<"rollback", c>>)
    BY <1>1, <1>3 DEF OwnerInv, CleanupComes
  <2>3. d < c
    BY <2>1, <2>2 DEF Before
  <2>4. <<"rollback", d>> \notin Calls(o)
    BY <1>3, <2>1, <2>3 DEF Before
  <2>5. d # cur /\ outcome[d] # "ambiguous"
    BY <1>1, <2>1, <2>3 DEF Milestones
  <2>. QED BY <1>1, <2>4, <2>5 DEF OwnerInv, CleanupComes
<1>7. \A d \in Collections : journal'[o][d] = NoEntry
  <2>1. \A d \in Collections : d # c => journal'[o][d] = journal[o][d]
    BY <1>1, OwnerOnly DEF OwnerCall
  <2>. QED BY <2>1, <1>5, <1>6
<1>8. \A s \in buffer'[o] : Kept(s[1])
  <2>1. \A s \in buffer[o] : s[1] \in Collections
    BY <1>1 DEF TypeOK, Samples
  <2>. QED BY <2>1, <1>1, <1>5, <1>6 DEF OwnerInv, Revocable
<1>9. PICK answer \in Answers : answer.inc = inc[o] /\ Return(o, "rollback", c, answer)
  <2>1. Answer(o, "cleaned", 0) \in Answers /\ Answer(o, "cleaned", 0).inc = inc[o]
    BY <1>1, AnswerInc DEF Kinds
  <2>. QED BY <2>1 DEF Rollback
<1>10. /\ phase = "rollback" /\ cur = c => reply'[o] = answer
       /\ ~(phase = "rollback" /\ cur = c) => reply'[o] = reply[o]
       /\ phase \in Ops /\ ~(phase = "rollback" /\ cur = c) => reply'[o].kind = "none"
  BY <1>1, <1>2, <1>3, <1>9, AnsweredNow
<1>11. InOrder(o)'
  BY <1>1, <1>2, <1>3, <1>10, ServedInOrder
<1>12. Dated(o)'
  <2>1. inc[o] \in Nat
    BY <1>1 DEF TypeOK, Incarnations
  <2>. QED BY <2>1, <1>1, <1>2, <1>9, <1>10 DEF OwnerInv, Dated
<1>13. Settled(o)'
  BY <1>1, <1>2, <1>3, <1>7 DEF Settled, PointOfNoReturn
<1>14. CleanupComes(o)'
  <2>. SUFFICES ASSUME NEW d \in Collections
                PROVE  /\ <<"stage", d>> \in Calls(o)' \/ d \in staged'[o] =>
                            \/ d = cur /\ phase = "stage"
                            \/ \E call \in {"commit", "abort", "rollback"} : <<call, d>> \in Calls(o)'
                       /\ <<"commit", d>> \in Calls(o)' =>
                            \/ d = cur /\ phase = "commit"
                            \/ <<"rollback", d>> \in Calls(o)' /\ CommitRaised(d)
                       /\ running[o][d] # NoCommit => CommitRaised(d)
    BY <1>2, <1>7 DEF CleanupComes, CommitRaised
  <2>1. running[o][d] # NoCommit => CommitRaised(d)
    BY <1>1, <1>3 DEF OwnerInv, CleanupComes
  <2>2. CASE d = c
    <3>1. <<"stage", c>> \notin Calls(o)' /\ <<"commit", c>> \notin Calls(o)'
      BY <1>3, RankOrder DEF Before, Collections
    <3>. QED BY <2>1, <2>2, <3>1, <1>5
  <2>3. CASE d # c
    <3>1. \A op : <<op, d>> \in Calls(o)' <=> <<op, d>> \in Calls(o)
      BY <2>3, <1>3
    <3>2. d \in staged'[o] <=> d \in staged[o]
      BY <2>3, <1>5
    <3>. QED BY <2>1, <3>1, <3>2, <1>1 DEF OwnerInv, CleanupComes
  <2>. QED BY <2>2, <2>3
<1>15. Revocable(o)'
  BY <1>2, <1>7, <1>8 DEF Revocable, Kept, PointOfNoReturn, CommitRaised
<1>16. TakesAll(o)'
  <2>1. \A d \in Collections : ackInc[d][o] = inc[o] => PointOfNoReturn(d)
    BY <1>1 DEF Milestones, TypeOK, Incarnations
  <2>2. ASSUME NEW d \in Collections, ackInc[d][o] = inc[o]
        PROVE  /\ <<"finalize", d>> \notin Calls(o)'
               /\ Share(d, o) \subseteq Trainable(o)' \/ outcome[d] = "ambiguous"
    <3>1. d < c /\ d # c /\ PointOfNoReturn(d)
      BY <2>1, <2>2, <1>4
    <3>2. /\ <<"finalize", d>> \notin Calls(o)
          /\ Share(d, o) \subseteq Trainable(o) \/ outcome[d] = "ambiguous"
      <4>1. journal[o][d] = NoEntry
        BY <3>1, <1>6
      <4>2. phase = "finalize" => reply[o].kind # "raise"
        BY <1>3 DEF Ops, NoReply
      <4>. QED BY <2>2, <4>1, <4>2, <1>1 DEF OwnerInv, TakesAll
    <3>3. \A s \in Share(d, o) : s \in Trainable(o) => s \in Trainable(o)'
      <4>. SUFFICES ASSUME NEW s \in Share(d, o), s \in Trainable(o) PROVE s \in Trainable(o)'
        OBVIOUS
      <4>1. s[1] = d
        BY DEF Share, SamplesOf
      <4>2. CASE CollectOnly
        BY <4>2, <1>2 DEF Trainable
      <4>3. CASE ~CollectOnly
        <5>1. s \in buffer'[o]
          BY <4>1, <4>3, <3>1, <1>1, <1>5 DEF Trainable, OwnerInv, Revocable
        <5>. QED BY <4>3, <5>1 DEF Trainable
      <4>. QED BY <4>2, <4>3
    <3>. QED BY <3>2, <3>3, <1>3
  <2>3. \A d \in Collections : Share(d, o)' = Share(d, o)
    BY <1>2 DEF Share
  <2>4. /\ phase = "commit" => running'[o][cur] = NoCommit /\ reply'[o].kind = "none"
        /\ phase = "finalize" => reply'[o].kind = "none"
    BY <1>2, <1>3, <1>10 DEF Ops
  <2>. QED BY <2>2, <2>3, <2>4, <1>2 DEF TakesAll
<1>. QED BY <1>11, <1>12, <1>13, <1>14, <1>15, <1>16 DEF OwnerInv

(* write_many keeps all it is given, and a flush puts all of it in files.  *)
LEMMA WriteEffect ==
  ASSUME TypeOK, NEW o \in Owners, NEW c \in Collections, NEW last, NEW full,
         journal[o][c] # NoEntry, Write(o, c, last, full)
  PROVE  /\ unflushed[o] \subseteq unflushed'[o] \union shards'[o]
         /\ shards[o] \subseteq shards'[o]
         /\ last = MaxBucket => journal[o][c].pending \subseteq unflushed'[o] \union shards'[o]
         /\ last = MaxBucket /\ full = MaxBucket => journal[o][c].pending \subseteq shards'[o]
<1>. DEFINE held == unflushed[o] \union {s \in journal[o][c].pending : s[2] <= last}
            out  == {s \in held : full > 0 /\ (s[1] # c \/ s[2] <= full)}
<1>1. shards'[o] = shards[o] \union out /\ unflushed'[o] = held \ out
  BY DEF Write, TypeOK
<1>2. \A s \in journal[o][c].pending : s[2] \in 1..MaxBucket
  BY DEF TypeOK, Entries, Samples
<1>3. last = MaxBucket => journal[o][c].pending \subseteq held
  BY <1>2
<1>4. last = MaxBucket /\ full = MaxBucket => journal[o][c].pending \subseteq out
  BY <1>2, <1>3
<1>. HIDE DEF held, out
<1>5. unflushed[o] \subseteq held
  BY DEF held
<1>. QED BY <1>1, <1>3, <1>4, <1>5

(* When an owner starts finalize, nothing else is left for it to do, and   *)
(* it is the current collection.                                           *)
LEMMA FinalizeAlone ==
  ASSUME TransactionInv, NEW o \in Owners, NEW c \in Collections, <<"finalize", c>> \in Calls(o)
  PROVE  /\ c = cur /\ PointOfNoReturn(c)
         /\ phase = "finalize" \/ (phase = "halted" /\ outcome[c] = "ambiguous")
         /\ Calls(o) = {<<"finalize", c>>}
         /\ staged[o] = {}
         /\ \A d \in Collections : journal[o][d] # NoEntry => d = c
         /\ \A d \in Collections : running[o][d] # NoCommit => CommitRaised(d)
         /\ \A d \in Collections : PointOfNoReturn(d) /\ d # c => d < c
<1>1. /\ TypeOK /\ OwnerInv(o) /\ Settled(o) /\ FinalizeIsLast /\ Milestones /\ CallsIssued
  BY DEF TransactionInv, CollectionInv, OwnerInv
<1>2. PointOfNoReturn(c)
  BY <1>1 DEF FinalizeIsLast
<1>3. outcome[c] # "completed"
  BY <1>1 DEF Settled
<1>4. c = cur /\ (phase = "finalize" \/ (phase = "halted" /\ outcome[c] = "ambiguous"))
  BY <1>1, <1>2, <1>3 DEF PointOfNoReturn, Milestones
<1>5. Calls(o) = {<<"finalize", c>>}
  <2>. SUFFICES ASSUME NEW call \in Calls(o) PROVE call = <<"finalize", c>>
    OBVIOUS
  <2>1. call[2] > c \/ call = <<"finalize", c>>
    BY <1>1, <1>2 DEF Settled
  <2>2. call[2] <= c /\ call[2] \in Nat /\ c \in Nat
    BY <1>1, <1>4, CallType DEF CallsIssued, Collections
  <2>. QED BY <2>1, <2>2
<1>6. staged[o] = {}
  <2>1. \A d \in Collections : d \notin staged[o]
    BY <1>1, <1>4, <1>5 DEF OwnerInv, CleanupComes
  <2>. QED BY <2>1, <1>1 DEF TypeOK
<1>7. \A d \in Collections : journal[o][d] # NoEntry => d = c
  BY <1>1, <1>4, <1>5 DEF OwnerInv, CleanupComes, Milestones
<1>8. \A d \in Collections : running[o][d] # NoCommit => CommitRaised(d)
  BY <1>1, <1>4 DEF OwnerInv, CleanupComes
<1>9. \A d \in Collections : PointOfNoReturn(d) /\ d # c => d < c
  BY <1>1, ServedWhen
<1>. QED BY <1>2, <1>4, <1>5, <1>6, <1>7, <1>8, <1>9

(* finalize_rollout_features.                                              *)
LEMMA FinalizeKeeps ==
  ASSUME TransactionInv, NEW o \in Owners, NEW c \in Collections, Finalize(o, c)
  PROVE  /\ OwnerInv(o)'
         /\ shards[o] \subseteq shards'[o]
         /\ Trainable(o) \subseteq Trainable(o)'
<1>. USE DEF driverVars
<1>1. /\ TypeOK /\ OwnerInv(o) /\ InOrder(o) /\ Settled(o) /\ Milestones
  BY DEF TransactionInv, CollectionInv, OwnerInv
<1>2. UNCHANGED <<driverVars, stepSet, inc, staged, running, buffer>> /\ Starts(o, "finalize", c)
  BY DEF Finalize
<1>3. /\ <<"finalize", c>> \in Calls(o)
      /\ \A call \in Calls(o)' : call \in Calls(o)
      /\ <<"finalize", c>> \notin Calls(o)'
      /\ phase \in Ops => reply[o] = NoReply
  BY <1>1, <1>2, CallServed
<1>4. /\ c = cur /\ PointOfNoReturn(c)
      /\ phase = "finalize" \/ (phase = "halted" /\ outcome[c] = "ambiguous")
      /\ staged[o] = {}
      /\ \A d \in Collections : journal[o][d] # NoEntry => d = c
      /\ \A d \in Collections : running[o][d] # NoCommit => CommitRaised(d)
      /\ Calls(o) = {<<"finalize", c>>}
  BY <1>3, FinalizeAlone
<1>5. Calls(o)' = {}
  BY <1>3, <1>4
<1>6. PICK answer \in Answers :
        /\ answer.inc = inc[o] /\ Return(o, "finalize", c, answer)
        /\ \/ /\ journal[o][c] = NoEntry /\ answer.kind # "finalized"
              /\ UNCHANGED <<journal, unflushed, shards>>
           \/ /\ journal[o][c] # NoEntry /\ journal'[o][c] = NoEntry
              /\ unflushed[o] \subseteq unflushed'[o] \union shards'[o]
              /\ shards[o] \subseteq shards'[o]
              /\ journal[o][c].pending \subseteq unflushed'[o] \union shards'[o]
              /\ FlushEveryStep => journal[o][c].pending \subseteq shards'[o]
           \/ /\ journal[o][c] # NoEntry /\ answer.kind = "raise"
              /\ unflushed[o] \subseteq unflushed'[o] \union shards'[o]
              /\ shards[o] \subseteq shards'[o]
              /\ UNCHANGED journal
  <2>1. \A kind \in {"absent", "finalized"} :
          /\ Answer(o, kind, 0) \in Answers /\ Answer(o, kind, 0).inc = inc[o]
          /\ Answer(o, kind, 0).kind \in {kind, "raise"}
          /\ Failed(o) \in Answers /\ Failed(o).inc = inc[o] /\ Failed(o).kind = "raise"
    BY <1>1, AnswerInc DEF Kinds
  <2>2. CASE /\ journal[o][c] = NoEntry
             /\ Return(o, "finalize", c, Answer(o, "absent", 0))
             /\ UNCHANGED <<journal, unflushed, shards>>
    BY <2>1, <2>2
  <2>3. CASE /\ journal[o][c] # NoEntry
             /\ IF journal[o][c].pending = {}
                THEN UNCHANGED <<unflushed, shards>>
                ELSE \E full \in IF FlushEveryStep THEN {MaxBucket} ELSE 0..MaxBucket :
                        Write(o, c, MaxBucket, full)
             /\ journal' = [journal EXCEPT ![o][c] = NoEntry]
             /\ Return(o, "finalize", c, Answer(o, "finalized", 0))
    <3>1. journal'[o][c] = NoEntry
      BY <2>3, <1>1 DEF TypeOK
    <3>2. /\ unflushed[o] \subseteq unflushed'[o] \union shards'[o]
          /\ shards[o] \subseteq shards'[o]
          /\ journal[o][c].pending \subseteq unflushed'[o] \union shards'[o]
          /\ FlushEveryStep => journal[o][c].pending \subseteq shards'[o]
      <4>1. CASE journal[o][c].pending = {}
        BY <2>3, <4>1
      <4>2. CASE journal[o][c].pending # {}
        <5>1. PICK full : /\ FlushEveryStep => full = MaxBucket
                          /\ Write(o, c, MaxBucket, full)
          BY <2>3, <4>2
        <5>. QED BY <5>1, <2>3, <1>1, WriteEffect
      <4>. QED BY <4>1, <4>2
    <3>. QED BY <2>1, <2>3, <3>1, <3>2
  <2>4. CASE /\ journal[o][c] # NoEntry
             /\ journal[o][c].pending # {}
             /\ \E last \in 0..MaxBucket, full \in 0..MaxBucket :
                   full <= last /\ Write(o, c, last, full)
             /\ Return(o, "finalize", c, Failed(o))
             /\ UNCHANGED journal
    <3>1. /\ unflushed[o] \subseteq unflushed'[o] \union shards'[o]
          /\ shards[o] \subseteq shards'[o]
      BY <2>4, <1>1, WriteEffect
    <3>. QED BY <2>1, <2>4, <3>1
  <2>. QED BY <2>2, <2>3, <2>4 DEF Finalize
<1>7. shards[o] \subseteq shards'[o] /\ Trainable(o) \subseteq Trainable(o)'
  BY <1>2, <1>6 DEF Trainable
<1>8. \A d \in Collections : journal'[o][d] # NoEntry =>
        d = c /\ journal[o][c] # NoEntry /\ answer.kind = "raise" /\ journal'[o] = journal[o]
  <2>1. \A d \in Collections : d # c => journal'[o][d] = journal[o][d]
    BY <1>1, OwnerOnly DEF OwnerCall
  <2>. QED BY <2>1, <1>4, <1>6
<1>9. /\ phase = "finalize" => reply'[o] = answer
      /\ phase # "finalize" => reply'[o] = reply[o]
  BY <1>1, <1>2, <1>3, <1>4, <1>6, AnsweredNow
<1>10. InOrder(o)'
  BY <1>1, <1>2, <1>3, <1>4, <1>9, ServedInOrder
<1>11. Dated(o)'
  <2>1. inc[o] \in Nat
    BY <1>1 DEF TypeOK, Incarnations
  <2>. QED BY <2>1, <1>1, <1>2, <1>6, <1>9 DEF OwnerInv, Dated
<1>12. Settled(o)'
  <2>1. \A d \in Collections : journal'[o][d] # NoEntry => journal[o][d] # NoEntry
    BY <1>8
  <2>. QED BY <2>1, <1>1, <1>2, <1>5 DEF Settled, PointOfNoReturn
<1>13. CleanupComes(o)'
  <2>1. \A d \in Collections : journal'[o][d] # NoEntry =>
          \/ d = cur /\ phase = "finalize" /\ reply'[o].kind = "raise"
          \/ outcome[d] = "ambiguous"
    BY <1>4, <1>8, <1>9
  <2>. QED BY <2>1, <1>2, <1>4, <1>5 DEF CleanupComes, CommitRaised
<1>14. Revocable(o)'
  <2>1. \A s \in buffer[o] : Kept(s[1])
    <3>1. \A s \in buffer[o] : s[1] \in Collections
      BY <1>1 DEF TypeOK, Samples
    <3>2. Kept(c)
      BY <1>4 DEF Kept
    <3>. QED BY <3>1, <3>2, <1>1, <1>4 DEF OwnerInv, Revocable
  <2>2. \A d \in Collections : journal'[o][d] # NoEntry =>
          journal[o][d] # NoEntry /\ journal'[o][d] = journal[o][d]
    BY <1>8
  <2>. QED BY <2>1, <2>2, <1>1, <1>2 DEF OwnerInv, Revocable, Kept, PointOfNoReturn, CommitRaised
<1>15. TakesAll(o)'
  <2>1. ackInc[c][o] = inc[o] =>
          journal[o][c] # NoEntry /\ Share(c, o) \subseteq Committed(o, c)
    BY <1>1, <1>3 DEF OwnerInv, TakesAll
  <2>2. ASSUME NEW d \in Collections, ackInc[d][o] = inc[o]
        PROVE  \/ Share(d, o) \subseteq Trainable(o)'
               \/ outcome[d] = "ambiguous"
               \/ d = cur /\ phase = "finalize" /\ reply'[o].kind = "raise"
    <3>1. CASE d # c
      BY <3>1, <2>2, <1>1, <1>4, <1>7 DEF OwnerInv, TakesAll
    <3>2. CASE d = c /\ answer.kind = "raise"
      BY <3>2, <1>4, <1>9
    <3>3. CASE d = c /\ answer.kind # "raise"
      <4>1. journal[o][c] # NoEntry /\ Share(c, o) \subseteq Committed(o, c)
        BY <2>1, <2>2, <3>3
      <4>2. journal[o][c].pending \subseteq unflushed'[o] \union shards'[o]
        BY <4>1, <3>3, <1>6
      <4>. QED BY <4>1, <4>2, <3>3, <1>2 DEF Committed, Trainable
    <3>. QED BY <3>1, <3>2, <3>3
  <2>3. phase = "finalize" /\ reply'[o].kind = "finalized" /\ reply'[o].inc = ackInc[cur][o]
          /\ CollectOnly /\ FlushEveryStep => Share(cur, o) \subseteq shards'[o]
    BY <2>1, <1>4, <1>6, <1>9 DEF Committed
  <2>4. \A d \in Collections : Share(d, o)' = Share(d, o)
    BY <1>2 DEF Share
  <2>5. Share(cur, o)' = Share(cur, o)
    BY <1>2 DEF Share
  <2>. QED BY <2>2, <2>3, <2>4, <2>5, <1>2, <1>4, <1>5 DEF TakesAll
<1>. QED BY <1>7, <1>10, <1>11, <1>12, <1>13, <1>14, <1>15 DEF OwnerInv

(* What is final and what is acknowledged does not depend on the owners.   *)
LEMMA DriverFacts ==
  ASSUME TransactionInv, UNCHANGED driverVars,
         \A p \in Owners : shards[p] \subseteq shards'[p]
  PROVE  Milestones' /\ CompletedIsDurable'
<1>. USE DEF driverVars
<1>1. Milestones'
  BY DEF TransactionInv, Milestones, PointOfNoReturn
<1>2. CompletedIsDurable'
  <2>1. \A c \in Collections, p \in Owners : Share(c, p)' = Share(c, p)
    BY DEF Share
  <2>. QED BY <2>1 DEF TransactionInv, CompletedIsDurable
<1>. QED BY <1>1, <1>2

(* The handlers preserve the invariant of every owner.                     *)
LEMMA HandlersKeep ==
  ASSUME TransactionInv, NEW o \in Owners, NEW c \in Collections, OwnerCall(o, c)
  PROVE  Milestones' /\ CompletedIsDurable' /\ \A p \in Owners : OwnerInv(p)'
<1>1. TypeOK /\ \A p \in Owners : OwnerInv(p)
  BY DEF TransactionInv, CollectionInv
<1>2. OwnerInv(o)'
  BY StagingKeeps, StartCommitKeeps, SampleKeeps, RollbackKeeps, FinalizeKeeps DEF OwnerCall
<1>3. /\ UNCHANGED driverVars /\ stepSet' = stepSet /\ inc' = inc
      /\ \A p \in Owners : p # o =>
           /\ inbox'[p] = inbox[p] /\ reply'[p] = reply[p] /\ staged'[p] = staged[p]
           /\ journal'[p] = journal[p] /\ running'[p] = running[p]
           /\ buffer'[p] = buffer[p] /\ unflushed'[p] = unflushed[p] /\ shards'[p] = shards[p]
  BY <1>1, OwnerOnly
<1>4. \A p \in Owners : p # o => OwnerInv(p)'
  BY <1>1, <1>3, OthersKeep
<1>5. shards[o] \subseteq shards'[o]
  BY FinalizeKeeps DEF OwnerCall, Stage, StartCommit, AcceptSample, RejectSample, FailSample,
     Abort, Rollback
<1>6. Milestones' /\ CompletedIsDurable'
  BY <1>3, <1>5, DriverFacts
<1>. QED BY <1>2, <1>4, <1>6

(* So does the replacement of an owner's process.                          *)
LEMMA RestartKeeps ==
  ASSUME TransactionInv, NEW o \in Owners, Restart(o)
  PROVE  Milestones' /\ CompletedIsDurable' /\ \A p \in Owners : OwnerInv(p)'
<1>. USE DEF driverVars
<1>1. TypeOK /\ Dated(o) /\ TakesAll(o) /\ \A p \in Owners : OwnerInv(p)
  BY DEF TransactionInv, CollectionInv, OwnerInv
<1>2. UNCHANGED <<driverVars, shards>>
  BY DEF Restart
<1>3. /\ inc'[o] = inc[o] + 1 /\ inc[o] \in Nat \ {0} /\ stepSet'[o] = FALSE
      /\ inbox'[o] = <<>> /\ staged'[o] = {} /\ buffer'[o] = {} /\ unflushed'[o] = {}
      /\ \A c \in Collections : journal'[o][c] = NoEntry /\ running'[o][c] = NoCommit
  BY <1>1 DEF Restart, TypeOK, Incarnations
<1>4. Calls(o)' = {}
  BY <1>3 DEF Calls
<1>5. /\ Failed(o).inc = inc[o] /\ Failed(o).kind = "raise"
      /\ reply'[o] = reply[o] \/ reply'[o] = Failed(o)
  BY <1>1 DEF Restart, Failed, TypeOK
<1>6. /\ reply'[o] # NoReply => reply'[o].inc <= inc[o]
      /\ \A c \in Collections : ackInc[c][o] <= inc[o]
  BY <1>1, <1>3, <1>5 DEF Dated
<1>7. /\ reply'[o] # NoReply => reply'[o].inc <= inc'[o]
      /\ \A c \in Collections : ackInc[c][o] <= inc'[o] /\ ackInc[c][o] # inc'[o]
  <2>1. ASSUME NEW c \in Collections PROVE ackInc[c][o] <= inc'[o] /\ ackInc[c][o] # inc'[o]
    <3>1. ackInc[c][o] \in Nat
      BY <1>1 DEF TypeOK, Incarnations
    <3>. QED BY <3>1, <1>3, <1>6
  <2>2. reply'[o] # NoReply => reply'[o].inc \in Nat
    BY <1>1, <1>3, <1>5 DEF TypeOK, Answers, Incarnations
  <2>. QED BY <1>3, <1>6, <2>1, <2>2
<1>8. InOrder(o)'
  BY <1>2, <1>3, <1>4, <1>1 DEF InOrder, TypeOK, Ops
<1>9. Dated(o)'
  BY <1>2, <1>3, <1>7 DEF Dated
<1>10. Settled(o)'
  BY <1>3, <1>4 DEF Settled
<1>11. CleanupComes(o)'
  BY <1>3, <1>4 DEF CleanupComes
<1>12. Revocable(o)'
  BY <1>3 DEF Revocable
<1>13. TakesAll(o)'
  <2>1. phase \in {"commit", "finalize"} => cur \in Collections
    BY <1>1 DEF TypeOK
  <2>2. reply'[o] # NoReply => reply'[o].inc # inc'[o]
    <3>1. reply'[o] # NoReply => reply'[o].inc \in Nat
      BY <1>1, <1>3, <1>5 DEF TypeOK, Answers, Incarnations
    <3>. QED BY <1>3, <1>6, <3>1
  <2>3. reply'[o].kind \in {"committed", "finalized"} => reply'[o] # NoReply /\ reply'[o] = reply[o]
    BY <1>5 DEF NoReply
  <2>4. Share(cur, o)' = Share(cur, o)
    BY <1>2 DEF Share
  <2>5. phase = "finalize" /\ reply'[o].kind = "finalized" /\ reply'[o].inc = ackInc[cur][o]
          /\ CollectOnly /\ FlushEveryStep => Share(cur, o) \subseteq shards[o]
    BY <2>3, <1>1 DEF TakesAll
  <2>. QED BY <2>1, <2>2, <2>3, <2>4, <2>5, <1>2, <1>3, <1>7 DEF TakesAll
<1>14. OwnerInv(o)'
  BY <1>8, <1>9, <1>10, <1>11, <1>12, <1>13 DEF OwnerInv
<1>15. \A p \in Owners : p # o => OwnerInv(p)'
  <2>. SUFFICES ASSUME NEW p \in Owners, p # o PROVE OwnerInv(p)'
    OBVIOUS
  <2>1. /\ inbox'[p] = inbox[p] /\ reply'[p] = reply[p] /\ stepSet'[p] = stepSet[p]
        /\ inc'[p] = inc[p] /\ staged'[p] = staged[p] /\ journal'[p] = journal[p]
        /\ running'[p] = running[p] /\ buffer'[p] = buffer[p] /\ unflushed'[p] = unflushed[p]
    BY <1>1 DEF Restart, TypeOK
  <2>. QED BY <2>1, <1>1, <1>2, OthersKeep
<1>. QED BY <1>2, <1>14, <1>15, DriverFacts

-----------------------------------------------------------------------------
(* The driver.                                                             *)

(* Between its calls the driver has one collection without an outcome.     *)
LEMMA DriverState ==
  ASSUME TransactionInv
  PROVE  /\ \A d \in Collections : PointOfNoReturn(d) => d <= cur
         /\ \A d \in Collections, o \in Owners : ackInc[d][o] = inc[o] => PointOfNoReturn(d)
         /\ phase # "halted" => \A d \in Collections : outcome[d] # "ambiguous"
         /\ phase \in Ops => cur \in Collections /\ outcome[cur] = "none"
         /\ phase \notin {"finalize", "rollback"} =>
              \A d \in Collections : /\ PointOfNoReturn(d) <=> outcome[d] \in {"completed", "ambiguous"}
                                     /\ CommitRaised(d) <=> outcome[d] = "raised"
         /\ \A o \in Owners : \A call \in Calls(o) :
              call[1] \in Ops /\ call[2] \in Collections /\ call[2] <= cur
<1>1. TypeOK /\ OutcomeLast /\ Milestones /\ CallsIssued
  BY DEF TransactionInv, CollectionInv
<1>2. \A d \in Collections : PointOfNoReturn(d) => d <= cur
  BY <1>1, NoReturn
<1>3. \A d \in Collections, o \in Owners : ackInc[d][o] = inc[o] => PointOfNoReturn(d)
  BY <1>1 DEF Milestones, TypeOK, Incarnations
<1>4. phase # "halted" => \A d \in Collections : outcome[d] # "ambiguous"
  BY <1>1 DEF Milestones
<1>5. phase \in Ops => cur \in Collections /\ outcome[cur] = "none"
  BY <1>1 DEF OutcomeLast, TypeOK, Ops
<1>6. phase \notin {"finalize", "rollback"} =>
        \A d \in Collections : /\ PointOfNoReturn(d) <=> outcome[d] \in {"completed", "ambiguous"}
                               /\ CommitRaised(d) <=> outcome[d] = "raised"
  BY DEF PointOfNoReturn, CommitRaised
<1>7. \A o \in Owners : \A call \in Calls(o) :
         call[1] \in Ops /\ call[2] \in Collections /\ call[2] <= cur
  BY <1>1, CallType DEF CallsIssued
<1>. QED BY <1>2, <1>3, <1>4, <1>5, <1>6, <1>7

(* When all owners have answered, none has a call left.                    *)
LEMMA AllServed ==
  ASSUME TransactionInv, phase \in Ops, Resolved, NEW o \in Owners
  PROVE  /\ Calls(o) = {} /\ reply[o] # NoReply /\ reply[o].kind # "raise"
         /\ phase = "commit" => running[o][cur] = NoCommit
BY DEF TransactionInv, OwnerInv, InOrder, Resolved, AllAnswered, SomeRaised

(* What the driver does with its calls, for one owner.                     *)
LEMMA SentInOrder ==
  ASSUME TransactionInv, NEW o \in Owners, NEW op \in Ops, NEW c \in Collections,
         SendAll(op, c), phase' = op, cur' = c,
         \A call \in Calls(o) : Before(call, <<op, c>>),
         op = "commit" => running'[o][c] = NoCommit
  PROVE  /\ Calls(o)' = Calls(o) \union {<<op, c>>}
         /\ reply'[o] = NoReply /\ reply'[o].kind = "none"
         /\ InOrder(o)'
<1>1. TypeOK /\ InOrder(o)
  BY DEF TransactionInv, CollectionInv, OwnerInv
<1>2. /\ Calls(o)' = Calls(o) \union {<<op, c>>}
      /\ reply'[o] = NoReply
      /\ \A i, j \in 1..Len(inbox'[o]) : i < j => Before(inbox'[o][i], inbox'[o][j])
  BY <1>1, CallSent DEF InOrder
<1>. QED BY <1>2 DEF InOrder, NoReply

(* A new collection.                                                       *)
LEMMA BeginKeeps ==
  ASSUME TransactionInv, Begin
  PROVE  Milestones' /\ CompletedIsDurable' /\ \A o \in Owners : OwnerInv(o)'
<1>1. TypeOK /\ OutcomeLast /\ Milestones /\ CallsIssued
  BY DEF TransactionInv, CollectionInv
<1>. DEFINE n == cur + 1
<1>2. /\ phase = "idle" /\ phase' = "stage" /\ cur' = n /\ SendAll("stage", n)
      /\ n \in Collections /\ cur \in Nat
      /\ UNCHANGED <<cause, outcome, ackInc, inc, staged, journal, running, buffer, unflushed, shards>>
      /\ \A d \in Collections : d # n => bucket'[d] = bucket[d]
  BY <1>1 DEF Begin, TypeOK, Collections
<1>3. /\ \A d \in Collections : PointOfNoReturn(d) => d < n
      /\ \A d \in Collections : outcome[d] # "none" => d < n
      /\ \A d \in Collections : PointOfNoReturn(d)' <=> PointOfNoReturn(d)
      /\ \A d \in Collections : CommitRaised(d)' <=> CommitRaised(d)
      /\ \A d \in Collections : outcome[d] # "ambiguous"
  <2>1. \A d \in Collections : outcome[d] # "none" => d < n
    BY <1>1, <1>2 DEF OutcomeLast, Collections
  <2>2. \A d \in Collections : PointOfNoReturn(d) => d < n
    BY <1>2, DriverState DEF Collections
  <2>3. \A d \in Collections : /\ PointOfNoReturn(d)' <=> PointOfNoReturn(d)
                               /\ CommitRaised(d)' <=> CommitRaised(d)
    BY <1>2 DEF PointOfNoReturn, CommitRaised
  <2>. QED BY <1>2, <2>1, <2>2, <2>3, DriverState
<1>4. \A d \in Collections, o \in Owners : d < n => Share(d, o)' = Share(d, o)
  BY <1>2 DEF Share
<1>. HIDE DEF n
<1>5. Milestones'
  <2>1. \A d \in Collections, o \in Owners : d > n => bucket'[d][o] = 0
    <3>1. \A d \in Collections : d > n => d > cur /\ d # n
      BY <1>2 DEF n, Collections
    <3>. QED BY <3>1, <1>1, <1>2 DEF Milestones
  <2>. QED BY <2>1, <1>1, <1>2, <1>3 DEF Milestones
<1>6. CompletedIsDurable'
  BY <1>2, <1>3, <1>4 DEF TransactionInv, CompletedIsDurable
<1>7. ASSUME NEW o \in Owners PROVE OwnerInv(o)'
  <2>1. OwnerInv(o)
    BY DEF TransactionInv
  <2>2. \A call \in Calls(o) : call[2] \in Collections /\ call[2] < n /\ Before(call, <<"stage", n>>)
    BY <1>2, DriverState DEF Before, n, Collections
  <2>3. /\ Calls(o)' = Calls(o) \union {<<"stage", n>>}
        /\ reply'[o] = NoReply /\ reply'[o].kind = "none"
        /\ InOrder(o)'
    BY <1>2, <2>2, SentInOrder DEF Ops
  <2>4. Dated(o)'
    BY <1>2, <2>1, <2>3 DEF OwnerInv, Dated
  <2>5. Settled(o)'
    <3>. SUFFICES ASSUME NEW d \in Collections
                  PROVE  /\ outcome[d] \in {"stage_failed", "rejected", "completed"} =>
                              \A call \in Calls(o)' : call[2] # d
                         /\ PointOfNoReturn(d) =>
                              /\ \A call \in Calls(o)' : call[2] > d \/ call = <<"finalize", d>>
                              /\ \A e \in Collections : journal[o][e] # NoEntry => e >= d
      BY <1>2, <1>3 DEF Settled
    <3>1. outcome[d] # "none" \/ PointOfNoReturn(d) => n > d /\ n # d
      BY <1>2, <1>3 DEF Collections
    <3>. QED BY <3>1, <2>1, <2>3 DEF OwnerInv, Settled
  <2>6. CleanupComes(o)'
    <3>. SUFFICES ASSUME NEW d \in Collections
                  PROVE  /\ <<"stage", d>> \in Calls(o)' \/ d \in staged[o] =>
                              \/ d = n
                              \/ \E call \in {"commit", "abort", "rollback"} : <<call, d>> \in Calls(o)'
                         /\ <<"commit", d>> \in Calls(o)' =>
                              <<"rollback", d>> \in Calls(o)' /\ CommitRaised(d)
                         /\ running[o][d] # NoCommit => CommitRaised(d)
                         /\ journal[o][d] # NoEntry =>
                              /\ \A call \in Calls(o)' : Before(<<"commit", d>>, call)
                              /\ <<"rollback", d>> \in Calls(o)'
      BY <1>2, <1>3 DEF CleanupComes
    <3>1. \A op : op # "stage" => (<<op, d>> \in Calls(o)' <=> <<op, d>> \in Calls(o))
      BY <2>3
    <3>2. <<"stage", d>> \in Calls(o)' => <<"stage", d>> \in Calls(o) \/ d = n
      BY <2>3
    <3>3. journal[o][d] # NoEntry => <<"rollback", d>> \in Calls(o) /\ Before(<<"commit", d>>, <<"stage", n>>)
      <4>1. journal[o][d] # NoEntry => <<"rollback", d>> \in Calls(o)
        BY <1>2, <1>3, <2>1 DEF OwnerInv, CleanupComes
      <4>2. <<"rollback", d>> \in Calls(o) => Before(<<"commit", d>>, <<"stage", n>>)
        BY <2>2 DEF Before
      <4>. QED BY <4>1, <4>2
    <3>. QED BY <3>1, <3>2, <3>3, <1>2, <2>1, <2>3 DEF OwnerInv, CleanupComes
  <2>7. Revocable(o)'
    <3>1. \A d \in Collections : Kept(d)' <=> Kept(d)
      BY <1>3 DEF Kept
    <3>2. \A s \in Samples : s[1] \in Collections
      BY DEF Samples
    <3>3. \A s \in buffer[o] : s \in Samples
      BY <1>1 DEF TypeOK
    <3>4. \A d \in Collections : journal[o][d] # NoEntry => journal[o][d].snapshot \subseteq Samples
      BY <1>1 DEF TypeOK, Entries
    <3>. QED BY <3>1, <3>2, <3>3, <3>4, <1>2, <1>3, <2>1 DEF OwnerInv, Revocable
  <2>8. TakesAll(o)'
    <3>1. ASSUME NEW d \in Collections, ackInc[d][o] = inc[o]
          PROVE  \/ /\ <<"finalize", d>> \in Calls(o)'
                    /\ journal[o][d] # NoEntry /\ Share(d, o)' \subseteq Committed(o, d)'
                 \/ /\ <<"finalize", d>> \notin Calls(o)'
                    /\ Share(d, o)' \subseteq Trainable(o)'
      <4>1. Share(d, o)' = Share(d, o)
        BY <3>1, <1>3, <1>4, DriverState
      <4>2. Committed(o, d)' = Committed(o, d) /\ Trainable(o)' = Trainable(o)
        BY <1>2 DEF Committed, Trainable
      <4>3. <<"finalize", d>> \in Calls(o)' <=> <<"finalize", d>> \in Calls(o)
        BY <2>3
      <4>. QED BY <3>1, <4>1, <4>2, <4>3, <1>2, <1>3, <2>1 DEF OwnerInv, TakesAll
    <3>. QED BY <3>1, <1>2 DEF TakesAll
  <2>. QED BY <2>3, <2>4, <2>5, <2>6, <2>7, <2>8 DEF OwnerInv
<1>. QED BY <1>5, <1>6, <1>7

(* A call comes after all those that were sent before.                     *)
LEMMA CallsBefore ==
  ASSUME TransactionInv, NEW o \in Owners, phase \in {"stage", "commit"}, NEW op \in Ops,
         Rank(phase) < Rank(op)
  PROVE  \A call \in Calls(o) : Before(call, <<op, cur>>) /\ call[2] <= cur
<1>1. TypeOK /\ InOrder(o) /\ cur \in Collections
  BY DriverState DEF TransactionInv, CollectionInv, OwnerInv, Ops
<1>2. \A call \in Calls(o) : call = <<phase, cur>> \/ Before(call, <<phase, cur>>)
  BY <1>1 DEF InOrder, Ops
<1>3. \A call \in Calls(o) : call[2] \in Nat /\ Rank(call[1]) \in Nat /\ call[2] <= cur
  BY DriverState DEF Collections, Rank
<1>4. Rank(phase) \in Nat /\ Rank(op) \in Nat /\ cur \in Nat
  BY <1>1 DEF Rank, Collections
<1>. QED BY <1>2, <1>3, <1>4 DEF Before

(* An abort or a rollback is sent.                                         *)
LEMMA CleanupKeeps ==
  ASSUME TransactionInv, NEW op, NEW why \in Failures, Cleanup(op, why),
         \/ phase = "stage" /\ op = "abort"
         \/ phase = "commit" /\ op = "rollback",
         Resolved \/ why = "raised"
  PROVE  Milestones' /\ CompletedIsDurable' /\ \A o \in Owners : OwnerInv(o)'
<1>1. TypeOK /\ OutcomeLast /\ Milestones /\ CallsIssued
  BY DEF TransactionInv, CollectionInv
<1>2. /\ phase' = op /\ cause' = why /\ SendAll(op, cur)
      /\ UNCHANGED <<cur, outcome, bucket, ackInc, stepSet, inc, staged, journal, running, buffer,
                     unflushed, shards>>
      /\ op \in Ops /\ phase \in Ops /\ cur \in Collections /\ outcome[cur] = "none"
  BY DriverState DEF Cleanup, workerVars, Ops
<1>3. /\ \A d \in Collections : PointOfNoReturn(d)' <=> PointOfNoReturn(d)
      /\ \A d \in Collections : PointOfNoReturn(d) => d < cur
      /\ \A d \in Collections : CommitRaised(d) <=> outcome[d] = "raised"
      /\ \A d \in Collections : CommitRaised(d)' <=>
            outcome[d] = "raised" \/ (d = cur /\ op = "rollback" /\ why = "raised")
      /\ \A d \in Collections : outcome[d] # "ambiguous"
      /\ \A d \in Collections : d <= cur => d = cur \/ d < cur
  <2>1. \A d \in Collections : PointOfNoReturn(d) => d < cur
    BY <1>2, DriverState DEF PointOfNoReturn, Collections
  <2>2. \A d \in Collections : PointOfNoReturn(d)' <=> PointOfNoReturn(d)
    BY <1>2 DEF PointOfNoReturn
  <2>3. \A d \in Collections : /\ CommitRaised(d) <=> outcome[d] = "raised"
                               /\ CommitRaised(d)' <=>
                                    outcome[d] = "raised" \/ (d = cur /\ op = "rollback" /\ why = "raised")
    BY <1>2 DEF CommitRaised
  <2>4. \A d \in Collections : outcome[d] # "ambiguous"
    BY <1>2, DriverState
  <2>. QED BY <2>1, <2>2, <2>3, <2>4, <1>2 DEF Collections
<1>4. \A d \in Collections, o \in Owners : Share(d, o)' = Share(d, o)
  BY <1>2 DEF Share
<1>5. Milestones' /\ CompletedIsDurable'
  BY <1>1, <1>2, <1>3, <1>4 DEF TransactionInv, Milestones, CompletedIsDurable
<1>6. ASSUME NEW o \in Owners PROVE OwnerInv(o)'
  <2>1. OwnerInv(o)
    BY DEF TransactionInv
  <2>2. Rank(phase) < Rank(op) /\ Rank("commit") < Rank(op)
    BY RankOrder
  <2>3. \A call \in Calls(o) : Before(call, <<op, cur>>) /\ call[2] <= cur
    BY <1>2, <2>2, CallsBefore
  <2>4. /\ Calls(o)' = Calls(o) \union {<<op, cur>>}
        /\ reply'[o] = NoReply /\ reply'[o].kind = "none"
        /\ InOrder(o)'
    BY <1>2, <2>3, SentInOrder
  <2>5. Resolved => Calls(o) = {} /\ (phase = "commit" => running[o][cur] = NoCommit)
    BY <1>2, AllServed
  <2>6. Dated(o)'
    BY <1>2, <2>1, <2>4 DEF OwnerInv, Dated
  <2>7. Settled(o)'
    <3>. SUFFICES ASSUME NEW d \in Collections
                  PROVE  /\ outcome[d] \in {"stage_failed", "rejected", "completed"} =>
                              \A call \in Calls(o)' : call[2] # d
                         /\ PointOfNoReturn(d) =>
                              /\ \A call \in Calls(o)' : call[2] > d \/ call = <<"finalize", d>>
                              /\ \A e \in Collections : journal[o][e] # NoEntry => e >= d
      BY <1>2, <1>3 DEF Settled
    <3>1. PointOfNoReturn(d) => cur > d
      BY <1>3
    <3>. QED BY <3>1, <1>2, <2>1, <2>4 DEF OwnerInv, Settled
  <2>8. CleanupComes(o)'
    <3>. SUFFICES ASSUME NEW d \in Collections
                  PROVE  /\ <<"stage", d>> \in Calls(o)' \/ d \in staged[o] =>
                              \E call \in {"commit", "abort", "rollback"} : <<call, d>> \in Calls(o)'
                         /\ <<"commit", d>> \in Calls(o)' =>
                              <<"rollback", d>> \in Calls(o)' /\ CommitRaised(d)'
                         /\ running[o][d] # NoCommit => CommitRaised(d)'
                         /\ journal[o][d] # NoEntry =>
                              /\ \A call \in Calls(o)' : Before(<<"commit", d>>, call)
                              /\ <<"rollback", d>> \in Calls(o)'
      BY <1>2 DEF CleanupComes
    <3>1. /\ \A e : e \notin {"abort", "rollback"} => (<<e, d>> \in Calls(o)' <=> <<e, d>> \in Calls(o))
          /\ \A e : <<e, d>> \in Calls(o) => <<e, d>> \in Calls(o)'
          /\ d = cur => <<op, d>> \in Calls(o)'
      BY <2>4
    <3>2. CommitRaised(d) => CommitRaised(d)'
      BY <1>3
    <3>3. d = cur /\ phase = "commit" => Resolved \/ CommitRaised(d)'
      BY <1>3
    <3>4. journal[o][d] # NoEntry =>
            d <= cur /\ (<<"rollback", d>> \in Calls(o) \/ (d = cur /\ phase = "commit"))
      <4>1. journal[o][d] # NoEntry => <<"rollback", d>> \in Calls(o) \/ (d = cur /\ phase = "commit")
        BY <1>3, <2>1 DEF OwnerInv, CleanupComes
      <4>2. <<"rollback", d>> \in Calls(o) => d <= cur
        BY <2>3
      <4>. QED BY <4>1, <4>2 DEF Collections
    <3>5. d <= cur => Before(<<"commit", d>>, <<op, cur>>)
      BY <2>2, <1>3 DEF Before
    <3>6. <<"commit", d>> \in Calls(o)' =>
              <<"rollback", d>> \in Calls(o)' /\ CommitRaised(d)'
      BY <3>1, <3>2, <3>3, <2>1, <2>5 DEF OwnerInv, CleanupComes
    <3>7. running[o][d] # NoCommit => CommitRaised(d)'
      BY <3>2, <3>3, <2>1, <2>5 DEF OwnerInv, CleanupComes
    <3>8. <<"stage", d>> \in Calls(o)' \/ d \in staged[o] =>
            \E call \in {"commit", "abort", "rollback"} : <<call, d>> \in Calls(o)'
      BY <3>1, <2>1 DEF OwnerInv, CleanupComes
    <3>9. journal[o][d] # NoEntry =>
            /\ \A call \in Calls(o)' : Before(<<"commit", d>>, call)
            /\ <<"rollback", d>> \in Calls(o)'
      BY <3>1, <3>4, <3>5, <2>1, <2>4 DEF OwnerInv, CleanupComes
    <3>. QED BY <3>6, <3>7, <3>8, <3>9
  <2>9. Revocable(o)'
    <3>1. \A d \in Collections : Kept(d) => Kept(d)'
      BY <1>3 DEF Kept
    <3>2. \A s \in Samples : s[1] \in Collections
      BY DEF Samples
    <3>3. \A s \in buffer[o] : s \in Samples
      BY <1>1 DEF TypeOK
    <3>4. \A d \in Collections : journal[o][d] # NoEntry => journal[o][d].snapshot \subseteq Samples
      BY <1>1 DEF TypeOK, Entries
    <3>. QED BY <3>1, <3>2, <3>3, <3>4, <1>2, <1>3, <2>1 DEF OwnerInv, Revocable
  <2>10. TakesAll(o)'
    <3>1. ASSUME NEW d \in Collections, ackInc[d][o] = inc[o]
          PROVE  \/ /\ <<"finalize", d>> \in Calls(o)'
                    /\ journal[o][d] # NoEntry /\ Share(d, o)' \subseteq Committed(o, d)'
                 \/ /\ <<"finalize", d>> \notin Calls(o)'
                    /\ Share(d, o)' \subseteq Trainable(o)'
      <4>1. Share(d, o)' = Share(d, o)
        BY <1>4
      <4>2. Committed(o, d)' = Committed(o, d) /\ Trainable(o)' = Trainable(o)
        BY <1>2 DEF Committed, Trainable
      <4>3. <<"finalize", d>> \in Calls(o)' <=> <<"finalize", d>> \in Calls(o)
        BY <2>4
      <4>. QED BY <3>1, <4>1, <4>2, <4>3, <1>2, <1>3, <2>1 DEF OwnerInv, TakesAll
    <3>. QED BY <3>1, <1>2 DEF TakesAll
  <2>. QED BY <2>4, <2>6, <2>7, <2>8, <2>9, <2>10 DEF OwnerInv
<1>. QED BY <1>5, <1>6

(* All owners have staged: the commit is sent.                             *)
LEMMA SendCommitKeeps ==
  ASSUME TransactionInv, phase = "stage", Resolved, Proceed("commit"), UNCHANGED ackInc
  PROVE  Milestones' /\ CompletedIsDurable' /\ \A o \in Owners : OwnerInv(o)'
<1>1. TypeOK /\ OutcomeLast /\ Milestones /\ CallsIssued
  BY DEF TransactionInv, CollectionInv
<1>2. /\ phase' = "commit" /\ SendAll("commit", cur)
      /\ UNCHANGED <<cause, cur, outcome, bucket, ackInc, stepSet, inc, staged, journal, running,
                     buffer, unflushed, shards>>
      /\ phase \in Ops /\ "commit" \in Ops /\ cur \in Collections /\ outcome[cur] = "none"
  BY DriverState DEF Proceed, workerVars, Ops
<1>3. /\ \A d \in Collections : PointOfNoReturn(d)' <=> PointOfNoReturn(d)
      /\ \A d \in Collections : PointOfNoReturn(d) => d < cur
      /\ \A d \in Collections : CommitRaised(d)' <=> CommitRaised(d)
      /\ \A d \in Collections : CommitRaised(d) => d # cur
      /\ \A d \in Collections : outcome[d] # "ambiguous"
  <2>1. \A d \in Collections : PointOfNoReturn(d) => d < cur
    BY <1>2, DriverState DEF PointOfNoReturn, Collections
  <2>2. \A d \in Collections : PointOfNoReturn(d)' <=> PointOfNoReturn(d)
    BY <1>2 DEF PointOfNoReturn
  <2>3. \A d \in Collections : /\ CommitRaised(d)' <=> CommitRaised(d)
                               /\ CommitRaised(d) => d # cur
    BY <1>2 DEF CommitRaised
  <2>4. \A d \in Collections : outcome[d] # "ambiguous"
    BY <1>2, DriverState
  <2>. QED BY <2>1, <2>2, <2>3, <2>4
<1>4. \A d \in Collections, o \in Owners : Share(d, o)' = Share(d, o)
  BY <1>2 DEF Share
<1>5. Milestones' /\ CompletedIsDurable'
  BY <1>1, <1>2, <1>3, <1>4 DEF TransactionInv, Milestones, CompletedIsDurable
<1>6. ASSUME NEW o \in Owners PROVE OwnerInv(o)'
  <2>1. OwnerInv(o) /\ Calls(o) = {}
    BY <1>2, AllServed DEF TransactionInv
  <2>2. /\ \A d \in Collections : running[o][d] # NoCommit => CommitRaised(d)
        /\ \A d \in Collections : journal[o][d] = NoEntry
    BY <1>3, <2>1 DEF OwnerInv, CleanupComes
  <2>3. /\ Calls(o)' = {<<"commit", cur>>}
        /\ reply'[o] = NoReply /\ reply'[o].kind = "none"
        /\ InOrder(o)'
    <3>1. running'[o][cur] = NoCommit
      BY <1>2, <1>3, <2>2
    <3>2. \A call \in Calls(o) : Before(call, <<"commit", cur>>)
      BY <2>1
    <3>3. /\ Calls(o)' = Calls(o) \union {<<"commit", cur>>}
          /\ reply'[o] = NoReply /\ reply'[o].kind = "none"
          /\ InOrder(o)'
      BY <1>2, <3>1, <3>2, SentInOrder
    <3>. QED BY <2>1, <3>3
  <2>4. Dated(o)'
    BY <1>2, <2>1, <2>3 DEF OwnerInv, Dated
  <2>5. Settled(o)'
    <3>1. \A d \in Collections : PointOfNoReturn(d) => cur > d
      BY <1>3
    <3>. QED BY <3>1, <1>2, <1>3, <2>2, <2>3 DEF Settled
  <2>6. CleanupComes(o)'
    <3>1. \A d \in Collections : d \in staged[o] => d = cur
      BY <1>2, <2>1 DEF OwnerInv, CleanupComes
    <3>. QED BY <3>1, <1>2, <1>3, <2>2, <2>3 DEF CleanupComes
  <2>7. Revocable(o)'
    <3>1. \A d \in Collections : Kept(d)' <=> Kept(d)
      BY <1>3 DEF Kept
    <3>2. \A s \in buffer[o] : s[1] \in Collections
      BY <1>1 DEF TypeOK, Samples
    <3>. QED BY <3>1, <3>2, <1>2, <2>1, <2>2 DEF OwnerInv, Revocable
  <2>8. TakesAll(o)'
    <3>1. ASSUME NEW d \in Collections, ackInc[d][o] = inc[o]
          PROVE  Share(d, o)' \subseteq Trainable(o)'
      BY <3>1, <1>2, <1>3, <1>4, <2>1 DEF OwnerInv, TakesAll, Trainable
    <3>2. running'[o][cur'] = NoCommit
      BY <1>2, <1>3, <2>2
    <3>. QED BY <3>1, <3>2, <1>2, <2>3 DEF TakesAll
  <2>. QED BY <2>3, <2>4, <2>5, <2>6, <2>7, <2>8 DEF OwnerInv
<1>. QED BY <1>5, <1>6

(* All owners have committed all they were sent: finalize is sent, and     *)
(* there is no return.                                                     *)
LEMMA SendFinalizeKeeps ==
  ASSUME TransactionInv, phase = "commit", Resolved, CommitComplete, Proceed("finalize"),
         ackInc' = [ackInc EXCEPT ![cur] = [o \in Owners |-> reply[o].inc]]
  PROVE  Milestones' /\ CompletedIsDurable' /\ \A o \in Owners : OwnerInv(o)'
<1>1. TypeOK /\ OutcomeLast /\ Milestones /\ CallsIssued
  BY DEF TransactionInv, CollectionInv
<1>2. /\ phase' = "finalize" /\ SendAll("finalize", cur)
      /\ UNCHANGED <<cause, cur, outcome, bucket, stepSet, inc, staged, journal, running,
                     buffer, unflushed, shards>>
      /\ phase \in Ops /\ "finalize" \in Ops /\ cur \in Collections /\ outcome[cur] = "none"
  BY DriverState DEF Proceed, workerVars, Ops
<1>3. /\ \A o \in Owners : ackInc'[cur][o] = reply[o].inc
      /\ \A d \in Collections : d # cur => ackInc'[d] = ackInc[d]
  BY <1>1, <1>2 DEF TypeOK
<1>4. /\ \A d \in Collections : PointOfNoReturn(d)' <=> PointOfNoReturn(d) \/ d = cur
      /\ \A d \in Collections : PointOfNoReturn(d) => d < cur
      /\ \A d \in Collections : CommitRaised(d)' <=> CommitRaised(d)
      /\ \A d \in Collections : CommitRaised(d) => d # cur
      /\ \A d \in Collections : outcome[d] # "ambiguous"
  <2>1. \A d \in Collections : PointOfNoReturn(d) => d < cur
    BY <1>2, DriverState DEF PointOfNoReturn, Collections
  <2>2. \A d \in Collections : PointOfNoReturn(d)' <=> PointOfNoReturn(d) \/ d = cur
    BY <1>2 DEF PointOfNoReturn
  <2>3. \A d \in Collections : /\ CommitRaised(d)' <=> CommitRaised(d)
                               /\ CommitRaised(d) => d # cur
    BY <1>2 DEF CommitRaised
  <2>4. \A d \in Collections : outcome[d] # "ambiguous"
    BY <1>2, DriverState
  <2>. QED BY <2>1, <2>2, <2>3, <2>4
<1>5. \A d \in Collections, o \in Owners : Share(d, o)' = Share(d, o)
  BY <1>2 DEF Share
<1>6. Milestones' /\ CompletedIsDurable'
  BY <1>1, <1>2, <1>3, <1>4, <1>5 DEF TransactionInv, Milestones, CompletedIsDurable
<1>7. ASSUME NEW o \in Owners PROVE OwnerInv(o)'
  <2>1. /\ OwnerInv(o) /\ Calls(o) = {} /\ running[o][cur] = NoCommit /\ reply[o] # NoReply
        /\ reply[o].kind = "committed" /\ reply[o].rejected = 0
    BY <1>2, AllServed DEF TransactionInv, CommitComplete
  <2>2. /\ \A d \in Collections : running[o][d] # NoCommit => CommitRaised(d)
        /\ \A d \in Collections : journal[o][d] # NoEntry => d = cur
        /\ \A d \in Collections : d \notin staged[o]
    BY <1>2, <1>4, <2>1 DEF OwnerInv, CleanupComes
  <2>3. /\ Calls(o)' = {<<"finalize", cur>>}
        /\ reply'[o] = NoReply /\ reply'[o].kind = "none"
        /\ InOrder(o)'
    <3>1. \A call \in Calls(o) : Before(call, <<"finalize", cur>>)
      BY <2>1
    <3>2. /\ Calls(o)' = Calls(o) \union {<<"finalize", cur>>}
          /\ reply'[o] = NoReply /\ reply'[o].kind = "none"
          /\ InOrder(o)'
      BY <1>2, <3>1, SentInOrder
    <3>. QED BY <2>1, <3>2
  <2>4. Dated(o)'
    <3>1. ackInc'[cur][o] <= inc[o] /\ (stepSet[o] => ackInc'[cur][o] = inc[o])
      BY <1>2, <1>3, <2>1 DEF OwnerInv, Dated
    <3>. QED BY <3>1, <1>2, <1>3, <2>1, <2>3 DEF OwnerInv, Dated
  <2>5. Settled(o)'
    <3>1. \A d \in Collections : PointOfNoReturn(d)' => cur > d \/ d = cur
      BY <1>4
    <3>2. \A d, e \in Collections : PointOfNoReturn(d)' /\ journal[o][e] # NoEntry => e >= d
      BY <1>2, <2>2, <3>1 DEF Collections
    <3>3. \A d \in Collections : outcome[d] # "none" => d # cur
      BY <1>2
    <3>. QED BY <3>1, <3>2, <3>3, <1>2, <2>3 DEF Settled
  <2>6. CleanupComes(o)'
    <3>1. Before(<<"commit", cur>>, <<"finalize", cur>>)
      BY RankOrder DEF Before
    <3>. QED BY <3>1, <1>2, <1>4, <2>2, <2>3 DEF CleanupComes
  <2>7. Revocable(o)'
    <3>1. \A d \in Collections : Kept(d) => Kept(d)'
      BY <1>4 DEF Kept
    <3>2. \A s \in buffer[o] : s[1] \in Collections
      BY <1>1 DEF TypeOK, Samples
    <3>3. \A d \in Collections : \A s \in journal[o][d].snapshot :
             journal[o][d] # NoEntry => s[1] \in Collections
      BY <1>1 DEF TypeOK, Entries, Samples
    <3>4. \A d \in Collections : PointOfNoReturn(d)' /\ d < cur => PointOfNoReturn(d)
      BY <1>2, <1>4 DEF Collections
    <3>. QED BY <3>1, <3>2, <3>3, <3>4, <1>2, <2>1, <2>2 DEF OwnerInv, Revocable
  <2>8. TakesAll(o)'
    <3>1. ASSUME NEW d \in Collections, ackInc'[d][o] = inc[o], d # cur
          PROVE  Share(d, o)' \subseteq Trainable(o)' /\ <<"finalize", d>> \notin Calls(o)'
      BY <3>1, <1>2, <1>3, <1>4, <1>5, <2>1, <2>3 DEF OwnerInv, TakesAll, Trainable
    <3>2. ackInc'[cur][o] = inc[o] =>
            /\ <<"finalize", cur>> \in Calls(o)'
            /\ journal[o][cur] # NoEntry /\ Share(cur, o) \subseteq Committed(o, cur)
      BY <1>2, <1>3, <2>1, <2>3 DEF OwnerInv, TakesAll
    <3>3. /\ Share(cur, o)' = Share(cur, o)
          /\ \A d \in Collections : Committed(o, d)' = Committed(o, d)
      BY <1>2 DEF Share, Committed
    <3>. QED BY <3>1, <3>2, <3>3, <1>2, <1>5, <2>3 DEF TakesAll
  <2>. QED BY <2>3, <2>4, <2>5, <2>6, <2>7, <2>8 DEF OwnerInv
<1>. QED BY <1>6, <1>7

(* The end of a collection, whatever it is: the calls and the owners stay  *)
(* as they are.                                                            *)
LEMMA FinishFacts ==
  ASSUME TransactionInv, phase \in {"finalize", "abort", "rollback"}, NEW result, NEW next,
         Finish(result, next)
  PROVE  /\ cur \in Collections /\ phase \in Ops /\ outcome[cur] = "none"
         /\ outcome'[cur] = result /\ phase' = next
         /\ UNCHANGED <<cause, cur, bucket, ackInc, reply, inbox, stepSet, inc, staged, journal,
                        running, buffer, unflushed, shards>>
         /\ \A d \in Collections : d # cur => outcome'[d] = outcome[d]
         /\ \A d \in Collections : outcome[d] # "ambiguous"
         /\ \A o \in Owners : /\ OwnerInv(o)
                              /\ Calls(o)' = Calls(o) /\ Trainable(o)' = Trainable(o)
                              /\ \A d \in Collections : /\ Share(d, o)' = Share(d, o)
                                                        /\ Committed(o, d)' = Committed(o, d)
         /\ \A o \in Owners : \A s \in buffer[o] : s[1] \in Collections
         /\ \A o \in Owners, d \in Collections : journal[o][d] # NoEntry =>
               \A s \in journal[o][d].snapshot : s[1] \in Collections
<1>1. TypeOK /\ phase \in Ops
  BY DEF TransactionInv, CollectionInv, Ops
<1>2. /\ cur \in Collections /\ outcome[cur] = "none"
      /\ \A d \in Collections : outcome[d] # "ambiguous"
  BY <1>1, DriverState DEF Ops
<1>3. /\ outcome' = [outcome EXCEPT ![cur] = result] /\ phase' = next
      /\ UNCHANGED <<cause, cur, bucket, ackInc, reply, inbox, stepSet, inc, staged, journal,
                     running, buffer, unflushed, shards>>
  BY DEF Finish, callVars, workerVars
<1>4. outcome'[cur] = result /\ \A d \in Collections : d # cur => outcome'[d] = outcome[d]
  BY <1>1, <1>2, <1>3 DEF TypeOK
<1>5. \A o \in Owners : /\ OwnerInv(o)
                        /\ Calls(o)' = Calls(o) /\ Trainable(o)' = Trainable(o)
                        /\ \A d \in Collections : /\ Share(d, o)' = Share(d, o)
                                                  /\ Committed(o, d)' = Committed(o, d)
  BY <1>3 DEF TransactionInv, Calls, Trainable, Share, Committed
<1>6. \A o \in Owners : \A s \in buffer[o] : s[1] \in Collections
  BY <1>1 DEF TypeOK, Samples
<1>7. \A o \in Owners, d \in Collections : journal[o][d] # NoEntry =>
        \A s \in journal[o][d].snapshot : s[1] \in Collections
  BY <1>1 DEF TypeOK, Entries, Samples
<1>. QED BY <1>1, <1>2, <1>3, <1>4, <1>5, <1>6, <1>7

(* The order of the calls, the incarnations and the snapshots do not       *)
(* depend on how a collection ends.                                        *)
LEMMA FinishKeepsOwner ==
  ASSUME TransactionInv, phase \in {"finalize", "abort", "rollback"},
         NEW result, NEW next \in {"idle", "halted"}, Finish(result, next), NEW o \in Owners,
         \A d \in Collections : PointOfNoReturn(d)' <=> PointOfNoReturn(d),
         \A d \in Collections : CommitRaised(d) => CommitRaised(d)'
  PROVE  /\ InOrder(o)' /\ Dated(o)' /\ Revocable(o)'
         /\ (result \in {"stage_failed", "rejected", "completed"} => Calls(o) = {})
              => Settled(o)'
<1>1. /\ OwnerInv(o) /\ cur \in Collections /\ phase' = next /\ Calls(o)' = Calls(o)
      /\ UNCHANGED <<cur, ackInc, reply, inbox, stepSet, inc, journal, running, buffer>>
      /\ outcome'[cur] = result /\ \A d \in Collections : d # cur => outcome'[d] = outcome[d]
      /\ \A s \in buffer[o] : s[1] \in Collections
      /\ \A d \in Collections : journal[o][d] # NoEntry =>
           \A s \in journal[o][d].snapshot : s[1] \in Collections
      /\ next \notin Ops
  BY FinishFacts DEF Ops
<1>2. InOrder(o)'
  BY <1>1 DEF OwnerInv, InOrder, Ops
<1>3. Dated(o)'
  BY <1>1 DEF OwnerInv, Dated
<1>4. Revocable(o)'
  <2>1. \A d \in Collections : Kept(d) => Kept(d)'
    BY DEF Kept
  <2>. QED BY <2>1, <1>1 DEF OwnerInv, Revocable
<1>5. (result \in {"stage_failed", "rejected", "completed"} => Calls(o) = {}) => Settled(o)'
  BY <1>1 DEF OwnerInv, Settled
<1>. QED BY <1>2, <1>3, <1>4, <1>5

(* All owners have finalized what they committed.                          *)
LEMMA CompleteKeeps ==
  ASSUME TransactionInv, phase = "finalize", Resolved, FinalizeAcked, Finish("completed", "idle")
  PROVE  Milestones' /\ CompletedIsDurable' /\ \A o \in Owners : OwnerInv(o)'
<1>1. /\ cur \in Collections /\ phase \in Ops /\ outcome[cur] = "none"
      /\ outcome'[cur] = "completed" /\ phase' = "idle"
      /\ UNCHANGED <<cause, cur, bucket, ackInc, reply, inbox, stepSet, inc, staged, journal,
                     running, buffer, unflushed, shards>>
      /\ \A d \in Collections : d # cur => outcome'[d] = outcome[d]
      /\ \A d \in Collections : outcome[d] # "ambiguous"
  BY FinishFacts
<1>2. \A d \in Collections : /\ PointOfNoReturn(d)' <=> PointOfNoReturn(d)
                             /\ CommitRaised(d)' <=> CommitRaised(d)
  BY <1>1 DEF PointOfNoReturn, CommitRaised
<1>3. Milestones'
  BY <1>1, <1>2 DEF TransactionInv, Milestones
<1>4. ASSUME NEW o \in Owners PROVE OwnerInv(o)'
  <2>1. /\ OwnerInv(o) /\ Calls(o) = {} /\ Calls(o)' = {} /\ reply[o].kind # "raise"
        /\ Trainable(o)' = Trainable(o)
        /\ \A d \in Collections : Share(d, o)' = Share(d, o)
    BY <1>1, AllServed, FinishFacts
  <2>2. InOrder(o)' /\ Dated(o)' /\ Revocable(o)' /\ Settled(o)'
    BY <1>2, <2>1, FinishKeepsOwner
  <2>3. CleanupComes(o)'
    BY <1>1, <1>2, <2>1 DEF OwnerInv, CleanupComes
  <2>4. TakesAll(o)'
    BY <1>1, <2>1 DEF OwnerInv, TakesAll
  <2>. QED BY <2>2, <2>3, <2>4 DEF OwnerInv
<1>5. CompletedIsDurable'
  <2>1. ASSUME CollectOnly, FlushEveryStep, NEW o \in Owners PROVE Share(cur, o) \subseteq shards[o]
    BY <2>1 DEF TransactionInv, OwnerInv, TakesAll, FinalizeAcked
  <2>2. \A d \in Collections, o \in Owners : Share(d, o)' = Share(d, o)
    BY <1>1 DEF Share
  <2>. QED BY <1>1, <2>1, <2>2 DEF TransactionInv, CompletedIsDurable
<1>. QED BY <1>3, <1>4, <1>5

(* Some owner has not.                                                     *)
LEMMA GiveUpKeeps ==
  ASSUME TransactionInv, phase = "finalize", Finish("ambiguous", "halted")
  PROVE  Milestones' /\ CompletedIsDurable' /\ \A o \in Owners : OwnerInv(o)'
<1>1. /\ cur \in Collections /\ phase \in Ops /\ outcome[cur] = "none"
      /\ outcome'[cur] = "ambiguous" /\ phase' = "halted"
      /\ UNCHANGED <<cause, cur, bucket, ackInc, reply, inbox, stepSet, inc, staged, journal,
                     running, buffer, unflushed, shards>>
      /\ \A d \in Collections : d # cur => outcome'[d] = outcome[d]
      /\ \A d \in Collections : outcome[d] # "ambiguous"
  BY FinishFacts
<1>2. \A d \in Collections : /\ PointOfNoReturn(d)' <=> PointOfNoReturn(d)
                             /\ CommitRaised(d)' <=> CommitRaised(d)
  BY <1>1 DEF PointOfNoReturn, CommitRaised
<1>3. Milestones'
  BY <1>1, <1>2 DEF TransactionInv, Milestones
<1>4. ASSUME NEW o \in Owners PROVE OwnerInv(o)'
  <2>1. /\ OwnerInv(o) /\ Calls(o)' = Calls(o) /\ Trainable(o)' = Trainable(o)
        /\ \A d \in Collections : /\ Share(d, o)' = Share(d, o)
                                  /\ Committed(o, d)' = Committed(o, d)
    BY FinishFacts
  <2>2. InOrder(o)' /\ Dated(o)' /\ Revocable(o)' /\ Settled(o)'
    BY <1>2, FinishKeepsOwner
  <2>3. CleanupComes(o)'
    <3>. SUFFICES ASSUME NEW d \in Collections
                  PROVE  /\ <<"stage", d>> \in Calls(o) \/ d \in staged[o] =>
                              \E op \in {"commit", "abort", "rollback"} : <<op, d>> \in Calls(o)
                         /\ <<"commit", d>> \in Calls(o) =>
                              <<"rollback", d>> \in Calls(o) /\ CommitRaised(d)
                         /\ running[o][d] # NoCommit => CommitRaised(d)
                         /\ journal[o][d] # NoEntry =>
                              /\ \A call \in Calls(o) : Before(<<"commit", d>>, call)
                              /\ <<"rollback", d>> \in Calls(o) \/ d = cur
      BY <1>1, <1>2, <2>1 DEF CleanupComes
    <3>. QED BY <1>1, <2>1 DEF OwnerInv, CleanupComes
  <2>4. TakesAll(o)'
    <3>1. \A d \in Collections : ackInc[d][o] = inc[o] =>
            \/ /\ <<"finalize", d>> \in Calls(o)
               /\ journal[o][d] # NoEntry /\ Share(d, o) \subseteq Committed(o, d)
            \/ /\ <<"finalize", d>> \notin Calls(o)
               /\ Share(d, o) \subseteq Trainable(o) \/ d = cur
      BY <1>1, <2>1 DEF OwnerInv, TakesAll
    <3>. QED BY <3>1, <1>1, <2>1 DEF TakesAll
  <2>. QED BY <2>2, <2>3, <2>4 DEF OwnerInv
<1>5. CompletedIsDurable'
  <2>1. \A d \in Collections, o \in Owners : Share(d, o)' = Share(d, o)
    BY <1>1 DEF Share
  <2>. QED BY <1>1, <2>1 DEF TransactionInv, CompletedIsDurable
<1>. QED BY <1>3, <1>4, <1>5

(* The clean-up of a failed collection is done, or has raised as well.     *)
LEMMA CleanedUpKeeps ==
  ASSUME TransactionInv, phase \in {"abort", "rollback"}, NEW result, Finish(result, "idle"),
         (Resolved /\ result = cause) \/ result = "raised"
  PROVE  Milestones' /\ CompletedIsDurable' /\ \A o \in Owners : OwnerInv(o)'
<1>1. /\ cur \in Collections /\ phase \in Ops /\ outcome[cur] = "none"
      /\ outcome'[cur] = result /\ phase' = "idle"
      /\ UNCHANGED <<cause, cur, bucket, ackInc, reply, inbox, stepSet, inc, staged, journal,
                     running, buffer, unflushed, shards>>
      /\ \A d \in Collections : d # cur => outcome'[d] = outcome[d]
      /\ \A d \in Collections : outcome[d] # "ambiguous"
  BY FinishFacts
<1>2. result \in {"stage_failed", "rejected", "raised"}
  BY DEF TransactionInv, CollectionInv, TypeOK, Failures
<1>3. \A d \in Collections : /\ PointOfNoReturn(d)' <=> PointOfNoReturn(d)
                             /\ CommitRaised(d) => CommitRaised(d)'
  BY <1>1, <1>2 DEF PointOfNoReturn, CommitRaised
<1>4. Milestones'
  BY <1>1, <1>2, <1>3 DEF TransactionInv, Milestones
<1>5. ASSUME NEW o \in Owners PROVE OwnerInv(o)'
  <2>1. /\ OwnerInv(o) /\ Calls(o)' = Calls(o) /\ Trainable(o)' = Trainable(o)
        /\ \A d \in Collections : /\ Share(d, o)' = Share(d, o)
                                  /\ Committed(o, d)' = Committed(o, d)
    BY FinishFacts
  <2>2. result # "raised" => Calls(o) = {}
    BY <1>1, AllServed
  <2>3. InOrder(o)' /\ Dated(o)' /\ Revocable(o)' /\ Settled(o)'
    BY <1>3, <2>2, FinishKeepsOwner
  <2>4. CleanupComes(o)'
    <3>. SUFFICES ASSUME NEW d \in Collections
                  PROVE  /\ <<"stage", d>> \in Calls(o) \/ d \in staged[o] =>
                              \E op \in {"commit", "abort", "rollback"} : <<op, d>> \in Calls(o)
                         /\ <<"commit", d>> \in Calls(o) =>
                              <<"rollback", d>> \in Calls(o) /\ CommitRaised(d)
                         /\ running[o][d] # NoCommit => CommitRaised(d)
                         /\ journal[o][d] # NoEntry =>
                              /\ \A call \in Calls(o) : Before(<<"commit", d>>, call)
                              /\ <<"rollback", d>> \in Calls(o)
      BY <1>1, <1>3, <2>1 DEF CleanupComes
    <3>. QED BY <1>1, <2>1 DEF OwnerInv, CleanupComes
  <2>5. TakesAll(o)'
    <3>1. \A d \in Collections : ackInc[d][o] = inc[o] =>
            \/ /\ <<"finalize", d>> \in Calls(o)
               /\ journal[o][d] # NoEntry /\ Share(d, o) \subseteq Committed(o, d)
            \/ /\ <<"finalize", d>> \notin Calls(o)
               /\ Share(d, o) \subseteq Trainable(o)
      BY <1>1, <2>1 DEF OwnerInv, TakesAll
    <3>. QED BY <3>1, <1>1, <2>1 DEF TakesAll
  <2>. QED BY <2>3, <2>4, <2>5 DEF OwnerInv
<1>6. CompletedIsDurable'
  <2>1. \A d \in Collections, o \in Owners : Share(d, o)' = Share(d, o)
    BY <1>1 DEF Share
  <2>. QED BY <1>1, <1>2, <2>1 DEF TransactionInv, CompletedIsDurable
<1>. QED BY <1>4, <1>5, <1>6

-----------------------------------------------------------------------------
(* The theorems.                                                           *)

(* Nothing is sent, held or acknowledged at the start.                     *)
LEMMA TransactionInit == Init => TransactionInv
<1>. SUFFICES ASSUME Init PROVE TransactionInv
  OBVIOUS
<1>1. CollectionInv
  BY InvInit
<1>2. Milestones /\ CompletedIsDurable
  BY DEF Init, Milestones, CompletedIsDurable
<1>3. ASSUME NEW o \in Owners PROVE OwnerInv(o)
  <2>1. /\ Calls(o) = {} /\ reply[o] = NoReply /\ staged[o] = {} /\ buffer[o] = {}
        /\ phase = "idle" /\ inbox[o] = <<>> /\ inc[o] = 1
        /\ \A c \in Collections : /\ journal[o][c] = NoEntry /\ running[o][c] = NoCommit
                                  /\ ackInc[c][o] = 0 /\ outcome[c] = "none"
    BY DEF Init, Calls
  <2>2. InOrder(o) /\ Dated(o)
    BY <2>1 DEF InOrder, Dated, Ops
  <2>3. Settled(o) /\ CleanupComes(o) /\ Revocable(o) /\ TakesAll(o)
    BY <2>1 DEF Settled, CleanupComes, Revocable, TakesAll
  <2>. QED BY <2>2, <2>3 DEF OwnerInv
<1>. QED BY <1>1, <1>2, <1>3 DEF TransactionInv

(* The driver preserves the invariant of every owner.                      *)
LEMMA DriverKeeps ==
  ASSUME TransactionInv, Driver
  PROVE  Milestones' /\ CompletedIsDurable' /\ \A o \in Owners : OwnerInv(o)'
<1>1. CASE AfterStage
  BY <1>1, CleanupKeeps, SendCommitKeeps DEF AfterStage, Failures
<1>2. CASE AfterCommit
  BY <1>2, CleanupKeeps, SendFinalizeKeeps DEF AfterCommit, Failures
<1>3. CASE AfterFinalize
  BY <1>3, CompleteKeeps, GiveUpKeeps DEF AfterFinalize
<1>4. CASE AfterCleanup
  BY <1>4, CleanedUpKeeps DEF AfterCleanup
<1>. QED BY <1>1, <1>2, <1>3, <1>4, BeginKeeps DEF Driver

(* The invariant behind all that follows is inductive: an owner serves the *)
(* calls of all collections in the order in which the driver sent them,    *)
(* and what it holds of a collection tells which of them are still to      *)
(* come.                                                                   *)
THEOREM TransactionInvariant == Spec => []TransactionInv
<1>1. TransactionInv /\ [Next]_vars => TransactionInv'
  <2>. SUFFICES ASSUME TransactionInv, [Next]_vars PROVE TransactionInv'
    OBVIOUS
  <2>1. CollectionInv
    BY DEF TransactionInv
  <2>2. CASE Driver
    BY <2>1, <2>2, InvDriver, DriverKeeps DEF TransactionInv
  <2>3. ASSUME NEW o \in Owners, NEW c \in Collections, OwnerCall(o, c) PROVE TransactionInv'
    BY <2>1, <2>3, InvOwner, HandlersKeep DEF TransactionInv
  <2>4. ASSUME NEW o \in Owners, Restart(o) PROVE TransactionInv'
    BY <2>1, <2>4, InvRestart, RestartKeeps DEF TransactionInv
  <2>5. CASE UNCHANGED vars
    <3>. USE <2>5 DEF vars, driverVars, callVars, workerVars
    <3>1. CollectionInv'
      <4>1. TypeOK' /\ CommitInBucket' /\ OutcomeLast' /\ JournalIsOwn'
        BY <2>1 DEF CollectionInv, TypeOK, CommitInBucket, OutcomeLast, JournalIsOwn
      <4>2. CallsIssued' /\ FinalizeIsLast' /\ StoredIsFinal'
        BY <2>1 DEF CollectionInv, CallsIssued, FinalizeIsLast, StoredIsFinal, Calls,
                    PointOfNoReturn
      <4>. QED BY <4>1, <4>2 DEF CollectionInv
    <3>2. \A p \in Owners : OwnerInv(p)'
      BY OthersKeep DEF TransactionInv
    <3>3. Milestones' /\ CompletedIsDurable'
      BY DriverFacts
    <3>. QED BY <3>1, <3>2, <3>3 DEF TransactionInv
  <2>. QED BY <2>2, <2>3, <2>4, <2>5 DEF Next
<1>. QED BY <1>1, TransactionInit, PTL DEF Spec

(* With a flush on every step, what execute() reports as completed is in   *)
(* the shard files, out of reach of later restarts.                        *)
THEOREM CompletedDurable == Spec => []CompletedIsDurable
<1>1. TransactionInv => CompletedIsDurable
  BY DEF TransactionInv
<1>. QED BY <1>1, TransactionInvariant, PTL

(* Between two collections an owner that has served its calls holds        *)
(* nothing staged and no journal, also after aborted and half-committed    *)
(* collections: a later rollback cannot restore an old snapshot.           *)
THEOREM NothingLeft == Spec => []NoTransactionLeft
<1>1. TransactionInv => NoTransactionLeft
  <2>. SUFFICES ASSUME TransactionInv, phase = "idle", NEW o \in Owners, inbox[o] = <<>>
                PROVE  staged[o] = {} /\ \A c \in Collections : journal[o][c] = NoEntry
    BY DEF NoTransactionLeft
  <2>1. TypeOK /\ CleanupComes(o) /\ Calls(o) = {}
    BY DEF TransactionInv, CollectionInv, OwnerInv, Calls
  <2>2. \A c \in Collections : c \notin staged[o]
    BY <2>1 DEF CleanupComes
  <2>3. \A c \in Collections : journal[o][c] = NoEntry
    BY <2>1, DriverState DEF CleanupComes
  <2>. QED BY <2>1, <2>2, <2>3 DEF TypeOK
<1>. QED BY <1>1, TransactionInvariant, PTL

(* When execute() returns because an owner was not ready or a sample was   *)
(* rejected, no owner can train on any sample of the collection, in        *)
(* collect_only mode and online.                                           *)
THEOREM RejectedIsGone == Spec => []RejectedLeavesNothing
<1>1. TransactionInv => RejectedLeavesNothing
  <2>. SUFFICES ASSUME TransactionInv, NEW c \in Collections,
                       outcome[c] \in {"stage_failed", "rejected"}, NEW o \in Owners,
                       NEW s \in Trainable(o), s[1] = c
                PROVE  FALSE
    BY DEF RejectedLeavesNothing, LeavesNothing, SamplesOf
  <2>1. OutcomeLast /\ StoredIsFinal /\ CleanupComes(o) /\ Settled(o) /\ Revocable(o)
    BY DEF TransactionInv, CollectionInv, OwnerInv
  <2>2. phase \in Ops => c # cur
    BY <2>1 DEF OutcomeLast
  <2>3. ~PointOfNoReturn(c) /\ ~CommitRaised(c)
    BY <2>2 DEF PointOfNoReturn, CommitRaised, Ops
  <2>4. CASE CollectOnly
    BY <2>1, <2>3, <2>4 DEF Trainable, StoredIsFinal
  <2>5. CASE ~CollectOnly
    <3>1. journal[o][c] # NoEntry
      BY <2>1, <2>3, <2>5 DEF Trainable, Revocable, Kept
    <3>2. <<"rollback", c>> \in Calls(o)
      BY <2>1, <2>2, <3>1 DEF CleanupComes, Ops
    <3>. QED BY <2>1, <3>2 DEF Settled
  <2>. QED BY <2>4, <2>5
<1>. QED BY <1>1, TransactionInvariant, PTL

(* What execute() reports as completed is trainable in full on every owner *)
(* whose process has not been replaced since it committed.                 *)
THEOREM CompletedIsEverywhere == Spec => []CompletedEverywhere
<1>1. TransactionInv => CompletedEverywhere
  <2>. SUFFICES ASSUME TransactionInv, NEW c \in Collections, outcome[c] = "completed",
                       NEW o \in Owners, inc[o] = ackInc[c][o]
                PROVE  Share(c, o) \subseteq Trainable(o)
    BY DEF CompletedEverywhere
  <2>1. OutcomeLast /\ Settled(o) /\ TakesAll(o)
    BY DEF TransactionInv, CollectionInv, OwnerInv
  <2>2. <<"finalize", c>> \notin Calls(o)
    BY <2>1 DEF Settled
  <2>3. ~(c = cur /\ phase = "finalize")
    BY <2>1 DEF OutcomeLast, Ops
  <2>. QED BY <2>1, <2>2, <2>3 DEF TakesAll
<1>. QED BY <1>1, TransactionInvariant, PTL

(* No handler takes away what is there to stay: a rollback restores a      *)
(* snapshot that has it.                                                   *)
LEMMA HandlersKeepTrainable ==
  ASSUME TransactionInv, NEW o \in Owners, NEW c \in Collections, OwnerCall(o, c),
         NEW d \in Collections, PointOfNoReturn(d), NEW p \in Owners
  PROVE  Trainable(p) \intersect SamplesOf(d) \subseteq Trainable(p)'
<1>1. TypeOK /\ Revocable(o) /\ Settled(o) /\ FinalizeIsLast
  BY DEF TransactionInv, CollectionInv, OwnerInv
<1>2. CASE p # o
  BY <1>1, <1>2, OwnerOnly DEF Trainable
<1>3. CASE p = o /\ (Stage(o, c) \/ StartCommit(o, c) \/ RejectSample(o, c) \/ FailSample(o, c)
                       \/ Abort(o, c))
  BY <1>3 DEF Stage, StartCommit, RejectSample, FailSample, Abort, Trainable
<1>4. CASE p = o /\ AcceptSample(o, c)
  <2>1. UNCHANGED <<unflushed, shards>> /\ buffer[o] \subseteq buffer'[o]
    BY <1>1, <1>4 DEF AcceptSample, TypeOK
  <2>. QED BY <2>1, <1>4 DEF Trainable
<1>5. CASE p = o /\ Rollback(o, c)
  <2>1. /\ UNCHANGED <<unflushed, shards>>
        /\ buffer'[o] = IF journal[o][c] = NoEntry THEN buffer[o] ELSE journal[o][c].snapshot
    <3>1. buffer' = IF journal[o][c] = NoEntry THEN buffer
                    ELSE [buffer EXCEPT ![o] = journal[o][c].snapshot]
      BY <1>5 DEF Rollback
    <3>. QED BY <3>1, <1>1, <1>5 DEF Rollback, TypeOK
  <2>2. <<"rollback", c>> \in Calls(o)
    BY <1>1, <1>5, CallsShrink DEF Rollback
  <2>3. ~PointOfNoReturn(c) /\ (d # c => d < c)
    BY <1>1, <2>2, ServedWhen
  <2>4. \A s \in buffer[o] \intersect SamplesOf(d) : s \in buffer'[o]
    BY <2>1, <2>3, <1>1 DEF Revocable, SamplesOf
  <2>. QED BY <2>1, <2>4, <1>5 DEF Trainable
<1>6. CASE p = o /\ Finalize(o, c)
  BY <1>6, FinalizeKeeps
<1>. QED BY <1>2, <1>3, <1>4, <1>5, <1>6 DEF OwnerCall

(* Once every owner has committed a collection, no step takes a sample of  *)
(* it away from the process that holds it, in particular no rollback of a  *)
(* later collection, which restores a snapshot of the whole buffer.        *)
THEOREM CommittedStays == Spec => CommittedDataSurvives
<1>1. ASSUME TransactionInv, [Next]_vars, NEW c \in Collections, NEW o \in Owners,
             AllCommitted(c), inc'[o] = inc[o]
      PROVE  Trainable(o) \intersect SamplesOf(c) \subseteq Trainable(o)'
  <2>1. TypeOK /\ PointOfNoReturn(c)
    BY <1>1 DEF TransactionInv, CollectionInv, Milestones, AllCommitted
  <2>2. CASE Driver \/ UNCHANGED vars
    <3>1. UNCHANGED <<buffer, unflushed, shards>>
      BY <2>2 DEF Driver, Begin, AfterStage, AfterCommit, AfterFinalize, AfterCleanup, Cleanup,
         Proceed, Finish, workerVars, vars
    <3>. QED BY <3>1 DEF Trainable
  <2>3. ASSUME NEW p \in Owners, NEW d \in Collections, OwnerCall(p, d)
        PROVE  Trainable(o) \intersect SamplesOf(c) \subseteq Trainable(o)'
    BY <1>1, <2>1, <2>3, HandlersKeepTrainable
  <2>4. ASSUME NEW p \in Owners, Restart(p)
        PROVE  Trainable(o) \intersect SamplesOf(c) \subseteq Trainable(o)'
    <3>1. p # o
      BY <1>1, <2>1, <2>4 DEF Restart, TypeOK, Incarnations
    <3>2. buffer'[o] = buffer[o] /\ unflushed'[o] = unflushed[o] /\ shards' = shards
      BY <2>1, <2>4, <3>1 DEF Restart, TypeOK
    <3>. QED BY <3>2 DEF Trainable
  <2>. QED BY <1>1, <2>2, <2>3, <2>4 DEF Next
<1>2. TransactionInv /\ [Next]_vars =>
        [\A c \in Collections, o \in Owners :
            AllCommitted(c) /\ inc'[o] = inc[o] =>
               Trainable(o) \intersect SamplesOf(c) \subseteq Trainable(o)']_vars
  BY <1>1
<1>. QED BY <1>2, TransactionInvariant, PTL DEF Spec, CommittedDataSurvives

-----------------------------------------------------------------------------
(* The refinement of the all-or-nothing collection, in collect_only mode.  *)

(* What training can see.                                                  *)
LEMMA VisibleIs ==
  /\ \A s : s \in AbstractContent <=>
       s \in Collections \X Owners \X (1..MaxBucket) /\ s[3] <= bucket[s[1]][s[2]]
  /\ \A s : s \in AbstractVisible <=>
       s \in AbstractContent /\ ~IsOpen(s[1]) /\ <<s[1], s[3]>> \in Trainable(s[2])
  /\ \A s : s \in AbstractContent' <=>
       s \in Collections \X Owners \X (1..MaxBucket) /\ s[3] <= bucket'[s[1]][s[2]]
  /\ \A s : s \in AbstractVisible' <=>
       s \in AbstractContent' /\ ~IsOpen(s[1])' /\ <<s[1], s[3]>> \in Trainable(s[2])'
BY DEF AbstractContent, AbstractVisible

(* What a step that neither begins nor ends a collection keeps.            *)
LEMMA AbstractKept ==
  ASSUME UNCHANGED <<bucket, outcome, cur>>, phase' \in Ops <=> phase \in Ops
  PROVE  /\ AbstractContent' = AbstractContent /\ AbstractStatus' = AbstractStatus
         /\ \A c \in Collections : IsOpen(c)' <=> IsOpen(c)
<1>1. \A c \in Collections : IsOpen(c)' <=> IsOpen(c)
  BY DEF IsOpen
<1>2. AbstractContent' = AbstractContent
  BY DEF AbstractContent
<1>3. AbstractStatus' = AbstractStatus
  BY <1>1 DEF AbstractStatus
<1>. QED BY <1>1, <1>2, <1>3

(* Without a step that changes what is trainable, training sees the same.  *)
LEMMA AbstractStutter ==
  ASSUME UNCHANGED <<bucket, outcome, cur, stepSet>>, phase' \in Ops <=> phase \in Ops,
         \A p \in Owners : Trainable(p)' = Trainable(p)
  PROVE  UNCHANGED Atomic!vars
<1>1. /\ AbstractContent' = AbstractContent /\ AbstractStatus' = AbstractStatus
      /\ \A c \in Collections : IsOpen(c)' <=> IsOpen(c)
  BY AbstractKept
<1>2. \A s : s \in AbstractVisible' <=> s \in AbstractVisible
  <2>1. \A s \in AbstractContent : s[1] \in Collections /\ s[2] \in Owners
    BY DEF AbstractContent
  <2>. QED BY <1>1, <2>1 DEF AbstractVisible
<1>3. AbstractVisible' = AbstractVisible
  <2>1. AbstractVisible' \subseteq AbstractContent' /\ AbstractVisible \subseteq AbstractContent
    BY VisibleIs
  <2>. QED BY <1>2, <2>1
<1>4. {o \in Owners : ~stepSet[o]}' = {o \in Owners : ~stepSet[o]}
  OBVIOUS
<1>. QED BY <1>1, <1>3, <1>4 DEF Atomic!vars

(* A new collection opens.                                                 *)
LEMMA BeginOpens ==
  ASSUME TransactionInv, Begin, NEW n \in Collections, n = cur + 1
  PROVE  Atomic!Open(n)
<1>1. TypeOK /\ OutcomeLast /\ Milestones
  BY DEF TransactionInv, CollectionInv
<1>2. /\ phase = "idle" /\ phase' = "stage" /\ cur' = n
      /\ n \in Collections /\ cur \in Nat
      /\ UNCHANGED <<outcome, buffer, unflushed, shards>>
      /\ \A o \in Owners : stepSet'[o] = TRUE
      /\ \A d \in Collections : d # n => bucket'[d] = bucket[d]
      /\ bucket'[n] \in [Owners -> 0..MaxBucket]
  BY <1>1 DEF Begin, TypeOK, Collections
<1>3. /\ outcome[n] = "none"
      /\ \A o \in Owners : bucket[n][o] = 0
      /\ \A d \in Collections : ~IsOpen(d)
      /\ \A d \in Collections : IsOpen(d)' <=> d = n
      /\ \A o \in Owners : Trainable(o)' = Trainable(o)
  <2>1. ~(n <= cur) /\ n > cur
    BY <1>2
  <2>2. outcome[n] = "none" /\ \A o \in Owners : bucket[n][o] = 0
    BY <1>1, <1>2, <2>1 DEF OutcomeLast, Milestones
  <2>3. \A d \in Collections : ~IsOpen(d) /\ (IsOpen(d)' <=> d = n)
    BY <1>2 DEF IsOpen, Ops
  <2>4. \A o \in Owners : Trainable(o)' = Trainable(o)
    BY <1>2 DEF Trainable
  <2>. QED BY <2>2, <2>3, <2>4
<1>4. AbstractStatus' = [AbstractStatus EXCEPT ![n] = "open"]
  BY <1>2, <1>3 DEF AbstractStatus
<1>5. AbstractStatus[n] = "none" /\ \A d \in Collections : AbstractStatus[d] # "open"
  <2>1. \A d \in Collections : outcome[d] # "open"
    BY <1>1 DEF TypeOK, Outcomes, Failures
  <2>. QED BY <2>1, <1>2, <1>3 DEF AbstractStatus, Failures
<1>6. AbstractContent' =
        AbstractContent \union
          {s \in Collections \X Owners \X (1..MaxBucket) : s[1] = n /\ s[3] <= bucket'[n][s[2]]}
  <2>1. ASSUME NEW s \in Collections \X Owners \X (1..MaxBucket)
        PROVE  s[3] <= bucket'[s[1]][s[2]] <=>
                 s[3] <= bucket[s[1]][s[2]] \/ (s[1] = n /\ s[3] <= bucket'[n][s[2]])
    <3>1. s[1] \in Collections /\ s[2] \in Owners /\ s[3] \in Nat /\ ~(s[3] <= 0)
      BY <2>1
    <3>2. CASE s[1] = n
      BY <3>1, <3>2, <1>3
    <3>3. CASE s[1] # n
      BY <3>1, <3>3, <1>2
    <3>. QED BY <3>2, <3>3
  <2>. QED BY <2>1 DEF AbstractContent
<1>7. AbstractVisible' = AbstractVisible
  <2>1. ASSUME NEW s \in Collections \X Owners \X (1..MaxBucket)
        PROVE  s \in AbstractVisible' <=> s \in AbstractVisible
    <3>1. s[1] \in Collections /\ s[2] \in Owners /\ s[3] \in Nat /\ ~(s[3] <= 0)
      BY <2>1
    <3>2. CASE s[1] = n
      BY <3>1, <3>2, <1>3, VisibleIs
    <3>3. CASE s[1] # n
      <4>1. s \in AbstractContent' <=> s \in AbstractContent
        BY <3>1, <3>3, <1>2 DEF AbstractContent
      <4>2. ~IsOpen(s[1])' /\ ~IsOpen(s[1]) /\ Trainable(s[2])' = Trainable(s[2])
        BY <3>1, <3>3, <1>3
      <4>. QED BY <4>1, <4>2 DEF AbstractVisible
    <3>. QED BY <3>2, <3>3
  <2>. QED BY <2>1, VisibleIs
<1>8. {o \in Owners : ~stepSet[o]}' = {}
  BY <1>2
<1>. QED BY <1>2, <1>4, <1>5, <1>6, <1>7, <1>8 DEF Atomic!Open, Atomic!AllSamples, Atomic!Collections, Collections

(* The end of a collection shows to training what its owners have of it.   *)
LEMMA FinishShows ==
  ASSUME TransactionInv, phase \in {"finalize", "abort", "rollback"},
         NEW result, NEW next \in {"idle", "halted"}, Finish(result, next)
  PROVE  /\ AbstractStatus[cur] = "open"
         /\ AbstractStatus' = [AbstractStatus EXCEPT
               ![cur] = IF result \in Failures THEN "failed" ELSE result]
         /\ AbstractContent' = AbstractContent
         /\ {o \in Owners : ~stepSet[o]}' = {o \in Owners : ~stepSet[o]}
         /\ AbstractVisible' = AbstractVisible \union
              {s \in Atomic!OfCollection(cur) : <<s[1], s[3]>> \in Trainable(s[2])}
<1>1. /\ cur \in Collections /\ phase \in Ops /\ phase' \notin Ops
      /\ outcome'[cur] = result
      /\ UNCHANGED <<cur, bucket, stepSet>>
      /\ \A d \in Collections : d # cur => outcome'[d] = outcome[d]
      /\ \A o \in Owners : Trainable(o)' = Trainable(o)
  BY FinishFacts DEF Ops
<1>2. \A d \in Collections : (IsOpen(d) <=> d = cur) /\ ~IsOpen(d)'
  BY <1>1 DEF IsOpen
<1>3. AbstractStatus' = [AbstractStatus EXCEPT
         ![cur] = IF result \in Failures THEN "failed" ELSE result]
  BY <1>1, <1>2 DEF AbstractStatus
<1>4. AbstractStatus[cur] = "open"
  BY <1>1, <1>2 DEF AbstractStatus
<1>5. AbstractContent' = AbstractContent
  BY <1>1 DEF AbstractContent
<1>6. \A s \in AbstractContent :
        s \in AbstractVisible' <=>
          s \in AbstractVisible \/ (s[1] = cur /\ <<s[1], s[3]>> \in Trainable(s[2]))
  <2>. SUFFICES ASSUME NEW s \in AbstractContent
                PROVE  s \in AbstractVisible' <=>
                         s \in AbstractVisible \/ (s[1] = cur /\ <<s[1], s[3]>> \in Trainable(s[2]))
    OBVIOUS
  <2>1. s[1] \in Collections /\ s[2] \in Owners
    BY DEF AbstractContent
  <2>. QED BY <2>1, <1>1, <1>2, <1>5 DEF AbstractVisible
<1>7. AbstractVisible \subseteq AbstractContent /\ AbstractVisible' \subseteq AbstractContent
  BY <1>5 DEF AbstractVisible
<1>8. AbstractVisible' = AbstractVisible \union
        {s \in Atomic!OfCollection(cur) : <<s[1], s[3]>> \in Trainable(s[2])}
  BY <1>6, <1>7 DEF Atomic!OfCollection
<1>. QED BY <1>1, <1>3, <1>4, <1>5, <1>8

(* A completed collection is there in full, except at the owners that were *)
(* replaced.                                                               *)
LEMMA AfterFinalizeRefines ==
  ASSUME TransactionInv, AfterFinalize
  PROVE  Atomic!Complete(cur) \/ Atomic!GiveUp(cur)
<1>. DEFINE shown == {s \in Atomic!OfCollection(cur) : <<s[1], s[3]>> \in Trainable(s[2])}
<1>1. phase = "finalize" /\ shown \in SUBSET Atomic!OfCollection(cur)
  BY DEF AfterFinalize
<1>2. CASE Resolved /\ FinalizeAcked /\ Finish("completed", "idle")
  <2>1. ASSUME NEW s \in Atomic!OfCollection(cur), s[2] \in Owners, stepSet[s[2]]
        PROVE  s \in shown
    <3>. DEFINE o == s[2]
    <3>1. /\ OwnerInv(o) /\ Calls(o) = {} /\ reply[o].kind # "raise"
          /\ cur \in Collections /\ outcome[cur] = "none"
      BY <1>1, <1>2, <2>1, AllServed, DriverState DEF TransactionInv, Ops
    <3>2. ackInc[cur][o] = inc[o]
      BY <1>1, <2>1, <3>1 DEF OwnerInv, Dated
    <3>3. Share(cur, o) \subseteq Trainable(o)
      BY <3>1, <3>2 DEF OwnerInv, TakesAll
    <3>4. <<s[1], s[3]>> \in Share(cur, o)
      BY <3>1 DEF Atomic!OfCollection, AbstractContent, Share, SamplesOf, Samples
    <3>. QED BY <3>3, <3>4
  <2>2. Atomic!OfCollection(cur) \intersect Atomic!OfOwners(Owners \ {o \in Owners : ~stepSet[o]})
          \subseteq shown
    BY <2>1 DEF Atomic!OfOwners
  <2>3. /\ AbstractStatus[cur] = "open"
        /\ AbstractStatus' = [AbstractStatus EXCEPT ![cur] = "completed"]
        /\ AbstractContent' = AbstractContent
        /\ {o \in Owners : ~stepSet[o]}' = {o \in Owners : ~stepSet[o]}
        /\ AbstractVisible' = AbstractVisible \union shown
    BY <1>1, <1>2, FinishShows DEF Failures
  <2>. HIDE DEF shown
  <2>4. Atomic!Complete(cur)
    BY <1>1, <2>2, <2>3 DEF Atomic!Complete
  <2>. QED BY <2>4
<1>3. CASE Finish("ambiguous", "halted")
  <2>1. /\ AbstractStatus[cur] = "open"
        /\ AbstractStatus' = [AbstractStatus EXCEPT ![cur] = "ambiguous"]
        /\ AbstractContent' = AbstractContent
        /\ {o \in Owners : ~stepSet[o]}' = {o \in Owners : ~stepSet[o]}
        /\ AbstractVisible' = AbstractVisible \union shown
    BY <1>1, <1>3, FinishShows DEF Failures
  <2>. HIDE DEF shown
  <2>2. Atomic!GiveUp(cur)
    BY <1>1, <2>1 DEF Atomic!GiveUp
  <2>. QED BY <2>2
<1>. QED BY <1>2, <1>3 DEF AfterFinalize

(* Nothing of a failed collection is in the Feature Store.                 *)
LEMMA AfterCleanupRefines ==
  ASSUME TransactionInv, CollectOnly, AfterCleanup
  PROVE  Atomic!Fail(cur)
<1>1. PICK result \in Failures : Finish(result, "idle")
  BY DEF AfterCleanup, Failures, TransactionInv, CollectionInv, TypeOK
<1>2. phase \in {"abort", "rollback"}
  BY DEF AfterCleanup
<1>3. {s \in Atomic!OfCollection(cur) : <<s[1], s[3]>> \in Trainable(s[2])} = {}
  <2>. SUFFICES ASSUME NEW s \in Atomic!OfCollection(cur), <<s[1], s[3]>> \in Trainable(s[2])
                PROVE  FALSE
    OBVIOUS
  <2>1. s[1] = cur /\ s[2] \in Owners /\ <<s[1], s[3]>>[1] = cur
    BY DEF Atomic!OfCollection, AbstractContent
  <2>2. PointOfNoReturn(cur)
    BY <2>1 DEF TransactionInv, CollectionInv, StoredIsFinal, Trainable
  <2>3. phase = "finalize"
    BY <1>2, <2>2, DriverState DEF PointOfNoReturn, Ops
  <2>. QED BY <1>2, <2>3
<1>4. /\ AbstractStatus[cur] = "open"
      /\ AbstractStatus' = [AbstractStatus EXCEPT ![cur] = "failed"]
      /\ AbstractContent' = AbstractContent
      /\ {o \in Owners : ~stepSet[o]}' = {o \in Owners : ~stepSet[o]}
      /\ AbstractVisible' = AbstractVisible
  BY <1>1, <1>2, <1>3, FinishShows
<1>. QED BY <1>4 DEF Atomic!Fail

(* Only finalize makes samples trainable, those of its own collection:     *)
(* before execute() returns that is not seen, and after an ambiguous end   *)
(* the collection grows.                                                   *)
LEMMA HandlerRefines ==
  ASSUME TransactionInv, CollectOnly, NEW o \in Owners, NEW c \in Collections, OwnerCall(o, c)
  PROVE  Atomic!GiveUp(c) \/ UNCHANGED Atomic!vars
<1>1. TypeOK /\ JournalIsOwn
  BY DEF TransactionInv, CollectionInv
<1>2. UNCHANGED <<phase, bucket, outcome, cur, stepSet>>
  BY <1>1, OwnerOnly DEF driverVars
<1>3. CASE UNCHANGED <<unflushed, shards>>
  <2>1. \A p \in Owners : Trainable(p)' = Trainable(p)
    BY <1>3 DEF Trainable
  <2>. QED BY <1>2, <2>1, AbstractStutter
<1>4. CASE ~UNCHANGED <<unflushed, shards>>
  <2>1. /\ Finalize(o, c) /\ <<"finalize", c>> \in Calls(o)
        /\ \A p \in Owners : Trainable(p)' \subseteq
              Trainable(p) \union (IF p = o /\ journal[o][c] # NoEntry
                                   THEN journal[o][c].pending ELSE {})
    BY <1>1, <1>4, OwnerStep DEF OwnerCall, Stage, StartCommit, AcceptSample, RejectSample,
       FailSample, Abort, Rollback, Trainable
  <2>2. \A p \in Owners : Trainable(p) \subseteq Trainable(p)'
    <3>1. Trainable(o) \subseteq Trainable(o)'
      BY <2>1, FinalizeKeeps
    <3>2. \A p \in Owners : p # o => Trainable(p)' = Trainable(p)
      BY <1>1, OwnerOnly DEF Trainable
    <3>. QED BY <3>1, <3>2
  <2>3. \A p \in Owners : \A s \in Trainable(p)' : s \in Trainable(p) \/ s[1] = c
    BY <1>1, <2>1 DEF JournalIsOwn
  <2>4. c = cur /\ (phase = "finalize" \/ (phase = "halted" /\ outcome[c] = "ambiguous"))
    BY <2>1, FinalizeAlone
  <2>5. /\ AbstractContent' = AbstractContent /\ AbstractStatus' = AbstractStatus
        /\ \A d \in Collections : IsOpen(d)' <=> IsOpen(d)
    BY <1>2, AbstractKept
  <2>6. {p \in Owners : ~stepSet[p]}' = {p \in Owners : ~stepSet[p]}
    BY <1>2
  <2>7. AbstractVisible \subseteq AbstractContent /\ AbstractVisible' \subseteq AbstractContent
    BY <2>5 DEF AbstractVisible
  <2>8. ASSUME NEW s \in AbstractContent
        PROVE  s[1] \in Collections /\ s[2] \in Owners /\ <<s[1], s[3]>>[1] = s[1]
    BY DEF AbstractContent
  <2>9. CASE phase = "finalize"
    <3>1. IsOpen(c)
      BY <2>4, <2>9 DEF IsOpen, Ops
    <3>2. \A s \in AbstractContent : s \in AbstractVisible' <=> s \in AbstractVisible
      BY <2>2, <2>3, <2>5, <2>8, <3>1 DEF AbstractVisible
    <3>3. AbstractVisible' = AbstractVisible
      BY <2>7, <3>2
    <3>. QED BY <2>5, <2>6, <3>3 DEF Atomic!vars
  <2>10. CASE phase = "halted" /\ outcome[c] = "ambiguous"
    <3>. DEFINE shown == {s \in Atomic!OfCollection(c) : s \in AbstractVisible'}
    <3>1. \A d \in Collections : ~IsOpen(d) /\ ~IsOpen(d)'
      BY <2>5, <2>10 DEF IsOpen, Ops
    <3>2. \A s \in AbstractContent :
            s \in AbstractVisible' <=> s \in AbstractVisible \/ (s[1] = c /\ s \in AbstractVisible')
      BY <2>2, <2>3, <2>5, <2>8, <3>1 DEF AbstractVisible
    <3>3. AbstractVisible' = AbstractVisible \union shown
      BY <2>7, <3>2 DEF Atomic!OfCollection
    <3>4. AbstractStatus[c] = "ambiguous" /\ AbstractStatus' = [AbstractStatus EXCEPT ![c] = "ambiguous"]
      <4>1. AbstractStatus[c] = "ambiguous"
        BY <2>10, <3>1 DEF AbstractStatus, Failures
      <4>. QED BY <2>5, <4>1 DEF AbstractStatus
    <3>5. shown \in SUBSET Atomic!OfCollection(c)
      OBVIOUS
    <3>. HIDE DEF shown
    <3>6. Atomic!GiveUp(c)
      BY <2>5, <2>6, <3>3, <3>4, <3>5 DEF Atomic!GiveUp
    <3>. QED BY <3>6
  <2>. QED BY <2>4, <2>9, <2>10
<1>. QED BY <1>3, <1>4

(* A replaced process loses what it held in memory.                        *)
LEMMA RestartLoses ==
  ASSUME TransactionInv, CollectOnly, NEW o \in Owners, Restart(o)
  PROVE  Atomic!Lose(o)
<1>1. TypeOK
  BY DEF TransactionInv, CollectionInv
<1>2. /\ UNCHANGED <<phase, cur, outcome, bucket, shards>>
      /\ stepSet' = [stepSet EXCEPT ![o] = FALSE]
      /\ unflushed' = [unflushed EXCEPT ![o] = {}]
  BY DEF Restart, driverVars
<1>3. /\ AbstractContent' = AbstractContent /\ AbstractStatus' = AbstractStatus
      /\ \A d \in Collections : IsOpen(d)' <=> IsOpen(d)
  BY <1>2, AbstractKept
<1>4. {p \in Owners : ~stepSet[p]}' = {p \in Owners : ~stepSet[p]} \union {o}
  BY <1>1, <1>2 DEF TypeOK
<1>5. \A p \in Owners : Trainable(p)' \subseteq Trainable(p) /\ (p # o => Trainable(p)' = Trainable(p))
  BY <1>1, <1>2 DEF Trainable, TypeOK
<1>6. AbstractVisible' \subseteq AbstractVisible
  BY <1>3, <1>5 DEF AbstractVisible, AbstractContent
<1>7. \A s \in AbstractVisible : s[2] # o => s \in AbstractVisible'
  BY <1>3, <1>5 DEF AbstractVisible, AbstractContent
<1>8. \A s \in AbstractVisible : s \in Atomic!AllSamples
  BY DEF AbstractVisible, AbstractContent, Atomic!AllSamples, Atomic!Collections, Collections
<1>. DEFINE lost == AbstractVisible \ AbstractVisible'
<1>9. lost \in SUBSET (AbstractVisible \intersect Atomic!OfOwners({o}))
  BY <1>7, <1>8 DEF Atomic!OfOwners
<1>10. AbstractVisible' = AbstractVisible \ lost
  BY <1>6
<1>. HIDE DEF lost
<1>. QED BY <1>3, <1>4, <1>9, <1>10 DEF Atomic!Lose

(* In collect_only mode the transaction implements the all-or-nothing      *)
(* collection: the Feature Store receives a collection on every owner that *)
(* still runs or on none, unless finalize was reported as ambiguous, for   *)
(* any number of owners, samples and restarts.                             *)
THEOREM CollectOnlyIsAtomic == ASSUME CollectOnly PROVE Spec => AllOrNothing
<1>1. Init => Atomic!Init
  <2>. SUFFICES ASSUME Init PROVE Atomic!Init
    OBVIOUS
  <2>1. \A c \in Collections : ~IsOpen(c)
    BY DEF Init, IsOpen, Ops
  <2>2. AbstractStatus = [c \in Collections |-> "none"]
    BY <2>1 DEF Init, AbstractStatus, Failures
  <2>3. AbstractContent = {}
    BY DEF Init, AbstractContent
  <2>4. AbstractVisible = {}
    BY <2>3 DEF AbstractVisible
  <2>5. {o \in Owners : ~stepSet[o]} = Owners
    BY DEF Init
  <2>. QED BY <2>2, <2>3, <2>4, <2>5 DEF Atomic!Init, Atomic!Collections, Collections
<1>2. TransactionInv /\ [Next]_vars => [Atomic!Next]_(Atomic!vars)
  <2>. SUFFICES ASSUME TransactionInv, [Next]_vars
                PROVE  Atomic!Next \/ UNCHANGED Atomic!vars
    OBVIOUS
  <2>1. TypeOK /\ Atomic!Collections = Collections
    BY DEF TransactionInv, CollectionInv, Atomic!Collections, Collections
  <2>2. CASE Begin
    <3>1. PICK n \in Collections : n = cur + 1
      BY <2>1, <2>2 DEF Begin, TypeOK, Collections
    <3>2. Atomic!Open(n)
      BY <2>2, <3>1, BeginOpens
    <3>. QED BY <2>1, <3>2 DEF Atomic!Next
  <2>3. CASE AfterStage \/ AfterCommit
    <3>1. /\ phase \in Ops /\ phase' \in Ops
          /\ UNCHANGED <<bucket, outcome, cur, stepSet, buffer, unflushed, shards>>
      BY <2>3 DEF AfterStage, AfterCommit, Cleanup, Proceed, workerVars, Ops
    <3>2. \A p \in Owners : Trainable(p)' = Trainable(p)
      BY <3>1 DEF Trainable
    <3>. QED BY <3>1, <3>2, AbstractStutter
  <2>4. CASE AfterFinalize
    <3>1. cur \in Collections
      BY <2>4, DriverState DEF AfterFinalize, Ops
    <3>. QED BY <2>1, <2>4, <3>1, AfterFinalizeRefines DEF Atomic!Next
  <2>5. CASE AfterCleanup
    <3>1. cur \in Collections
      BY <2>5, DriverState DEF AfterCleanup, Ops
    <3>. QED BY <2>1, <2>5, <3>1, AfterCleanupRefines DEF Atomic!Next
  <2>6. ASSUME NEW o \in Owners, NEW c \in Collections, OwnerCall(o, c)
        PROVE  Atomic!Next \/ UNCHANGED Atomic!vars
    BY <2>1, <2>6, HandlerRefines DEF Atomic!Next
  <2>7. ASSUME NEW o \in Owners, Restart(o)
        PROVE  Atomic!Next
    BY <2>7, RestartLoses DEF Atomic!Next
  <2>8. CASE UNCHANGED vars
    <3>1. UNCHANGED <<phase, bucket, outcome, cur, stepSet, buffer, unflushed, shards>>
      BY <2>8 DEF vars, driverVars, callVars, workerVars
    <3>2. \A p \in Owners : Trainable(p)' = Trainable(p)
      BY <3>1 DEF Trainable
    <3>. QED BY <3>1, <3>2, AbstractStutter
  <2>. QED BY <2>2, <2>3, <2>4, <2>5, <2>6, <2>7, <2>8 DEF Next, Driver
<1>. QED BY <1>1, <1>2, TransactionInvariant, PTL DEF Spec, AllOrNothing, Atomic!Spec


-----------------------------------------------------------------------------
(* The driver waits for answers that come                                  *)

(* A handler that ends the call the driver waits for answers it, and a     *)
(* commit that goes on keeps its coroutine.                                *)
LEMMA HandlersAnswer ==
  ASSUME TransactionInv, NEW o \in Owners, NEW c \in Collections, OwnerCall(o, c),
         phase \in Ops, reply'[o] = NoReply
  PROVE  /\ <<phase, cur>> \in Calls(o) =>
              \/ <<phase, cur>> \in Calls(o)'
              \/ phase = "commit" /\ running'[o][cur] # NoCommit
         /\ phase = "commit" /\ running[o][cur] # NoCommit => running'[o][cur] # NoCommit
<1>. USE DEF driverVars
<1>1. TypeOK /\ CommitInBucket /\ InOrder(o)
  BY DEF TransactionInv, CollectionInv, OwnerInv
<1>2. /\ UNCHANGED driverVars
      /\ c # cur /\ cur \in Collections => running'[o][cur] = running[o][cur]
  BY <1>1, OwnerOnly
<1>3. cur \in Collections
  BY <1>1 DEF TypeOK, Ops
<1>4. \A n \in Nat : [kind |-> "committed", rejected |-> n, inc |-> inc[o]] # NoReply
  BY DEF NoReply
<1>5. Failed(o) # NoReply /\ \A kind, n : Answer(o, kind, n) # NoReply
  BY DEF Failed, Answer, NoReply
<1>6. CASE AcceptSample(o, c) \/ RejectSample(o, c) \/ FailSample(o, c)
  <2>1. inbox' = inbox
    BY <1>1, <1>6, SampleEffect
  <2>2. CASE c # cur
    BY <1>2, <1>3, <2>1, <2>2 DEF Calls
  <2>3. CASE phase # "commit"
    BY <2>1, <2>3 DEF Calls
  <2>4. CASE c = cur /\ phase = "commit" /\ running'[o][c] = NoCommit
    <3>1. Return(o, "commit", c, Failed(o)) \/ \E n \in Nat :
            \/ Return(o, "commit", c, [kind |-> "committed", rejected |-> n, inc |-> inc[o]])
            \/ running'[o][c] = [kind |-> "commit", next |-> running[o][c].next + 1, rejected |-> n]
      BY <1>1, <1>6, SampleEffect
    <3>2. \A n : running'[o][c] # [kind |-> "commit", next |-> running[o][c].next + 1, rejected |-> n]
      BY <2>4 DEF NoCommit
    <3>3. CASE Return(o, "commit", c, Failed(o))
      <4>1. reply'[o] = Failed(o)
        BY <1>1, <2>4, <3>3, Returned
      <4>. QED BY <1>5, <4>1
    <3>4. ASSUME NEW n \in Nat,
                 Return(o, "commit", c, [kind |-> "committed", rejected |-> n, inc |-> inc[o]])
          PROVE  reply'[o] # NoReply
      <4>1. reply'[o] = [kind |-> "committed", rejected |-> n, inc |-> inc[o]]
        BY <1>1, <2>4, <3>4, Returned
      <4>. QED BY <1>4, <4>1
    <3>. QED BY <3>1, <3>2, <3>3, <3>4
  <2>. QED BY <2>1, <2>2, <2>3, <2>4 DEF Calls
<1>7. ASSUME NEW op, Starts(o, op, c),
             \/ \E answer : answer # NoReply /\ Return(o, op, c, answer)
             \/ op = "commit" /\ running'[o][c] # NoCommit
      PROVE  /\ <<phase, cur>> \in Calls(o) =>
                   \/ <<phase, cur>> \in Calls(o)'
                   \/ phase = "commit" /\ running'[o][cur] # NoCommit
             /\ phase = "commit" => running[o][cur] = NoCommit
  <2>1. /\ \A call \in Calls(o) : call \in Calls(o)' \/ call = <<op, c>>
        /\ phase = "commit" => running[o][cur] = NoCommit
    BY <1>1, <1>2, <1>7, CallServed
  <2>2. phase = op /\ cur = c => op = "commit" /\ running'[o][c] # NoCommit
    BY <1>1, <1>7, Returned
  <2>. QED BY <2>1, <2>2
<1>8. CASE StartCommit(o, c)
  <2>1. Starts(o, "commit", c)
    BY <1>8 DEF StartCommit
  <2>2. \/ \E answer : answer # NoReply /\ Return(o, "commit", c, answer)
        \/ running' = [running EXCEPT ![o][c] = [kind |-> "commit", next |-> 1, rejected |-> 0]]
    BY <1>5, <1>8 DEF StartCommit
  <2>3. running' = [running EXCEPT ![o][c] = [kind |-> "commit", next |-> 1, rejected |-> 0]]
          => running'[o][c] # NoCommit
    BY <1>1 DEF TypeOK, NoCommit
  <2>. QED BY <1>7, <2>1, <2>2, <2>3
<1>9. CASE Stage(o, c) \/ Abort(o, c) \/ Rollback(o, c) \/ Finalize(o, c)
  <2>1. \E op : Starts(o, op, c) /\ \E answer : answer # NoReply /\ Return(o, op, c, answer)
    BY <1>5, <1>9 DEF Stage, Abort, Rollback, Finalize
  <2>. QED BY <1>7, <2>1
<1>. QED BY <1>6, <1>8, <1>9 DEF OwnerCall

(* An answer is not taken back before the driver has seen it.              *)
LEMMA AnswerStays ==
  ASSUME TypeOK, NEW o \in Owners, NEW c \in Collections, OwnerCall(o, c),
         reply'[o] = NoReply
  PROVE  reply[o] = NoReply
<1>1. /\ Failed(o) # NoReply /\ \A kind, n : Answer(o, kind, n) # NoReply
      /\ \A n : [kind |-> "committed", rejected |-> n, inc |-> inc[o]] # NoReply
  BY DEF Failed, Answer, NoReply
<1>2. reply' = reply \/ \E op, answer : answer # NoReply /\ Return(o, op, c, answer)
  BY <1>1 DEF OwnerCall, Stage, StartCommit, AcceptSample, RejectSample, FailSample, Abort,
              Rollback, Finalize, Advance, RaiseInCommit
<1>. QED BY <1>2, Returned

(* execute() never waits for an answer that nobody will give, whichever    *)
(* owners are slow, fail or are replaced: the answer is there, the call is *)
(* still queued, or the owner's coroutine is at work on it.                *)
THEOREM AnswersCome == Spec => []AnswerComes
<1>1. Init => AnswerComes
  BY DEF Init, AnswerComes, Ops
<1>2. ASSUME TransactionInv, TransactionInv', AnswerComes, [Next]_vars
      PROVE  AnswerComes'
  <2>. USE DEF driverVars
  <2>. SUFFICES ASSUME phase' \in Ops, NEW o \in Owners, reply'[o] = NoReply
                PROVE  \/ <<phase', cur'>> \in Calls(o)'
                       \/ phase' = "commit" /\ running'[o][cur'] # NoCommit
    BY DEF AnswerComes
  <2>1. TypeOK /\ TypeOK'
    BY <1>2 DEF TransactionInv, CollectionInv
  <2>2. CASE Driver
    <3>1. SendAll(phase', cur')
      BY <2>2 DEF Driver, Begin, AfterStage, AfterCommit, AfterFinalize, AfterCleanup, Cleanup,
                  Proceed, Finish, Ops
    <3>2. cur' \in Collections
      BY <2>1 DEF TypeOK, Ops
    <3>. QED BY <2>1, <3>1, <3>2, CallSent
  <2>3. ASSUME NEW p \in Owners, NEW c \in Collections, OwnerCall(p, c)
        PROVE  \/ <<phase', cur'>> \in Calls(o)'
               \/ phase' = "commit" /\ running'[o][cur'] # NoCommit
    <3>1. UNCHANGED driverVars /\ phase \in Ops
      BY <2>1, <2>3, OwnerOnly
    <3>2. CASE p # o
      <4>1. inbox'[o] = inbox[o] /\ reply'[o] = reply[o] /\ running'[o] = running[o]
        BY <2>1, <2>3, <3>2, OwnerOnly
      <4>. QED BY <1>2, <3>1, <4>1 DEF AnswerComes, Calls
    <3>3. CASE p = o
      <4>1. reply[o] = NoReply
        BY <2>1, <2>3, <3>3, AnswerStays
      <4>. QED BY <1>2, <2>3, <3>1, <3>3, <4>1, HandlersAnswer DEF AnswerComes
    <3>. QED BY <3>2, <3>3
  <2>4. ASSUME NEW p \in Owners, Restart(p)
        PROVE  \/ <<phase', cur'>> \in Calls(o)'
               \/ phase' = "commit" /\ running'[o][cur'] # NoCommit
    <3>1. UNCHANGED driverVars
      BY <2>4 DEF Restart
    <3>2. p # o
      BY <2>1, <2>4, <3>1 DEF Restart, TypeOK, Failed, NoReply
    <3>3. inbox'[o] = inbox[o] /\ reply'[o] = reply[o] /\ running'[o] = running[o]
      BY <2>1, <2>4, <3>2 DEF Restart, TypeOK
    <3>. QED BY <1>2, <3>1, <3>3 DEF AnswerComes, Calls
  <2>5. CASE UNCHANGED vars
    BY <1>2, <2>5 DEF vars, callVars, workerVars, AnswerComes, Calls
  <2>. QED BY <1>2, <2>2, <2>3, <2>4, <2>5 DEF Next
<1>. QED BY <1>1, <1>2, TransactionInvariant, PTL DEF Spec
==============================================================================
