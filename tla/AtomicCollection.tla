-------------------------- MODULE AtomicCollection --------------------------
(***************************************************************************)
(* What a drafter-sample collection promises to training: its samples      *)
(* become trainable on every owner together, or on none.  The one way out  *)
(* is an ambiguous finalize, which is reported as such.  Samples held in   *)
(* the memory of an owner are lost with its process.                       *)
(*                                                                         *)
(* A sample is <<collection, owner, index>>.                               *)
(***************************************************************************)
EXTENDS Naturals

CONSTANTS
  Owners,          \* drafter owners (one worker process each)
  MaxCollections,  \* collections are numbered 1 .. MaxCollections
  MaxBucket        \* bound on one owner's share of a collection

VARIABLES
  status,   \* per collection: none, open, completed, failed, ambiguous
  content,  \* the samples the opened collections consist of
  fresh,    \* owners whose process started after the last Open
  visible   \* the samples that training may use

vars == <<status, content, fresh, visible>>

Collections == 1..MaxCollections
AllSamples  == Collections \X Owners \X (1..MaxBucket)

OfCollection(c) == {s \in content : s[1] = c}
OfOwners(R)     == {s \in AllSamples : s[2] \in R}

Init ==
  /\ status = [c \in Collections |-> "none"]
  /\ content = {}
  /\ fresh = Owners
  /\ visible = {}

(* An owner's share of a collection is numbered from 1.                    *)
Open(c) ==
  /\ status[c] = "none"
  /\ \A d \in Collections : status[d] # "open"
  /\ status' = [status EXCEPT ![c] = "open"]
  /\ \E size \in [Owners -> 0..MaxBucket] :
        content' = content \union {s \in AllSamples : s[1] = c /\ s[3] <= size[s[2]]}
  /\ fresh' = {}
  /\ UNCHANGED visible

(* All of a completed collection is trainable, except on an owner whose    *)
(* process was replaced meanwhile.                                         *)
Complete(c) ==
  /\ status[c] = "open"
  /\ status' = [status EXCEPT ![c] = "completed"]
  /\ \E share \in SUBSET OfCollection(c) :
        /\ OfCollection(c) \intersect OfOwners(Owners \ fresh) \subseteq share
        /\ visible' = visible \union share
  /\ UNCHANGED <<content, fresh>>

Fail(c) ==
  /\ status[c] = "open"
  /\ status' = [status EXCEPT ![c] = "failed"]
  /\ UNCHANGED <<content, fresh, visible>>

(* Only an ambiguous collection may be trainable in part, and may grow.    *)
GiveUp(c) ==
  /\ status[c] \in {"open", "ambiguous"}
  /\ status' = [status EXCEPT ![c] = "ambiguous"]
  /\ \E share \in SUBSET OfCollection(c) : visible' = visible \union share
  /\ UNCHANGED <<content, fresh>>

Lose(o) ==
  /\ fresh' = fresh \union {o}
  /\ \E lost \in SUBSET (visible \intersect OfOwners({o})) : visible' = visible \ lost
  /\ UNCHANGED <<status, content>>

Next ==
  \/ \E c \in Collections : Open(c) \/ Complete(c) \/ Fail(c) \/ GiveUp(c)
  \/ \E o \in Owners : Lose(o)

Spec == Init /\ [][Next]_vars
=============================================================================
