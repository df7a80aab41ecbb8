-------------------------- MODULE ReplicationProofs --------------------------
(***************************************************************************)
(* Proofs about Replication: the books of the wait add up in every round,  *)
(* and what replicate returns is true, for every set of hosts, every       *)
(* ReplicationConfig, every timeout and every order in which targets are   *)
(* asked, fail to answer and receive the write.                            *)
(***************************************************************************)
EXTENDS Replication, TLAPS

\* The result is decided exactly when the wait is over; the books are empty before
\* the targets are known; a target is asked at most once in a round.
Stages ==
    /\ res = "none" <=> pc # "done"
    /\ pc = "start" => targets = {} /\ still = {} /\ synced = {} /\ pending = {}
    /\ pc = "sleep" => still = {}
    /\ pending \intersect still = {}

\* A host is a target only if it can be asked, and nothing is counted as done before
\* the targets are known.
Fresh ==
    /\ targets \subseteq DCs
    /\ pc = "start" => \A t \in DCs : seen[t] = "nothing"

ReplInv == ReplTypeOK /\ Stages /\ Fresh /\ OutcomeHonest

\* What is known of the wait before the first request.
LEMMA ReplInitInv == ReplInit => ReplInv
  BY ReplicationAssumption
  DEF ReplInit, ReplInv, ReplTypeOK, Stages, Fresh, OutcomeHonest

\* The targets replicationTargets returns are hosts that can be asked.
LEMMA TargetsAreHosts ==
  ASSUME repl \in Configs,
         NEW ts \in IF repl.Targets = {"all"} THEN SUBSET DCs ELSE {repl.Targets \ {Pinned}}
  PROVE  ts \subseteq DCs
  BY ReplicationAssumption

LEMMA ResolveStep == ReplInv /\ Resolve => ReplInv'
  <1> SUFFICES ASSUME ReplInv, Resolve PROVE ReplInv'
    OBVIOUS
  <1> USE DEF ReplInv, ReplTypeOK, Stages, Fresh, OutcomeHonest, Resolve, Finish
  <1>1. CASE UNCHANGED <<targets, pending>> /\ Finish("nil")
    BY <1>1
  <1>2. CASE UNCHANGED <<targets, pending>> /\ Finish("Transport")
    BY <1>2
  <1>3. ASSUME NEW ts \in IF repl.Targets = {"all"} THEN SUBSET DCs ELSE {repl.Targets \ {Pinned}},
               targets' = ts, pending' = ts,
               IF ts = {} THEN Finish("nil") ELSE pc' = "round" /\ UNCHANGED res
        PROVE  ReplInv'
    <2>1. ts \subseteq DCs
      BY <1>3, TargetsAreHosts
    <2>2. CASE ts = {}
      BY <1>3, <2>2
    <2>3. CASE ts # {}
      BY <1>3, <2>1, <2>3
    <2> QED
      BY <2>2, <2>3
  <1> QED
    BY <1>1, <1>2, <1>3

\* Asking for a synchronisation changes what a target holds, not the books.
LEMMA AskSyncStep == ReplInv /\ (\E t \in DCs : AskSync(t)) => ReplInv'
  <1> SUFFICES ASSUME ReplInv, NEW t \in DCs, AskSync(t) PROVE ReplInv'
    OBVIOUS
  <1> QED
    BY DEF ReplInv, ReplTypeOK, Stages, Fresh, OutcomeHonest, AskSync

\* A target leaves pending for still, or because it was seen.
LEMMA LookStep == ReplInv /\ (\E t \in DCs : Look(t)) => ReplInv'
  <1> SUFFICES ASSUME ReplInv, NEW t \in DCs, Look(t) PROVE ReplInv'
    OBVIOUS
  <1> USE DEF ReplInv, ReplTypeOK, Stages, Fresh, OutcomeHonest, Look, Ready
  <1>1. CASE dc[t] # "absent" /\ seen' = [seen EXCEPT ![t] = dc[t]] /\ UNCHANGED still
    <2>1. dc[t] \in {"old", "new"}
      BY <1>1
    <2>2. \A u \in DCs : seen'[u] = IF u = t THEN dc[t] ELSE seen[u]
      BY <1>1
    <2> QED
      BY <1>1, <2>1, <2>2
  <1>2. CASE still' = still \union {t} /\ UNCHANGED seen
    BY <1>2
  <1> QED
    BY <1>1, <1>2

\* Only an empty rest is reported as nil, and only a rest after the deadline as a
\* failure of the wait.
LEMMA EndRoundStep == ReplInv /\ EndRound => ReplInv'
  <1> SUFFICES ASSUME ReplInv, EndRound PROVE ReplInv'
    OBVIOUS
  <1> USE DEF ReplInv, ReplTypeOK, Stages, Fresh, OutcomeHonest, EndRound, Finish
  <1>1. CASE still = {}
    BY <1>1
  <1>2. CASE still # {} /\ clock > Timeout
    BY <1>2
  <1>3. CASE still # {} /\ ~(clock > Timeout)
    BY <1>3
  <1> QED
    BY <1>1, <1>2, <1>3

LEMMA WakeStep == ReplInv /\ Wake => ReplInv'
  BY ReplicationAssumption
  DEF ReplInv, ReplTypeOK, Stages, Fresh, OutcomeHonest, Wake, Finish

\* What the directory and the clock do on their own.
LEMMA WorldStep == ReplInv /\ (Slow \/ \E t \in DCs : Arrive(t)) => ReplInv'
  BY ReplicationAssumption
  DEF ReplInv, ReplTypeOK, Stages, Fresh, OutcomeHonest, Slow, Arrive

LEMMA ReplStepInv == ReplInv /\ [ReplNext]_replVars => ReplInv'
  <1>1. ReplInv /\ UNCHANGED replVars => ReplInv'
    BY DEF ReplInv, ReplTypeOK, Stages, Fresh, OutcomeHonest, replVars
  <1> QED
    BY <1>1, ResolveStep, AskSyncStep, LookStep, EndRoundStep, WakeStep, WorldStep
    DEF ReplNext, ReplStep

\* The books of the wait add up: a target that was not seen is still to be asked,
\* in this round or the next.
THEOREM ReplTypeCorrect == ReplSpec => []ReplTypeOK
  <1>1. ReplInv => ReplTypeOK
    BY DEF ReplInv
  <1> QED
    BY <1>1, ReplInitInv, ReplStepInv, PTL DEF ReplSpec

\* replicate says nil only of an object it found on every target, and Replication only
\* after the deadline and while some target had not shown it.
THEOREM OutcomesHonest == ReplSpec => []OutcomeHonest
  <1>1. ReplInv => OutcomeHonest
    BY DEF ReplInv
  <1> QED
    BY <1>1, ReplInitInv, ReplStepInv, PTL DEF ReplSpec
=============================================================================
