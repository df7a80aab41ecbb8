---------------------------- MODULE Replication ----------------------------
(***************************************************************************)
(* core.replicate (replication.go): the wait that follows a write, until   *)
(* the object is found on every target, the deadline passes or the context *)
(* ends.  The write is replicated by the directory in its own time.        *)
(***************************************************************************)
EXTENDS Integers, FiniteSets

CONSTANTS DCs,        \* the hosts other than the pinned one, domain controllers or not
          Pinned,     \* core.server
          Configs,    \* ReplicationConfigs; the target "all" means every listed DC
          Timeout,    \* in poll intervals
          MaxClock    \* bound of the clock, beyond the deadline

ASSUME ReplicationAssumption ==
    /\ Pinned \notin DCs
    /\ Configs \subseteq [Wait : BOOLEAN, ForceSync : BOOLEAN,
                          Targets : {{"all"}} \union (SUBSET (DCs \union {Pinned}))]
    /\ Timeout \in Nat /\ MaxClock \in Nat /\ MaxClock > Timeout + 1

VARIABLES repl,      \* core.repl
          dc,        \* dc[t]: the object on t
          clock,     \* time since the wait began
          pc, res,
          targets,   \* the targets of this wait
          pending,   \* targets still to look at in this round
          still,     \* targets this round did not find it on
          synced,    \* the target forceSync was just called for, if any
          seen       \* seen[t]: what the wait saw on t when it counted t as done

replVars == <<repl, dc, clock, pc, res, targets, pending, still, synced, seen>>

Finish(r) == pc' = "done" /\ res' = r
-----------------------------------------------------------------------------
\* replicationTargets: the configured ones, or those the directory lists; an entry
\* without a host name is passed over.
Resolve ==
    /\ pc = "start"
    /\ \/ ~repl.Wait /\ Finish("nil") /\ UNCHANGED <<targets, pending>>
       \/ /\ repl.Wait
          /\ \E ts \in IF repl.Targets = {"all"} THEN SUBSET DCs ELSE {repl.Targets \ {Pinned}} :
               /\ targets' = ts /\ pending' = ts
               /\ IF ts = {} THEN Finish("nil") ELSE pc' = "round" /\ UNCHANGED res
       \/ /\ repl.Wait /\ repl.Targets = {"all"}
          /\ Finish("Transport") /\ UNCHANGED <<targets, pending>>
    /\ UNCHANGED <<repl, dc, clock, still, synced, seen>>

\* forceSync: best effort; when it is heard the write arrives on the target.
AskSync(t) ==
    /\ pc = "round" /\ repl.ForceSync
    /\ t \in pending /\ synced = {}
    /\ synced' = {t}
    /\ \/ dc' = [dc EXCEPT ![t] = "new"]
       \/ UNCHANGED dc
    /\ UNCHANGED <<repl, clock, pc, res, targets, pending, still, seen>>

Ready(t) == pc = "round" /\ t \in pending /\ (repl.ForceSync => t \in synced)

\* Mutant of Look: a target that cannot be asked is taken for done.
LookTrusting(t) ==
    /\ Ready(t)
    /\ pending' = pending \ {t} /\ synced' = {}
    /\ \/ dc[t] # "absent" /\ seen' = [seen EXCEPT ![t] = dc[t]] /\ UNCHANGED still
       \/ dc[t] = "absent" /\ still' = still \union {t} /\ UNCHANGED seen
       \/ UNCHANGED <<seen, still>>
    /\ UNCHANGED <<repl, dc, clock, pc, res, targets>>

\* objectPresentOn, on a connection of its own; a target that cannot be asked, or
\* does not have the object, is looked at again in the next round.
Look(t) ==
    /\ Ready(t)
    /\ pending' = pending \ {t} /\ synced' = {}
    /\ \/ dc[t] # "absent" /\ seen' = [seen EXCEPT ![t] = dc[t]] /\ UNCHANGED still
       \/ still' = still \union {t} /\ UNCHANGED seen
    /\ UNCHANGED <<repl, dc, clock, pc, res, targets>>

\* Mutant of EndRound: the deadline is not looked at.
EndRoundForever ==
    /\ pc = "round" /\ pending = {}
    /\ IF still = {} THEN Finish("nil") ELSE pc' = "sleep" /\ UNCHANGED res
    /\ pending' = still /\ still' = {}
    /\ UNCHANGED <<repl, dc, clock, targets, synced, seen>>

\* Mutant of EndRound: only what is left of this round is looked at again.
EndRoundDropsStill ==
    /\ pc = "round" /\ pending = {}
    /\ CASE still = {} -> Finish("nil")
         [] still # {} /\ clock > Timeout -> Finish("Replication")
         [] OTHER -> pc' = "sleep" /\ UNCHANGED res
    /\ still' = {} /\ UNCHANGED pending
    /\ UNCHANGED <<repl, dc, clock, targets, synced, seen>>

EndRound ==
    /\ pc = "round" /\ pending = {}
    /\ CASE still = {} -> Finish("nil")
         [] still # {} /\ clock > Timeout -> Finish("Replication")
         [] OTHER -> pc' = "sleep" /\ UNCHANGED res
    /\ pending' = still /\ still' = {}
    /\ UNCHANGED <<repl, dc, clock, targets, synced, seen>>

\* The poll timer fires, or the context ends first.
Wake ==
    /\ pc = "sleep"
    /\ \/ pc' = "round" /\ UNCHANGED res
       \/ Finish("Transport")
    /\ clock' = IF clock < MaxClock THEN clock + 1 ELSE clock
    /\ UNCHANGED <<repl, dc, targets, pending, still, synced, seen>>

\* The directory replicates the write to t.
Arrive(t) ==
    /\ dc[t] # "new"
    /\ dc' = [dc EXCEPT ![t] = "new"]
    /\ UNCHANGED <<repl, clock, pc, res, targets, pending, still, synced, seen>>

\* Asking a slow target takes time.
Slow ==
    /\ pc = "round" /\ clock < MaxClock
    /\ clock' = clock + 1
    /\ UNCHANGED <<repl, dc, pc, res, targets, pending, still, synced, seen>>
-----------------------------------------------------------------------------
\* The write was a create, or an update of an object that is everywhere.
ReplInit ==
    /\ repl \in Configs
    /\ \E before \in {"absent", "old"} : dc = [t \in DCs |-> before]
    /\ clock = 0 /\ pc = "start" /\ res = "none"
    /\ targets = {} /\ pending = {} /\ still = {} /\ synced = {}
    /\ seen = [t \in DCs |-> "nothing"]

ReplStep == Resolve \/ EndRound \/ Wake \/ \E t \in DCs : AskSync(t) \/ Look(t)

ReplNext == ReplStep \/ Slow \/ \E t \in DCs : Arrive(t)

ReplSpec == ReplInit /\ [][ReplNext]_replVars

\* The goroutine keeps going: every request is bounded by the operation timeout.
ReplFairSpec == ReplSpec /\ WF_replVars(ReplStep)
-----------------------------------------------------------------------------
(* Properties *)

\* Types, and the books of a round: whatever was not seen yet is still to be asked.
ReplTypeOK ==
    /\ repl \in Configs
    /\ dc \in [DCs -> {"absent", "old", "new"}] /\ clock \in 0..MaxClock
    /\ pc \in {"start", "round", "sleep", "done"}
    /\ res \in {"none", "nil", "Replication", "Transport"}
    /\ seen \in [DCs -> {"nothing", "old", "new"}]
    /\ synced \subseteq pending /\ pending \subseteq targets /\ still \subseteq targets
    /\ pc \in {"round", "sleep"} => {t \in targets : seen[t] = "nothing"} = pending \union still

\* nil means the object was found on every target, however many rounds it took and
\* whichever targets could not be reached in some of them (replication.go 57-71);
\* after an update the version found may be the old one.  A timeout is reported after
\* the deadline, and of a wait that was really not over: "the object exists and only
\* the wait did not finish" (replication.go 22-23).
OutcomeHonest ==
    /\ res = "nil" => \A t \in targets : seen[t] # "nothing"
    /\ res = "Replication" => clock > Timeout /\ \E t \in targets : seen[t] = "nothing"

\* The wait ends, though a target may never get the object.
WaitEnds == <>(pc = "done")
=============================================================================
