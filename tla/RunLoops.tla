------------------------------ MODULE RunLoops -------------------------------
(***************************************************************************)
(* The loops of the coordinator on the store, and what they wait for.      *)
(* dispatch_run and expire_leases send on the stream of an agent, a        *)
(* channel with a limit, and a full channel blocks the whole loop until    *)
(* the agent reads or the stream is closed: neither send has a timeout.    *)
(* RunStore has the transactions; here the steps of the loops are between  *)
(* their sends, and fairness is stated for what the code does by itself.   *)
(***************************************************************************)
EXTENDS RunStore

CONSTANT QueueSize  \* places of a stream's channel (256)

VARIABLES
  stream,   \* messages in the channel of an agent's session, NoSession if none
  sending,  \* for each loop, the stream its awaited send is on
  notified  \* the agent the expiry loop sends its cancellation to, or None

sendVars == <<stream, sending, notified>>
loopVars == <<vars, sendVars>>

NoSession == 0 - 1

(* An awaited send is on the stream of the session ("current") or on one   *)
(* that has lost its session ("detached"), which lives until its           *)
(* connection ends: it may still be "read", or be "closed" and fail.       *)
LoopsInit ==
  /\ Init
  /\ stream = [g \in Agents |-> NoSession]
  /\ sending = [l \in {"dispatch", "expiry"} |-> "idle"]
  /\ notified = None

Receiver(l) == IF l = "dispatch" THEN attempts[offer].agent_id ELSE notified

WaitsFor(l, g) == sending[l] = "current" /\ Receiver(l) = g

(* A send on the stream of an agent's session, which may be replaced or    *)
(* removed after the sender was cloned from it.                            *)
SendOn(l, g) ==
  \E s \in {"current", "detached"} : sending' = [sending EXCEPT ![l] = s]

Delivered(l) ==
  /\ \/ /\ sending[l] = "current" /\ stream[Receiver(l)] < QueueSize
        /\ stream' = [stream EXCEPT ![Receiver(l)] = @ + 1]
     \/ sending[l] = "read" /\ UNCHANGED stream
  /\ sending' = [sending EXCEPT ![l] = "idle"]

Failed(l) ==
  /\ sending[l] = "closed"
  /\ sending' = [sending EXCEPT ![l] = "idle"]
  /\ UNCHANGED stream

-----------------------------------------------------------------------------
(* The dispatch loop reserves an agent that has a session, creates the     *)
(* attempt and sends the offer.                                            *)
OfferAttempt(r, g, a) ==
  /\ stream[g] # NoSession
  /\ CreateAttempt(r, g, a)
  /\ SendOn("dispatch", g)
  /\ UNCHANGED <<stream, notified>>

OfferSent ==
  \/ Delivered("dispatch") /\ SendAssignment /\ UNCHANGED notified
  \/ Failed("dispatch") /\ ReleaseOffer /\ UNCHANGED notified

(* The expiry loop goes on with a pass only when its last cancellation was *)
(* sent.                                                                   *)
ExpiryStep ==
  /\ sending["expiry"] = "idle"
  /\ ExpiryScan \/ \E row \in scan : ClaimExpired(row)
  /\ UNCHANGED sendVars

(* finish_expired_attempt and the cancellation of the agent's task; an     *)
(* attempt that is not expiring any more is passed over.                   *)
ExpireAttempt(a) ==
  /\ sending["expiry"] = "idle"
  /\ FinishExpired(a)
  /\ IF attempts[a].state = "expiring" /\ stream[attempts[a].agent_id] # NoSession
     THEN SendOn("expiry", attempts[a].agent_id) /\ notified' = attempts[a].agent_id
     ELSE UNCHANGED <<sending, notified>>
  /\ UNCHANGED stream

(* Mutant: a send that fails is tried again for ever.                      *)
CancelDelivered ==
  /\ Delivered("expiry")
  /\ notified' = None
  /\ UNCHANGED vars

CancelSent ==
  /\ Delivered("expiry") \/ Failed("expiry")
  /\ notified' = None
  /\ UNCHANGED vars

-----------------------------------------------------------------------------
(* Streams.  Other handlers send on a stream too; a channel serves its     *)
(* senders in the order they came, so they do not overtake a waiting loop. *)
OtherSend(g) ==
  /\ stream[g] \in 0..(QueueSize - 1)
  /\ \A l \in DOMAIN sending : ~WaitsFor(l, g)
  /\ stream' = [stream EXCEPT ![g] = @ + 1]
  /\ UNCHANGED <<vars, sending, notified>>

Read(g) ==
  /\ stream[g] > 0
  /\ stream' = [stream EXCEPT ![g] = @ - 1]
  /\ UNCHANGED <<vars, sending, notified>>

Detach(g) ==
  sending' = [l \in DOMAIN sending |-> IF WaitsFor(l, g) THEN "detached" ELSE sending[l]]

(* The session ends.                                                       *)
Close(g) ==
  /\ stream[g] # NoSession
  /\ stream' = [stream EXCEPT ![g] = NoSession]
  /\ Detach(g)
  /\ UNCHANGED <<vars, notified>>

(* A session, which replaces the one there was, begins with the settings   *)
(* in its channel.                                                         *)
Register(g) ==
  /\ stream' = [stream EXCEPT ![g] = 1]
  /\ Detach(g)
  /\ UNCHANGED <<vars, notified>>

EndDetached(l) ==
  /\ sending[l] = "detached"
  /\ \E s \in {"read", "closed"} : sending' = [sending EXCEPT ![l] = s]
  /\ UNCHANGED <<vars, stream, notified>>

LoseCoordinator ==
  /\ Crash
  /\ stream' = [g \in Agents |-> NoSession]
  /\ sending' = [l \in DOMAIN sending |-> "idle"] /\ notified' = None

StreamStep ==
  \/ \E g \in Agents : OtherSend(g) \/ Read(g) \/ Close(g) \/ Register(g)
  \/ \E l \in DOMAIN sending : EndDetached(l)

(* What involves no stream.                                                *)
StoreStep ==
  /\ \/ Create \/ AgentMessage \/ Operator \/ Health \/ Tick
     \/ \E S \in SUBSET Runs : DispatchPass(S)
     \/ \E r \in Runs : SkipCandidate(r)
     \/ sending["expiry"] = "idle" /\ AbortExpiryPass
  /\ UNCHANGED sendVars

LoopsNext ==
  \/ StoreStep
  \/ \E r \in Runs, g \in Agents, a \in Attempts : OfferAttempt(r, g, a)
  \/ OfferSent
  \/ ExpiryStep
  \/ \E a \in Attempts : ExpireAttempt(a)
  \/ CancelSent
  \/ StreamStep
  \/ LoseCoordinator

LoopsSpec == LoopsInit /\ [][LoopsNext]_loopVars

(***************************************************************************)
(* The expiry loop and the worker that classifies results are intervals    *)
(* that run again whatever their last pass returned.  Of the streams it is *)
(* assumed that one with messages is read or ends, with or without its     *)
(* session: the code has no keepalive and no timeout that would see to it. *)
(* Agents, operators, dispatch and the clock owe nothing.                  *)
(***************************************************************************)

(* Mutant: the worker only replays attempts that were accepted.            *)
ReconcileAccepted(a) ==
  /\ attempts[a].state = "finished" /\ attempts[a].accepted
  /\ evidence[a] = None
  /\ \E confirmed \in BOOLEAN :
       RecordEvidence(a, attempts[a].outcome, confirmed)
  /\ UNCHANGED sendVars

(* reconcile_unclassified on a row of unclassified_attempts: the evidence  *)
(* of a stored result is recorded if no handler did.                       *)
Reconcile(a) ==
  /\ attempts[a].state = "finished"
  /\ evidence[a] = None
  /\ \E confirmed \in BOOLEAN :
       RecordEvidence(a, attempts[a].outcome, confirmed)
  /\ UNCHANGED sendVars

ExpiryLoop == ExpiryStep \/ (\E a \in Attempts : ExpireAttempt(a)) \/ CancelSent

LoopsFairness ==
  /\ WF_loopVars(ExpiryLoop)
  /\ WF_loopVars(\E a \in Attempts : Reconcile(a))
  /\ \A g \in Agents : WF_loopVars(Read(g) \/ Close(g))
  /\ \A l \in {"dispatch", "expiry"} : WF_loopVars(EndDetached(l))

LoopsFairSpec == LoopsSpec /\ LoopsFairness

-----------------------------------------------------------------------------
(* A run is running on a lease that ended more than a heartbeat ago.       *)
Lapsed(r) ==
  /\ runs[r].state = "running"
  /\ \E a \in LiveOf(r) : attempts[a].lease_expires_at + HeartbeatSeconds < now

(* No run stays on a lease that ended: the attempt is ended, or an agent   *)
(* that is still there renews it.  docs/architecture.md says that after    *)
(* renewal loss "the coordinator eventually creates another attempt".      *)
RunNotWedged == \A r \in Runs : Lapsed(r) ~> ~Lapsed(r)

(* Attempts that an expiry pass claimed and then did not finish because it *)
(* was aborted or the coordinator died.                                    *)
Orphaned(r) ==
  \E a \in AttemptsOf(r) : attempts[a].state = "expiring" /\ a \notin claimed

(* The expiry loop frees every run whose lease ended, however its sends    *)
(* wait for streams that fill up, close or are replaced and wherever the   *)
(* coordinator crashes, unless the run's attempt was orphaned between its  *)
(* claim and its finish.                                                   *)
LapsedRunFreed == \A r \in Runs : Lapsed(r) ~> (~Lapsed(r) \/ Orphaned(r))

(* queued_runs holds a run back until its failures are classified, and     *)
(* that never lasts: reconcile_unclassified makes up for every handler     *)
(* that failed or died before it recorded the evidence.                    *)
RunNotHeldBack ==
  \A r \in Runs : AwaitsClassification(r) ~> ~AwaitsClassification(r)
=============================================================================
