----------------------------- MODULE Monitoring -----------------------------
(***************************************************************************)
(* The monitoring objects of a Shop: ServiceMonitor, dashboard, alert      *)
(* rules and the route of the alerts to Discord                            *)
(* (internal/controller/shop_controller.go: reconcileServiceMonitor,       *)
(* reconcileGrafanaDashboard; shop_alerts.go).                             *)
(*                                                                         *)
(* All but the dashboard need a CRD that may not be installed.  The route  *)
(* also needs the webhook Secret, which the DiscordChannel controller      *)
(* creates before it records the webhook in the DiscordChannel's status.   *)
(* The Shop controller reads the Secret from one informer cache; another   *)
(* informer, that of the DiscordChannel, queues the Shop.                  *)
(***************************************************************************)
EXTENDS ApiServer, FiniteSets

CONSTANT MaxDisturbances \* faults, restarts, events from elsewhere

ASSUME MonitoringAssumption == MaxDisturbances \in Nat

VARIABLES
  (* the API server *)
  crds,    \* the monitoring kinds that are installed
  channel, \* versions of the DiscordChannel
  secret,  \* versions of the webhook Secret
  made,    \* the monitoring objects that exist
  status,  \* the Shop's status: "none", "pending" or "ready"
  settled, \* whether the database and the application are ready
  (* the operator process *)
  seen,    \* the versions that the two informers have delivered
  queued,  \* whether the work queue holds the Shop
  call,    \* the call that the Shop controller's pass makes next
  budget,  \* disturbances left
  (* history *)
  missed   \* whether the last lookup missed a Secret that was there

objects == <<crds, channel, secret, made, status, settled>>
vars == <<objects, seen, queued, call, budget, missed>>

MonitoringKinds == {"ServiceMonitor", "PrometheusRule", "AlertmanagerConfig"}
Objects == MonitoringKinds \cup {"Dashboard"}

\* The calls of a pass in their order: "webhookSecret" is the lookup of the
\* Secret, "app" all that follows the monitoring objects.
After == [DiscordChannel |-> "ServiceMonitor", ServiceMonitor |-> "Dashboard",
          Dashboard |-> "PrometheusRule", PrometheusRule |-> "webhookSecret",
          webhookSecret |-> "AlertmanagerConfig", AlertmanagerConfig |-> "app"]

Init ==
  /\ crds \in SUBSET MonitoringKinds
  /\ channel = <<"absent">>
  /\ secret = <<"absent">>
  /\ made = {}
  /\ status = "none"
  /\ settled = FALSE
  /\ seen = [channel |-> 1, secret |-> 1]
  /\ queued = TRUE
  /\ call = "idle"
  /\ budget = MaxDisturbances
  /\ missed = FALSE

Disturb == budget > 0 /\ budget' = budget - 1

(***************************************************************************)
(* The Shop controller's pass.                                             *)
(***************************************************************************)

Start ==
  /\ call = "idle" /\ queued
  /\ call' = "DiscordChannel"
  /\ queued' = FALSE
  /\ UNCHANGED <<objects, seen, budget, missed>>

\* reconcileDiscordChannel: a Create refused because the cache is behind
\* ends the pass.
EnsureChannel ==
  /\ call = "DiscordChannel"
  /\ \/ /\ Latest(channel) = "absent"
        /\ channel' = Append(channel, "bare")
        /\ call' = After[call]
        /\ UNCHANGED queued
     \/ /\ Latest(channel) # "absent" /\ channel[seen.channel] # "absent"
        /\ call' = After[call]
        /\ UNCHANGED <<channel, queued>>
     \/ /\ Latest(channel) # "absent" /\ channel[seen.channel] = "absent"
        /\ call' = "idle" /\ queued' = TRUE
        /\ UNCHANGED channel
  /\ UNCHANGED <<crds, secret, made, status, settled, seen, budget, missed>>

\* Mutant of Ensure: a CRD that is missing is an error like others.
EnsureOrFail ==
  /\ call \in Objects
  /\ IF call \in crds \cup {"Dashboard"}
       THEN made' = made \cup {call} /\ call' = After[call] /\ UNCHANGED queued
       ELSE call' = "idle" /\ queued' = TRUE /\ UNCHANGED made
  /\ UNCHANGED <<crds, channel, secret, status, settled, seen, budget, missed>>

\* CreateOrUpdate of a monitoring object, skipped when its CRD is missing.
Ensure ==
  /\ call \in Objects
  /\ made' = IF call \in crds \cup {"Dashboard"} THEN made \cup {call} ELSE made
  /\ call' = After[call]
  /\ UNCHANGED <<crds, channel, secret, status, settled, seen, queued, budget, missed>>

\* Mutant of LookUpSecret: the route is made without looking.
LookUpNothing ==
  /\ call = "webhookSecret"
  /\ call' = After[call]
  /\ UNCHANGED <<objects, seen, queued, budget, missed>>

\* The lookup of reconcileAlertmanagerConfig: no Secret in the cache, no route,
\* though the Secret may exist.
LookUpSecret ==
  /\ call = "webhookSecret"
  /\ call' = IF secret[seen.secret] = "present" THEN After[call] ELSE "app"
  /\ missed' = (Latest(secret) = "present" /\ secret[seen.secret] = "absent")
  /\ UNCHANGED <<objects, seen, queued, budget>>

\* The rest of the pass: it writes the status, whose change is an event of
\* the Shop, and asks for another pass as long as something is not ready.
Finish ==
  /\ call = "app"
  /\ status' = IF settled THEN "ready" ELSE "pending"
  /\ call' = "idle"
  /\ queued' = (queued \/ status' # "ready" \/ status # "ready")
  /\ UNCHANGED <<crds, channel, secret, made, settled, seen, budget, missed>>

\* A call fails and the error ends the pass; when the write was done all the
\* same, the pass fails at its next call.
Fail ==
  /\ call # "idle"
  /\ Disturb
  /\ call' = "idle" /\ queued' = TRUE
  /\ UNCHANGED <<objects, seen, missed>>

Reconcile == Start \/ EnsureChannel \/ Ensure \/ LookUpSecret \/ Finish

(***************************************************************************)
(* The DiscordChannel controller, of which only the order matters here.    *)
(***************************************************************************)

\* r.Create of the webhook Secret.
PublishSecret ==
  /\ Latest(channel) = "bare" /\ Latest(secret) = "absent"
  /\ secret' = Append(secret, "present")
  /\ UNCHANGED <<crds, channel, made, status, settled, seen, queued, call, budget, missed>>

\* Status().Update that records the webhook: the last event it causes.
RecordWebhook ==
  /\ Latest(channel) = "bare" /\ Latest(secret) = "present"
  /\ channel' = Append(channel, "provisioned")
  /\ UNCHANGED <<crds, secret, made, status, settled, seen, queued, call, budget, missed>>

(***************************************************************************)
(* The informers and the environment.                                      *)
(***************************************************************************)

Advance(i, h) ==
  /\ seen[i] < Len(h)
  /\ seen' = [seen EXCEPT ![i] = @ + 1]
  /\ UNCHANGED <<objects, call, budget, missed>>

\* Mutant of DeliverChannel: the DiscordChannel is not owned.
DeliverChannelUnowned ==
  /\ Advance("channel", channel)
  /\ UNCHANGED queued

\* Owns(DiscordChannel): its events queue the Shop.
DeliverChannel ==
  /\ Advance("channel", channel)
  /\ queued' = TRUE

\* Secrets are cached because they are read; their events queue nothing.
DeliverSecret == Advance("secret", secret) /\ UNCHANGED queued

\* The database and the application get ready.
Settle ==
  /\ status # "none" /\ ~settled
  /\ settled' = TRUE
  /\ UNCHANGED <<crds, channel, secret, made, status, seen, queued, call, budget, missed>>

\* Another event of the Shop or of one of its children.
Wake ==
  /\ Disturb
  /\ queued' = TRUE
  /\ UNCHANGED <<objects, seen, call, missed>>

Restart ==
  /\ Disturb
  /\ call' = "idle" /\ queued' = TRUE
  /\ seen' = [channel |-> Len(channel), secret |-> Len(secret)]
  /\ UNCHANGED <<objects, missed>>

Next ==
  \/ Reconcile \/ Fail
  \/ PublishSecret \/ RecordWebhook
  \/ DeliverChannel \/ DeliverSecret
  \/ Settle \/ Wake \/ Restart

Spec == Init /\ [][Next]_vars

\* Both controllers' queues are served and the watches deliver.
Fairness ==
  /\ WF_vars(Reconcile)
  /\ WF_vars(PublishSecret) /\ WF_vars(RecordWebhook)
  /\ WF_vars(DeliverChannel) /\ WF_vars(DeliverSecret)

FairSpec == Spec /\ Fairness

(***************************************************************************)
(* Properties.                                                             *)
(***************************************************************************)

\* Every variable keeps its type; both histories only grow, and the informers
\* have delivered a part of each.
TypeOK ==
  /\ crds \subseteq MonitoringKinds
  /\ channel \in Seq({"absent", "bare", "provisioned"})
  /\ secret \in Seq({"absent", "present"})
  /\ made \subseteq crds \cup {"Dashboard"}
  /\ status \in {"none", "pending", "ready"}
  /\ settled \in BOOLEAN
  /\ seen \in [channel : 1..Len(channel), secret : 1..Len(secret)]
  /\ queued \in BOOLEAN
  /\ call \in {"idle", "app"} \cup DOMAIN After
  /\ budget \in 0..MaxDisturbances
  /\ missed \in BOOLEAN

\* "Skipped gracefully if the ServiceMonitor CRD isn't installed"
\* (shop_controller.go:1006-1008, shop_alerts.go:59-60): whatever is
\* missing, the application is reached, and what can be made is made.
MonitoringIsOptional ==
  <>(status # "none" /\ (crds \cup {"Dashboard"}) \ {"AlertmanagerConfig"} \subseteq made)

\* "Skipped (not an error) until that Secret exists" (shop_alerts.go:125): a
\* route never names a webhook Secret that was not created.
RoutesHaveSecrets ==
  "AlertmanagerConfig" \in made => Latest(secret) = "present"

\* "the owned DiscordChannel's status update re-triggers this Reconcile once
\* it's ready" (shop_alerts.go:126-127): where alerts can be routed they end
\* up being routed, in all cases but one.  The pass that this event causes may
\* be the last, and miss in its cache the Secret that caused the event.
AlertsAreRouted ==
  "AlertmanagerConfig" \in crds =>
    <>("AlertmanagerConfig" \in made) \/ <>[]missed

\* The safe half of it, for all objects: when no key is queued, no pass runs
\* and the recorded webhook has been delivered, nothing is left to make:
\* whatever a pass skipped or failed at has brought another one.  Only the
\* route may be left out, and only when the last lookup of all came before
\* the Secret was in the cache.
Quiet == ~queued /\ call = "idle" /\ channel[seen.channel] = "provisioned"

RestsWhenRouted ==
  Quiet => /\ status = "ready"
           /\ (crds \cup {"Dashboard"}) \ {"AlertmanagerConfig"} \subseteq made
           /\ "AlertmanagerConfig" \in crds \ made => missed
=============================================================================
