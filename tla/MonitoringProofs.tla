-------------------------- MODULE MonitoringProofs --------------------------
(***************************************************************************)
(* Proofs about Monitoring, for any number of disturbances.                *)
(*                                                                         *)
(* The argument: a Secret that was published stays, so that what the       *)
(* lookup has found in a cache, however old, is still there when the route *)
(* is made.  At rest everything is made because a pass that leaves         *)
(* something out either queues another one or is overtaken by an event     *)
(* that does; for the route this event is that of the recorded webhook.    *)
(* By then the Secret exists, so that the pass it causes finds it or       *)
(* misses it.                                                              *)
(***************************************************************************)
EXTENDS Monitoring, TLAPS

\* The Secret is published once, before any webhook is recorded, and stays;
\* the route is next only when it was found.
SecretInv ==
  /\ Latest(secret) = "absent" => \A i \in 1..Len(secret) : secret[i] = "absent"
  /\ \A i \in 1..Len(channel) : channel[i] = "provisioned" => Latest(secret) = "present"
  /\ call = "AlertmanagerConfig" => Latest(secret) = "present"

IInv == TypeOK /\ SecretInv /\ RoutesHaveSecrets

\* What an append does to a history: all but the last version stays.
LEMMA Grown ==
  ASSUME NEW S, NEW h \in Seq(S), NEW o \in S
  PROVE  /\ Append(h, o) \in Seq(S) /\ Len(Append(h, o)) = Len(h) + 1
         /\ Latest(Append(h, o)) = o
         /\ \A i \in 1..Len(h) : Append(h, o)[i] = h[i]
  BY DEF Latest

\* The invariant holds at the start.
LEMMA InvInit == Init => IInv
<1> SUFFICES ASSUME Init PROVE IInv
  OBVIOUS
<1>1. /\ channel = <<"absent">> /\ Len(channel) = 1
      /\ secret = <<"absent">> /\ Len(secret) = 1 /\ secret[1] = "absent"
  BY DEF Init
<1>2. channel \in Seq({"absent", "bare", "provisioned"}) /\ secret \in Seq({"absent", "present"})
  BY <1>1
<1>3. seen \in [channel : 1..Len(channel), secret : 1..Len(secret)]
  BY <1>1 DEF Init
<1>4. TypeOK
  <2>1. crds \subseteq MonitoringKinds /\ made \subseteq crds \cup {"Dashboard"}
    BY DEF Init
  <2>2. /\ status \in {"none", "pending", "ready"} /\ settled \in BOOLEAN
        /\ queued \in BOOLEAN /\ call \in {"idle", "app"} \cup DOMAIN After
    BY DEF Init
  <2>3. budget \in 0..MaxDisturbances
    BY MonitoringAssumption DEF Init
  <2>4. missed \in BOOLEAN
    BY Zenon DEF Init
  <2> QED BY <1>2, <1>3, <2>1, <2>2, <2>3, <2>4 DEF TypeOK
<1>5. SecretInv /\ RoutesHaveSecrets
  BY <1>1 DEF Init, SecretInv, RoutesHaveSecrets
<1> QED BY <1>4, <1>5 DEF IInv

\* Every step keeps the types; the informers never pass the end of a history.
LEMMA TypeNext == TypeOK /\ [Next]_vars => TypeOK'
<1> SUFFICES ASSUME TypeOK, [Next]_vars PROVE TypeOK'
  OBVIOUS
<1> USE DEF TypeOK
<1>0. /\ channel \in Seq({"absent", "bare", "provisioned"}) /\ Len(channel) \in Nat \ {0}
      /\ secret \in Seq({"absent", "present"}) /\ Len(secret) \in Nat \ {0}
      /\ seen.channel \in 1..Len(channel) /\ seen.secret \in 1..Len(secret)
      /\ seen = [channel |-> seen.channel, secret |-> seen.secret]
  OBVIOUS
<1>1. CASE Start
  BY <1>1 DEF Start, objects, After
<1>2. CASE EnsureChannel
  <2>1. channel' = channel \/ channel' = Append(channel, "bare")
    BY <1>2 DEF EnsureChannel
  <2>2. channel' \in Seq({"absent", "bare", "provisioned"}) /\ Len(channel') \in Nat
        /\ Len(channel) <= Len(channel')
    <3>1. PICK h \in Seq({"absent", "bare", "provisioned"}) : h = channel
      BY <1>0
    <3>2. CASE channel' = channel
      BY <1>0, <3>2
    <3>3. CASE channel' = Append(channel, "bare")
      <4>1. /\ Append(h, "bare") \in Seq({"absent", "bare", "provisioned"})
            /\ Len(Append(h, "bare")) = Len(h) + 1
        BY Grown
      <4> QED BY <1>0, <3>1, <3>3, <4>1
    <3> QED BY <2>1, <3>2, <3>3
  <2>3. seen \in [channel : 1..Len(channel'), secret : 1..Len(secret)]
    BY <1>0, <2>2
  <2>4. call' \in {"idle", "ServiceMonitor"} /\ queued' \in BOOLEAN
        /\ UNCHANGED <<crds, secret, made, status, settled, seen, budget, missed>>
    BY <1>2 DEF EnsureChannel, After
  <2> QED BY <2>2, <2>3, <2>4 DEF After
<1>3. CASE Ensure
  <2>1. /\ made' \subseteq crds \cup {"Dashboard"}
        /\ call' \in {"Dashboard", "PrometheusRule", "webhookSecret", "app"}
        /\ UNCHANGED <<crds, channel, secret, status, settled, seen, queued, budget, missed>>
    BY <1>3 DEF Ensure, After, Objects, MonitoringKinds
  <2> QED BY <2>1 DEF After
<1>4. CASE LookUpSecret
  <2>1. missed' \in BOOLEAN
    BY <1>4, Zenon DEF LookUpSecret
  <2>2. call' \in {"AlertmanagerConfig", "app"} /\ UNCHANGED <<objects, seen, queued, budget>>
    BY <1>4 DEF LookUpSecret, After
  <2> QED BY <2>1, <2>2 DEF objects, After
<1>5. CASE Finish
  <2>1. status' \in {"none", "pending", "ready"} /\ call' = "idle" /\ queued' \in BOOLEAN
        /\ UNCHANGED <<crds, channel, secret, made, settled, seen, budget, missed>>
    BY <1>5 DEF Finish
  <2> QED BY <2>1
<1>6. CASE Fail
  BY <1>6, MonitoringAssumption DEF Fail, Disturb, objects
<1>7. CASE PublishSecret
  <2>1. secret' \in Seq({"absent", "present"}) /\ Len(secret') \in Nat /\ Len(secret) <= Len(secret')
    BY <1>0, <1>7 DEF PublishSecret
  <2>2. seen \in [channel : 1..Len(channel), secret : 1..Len(secret')]
    BY <1>0, <2>1
  <2> QED BY <1>7, <2>1, <2>2 DEF PublishSecret
<1>8. CASE RecordWebhook
  <2>1. /\ channel' \in Seq({"absent", "bare", "provisioned"}) /\ Len(channel') \in Nat
        /\ Len(channel) <= Len(channel')
    BY <1>0, <1>8 DEF RecordWebhook
  <2>2. seen \in [channel : 1..Len(channel'), secret : 1..Len(secret)]
    BY <1>0, <2>1
  <2> QED BY <1>8, <2>1, <2>2 DEF RecordWebhook
<1>9. CASE DeliverChannel
  <2>1. seen' = [seen EXCEPT !["channel"] = seen.channel + 1] /\ seen.channel + 1 \in 1..Len(channel)
    BY <1>0, <1>9 DEF DeliverChannel, Advance
  <2> QED BY <1>0, <1>9, <2>1 DEF DeliverChannel, Advance, objects
<1>10. CASE DeliverSecret
  <2>1. seen' = [seen EXCEPT !["secret"] = seen.secret + 1] /\ seen.secret + 1 \in 1..Len(secret)
    BY <1>0, <1>10 DEF DeliverSecret, Advance
  <2> QED BY <1>0, <1>10, <2>1 DEF DeliverSecret, Advance, objects
<1>11. CASE Settle
  BY <1>11 DEF Settle
<1>12. CASE Wake
  BY <1>12, MonitoringAssumption DEF Wake, Disturb, objects
<1>13. CASE Restart
  <2>1. seen' \in [channel : 1..Len(channel), secret : 1..Len(secret)]
    BY <1>0, <1>13 DEF Restart
  <2> QED BY <1>13, <2>1, MonitoringAssumption DEF Restart, Disturb, objects
<1>14. CASE UNCHANGED vars
  BY <1>14 DEF vars, objects
<1> QED BY <1>1, <1>2, <1>3, <1>4, <1>5, <1>6, <1>7, <1>8, <1>9, <1>10, <1>11, <1>12, <1>13, <1>14
        DEF Next, Reconcile

\* Every step keeps the invariant: only PublishSecret writes the Secret, and
\* only LookUpSecret leads to the route.
LEMMA InvNext == IInv /\ [Next]_vars => IInv'
<1> SUFFICES ASSUME IInv, [Next]_vars PROVE IInv'
  OBVIOUS
<1>0. TypeOK /\ TypeOK' /\ SecretInv /\ RoutesHaveSecrets
  BY TypeNext DEF IInv
<1>1. /\ secret \in Seq({"absent", "present"}) /\ Len(secret) \in Nat \ {0}
      /\ seen.secret \in 1..Len(secret) /\ seen.channel \in 1..Len(channel)
      /\ seen = [channel |-> seen.channel, secret |-> seen.secret]
      /\ \A i \in 1..Len(secret) : secret[i] \in {"absent", "present"}
      /\ channel \in Seq({"absent", "bare", "provisioned"})
  BY <1>0 DEF TypeOK
<1> SUFFICES SecretInv' /\ RoutesHaveSecrets'
  BY <1>0 DEF IInv
<1>2. ASSUME UNCHANGED secret,
             channel' = channel \/ channel' = Append(channel, "bare"),
             call' = "AlertmanagerConfig" => Latest(secret) = "present",
             "AlertmanagerConfig" \in made' => Latest(secret) = "present"
      PROVE  SecretInv' /\ RoutesHaveSecrets'
  <2>1. ASSUME NEW i \in 1..Len(channel'), channel'[i] = "provisioned"
        PROVE  Latest(secret) = "present"
    BY <1>0, <1>1, <1>2, <2>1 DEF SecretInv
  <2> QED BY <1>0, <1>1, <1>2, <2>1 DEF SecretInv, RoutesHaveSecrets
<1>3. CASE Start
  BY <1>0, <1>2, <1>3 DEF Start, objects, RoutesHaveSecrets
<1>4. CASE EnsureChannel
  BY <1>0, <1>2, <1>4 DEF EnsureChannel, After, RoutesHaveSecrets
<1>5. CASE Ensure
  <2>1. call' # "AlertmanagerConfig"
    BY <1>5 DEF Ensure, After, Objects, MonitoringKinds
  <2>2. "AlertmanagerConfig" \in made' => Latest(secret) = "present"
    BY <1>0, <1>5 DEF Ensure, SecretInv, RoutesHaveSecrets
  <2> QED BY <1>2, <1>5, <2>1, <2>2 DEF Ensure
<1>6. CASE LookUpSecret
  <2>1. call' = "AlertmanagerConfig" => Latest(secret) = "present"
    <3>1. call' = "AlertmanagerConfig" => secret[seen.secret] = "present"
      BY <1>6 DEF LookUpSecret
    <3>2. Latest(secret) \in {"absent", "present"}
      BY <1>1 DEF Latest
    <3>3. Latest(secret) = "absent" => secret[seen.secret] = "absent"
      BY <1>0, <1>1 DEF SecretInv
    <3> QED BY <3>1, <3>2, <3>3
  <2> QED BY <1>0, <1>2, <1>6, <2>1 DEF LookUpSecret, objects, RoutesHaveSecrets
<1>7. CASE Finish \/ Fail
  BY <1>0, <1>2, <1>7 DEF Finish, Fail, objects, RoutesHaveSecrets
<1>8. CASE PublishSecret
  <2>1. secret' = Append(secret, "present") /\ UNCHANGED <<seen, made, call>>
    BY <1>8 DEF PublishSecret
  <2>2. Latest(secret') = "present"
    <3>1. PICK h \in Seq({"absent", "present"}) : h = secret
      BY <1>1
    <3>2. Latest(Append(h, "present")) = "present"
      BY Grown
    <3> QED BY <2>1, <3>1, <3>2
  <2> QED BY <2>2 DEF SecretInv, RoutesHaveSecrets
<1>9. CASE Settle \/ Wake
  BY <1>0, <1>2, <1>9 DEF Settle, Wake, objects, SecretInv, RoutesHaveSecrets
<1>14. CASE RecordWebhook
  <2>1. Latest(secret) = "present" /\ UNCHANGED <<secret, made, call>>
    BY <1>14 DEF RecordWebhook
  <2> QED BY <1>0, <2>1 DEF SecretInv, RoutesHaveSecrets
<1>10. CASE DeliverChannel
  BY <1>0, <1>2, <1>10 DEF DeliverChannel, Advance, objects, SecretInv, RoutesHaveSecrets
<1>11. CASE DeliverSecret
  BY <1>0, <1>2, <1>11 DEF DeliverSecret, Advance, objects, SecretInv, RoutesHaveSecrets
<1>12. CASE Restart
  BY <1>0, <1>2, <1>12 DEF Restart, objects, RoutesHaveSecrets
<1>13. CASE UNCHANGED vars
  BY <1>0, <1>2, <1>13 DEF vars, objects, SecretInv, RoutesHaveSecrets
<1> QED BY <1>3, <1>4, <1>5, <1>6, <1>7, <1>8, <1>9, <1>10, <1>11, <1>12, <1>13, <1>14
        DEF Next, Reconcile

\* Every variable keeps its type, whatever the number of disturbances.
THEOREM TypeCorrect == Spec => []TypeOK
<1>1. Init => IInv
  BY InvInit
<1>2. IInv /\ [Next]_vars => IInv'
  BY InvNext
<1>3. IInv => TypeOK
  BY DEF IInv
<1> QED BY <1>1, <1>2, <1>3, PTL DEF Spec

\* "Skipped (not an error) until that Secret exists": a route never names a
\* webhook Secret that was not created, however far the caches are behind.
THEOREM RouteHasSecret == Spec => []RoutesHaveSecrets
<1>1. Init => IInv
  BY InvInit
<1>2. IInv /\ [Next]_vars => IInv'
  BY InvNext
<1>3. IInv => RoutesHaveSecrets
  BY DEF IInv
<1> QED BY <1>1, <1>2, <1>3, PTL DEF Spec

\* What has to be made before the pass comes to a call.
Before == [idle |-> {}, DiscordChannel |-> {}, ServiceMonitor |-> {},
           Dashboard |-> {"ServiceMonitor"},
           PrometheusRule |-> {"ServiceMonitor", "Dashboard"},
           webhookSecret |-> Objects \ {"AlertmanagerConfig"},
           AlertmanagerConfig |-> Objects \ {"AlertmanagerConfig"},
           app |-> Objects \ {"AlertmanagerConfig"}]

Made(S) == S \cap (crds \cup {"Dashboard"}) \subseteq made

\* The pass has made what it came by, and when no pass runs or is due all of
\* that is made, the route apart, and the Shop is reported ready.
PassInv ==
  /\ Made(Before[call])
  /\ ~queued /\ call = "idle" =>
       status = "ready" /\ Made(Objects \ {"AlertmanagerConfig"})

\* When no pass is due, one that is past the route has made it, if it knew
\* of the webhook and did not miss the Secret.
RouteInv ==
  ~queued /\ call \in {"idle", "app"} /\ channel[seen.channel] = "provisioned" =>
    Made({"AlertmanagerConfig"}) \/ missed

RestInv == IInv /\ PassInv /\ RouteInv

LEMMA RestInit == Init => RestInv
<1> SUFFICES ASSUME Init PROVE RestInv
  OBVIOUS
<1>1. IInv
  BY InvInit
<1>2. PassInv
  BY DEF Init, PassInv, Made, Before
<1>3. RouteInv
  BY DEF Init, RouteInv
<1> QED BY <1>1, <1>2, <1>3 DEF RestInv

\* A step makes no object go, and removes no CRD.
LEMMA MadeStays ==
  ASSUME TypeOK, [Next]_vars
  PROVE  /\ crds' = crds /\ made \subseteq made'
         /\ \A S : Made(S) => Made(S)'
<1>1. crds' = crds /\ made \subseteq made'
  BY DEF Next, Reconcile, Start, EnsureChannel, Ensure, LookUpSecret, Finish, Fail,
         PublishSecret, RecordWebhook, DeliverChannel, DeliverSecret, Advance, Settle, Wake,
         Restart, vars, objects
<1> QED BY <1>1 DEF Made

\* Every step keeps PassInv: a call makes its object before the next is due.
LEMMA PassNext ==
  ASSUME TypeOK, PassInv, [Next]_vars
  PROVE  PassInv'
<1>1. /\ crds' = crds /\ made \subseteq made' /\ \A S : Made(S) => Made(S)'
  BY MadeStays
<1>2. Made(Before[call]) /\ Made({}) /\ Made({})'
  BY DEF PassInv, Made
<1>3. call \in {"idle", "app"} \cup DOMAIN After
  BY DEF TypeOK
<1>4. ASSUME UNCHANGED call PROVE Made(Before[call])'
  BY <1>1, <1>2, <1>4
<1>5. ASSUME UNCHANGED <<call, status>>, ~queued' => ~queued PROVE PassInv'
  BY <1>1, <1>4, <1>5 DEF PassInv
<1>6. ASSUME call' = "idle", queued' PROVE PassInv'
  BY <1>2, <1>6 DEF PassInv, Before
<1>7. CASE Start
  BY <1>2, <1>7 DEF Start, PassInv, Before
<1>8. CASE EnsureChannel
  <2>1. CASE call' = "idle" /\ queued'
    BY <1>6, <2>1
  <2>2. CASE call' = "ServiceMonitor"
    BY <1>2, <2>2 DEF PassInv, Before
  <2> QED BY <1>8, <2>1, <2>2 DEF EnsureChannel, After
<1>9. CASE Ensure
  <2>1. PICK c \in Objects : c = call
    BY <1>9 DEF Ensure
  <2>2. c \in crds \cup {"Dashboard"} => c \in made'
    BY <1>9, <2>1 DEF Ensure
  <2>3. (Before[c] \cup {c}) \cap (crds' \cup {"Dashboard"}) \subseteq made'
    BY <1>1, <1>2, <2>1, <2>2 DEF Made
  <2>4. call' # "idle" /\ Before[call'] \subseteq Before[c] \cup {c}
    BY <1>9, <2>1 DEF Ensure, Before, After, Objects, MonitoringKinds
  <2> QED BY <2>3, <2>4 DEF PassInv, Made
<1>10. CASE LookUpSecret
  <2>1. call = "webhookSecret" /\ call' \in {"AlertmanagerConfig", "app"}
    BY <1>10 DEF LookUpSecret, After
  <2>2. Made(Objects \ {"AlertmanagerConfig"})'
    BY <1>1, <1>2, <2>1 DEF Before
  <2> QED BY <2>1, <2>2 DEF PassInv, Before
<1>11. CASE Finish
  <2>1. call = "app" /\ call' = "idle" /\ (~queued' => status' = "ready")
    BY <1>11 DEF Finish
  <2>2. Made(Objects \ {"AlertmanagerConfig"})'
    BY <1>1, <1>2, <2>1 DEF Before
  <2> QED BY <1>2, <2>1, <2>2 DEF PassInv, Before
<1>12. CASE Fail \/ Restart
  BY <1>6, <1>12 DEF Fail, Restart
<1>13. CASE PublishSecret \/ RecordWebhook \/ Settle
  BY <1>5, <1>13 DEF PublishSecret, RecordWebhook, Settle
<1>14. CASE DeliverChannel
  BY <1>5, <1>14 DEF DeliverChannel, Advance, objects
<1>15. CASE DeliverSecret
  BY <1>5, <1>15 DEF DeliverSecret, Advance, objects
<1>16. CASE Wake
  BY <1>5, <1>16 DEF Wake, objects
<1>17. CASE UNCHANGED vars
  BY <1>5, <1>17 DEF vars, objects
<1> QED BY <1>7, <1>8, <1>9, <1>10, <1>11, <1>12, <1>13, <1>14, <1>15, <1>16, <1>17
        DEF Next, Reconcile

\* Every step keeps RouteInv: only a pass that has not heard of the webhook,
\* or that misses its Secret, leaves the route out, and in the first case the
\* event of the webhook is still to come.
LEMMA RouteNext ==
  ASSUME TypeOK, SecretInv, RouteInv, [Next]_vars
  PROVE  RouteInv'
<1>1. \A S : Made(S) => Made(S)'
  BY MadeStays
<1>2. /\ channel \in Seq({"absent", "bare", "provisioned"})
      /\ seen.channel \in 1..Len(channel)
  BY DEF TypeOK
<1>3. \A o \in {"bare", "provisioned"} : Append(channel, o)[seen.channel] = channel[seen.channel]
  BY <1>2
<1>4. ASSUME queued' PROVE RouteInv'
  BY <1>4 DEF RouteInv
<1>5. ASSUME call' \notin {"idle", "app"} PROVE RouteInv'
  BY <1>5 DEF RouteInv
<1>6. ASSUME ~queued' => ~queued,
             call' \in {"idle", "app"} => call \in {"idle", "app"},
             seen'.channel = seen.channel, missed' = missed,
             channel' = channel \/ \E o \in {"bare", "provisioned"} : channel' = Append(channel, o)
      PROVE  RouteInv'
  <2>1. channel'[seen'.channel] = channel[seen.channel]
    <3>1. CASE channel' = channel
      BY <1>6, <3>1, Zenon
    <3>2. ASSUME NEW o \in {"bare", "provisioned"}, channel' = Append(channel, o)
          PROVE  channel'[seen'.channel] = channel[seen.channel]
      BY <1>3, <1>6, <3>2, Zenon
    <3> QED BY <1>6, <3>1, <3>2
  <2> QED BY <1>1, <1>6, <2>1 DEF RouteInv
<1>7. CASE Start
  BY <1>5, <1>7 DEF Start
<1>8. CASE EnsureChannel
  BY <1>4, <1>5, <1>8 DEF EnsureChannel, After
<1>9. CASE Ensure
  <2>1. CASE call = "AlertmanagerConfig"
    <3>1. Made({"AlertmanagerConfig"})'
      BY <1>9, <2>1 DEF Ensure, Made
    <3> QED BY <3>1 DEF RouteInv
  <2>2. CASE call # "AlertmanagerConfig"
    <3>1. call' \notin {"idle", "app"}
      BY <1>9, <2>2 DEF Ensure, After, Objects, MonitoringKinds
    <3> QED BY <1>5, <3>1
  <2> QED BY <2>1, <2>2
<1>10. CASE LookUpSecret
  <2>1. CASE secret[seen.secret] = "present"
    BY <1>5, <1>10, <2>1 DEF LookUpSecret, After
  <2>2. CASE secret[seen.secret] # "present"
    <3>1. secret[seen.secret] = "absent"
      BY <2>2 DEF TypeOK
    <3>2. channel[seen.channel] = "provisioned" => Latest(secret) = "present"
      BY <1>2 DEF SecretInv
    <3>3. channel[seen.channel] = "provisioned" => missed'
      BY <1>10, <3>1, <3>2, Zenon DEF LookUpSecret
    <3>4. UNCHANGED <<channel, seen>>
      BY <1>10 DEF LookUpSecret, objects
    <3> QED BY <3>3, <3>4 DEF RouteInv
  <2> QED BY <2>1, <2>2
<1>11. CASE Finish
  BY <1>6, <1>11 DEF Finish
<1>12. CASE Fail \/ DeliverChannel \/ Wake \/ Restart
  BY <1>4, <1>12 DEF Fail, DeliverChannel, Wake, Restart
<1>13. CASE PublishSecret \/ RecordWebhook \/ Settle
  BY <1>6, <1>13 DEF PublishSecret, RecordWebhook, Settle
<1>14. CASE DeliverSecret
  <2>1. seen'.channel = seen.channel
    BY <1>14 DEF DeliverSecret, Advance, TypeOK
  <2> QED BY <1>6, <1>14, <2>1 DEF DeliverSecret, Advance, objects
<1>15. CASE UNCHANGED vars
  BY <1>6, <1>15 DEF vars, objects
<1> QED BY <1>7, <1>8, <1>9, <1>10, <1>11, <1>12, <1>13, <1>14, <1>15 DEF Next, Reconcile

\* Every step keeps what the rest needs.
LEMMA RestNext == RestInv /\ [Next]_vars => RestInv'
<1> SUFFICES ASSUME RestInv, [Next]_vars PROVE RestInv'
  OBVIOUS
<1>1. IInv /\ TypeOK /\ SecretInv /\ PassInv /\ RouteInv
  BY DEF RestInv, IInv
<1>2. IInv' /\ PassInv' /\ RouteInv'
  BY <1>1, InvNext, PassNext, RouteNext
<1> QED BY <1>2 DEF RestInv

\* Where nothing is queued and no pass runs, and the webhook is known, the Shop
\* is ready and everything that can be made is made, or the Secret was missed.
LEMMA RestIsDone == RestInv => RestsWhenRouted
<1> SUFFICES ASSUME RestInv, Quiet
             PROVE  /\ status = "ready"
                    /\ (crds \cup {"Dashboard"}) \ {"AlertmanagerConfig"} \subseteq made
                    /\ "AlertmanagerConfig" \in crds \ made => missed
  BY DEF RestsWhenRouted
<1>1. crds \subseteq MonitoringKinds /\ PassInv /\ RouteInv
  BY DEF RestInv, IInv, TypeOK
<1>2. /\ status = "ready" /\ Made(Objects \ {"AlertmanagerConfig"})
      /\ Made({"AlertmanagerConfig"}) \/ missed
  BY <1>1 DEF Quiet, PassInv, RouteInv
<1> QED BY <1>1, <1>2 DEF Made, Objects, MonitoringKinds

\* "The owned DiscordChannel's status update re-triggers this Reconcile once
\* it's ready" (shop_alerts.go:126-127): no history of failures, restarts and
\* late events leaves a Shop at rest, its webhook known, with an object that
\* it could have and has not, but the route, and that only when the last
\* lookup missed a Secret that the cache did not show yet.
THEOREM RestIsRouted == Spec => []RestsWhenRouted
<1>1. Init => RestInv
  BY RestInit
<1>2. RestInv /\ [Next]_vars => RestInv'
  BY RestNext
<1>3. RestInv => RestsWhenRouted
  BY RestIsDone
<1> QED BY <1>1, <1>2, <1>3, PTL DEF Spec
=============================================================================
