--------------------------- MODULE DiscordChannel ---------------------------
(***************************************************************************)
(* The DiscordChannel controller                                           *)
(* (internal/controller/discordchannel_controller.go): it owns a channel   *)
(* and a webhook in a Discord server on behalf of one DiscordChannel       *)
(* resource and publishes the webhook URL in the Secret "<name>-webhook".  *)
(*                                                                         *)
(* One DiscordChannel name is modelled; the name may be deleted and        *)
(* created again, each time as a new incarnation (a new UID).  Every call  *)
(* the handler makes to the API server or to Discord is a step of its own; *)
(* between two calls other processes act: the Shop controller and users    *)
(* write the resource, the garbage collector removes the Secret of an      *)
(* incarnation that is gone, another operator process runs the same        *)
(* handler, and the process may restart.                                   *)
(***************************************************************************)
EXTENDS ApiServer

CONSTANTS
  Operators,     \* operator processes (main.go; leader election is optional)
  MaxChannels,   \* channels the Discord server accepts, deleted ones included
  BotStates,     \* the states of the bot credentials that are considered
  MaxHooks,      \* webhooks Discord accepts (it refuses the 16th of a channel)
  MaxDisturbances \* bound on the steps of users, faults and restarts

ASSUME BoundsAssumption ==
  /\ MaxChannels \in Nat /\ MaxHooks \in Nat /\ MaxDisturbances \in Nat
  /\ BotStates \subseteq {"ok", "absent", "noToken"} /\ "ok" \in BotStates

VARIABLES
  (* the API server *)
  history,     \* versions of the DiscordChannel resource, see ApiServer
  secret,      \* the Secret "<name>-webhook"
  botSecret,   \* the bot credentials Secret: "ok", "absent" or "noToken"
  (* Discord *)
  maker,       \* maker[c]: the incarnation that channel c was created for
  live,        \* the channels that exist now
  hookAt,      \* hookAt[k]: the channel webhook k was created in
  (* each operator process *)
  seen,        \* the version its informer has delivered
  queued,      \* the processes whose work queue holds the resource
  pc,          \* the call its handler makes next
  obj,         \* the handler's copy of the resource ...
  base,        \* ... and the version it was read or written at
  hook,        \* the webhook its handler has just created
  budget       \* disturbances left

apiVars     == <<history, secret, botSecret>>
discordVars == <<maker, live, hookAt>>
localVars   == <<pc, obj, base, hook>>
vars == <<apiVars, discordVars, seen, queued, localVars, budget>>

(***************************************************************************)
(* Data.  0 stands for Go's empty string: no UID, no ID recorded.          *)
(***************************************************************************)

Conditions == {"none", "True", "SecretNotFound", "SecretMissingKey",
               "ChannelCreationFailed", "WebhookCreationFailed"}

Object == [uid : Nat, deleting : BOOLEAN, finalizer : BOOLEAN,
           channelID : Nat, webhookID : Nat, ready : Conditions]

\* The zero struct: what Get leaves behind when the resource does not exist.
NoObject == [uid |-> 0, deleting |-> FALSE, finalizer |-> FALSE,
             channelID |-> 0, webhookID |-> 0, ready |-> "none"]

\* A resource as the Shop controller or kubectl creates it.
NewObject(u) == [NoObject EXCEPT !.uid = u]

WebhookSecret == [owner : Nat \ {0}, hook : Nat \ {0}]
NoSecret == [owner |-> 0, hook |-> 0]

Calls == {"idle", "getBotSecret", "setCondition", "deleteChannel",
          "removeFinalizer", "addFinalizer", "createChannel", "saveChannel",
          "createWebhook", "createSecret", "saveWebhook"}

Current   == Latest(history)
Cached(w) == history[seen[w]]

Init ==
  /\ history = <<NoObject>>
  /\ secret = NoSecret
  /\ botSecret = "ok"
  /\ maker = <<>>
  /\ live = {}
  /\ hookAt = <<>>
  /\ seen = [w \in Operators |-> 1]
  /\ queued = {}
  /\ pc = [w \in Operators |-> "idle"]
  /\ obj = [w \in Operators |-> NoObject]
  /\ base = [w \in Operators |-> 0]
  /\ hook = [w \in Operators |-> 0]
  /\ budget = MaxDisturbances

(***************************************************************************)
(* How a handler moves on.                                                 *)
(***************************************************************************)

\* A step of a user, a fault or a restart.
Disturb == budget > 0 /\ budget' = budget - 1

\* What the handler of w knows: the call it makes next, its copy of the
\* resource, the version the copy stands for, the webhook just created.
Hold(w, p, o, b, k) ==
  /\ pc' = [pc EXCEPT ![w] = p]
  /\ obj' = [obj EXCEPT ![w] = o]
  /\ base' = [base EXCEPT ![w] = b]
  /\ hook' = [hook EXCEPT ![w] = k]

Drop(w) == Hold(w, "idle", NoObject, 0, 0)

\* The handler makes call p next, or returns without an error if p is "idle".
Proceed(w, p, o, b) ==
  /\ IF p = "idle" THEN Drop(w) ELSE Hold(w, p, o, b, hook[w])
  /\ UNCHANGED queued

\* return an error or RequeueAfter: the work queue takes the key back, after
\* a delay that the model leaves open.
Requeue(w) == Drop(w) /\ queued' = queued \cup {w}

\* Mutant of Write: a patch that carries no resourceVersion.
BlindWrite(w, o, p) ==
  /\ history' = Written(history, o)
  /\ Proceed(w, p, o, Len(history'))
  /\ UNCHANGED budget

\* Client.Update or Client.Status().Update of o, then call p.  The write is
\* accepted, is refused because another version is the latest, or fails:
\* the error may arrive before or after the server applied the write.
Write(w, o, p) ==
  \/ /\ IsLatest(history, base[w])
     /\ history' = Written(history, o)
     /\ Proceed(w, p, o, Len(history'))
     /\ UNCHANGED budget
  \/ /\ ~IsLatest(history, base[w])
     /\ Requeue(w)
     /\ UNCHANGED <<history, budget>>
  \/ /\ Disturb
     /\ Requeue(w)
     /\ \/ UNCHANGED history
        \/ IsLatest(history, base[w]) /\ history' = Written(history, o)

(***************************************************************************)
(* Reconcile, one action per call it makes.                                *)
(***************************************************************************)

\* What is left to create for the live resource o.
NextCreation(o) ==
  CASE o.webhookID # 0 -> "idle"
    [] o.webhookID = 0 /\ o.channelID = 0 -> "createChannel"
    [] OTHER -> "createWebhook"

\* Mutant of NextRemoval: the finalizer goes only where a channel went.
RemovalOfChannel(o) ==
  IF o.finalizer /\ o.channelID # 0 THEN "deleteChannel" ELSE "idle"

\* What is left to undo for the condemned resource o.
NextRemoval(o) ==
  CASE ~o.finalizer -> "idle"
    [] o.finalizer /\ o.channelID # 0 -> "deleteChannel"
    [] OTHER -> "removeFinalizer"

\* Mutant of Route: create first, no finalizer.
EagerRoute(o) == IF o.deleting THEN NextRemoval(o) ELSE NextCreation(o)

\* The call that follows once the bot token is at hand.
Route(o) ==
  CASE o.deleting -> NextRemoval(o)
    [] ~o.deleting /\ ~o.finalizer -> "addFinalizer"
    [] OTHER -> NextCreation(o)

\* r.Get of the resource, from the informer cache.
Start(w) ==
  /\ pc[w] = "idle"
  /\ w \in queued
  /\ queued' = queued \ {w}
  /\ IF Cached(w).uid = 0
       THEN UNCHANGED localVars
       ELSE Hold(w, "getBotSecret", Cached(w), seen[w], 0)
  /\ UNCHANGED <<apiVars, discordVars, seen, budget>>

\* The handler's copy gets the Ready condition r; Status().Update comes next.
Condition(w, r) ==
  Proceed(w, "setCondition", [obj[w] EXCEPT !.ready = r], base[w])

\* r.Get of the bot credentials; a missing Secret or key becomes a condition.
GetBotSecret(w) ==
  /\ pc[w] = "getBotSecret"
  /\ \/ /\ botSecret = "absent"
        /\ Condition(w, "SecretNotFound")
        /\ UNCHANGED budget
     \/ /\ botSecret = "noToken"
        /\ Condition(w, "SecretMissingKey")
        /\ UNCHANGED budget
     \/ /\ botSecret = "ok"
        /\ Proceed(w, Route(obj[w]), obj[w], base[w])
        /\ UNCHANGED budget
     \/ Disturb /\ Requeue(w)
  /\ UNCHANGED <<apiVars, discordVars, seen>>

\* Mutant of SetCondition: the key is not queued again.
SetConditionAndStop(w) ==
  /\ pc[w] = "setCondition"
  /\ IF IsLatest(history, base[w]) THEN history' = Written(history, obj[w])
                                   ELSE UNCHANGED history
  /\ Drop(w)
  /\ UNCHANGED <<queued, budget, secret, botSecret, discordVars, seen>>

\* Status().Update of a failure condition: a failure of this write is only
\* logged, and the key comes back in either case.
SetCondition(w) ==
  /\ pc[w] = "setCondition"
  /\ \/ /\ IsLatest(history, base[w])
        /\ history' = Written(history, obj[w])
        /\ UNCHANGED budget
     \/ /\ ~IsLatest(history, base[w])
        /\ UNCHANGED <<history, budget>>
     \/ /\ Disturb
        /\ UNCHANGED history
  /\ Requeue(w)
  /\ UNCHANGED <<secret, botSecret, discordVars, seen>>

\* Mutant of DeleteChannel: an error is only logged.
TryDeleteChannel(w) ==
  /\ pc[w] = "deleteChannel"
  /\ \/ live' = live \ {obj[w].channelID} /\ UNCHANGED budget
     \/ live' = live /\ Disturb
  /\ Proceed(w, "removeFinalizer", obj[w], base[w])
  /\ UNCHANGED <<apiVars, maker, hookAt, seen>>

\* DiscordAPIClient.DeleteChannel: a channel that is already gone (404)
\* counts as deleted; an error may arrive although Discord deleted it.
DeleteChannel(w) ==
  /\ pc[w] = "deleteChannel"
  /\ \/ /\ live' = live \ {obj[w].channelID}
        /\ Proceed(w, "removeFinalizer", obj[w], base[w])
        /\ UNCHANGED budget
     \/ /\ Disturb
        /\ live' \in {live, live \ {obj[w].channelID}}
        /\ Requeue(w)
  /\ UNCHANGED <<apiVars, maker, hookAt, seen>>

\* r.Update without the finalizer: the API server then drops the resource.
RemoveFinalizer(w) ==
  /\ pc[w] = "removeFinalizer"
  /\ Write(w, NoObject, "idle")
  /\ UNCHANGED <<secret, botSecret, discordVars, seen>>

\* r.Update with the finalizer; the same pass goes on to create.
AddFinalizer(w) ==
  /\ pc[w] = "addFinalizer"
  /\ LET o == [obj[w] EXCEPT !.finalizer = TRUE]
     IN  Write(w, o, NextCreation(o))
  /\ UNCHANGED <<secret, botSecret, discordVars, seen>>

\* Discord makes a new channel on behalf of incarnation u; names need not be
\* unique in Discord, so a second request makes a second channel.
NewChannel(u) ==
  /\ Len(maker) < MaxChannels
  /\ maker' = Append(maker, u)
  /\ live' = live \cup {Len(maker')}

\* DiscordAPIClient.CreateChannel: done, refused, or failed; a failure may
\* hide a channel that was created (the answer was lost, the 30 s are over).
CreateChannel(w) ==
  /\ pc[w] = "createChannel"
  /\ \/ /\ NewChannel(obj[w].uid)
        /\ Proceed(w, "saveChannel", [obj[w] EXCEPT !.channelID = Len(maker')], base[w])
        /\ UNCHANGED budget
     \/ /\ Len(maker) = MaxChannels
        /\ Condition(w, "ChannelCreationFailed")
        /\ UNCHANGED <<maker, live, budget>>
     \/ /\ Disturb
        /\ NewChannel(obj[w].uid) \/ UNCHANGED <<maker, live>>
        /\ Condition(w, "ChannelCreationFailed")
  /\ UNCHANGED <<apiVars, hookAt, seen>>

\* Mutants of SaveChannel: nothing is saved until the webhook exists; a save
\* that fails deletes the channel again.
SaveChannelLater(w) ==
  /\ pc[w] = "saveChannel"
  /\ Proceed(w, "createWebhook", obj[w], base[w])
  /\ UNCHANGED <<apiVars, discordVars, seen, budget>>

SaveOrUndoChannel(w) ==
  /\ pc[w] = "saveChannel"
  /\ Write(w, obj[w], "createWebhook")
  /\ live' = IF pc'[w] = "idle" THEN live \ {obj[w].channelID} ELSE live
  /\ UNCHANGED <<secret, botSecret, maker, hookAt, seen>>

\* Status().Update that records the channel; only then comes the webhook.
SaveChannel(w) ==
  /\ pc[w] = "saveChannel"
  /\ Write(w, obj[w], "createWebhook")
  /\ UNCHANGED <<secret, botSecret, discordVars, seen>>

\* Discord makes a new webhook in channel c.
NewWebhook(c) ==
  /\ c \in live
  /\ Len(hookAt) < MaxHooks
  /\ hookAt' = Append(hookAt, c)

\* Mutant of CreateWebhook: the error is not looked at.
CreateWebhookUnchecked(w) ==
  /\ pc[w] = "createWebhook"
  /\ \/ /\ NewWebhook(obj[w].channelID)
        /\ Hold(w, "createSecret", obj[w], base[w], Len(hookAt'))
     \/ Hold(w, "createSecret", obj[w], base[w], 0) /\ UNCHANGED hookAt
  /\ UNCHANGED <<apiVars, maker, live, seen, queued, budget>>

\* DiscordAPIClient.CreateWebhook, with the outcomes of CreateChannel.
CreateWebhook(w) ==
  /\ pc[w] = "createWebhook"
  /\ \/ /\ NewWebhook(obj[w].channelID)
        /\ Hold(w, "createSecret", obj[w], base[w], Len(hookAt'))
        /\ UNCHANGED <<queued, budget>>
     \/ /\ ~(obj[w].channelID \in live /\ Len(hookAt) < MaxHooks)
        /\ Condition(w, "WebhookCreationFailed")
        /\ UNCHANGED <<hookAt, budget>>
     \/ /\ Disturb
        /\ NewWebhook(obj[w].channelID) \/ UNCHANGED hookAt
        /\ Condition(w, "WebhookCreationFailed")
  /\ UNCHANGED <<apiVars, maker, live, seen>>

\* r.Create stores the Secret unless one of that name exists.
StoreSecret(w) ==
  secret' = IF secret = NoSecret
              THEN [owner |-> obj[w].uid, hook |-> hook[w]]
              ELSE secret

\* r.Create of the webhook Secret; AlreadyExists is not an error.
CreateSecret(w) ==
  /\ pc[w] = "createSecret"
  /\ \/ /\ StoreSecret(w)
        /\ Proceed(w, "saveWebhook", obj[w], base[w])
        /\ UNCHANGED budget
     \/ /\ Disturb
        /\ StoreSecret(w) \/ UNCHANGED secret
        /\ Requeue(w)
  /\ UNCHANGED <<history, botSecret, discordVars, seen>>

\* Status().Update that records the webhook and reports Ready.
SaveWebhook(w) ==
  /\ pc[w] = "saveWebhook"
  /\ Write(w, [obj[w] EXCEPT !.webhookID = hook[w], !.ready = "True"], "idle")
  /\ UNCHANGED <<secret, botSecret, discordVars, seen>>

Reconcile(w) ==
  \/ Start(w)
  \/ GetBotSecret(w)
  \/ SetCondition(w)
  \/ DeleteChannel(w)
  \/ RemoveFinalizer(w)
  \/ AddFinalizer(w)
  \/ CreateChannel(w)
  \/ SaveChannel(w)
  \/ CreateWebhook(w)
  \/ CreateSecret(w)
  \/ SaveWebhook(w)

(***************************************************************************)
(* The manager of an operator process: its watch, its restarts.            *)
(***************************************************************************)

\* The watch delivers the next version; any event queues the resource.
Deliver(w) ==
  /\ seen[w] < Len(history)
  /\ seen' = [seen EXCEPT ![w] = seen[w] + 1]
  /\ queued' = queued \cup {w}
  /\ UNCHANGED <<apiVars, discordVars, localVars, budget>>

\* The informer's periodic resync queues what the cache holds.
Resync(w) ==
  /\ Cached(w).uid # 0
  /\ queued' = queued \cup {w}
  /\ UNCHANGED <<apiVars, discordVars, seen, localVars, budget>>

\* The process stops anywhere and starts again: the handler is forgotten,
\* the new informer lists the resource as it is now.
Restart(w) ==
  /\ Disturb
  /\ Drop(w)
  /\ seen' = [seen EXCEPT ![w] = Len(history)]
  /\ queued' = IF Current.uid = 0 THEN queued \ {w} ELSE queued \cup {w}
  /\ UNCHANGED <<apiVars, discordVars>>

(***************************************************************************)
(* The environment.                                                        *)
(***************************************************************************)

\* A version that somebody else writes.
WrittenElsewhere(o) ==
  /\ Disturb
  /\ history' = Append(history, o)
  /\ UNCHANGED <<secret, botSecret, discordVars, seen, queued, localVars>>

\* The Shop controller (or a user) creates the resource.
Create == Current.uid = 0 /\ WrittenElsewhere(NewObject(Len(history) + 1))

\* The Shop controller or a user changes the spec or the labels.
Edit == Current.uid # 0 /\ WrittenElsewhere(Current)

\* kubectl delete, or the garbage collector after the Shop: a finalizer
\* keeps the resource until it is removed.
Delete ==
  /\ Current.uid # 0
  /\ ~Current.deleting
  /\ WrittenElsewhere(IF Current.finalizer
                        THEN [Current EXCEPT !.deleting = TRUE]
                        ELSE NoObject)

\* An administrator installs, breaks or removes the bot credentials.
SetBotSecret ==
  /\ Disturb
  /\ botSecret' \in BotStates \ {botSecret}
  /\ UNCHANGED <<history, secret, discordVars, seen, queued, localVars>>

\* The garbage collector removes a Secret whose owner's UID is gone.
CollectSecret ==
  /\ secret # NoSecret
  /\ secret.owner # Current.uid
  /\ secret' = NoSecret
  /\ UNCHANGED <<history, botSecret, discordVars, seen, queued, localVars, budget>>

Next ==
  \/ \E w \in Operators : Reconcile(w) \/ Deliver(w) \/ Resync(w) \/ Restart(w)
  \/ Create \/ Edit \/ Delete \/ SetBotSecret \/ CollectSecret

Spec == Init /\ [][Next]_vars

\* The work queue is served and the watch delivers; nothing is promised of
\* users, faults, restarts or the resync, whose period is hours.
Fairness ==
  /\ \A w \in Operators : WF_vars(Reconcile(w)) /\ WF_vars(Deliver(w))
  /\ WF_vars(CollectSecret)

FairSpec == Spec /\ Fairness

(***************************************************************************)
(* Properties.                                                             *)
(***************************************************************************)

TypeOK ==
  /\ history \in Seq(Object) /\ Len(history) > 0
  /\ secret \in WebhookSecret \cup {NoSecret} /\ secret.hook <= Len(hookAt)
  /\ botSecret \in BotStates
  /\ maker \in Seq(Nat) /\ Len(maker) <= MaxChannels
  /\ live \subseteq 1..Len(maker)
  /\ hookAt \in Seq(1..Len(maker)) /\ Len(hookAt) <= MaxHooks
  /\ seen \in [Operators -> 1..Len(history)]
  /\ queued \subseteq Operators
  /\ pc \in [Operators -> Calls]
  /\ obj \in [Operators -> Object]
  /\ base \in [Operators -> 0..Len(history)]
  /\ hook \in [Operators -> 0..Len(hookAt)]
  /\ budget \in 0..MaxDisturbances

\* A channel made for the present incarnation is covered by the finalizer, so
\* a delete cannot slip past the cleanup (discordchannel_controller.go:137-150).
FinalizerBeforeChannel ==
  \A c \in live : maker[c] = Current.uid => Current.finalizer

\* While the resource is not being deleted the channel it records exists in
\* Discord: no handler, however stale its copy, deletes a channel in use
\* (discordchannel_controller.go:119-126).
RecordedChannelIsLive ==
  Current.channelID # 0 /\ ~Current.deleting => Current.channelID \in live

\* The recorded webhook, and the one whose URL this incarnation's Secret
\* publishes, post to the recorded channel, whichever passes and restarts
\* made them (discordchannel_controller.go:165-174, 189-211).
WebhooksPostToRecordedChannel ==
  /\ Current.webhookID # 0 => hookAt[Current.webhookID] = Current.channelID
  /\ secret # NoSecret /\ secret.owner = Current.uid
       => hookAt[secret.hook] = Current.channelID

\* What an incarnation has recorded is never replaced, and once it is being
\* deleted nothing more is recorded: two passes on the same version cannot
\* both save (the status updates at discordchannel_controller.go:167 and 218).
RecordsAreFinal ==
  [][ LET now == Current  next == Current'
      IN  now.uid # 0 /\ next.uid = now.uid
            => /\ \A f \in {"channelID", "webhookID"} :
                    next[f] = now[f] \/ (now[f] = 0 /\ ~now.deleting)
               /\ now.deleting => next.deleting ]_vars

\* The resource is not gone before its recorded channel is
\* (discordchannel_controller.go:120-133).
GoneOnlyAfterItsChannel ==
  [][ Current.uid # 0 /\ Current'.uid = 0 => Current.channelID \notin live' ]_vars

\* What is visible of the resource in the contract.
Seen == [uid |-> Current.uid, channel |-> Current.channelID,
         condemned |-> Current.deleting]

Contract == INSTANCE ChannelContract
              WITH Incarnations <- Nat \ {0}, Channels <- Nat \ {0}, None <- 0,
                   resource <- Seen

\* The controller keeps the contract of ChannelContract, with any number of
\* processes (the whole of discordchannel_controller.go:67-226).
KeepsContract == Contract!Spec

\* Everything a provisioning pass needs.
CanProvision ==
  /\ Current.uid # 0 /\ ~Current.deleting
  /\ botSecret = "ok"
  /\ Len(maker) < MaxChannels /\ Len(hookAt) < MaxHooks

\* A resource that stays, with credentials and room in Discord, ends up with
\* its webhook recorded, whatever failed, conflicted or restarted before
\* (the retries behind discordchannel_controller.go:149-221).
Provisioned == <>[]CanProvision => <>(Current.webhookID # 0)

\* A deleted resource goes away once the credentials are back
\* (discordchannel_controller.go:119-135).
CleanedUp == <>[](botSecret = "ok") => [](Current.deleting => <>~Current.deleting)

\* A process that has seen the latest version and has neither a key nor a
\* pass left.
Rests(w) == w \notin queued /\ pc[w] = "idle" /\ seen[w] = Len(history)

\* No process comes to rest while something is left to do: a resource that is
\* there then has its finalizer and its webhook, and is not being deleted.
\* Missing credentials, errors of Discord, conflicts, restarts and the writes
\* of other processes all leave a key or an event to each process
\* (the returns at discordchannel_controller.go:84-147 and 150-221).
RestsWhenDone ==
  \A w \in Operators : Rests(w) /\ Current.uid # 0
    => Current.finalizer /\ Current.webhookID # 0 /\ ~Current.deleting

(***************************************************************************)
(* What the repository says and the code does not keep.                    *)
(***************************************************************************)

Idle == \A w \in Operators : Rests(w)

\* "DiscordChannel controller manages the actual channel/webhook lifecycle"
\* (shop_controller.go:987): once the resource is gone and the controller is
\* at rest, no channel made for it is left in Discord.
NoOrphanChannel == Idle /\ Current.uid = 0 => live = {}

\* The Ready condition "reflects the status" of the resource
\* (api/v1/discordchannel_types.go:50): with the credentials installed, a
\* provisioned resource is eventually reported Ready.
ReadyIsRestored ==
  <>[](botSecret = "ok" /\ Current.webhookID # 0 /\ ~Current.deleting)
    => <>[](Current.ready = "True")

\* "its own Discord channel, via the webhook Secret the DiscordChannel
\* controller creates once the channel/webhook exist" (shop_alerts.go:123-125),
\* whose URL is that of the webhook in the status
\* (discordchannel_controller_test.go:162 and 171): a provisioned resource
\* ends up with a Secret of its own for the webhook it records.
SecretMatchesStatus ==
  <>[](Current.webhookID # 0 /\ ~Current.deleting)
    => <>[](secret = [owner |-> Current.uid, hook |-> Current.webhookID])
=============================================================================
