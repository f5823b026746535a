------------------------------- MODULE Payout -------------------------------
(***************************************************************************)
(* The way of a payout address: the owner types it into the Shop, the Shop *)
(* controller copies it into a Wallet, the Wallet controller validates it  *)
(* and publishes it in the Wallet's status, and the Shop controller hands  *)
(* what is published to the payment service's Deployment                   *)
(* (internal/controller/shop_controller.go: reconcileWallet,               *)
(* reconcileDeployment, payoutAddress; wallet_controller.go).              *)
(*                                                                         *)
(* One operator process with two workers, one for each controller, that    *)
(* share the process's informer caches: a cache read shows an old version  *)
(* of the object, and the three caches lag independently.  A pass of the   *)
(* Shop controller is reduced to the calls on this way; any of its other   *)
(* calls may fail and end it.                                              *)
(***************************************************************************)
EXTENDS ApiServer, FiniteSets

CONSTANTS
  Addresses,       \* what an owner types in
  Valid,           \* the well-formed addresses among them
  Empty,           \* no address
  MaxEdits,        \* edits of the Shop
  MaxDisturbances  \* faults, restarts, writes of others

ASSUME AddressAssumption ==
  /\ Valid \subseteq Addresses /\ Empty \notin Addresses
  /\ MaxEdits \in Nat /\ MaxDisturbances \in Nat

VARIABLES
  (* the API server, the versions of each object *)
  shop,        \* the address in the Shop's spec
  wallet,      \* the Wallet
  deployment,  \* the payment service's Deployment
  (* the operator process *)
  seen,        \* the version that each informer has delivered
  queued,      \* the work queues: "shop" and "wallet" when they hold the key
  shopPass,    \* the pass of the Shop controller's worker
  walletPass,  \* the pass of the Wallet controller's worker
  budget,      \* disturbances left
  touched      \* whether anybody else has written a child of the Shop

objects == <<shop, wallet, deployment>>
process == <<seen, queued, shopPass, walletPass>>
vars    == <<objects, process, budget, touched>>

(***************************************************************************)
(* Data.                                                                   *)
(***************************************************************************)

Typed   == Addresses \cup {Empty}
Reasons == {"none", "AddressMissing", "InvalidAddress", "AddressAccepted"}

Wallet == [exists : BOOLEAN, spec : Typed, address : Typed, reason : Reasons]
NoWallet == [exists |-> FALSE, spec |-> Empty, address |-> Empty, reason |-> "none"]

\* What the Deployment's container finds in SHOP_WALLET_ADDRESS.
Deployment == [exists : BOOLEAN, address : Typed]
NoDeployment == [exists |-> FALSE, address |-> Empty]

ShopCalls == {"idle", "getWallet", "writeWallet", "getDeployment",
              "payoutAddress", "writeDeployment"}

\* declared is the address of the Shop read at the start of the pass; base
\* and object are the version a CreateOrUpdate read and what it writes.
ShopPass == [call : ShopCalls, declared : Typed, base : Nat, object : Wallet \cup Deployment]
Rest == [call |-> "idle", declared |-> Empty, base |-> 0, object |-> NoWallet]

WalletPass == [call : {"idle", "setStatus"}, base : Nat, object : Wallet]
WalletRest == [call |-> "idle", base |-> 0, object |-> NoWallet]

Cached == [shop |-> shop[seen.shop],
           wallet |-> wallet[seen.wallet],
           deployment |-> deployment[seen.deployment]]

Init ==
  /\ shop \in {<<a>> : a \in Typed}
  /\ wallet = <<NoWallet>>
  /\ deployment = <<NoDeployment>>
  /\ seen = [shop |-> 1, wallet |-> 1, deployment |-> 1]
  /\ queued = {"shop"}
  /\ shopPass = Rest
  /\ walletPass = WalletRest
  /\ budget = MaxDisturbances
  /\ touched = FALSE

Disturb == budget > 0 /\ budget' = budget - 1

(***************************************************************************)
(* The Shop controller's worker.                                           *)
(***************************************************************************)

\* The pass goes on with call c.
Continue(c) == shopPass' = [shopPass EXCEPT !.call = c] /\ UNCHANGED queued

\* Mutant of Fail: the error is only logged.
FailLogged == shopPass' = Rest /\ UNCHANGED queued

\* return an error: the work queue takes the key back.
Fail == shopPass' = Rest /\ queued' = queued \cup {"shop"}

\* CreateOrUpdate, when the object read at version b is to become o.
Attempt(c, b, o) ==
  /\ shopPass' = [shopPass EXCEPT !.call = c, !.base = b, !.object = o]
  /\ UNCHANGED queued

\* What a Create or an Update makes of the versions h: an Update is refused
\* when its version is not the latest, a Create when the object exists.
Accepted(h, b) == IF h[b].exists THEN IsLatest(h, b) ELSE ~Latest(h).exists

StartShop ==
  /\ shopPass.call = "idle"
  /\ "shop" \in queued
  /\ queued' = queued \ {"shop"}
  /\ shopPass' = [Rest EXCEPT !.call = "getWallet", !.declared = Cached.shop]
  /\ UNCHANGED <<objects, seen, walletPass, budget, touched>>

\* reconcileWallet: CreateOrUpdate reads the cache and compares ...
GetWallet ==
  /\ shopPass.call = "getWallet"
  /\ LET old == Cached.wallet
         new == [old EXCEPT !.exists = TRUE, !.spec = shopPass.declared]
     IN  IF new = old THEN Continue("getDeployment")
                      ELSE Attempt("writeWallet", seen.wallet, new)
  /\ UNCHANGED <<objects, seen, walletPass, budget, touched>>

\* ... and then writes.  An error may hide a write that was done.
WriteWallet ==
  /\ shopPass.call = "writeWallet"
  /\ \/ /\ Accepted(wallet, shopPass.base)
        /\ wallet' = Append(wallet, shopPass.object)
        /\ Continue("getDeployment")
        /\ UNCHANGED budget
     \/ /\ ~Accepted(wallet, shopPass.base)
        /\ Fail
        /\ UNCHANGED <<wallet, budget>>
     \/ /\ Disturb
        /\ Fail
        /\ \/ UNCHANGED wallet
           \/ Accepted(wallet, shopPass.base) /\ wallet' = Append(wallet, shopPass.object)
  /\ UNCHANGED <<shop, deployment, seen, walletPass, touched>>

\* reconcileDeployment: CreateOrUpdate reads the cached Deployment.  The
\* calls before it (the other children, the database) may fail.
GetDeployment ==
  /\ shopPass.call = "getDeployment"
  /\ \/ Attempt("payoutAddress", seen.deployment, Cached.deployment) /\ UNCHANGED budget
     \/ Fail /\ Disturb
  /\ UNCHANGED <<objects, seen, walletPass, touched>>

\* The object that CreateOrUpdate writes when the payment service is to be
\* given address a; the pass is over if the Deployment read has it already.
Deploy(a) ==
  LET old == shopPass.object
      new == [exists |-> TRUE, address |-> a]
  IN  IF new = old THEN shopPass' = Rest /\ UNCHANGED queued
                   ELSE Attempt("writeDeployment", shopPass.base, new)

\* Mutant of PayoutAddress: the address of the Shop read by this pass.
PayoutDeclared ==
  /\ shopPass.call = "payoutAddress"
  /\ Deploy(shopPass.declared)
  /\ UNCHANGED <<objects, seen, walletPass, budget, touched>>

\* The mutate function of that CreateOrUpdate asks for payoutAddress, which
\* is what the cached Wallet's status says, and nothing if there is none.
PayoutAddress ==
  /\ shopPass.call = "payoutAddress"
  /\ Deploy(Cached.wallet.address)
  /\ UNCHANGED <<objects, seen, walletPass, budget, touched>>

WriteDeployment ==
  /\ shopPass.call = "writeDeployment"
  /\ \/ /\ Accepted(deployment, shopPass.base)
        /\ deployment' = Append(deployment, shopPass.object)
        /\ shopPass' = Rest
        /\ UNCHANGED <<queued, budget>>
     \/ /\ ~Accepted(deployment, shopPass.base)
        /\ Fail
        /\ UNCHANGED <<deployment, budget>>
     \/ /\ Disturb
        /\ Fail
        /\ \/ UNCHANGED deployment
           \/ /\ Accepted(deployment, shopPass.base)
              /\ deployment' = Append(deployment, shopPass.object)
  /\ UNCHANGED <<shop, wallet, seen, walletPass, touched>>

ShopWorker ==
  \/ StartShop
  \/ GetWallet
  \/ WriteWallet
  \/ GetDeployment
  \/ PayoutAddress
  \/ WriteDeployment

(***************************************************************************)
(* The Wallet controller's worker.                                         *)
(***************************************************************************)

\* Mutant of Validated: a rejection shows where the address should.
ValidatedWithReason(a) == IF a \in Valid THEN a ELSE "InvalidAddress"

\* The switch of WalletReconciler.Reconcile and IsValidAddress.
Validated(a) == IF a \in Valid THEN a ELSE Empty
Verdict(a) == CASE a = Empty -> "AddressMissing"
                [] a \in Valid -> "AddressAccepted"
                [] OTHER -> "InvalidAddress"

StartWallet ==
  /\ walletPass.call = "idle"
  /\ "wallet" \in queued
  /\ queued' = queued \ {"wallet"}
  /\ LET w == Cached.wallet
     IN  walletPass' =
           IF w.exists
             THEN [call |-> "setStatus", base |-> seen.wallet,
                   object |-> [w EXCEPT !.address = Validated(w.spec),
                                        !.reason = Verdict(w.spec)]]
             ELSE WalletRest
  /\ UNCHANGED <<objects, seen, shopPass, budget, touched>>

\* setStatus: Status().Update of the copy; an error queues the key again.
SetStatus ==
  /\ walletPass.call = "setStatus"
  /\ walletPass' = WalletRest
  /\ \/ /\ IsLatest(wallet, walletPass.base)
        /\ wallet' = Written(wallet, walletPass.object)
        /\ UNCHANGED <<queued, budget>>
     \/ /\ ~IsLatest(wallet, walletPass.base)
        /\ queued' = queued \cup {"wallet"}
        /\ UNCHANGED <<wallet, budget>>
     \/ /\ Disturb
        /\ queued' = queued \cup {"wallet"}
        /\ \/ UNCHANGED wallet
           \/ /\ IsLatest(wallet, walletPass.base)
              /\ wallet' = Written(wallet, walletPass.object)
  /\ UNCHANGED <<shop, deployment, seen, shopPass, touched>>

WalletWorker == StartWallet \/ SetStatus

(***************************************************************************)
(* The watches (the two SetupWithManager) and restarts.                    *)
(***************************************************************************)

\* The informer of one kind moves on, and the keys in ks are queued.
Deliver(kind, h, ks) ==
  /\ seen[kind] < Len(h)
  /\ seen' = [seen EXCEPT ![kind] = seen[kind] + 1]
  /\ queued' = queued \cup ks
  /\ UNCHANGED <<objects, shopPass, walletPass, budget, touched>>

DeliverShop == Deliver("shop", shop, {"shop"})

\* Mutant of DeliverWallet: the Shop controller does not own Wallets.
DeliverWalletAlone == Deliver("wallet", wallet, {"wallet"})

\* For(Wallet) of the one controller, Owns(Wallet) of the other.
DeliverWallet == Deliver("wallet", wallet, {"wallet", "shop"})

DeliverDeployment == Deliver("deployment", deployment, {"shop"})

\* The process stops anywhere and starts again; its informers list everything.
Restart ==
  /\ Disturb
  /\ shopPass' = Rest
  /\ walletPass' = WalletRest
  /\ seen' = [shop |-> Len(shop), wallet |-> Len(wallet), deployment |-> Len(deployment)]
  /\ queued' = {"shop"} \cup (IF Latest(wallet).exists THEN {"wallet"} ELSE {})
  /\ UNCHANGED <<objects, touched>>

(***************************************************************************)
(* The environment.                                                        *)
(***************************************************************************)

\* The owner changes the address.
Declare ==
  /\ Len(shop) <= MaxEdits
  /\ \E a \in Typed \ {Latest(shop)} : shop' = Append(shop, a)
  /\ UNCHANGED <<wallet, deployment, process, budget, touched>>

\* The Deployment controller reports the rollout: a new version, same spec.
ReportRollout ==
  /\ Disturb
  /\ Latest(deployment).exists
  /\ deployment' = Append(deployment, Latest(deployment))
  /\ UNCHANGED <<shop, wallet, process, touched>>

\* Somebody else edits what the Shop controller keeps: a Wallet's spec, the
\* container's environment.
Tamper ==
  /\ Disturb
  /\ touched' = TRUE
  /\ \E a \in Typed :
       \/ /\ Latest(wallet).exists
          /\ wallet' = Written(wallet, [Latest(wallet) EXCEPT !.spec = a])
          /\ UNCHANGED deployment
       \/ /\ Latest(deployment).exists
          /\ deployment' = Written(deployment, [exists |-> TRUE, address |-> a])
          /\ UNCHANGED wallet
  /\ UNCHANGED <<shop, process>>

Next ==
  \/ ShopWorker
  \/ WalletWorker
  \/ DeliverShop \/ DeliverWallet \/ DeliverDeployment
  \/ Restart
  \/ Declare \/ ReportRollout \/ Tamper

Spec == Init /\ [][Next]_vars

\* Both work queues are served and the watches deliver.  Nothing is promised
\* of owners, faults and restarts; no periodic requeue and no resync helps.
Fairness ==
  /\ WF_vars(ShopWorker)
  /\ WF_vars(WalletWorker)
  /\ WF_vars(DeliverShop) /\ WF_vars(DeliverWallet) /\ WF_vars(DeliverDeployment)

FairSpec == Spec /\ Fairness

(***************************************************************************)
(* Properties.                                                             *)
(***************************************************************************)

TypeOK ==
  /\ shop \in Seq(Typed) /\ Len(shop) \in 1..MaxEdits + 1
  /\ wallet \in Seq(Wallet) /\ deployment \in Seq(Deployment)
  /\ seen.shop \in 1..Len(shop)
  /\ seen.wallet \in 1..Len(wallet)
  /\ seen.deployment \in 1..Len(deployment)
  /\ queued \subseteq {"shop", "wallet"}
  /\ shopPass \in ShopPass
  /\ walletPass \in WalletPass
  /\ budget \in 0..MaxDisturbances
  /\ touched \in BOOLEAN

\* Reached[i]: the first declaration that version i of the Deployment can
\* have come from, after those that its earlier versions came from; 0 for
\* none, and beyond the last when there is no such declaration.
Reached[i \in Nat] ==
  IF i <= 1 THEN 0
  ELSE LET p  == Reached[i - 1]
           a  == deployment[i].address
           qs == {q \in p..Len(shop) :
                    a = IF q = 0 THEN Empty ELSE Validated(shop[q])}
       IN  IF qs = {} THEN Len(shop) + 1
                      ELSE CHOOSE q \in qs : \A r \in qs : q <= r

Contract == INSTANCE PayoutContract
              WITH declared <- shop, at <- Reached[Len(deployment)],
                   shown <- Latest(deployment).address

\* The payment service is given only validated addresses, in the order the
\* owner declared them: a retry, a stale cache or a restart never brings an
\* address back that was replaced, unless somebody else has written a child
\* (shop_controller.go:949-983).
KeepsPromise == Contract!Spec

\* Nothing is left to do: both queues are empty, both workers idle, and the
\* watches have delivered everything.
AllSeen == seen = [shop |-> Len(shop), wallet |-> Len(wallet), deployment |-> Len(deployment)]
Quiet == queued = {} /\ shopPass.call = "idle" /\ walletPass.call = "idle" /\ AllSeen

\* "No requeue is needed" (shop_controller.go:972), the safe half of it: the
\* operator never comes to rest before the payment service has what the owner
\* declared last, if that is a valid address, and none otherwise.  A write
\* that failed, a stale cache, an edit of somebody else: each leaves an event
\* or a key that brings the next pass.
RestsWhenRight ==
  Quiet => Latest(deployment) = [exists |-> TRUE, address |-> Validated(Latest(shop))]

\* The whole of it: the payment service ends up with that, whatever failed or
\* was changed by others on the way.
PayoutArrives ==
  <>[](Latest(deployment) = [exists |-> TRUE, address |-> Validated(Latest(shop))])
=============================================================================
