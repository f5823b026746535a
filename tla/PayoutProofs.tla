---------------------------- MODULE PayoutProofs ----------------------------
(***************************************************************************)
(* Proofs about Payout, for any addresses, any number of edits and any     *)
(* number of disturbances.                                                 *)
(*                                                                         *)
(* The argument: an address gets into the status of a Wallet only through  *)
(* Validated, and from there only into the Deployment.  So every version   *)
(* of a Wallet publishes a valid address or none, the copies that the two  *)
(* workers carry too, and what the Shop controller reads from a cache,     *)
(* however old, is one of these versions.                                  *)
(*                                                                         *)
(* That the payment service follows the declarations in their order needs  *)
(* more: every step of the way, the Wallet's address, its status, the      *)
(* copies that the passes carry, the Deployment, is at some declaration,   *)
(* and none is ahead of the one before it.  The caches do not break that,  *)
(* since each moves on only and a write from a stale one is refused.       *)
(* Reached, the declaration that the contract speaks of, is the least that *)
(* explains the Deployment's versions, so it is not ahead of the one that  *)
(* the Deployment really came from (OrderInv).                             *)
(*                                                                         *)
(* That the operator does not come to rest too early: when a worker has    *)
(* neither an event nor a key left, each call of its pass is about the     *)
(* latest versions, so the pass ends with what it is to achieve or with a  *)
(* write or an error, and each of these leaves an event or a key (Settled).*)
(***************************************************************************)
EXTENDS Payout, WellFoundedInduction, TLAPS

\* What the Wallet controller publishes.
Published == Valid \cup {Empty}

\* Wallets that publish nothing else, and the Deployments made from them.
GoodWallet == [exists : BOOLEAN, spec : Typed, address : Published, reason : Reasons]
Handed == {d \in Deployment : touched \/ d.address \in Published}

\* The payment service is given a valid address or none, until somebody else
\* edits the children.
OnlyPublished == ~touched => Latest(deployment).address \in Published

(***************************************************************************)
(* The inductive invariant.                                                *)
(***************************************************************************)

\* The caches show versions that there are.
CacheInv ==
  /\ shop \in Seq(Typed) /\ Len(shop) \in 1..MaxEdits + 1
  /\ seen \in [shop : 1..Len(shop), wallet : 1..Len(wallet), deployment : 1..Len(deployment)]

\* Every version is a good one.
WalletInv == wallet \in Seq(GoodWallet) /\ Len(wallet) > 0
DeploymentInv == deployment \in Seq(Handed) /\ Len(deployment) > 0

\* And so is what the workers are about to write.
ShopPassInv ==
  /\ shopPass \in ShopPass
  /\ shopPass.call = "writeWallet" => shopPass.object \in GoodWallet
  /\ shopPass.call \in {"payoutAddress", "writeDeployment"} => shopPass.object \in Handed
WalletPassInv == walletPass \in WalletPass /\ walletPass.object \in GoodWallet

RestInv ==
  /\ queued \subseteq {"shop", "wallet"} /\ budget \in 0..MaxDisturbances
  /\ touched \in BOOLEAN

IInv == CacheInv /\ WalletInv /\ DeploymentInv /\ ShopPassInv /\ WalletPassInv /\ RestInv

(***************************************************************************)
(* Histories.                                                              *)
(***************************************************************************)

\* A version that is read.
LEMMA Member ==
  ASSUME NEW S, NEW h \in Seq(S), Len(h) > 0
  PROVE  /\ Len(h) \in 1..Len(h) /\ Latest(h) \in S
         /\ \A i \in 1..Len(h) : h[i] \in S
  BY DEF Latest

\* A write adds a version.
LEMMA Grown ==
  ASSUME NEW S, NEW h \in Seq(S), NEW o \in S
  PROVE  /\ Append(h, o) \in Seq(S) /\ Len(Append(h, o)) = Len(h) + 1
         /\ Written(h, o) \in Seq(S)
         /\ Len(Written(h, o)) \in {Len(h), Len(h) + 1}
  BY DEF Written

\* A history of good versions is one of versions.
LEMMA Wider ==
  ASSUME NEW S, NEW T, S \subseteq T, NEW h \in Seq(S)
  PROVE  h \in Seq(T)
  OBVIOUS

\* What is published is an address or none, and good versions are versions.
LEMMA Data ==
  /\ Published \subseteq Typed /\ Empty \in Published
  /\ GoodWallet \subseteq Wallet /\ NoWallet \in GoodWallet
  /\ Handed \subseteq Deployment /\ NoDeployment \in Handed
<1>1. Published \subseteq Typed /\ Empty \in Published
  BY AddressAssumption DEF Published, Typed
<1>2. GoodWallet \subseteq Wallet
  BY <1>1 DEF GoodWallet, Wallet
<1>3. NoWallet \in GoodWallet
  BY <1>1 DEF GoodWallet, NoWallet, Reasons, Typed
<1>4. Handed \subseteq Deployment /\ NoDeployment \in Handed
  BY <1>1 DEF Handed, Deployment, NoDeployment
<1> QED BY <1>1, <1>2, <1>3, <1>4

\* The caches still show what there is after a history has grown.
LEMMA Behind ==
  ASSUME CacheInv, NEW a \in Nat, NEW b \in Nat,
         Len(wallet) <= a, Len(deployment) <= b,
         Len(wallet) \in Nat, Len(deployment) \in Nat
  PROVE  seen \in [shop : 1..Len(shop), wallet : 1..a, deployment : 1..b]
<1>1. 1..Len(wallet) \subseteq 1..a /\ 1..Len(deployment) \subseteq 1..b
  OBVIOUS
<1> QED BY <1>1 DEF CacheInv

\* What the informers show.
LEMMA CachedTypes ==
  ASSUME IInv
  PROVE  /\ Cached.shop \in Typed /\ Cached.wallet \in GoodWallet
         /\ Cached.deployment \in Handed
         /\ seen.wallet \in Nat /\ seen.deployment \in Nat
<1>1. /\ seen.shop \in 1..Len(shop) /\ seen.wallet \in 1..Len(wallet)
      /\ seen.deployment \in 1..Len(deployment)
  BY DEF IInv, CacheInv
<1>2. /\ shop[seen.shop] \in Typed /\ wallet[seen.wallet] \in GoodWallet
      /\ deployment[seen.deployment] \in Handed
  BY <1>1, Member DEF IInv, CacheInv, WalletInv, DeploymentInv
<1>3. Len(wallet) \in Nat /\ Len(deployment) \in Nat
  BY DEF IInv, WalletInv, DeploymentInv
<1> QED BY <1>1, <1>2, <1>3 DEF Cached

(***************************************************************************)
(* The steps of the Shop controller's worker.                              *)
(***************************************************************************)

\* IInv holds at the start.
LEMMA InvInit == Init => IInv
<1> SUFFICES ASSUME Init PROVE IInv
  OBVIOUS
<1>1. PICK a \in Typed : shop = <<a>>
  BY DEF Init
<1>2. /\ shop \in Seq(Typed) /\ Len(shop) = 1
      /\ wallet \in Seq(GoodWallet) /\ Len(wallet) = 1
      /\ deployment \in Seq(Handed) /\ Len(deployment) = 1
  BY <1>1, Data DEF Init
<1>3. seen \in [shop : 1..1, wallet : 1..1, deployment : 1..1]
  BY DEF Init
<1>4. CacheInv
  BY <1>2, <1>3, AddressAssumption DEF CacheInv
<1>5. ShopPassInv
  <2>1. shopPass = Rest
    BY DEF Init
  <2> QED BY <2>1, Data DEF ShopPassInv, ShopPass, Rest, ShopCalls, Typed
<1>6. WalletPassInv
  BY Data DEF Init, WalletPassInv, WalletPass, WalletRest
<1>7. RestInv
  <2>1. queued = {"shop"} /\ budget = MaxDisturbances /\ touched = FALSE
    BY DEF Init
  <2>2. budget \in 0..MaxDisturbances
    BY <2>1, AddressAssumption
  <2> QED BY <2>1, <2>2 DEF RestInv
<1> QED BY <1>2, <1>4, <1>5, <1>6, <1>7 DEF IInv, WalletInv, DeploymentInv

\* A worker that rests, or goes on to a call that writes nothing.
LEMMA ShopRests ==
  ASSUME shopPass' = Rest
  PROVE  ShopPassInv'
  BY Data DEF ShopPassInv, ShopPass, Rest, ShopCalls, Typed

\* The Wallet controller's worker rests on a good Wallet.
LEMMA WalletRests ==
  ASSUME walletPass' = WalletRest
  PROVE  WalletPassInv'
  BY Data DEF WalletPassInv, WalletPass, WalletRest

\* A pass that goes on to another call with what it carries.
LEMMA GoesOn ==
  ASSUME IInv, Continue("getDeployment")
  PROVE  ShopPassInv'
  BY DEF IInv, ShopPassInv, ShopPass, ShopCalls, Continue

\* The histories stay, or the budget shrinks.
LEMMA Kept ==
  ASSUME IInv, UNCHANGED <<objects, touched>>
  PROVE  WalletInv' /\ DeploymentInv' /\ (seen' = seen => CacheInv')
  BY DEF IInv, WalletInv, DeploymentInv, Handed, CacheInv, objects

\* A disturbance leaves a budget.
LEMMA Spent ==
  ASSUME IInv, Disturb \/ UNCHANGED budget
  PROVE  budget' \in 0..MaxDisturbances
  BY AddressAssumption DEF IInv, RestInv, Disturb

\* A write to the Wallet.
LEMMA WalletWritten ==
  ASSUME IInv, NEW o \in GoodWallet,
         wallet' \in {wallet, Append(wallet, o), Written(wallet, o)},
         UNCHANGED <<shop, deployment, seen, touched>>
  PROVE  WalletInv' /\ DeploymentInv' /\ CacheInv'
<1>1. PICK h \in Seq(GoodWallet) : h = wallet /\ Len(h) > 0
  BY DEF IInv, WalletInv
<1>2. /\ Append(h, o) \in Seq(GoodWallet) /\ Len(Append(h, o)) = Len(h) + 1
      /\ Written(h, o) \in Seq(GoodWallet) /\ Len(Written(h, o)) \in {Len(h), Len(h) + 1}
  BY Grown
<1>3. wallet' \in {h, Append(h, o), Written(h, o)}
  BY <1>1
<1>4. wallet' \in Seq(GoodWallet) /\ Len(wallet') \in Nat /\ Len(wallet) <= Len(wallet')
  BY <1>1, <1>2, <1>3
<1>5. Len(wallet) \in Nat /\ Len(deployment) \in Nat
  BY DEF IInv, WalletInv, DeploymentInv
<1>6. seen \in [shop : 1..Len(shop), wallet : 1..Len(wallet'), deployment : 1..Len(deployment)]
  BY <1>4, <1>5, Behind DEF IInv
<1>7. CacheInv'
  BY <1>6 DEF IInv, CacheInv
<1>8. WalletInv'
  BY <1>1, <1>4, <1>5 DEF WalletInv
<1>9. DeploymentInv'
  BY DEF IInv, DeploymentInv, Handed
<1> QED BY <1>7, <1>8, <1>9

\* A write to the Deployment.
LEMMA DeploymentWritten ==
  ASSUME IInv, NEW o \in Handed,
         deployment' \in {deployment, Append(deployment, o)},
         UNCHANGED <<shop, wallet, seen, touched>>
  PROVE  WalletInv' /\ DeploymentInv' /\ CacheInv'
<1>1. PICK h \in Seq(Handed) : h = deployment /\ Len(h) > 0
  BY DEF IInv, DeploymentInv
<1>2. Append(h, o) \in Seq(Handed) /\ Len(Append(h, o)) = Len(h) + 1
  BY Grown
<1>3. deployment' \in {h, Append(h, o)}
  BY <1>1
<1>4. deployment' \in Seq(Handed) /\ Len(deployment') \in Nat /\ Len(deployment) <= Len(deployment')
  BY <1>1, <1>2, <1>3
<1>5. Len(wallet) \in Nat /\ Len(deployment) \in Nat
  BY DEF IInv, WalletInv, DeploymentInv
<1>6. seen \in [shop : 1..Len(shop), wallet : 1..Len(wallet), deployment : 1..Len(deployment')]
  BY <1>4, <1>5, Behind DEF IInv
<1>7. CacheInv'
  BY <1>6 DEF IInv, CacheInv
<1>8. Handed' = Handed
  BY DEF Handed
<1>9. DeploymentInv'
  BY <1>1, <1>4, <1>5, <1>8 DEF DeploymentInv
<1>10. WalletInv'
  BY DEF IInv, WalletInv
<1> QED BY <1>7, <1>9, <1>10

\* StartShop keeps IInv.
LEMMA StartShopInv == IInv /\ StartShop => IInv'
<1> SUFFICES ASSUME IInv, StartShop PROVE IInv'
  OBVIOUS
<1>1. WalletInv' /\ DeploymentInv' /\ CacheInv'
  BY Kept DEF StartShop
<1>2. ShopPassInv'
  <2>1. PICK a \in Typed : a = Cached.shop
    BY CachedTypes
  <2>2. shopPass' = [Rest EXCEPT !.call = "getWallet", !.declared = a]
    BY <2>1 DEF StartShop
  <2> QED BY <2>2, Data DEF ShopPassInv, ShopPass, ShopCalls, Rest
<1>3. WalletPassInv' /\ RestInv'
  BY DEF IInv, WalletPassInv, RestInv, StartShop
<1> QED BY <1>1, <1>2, <1>3 DEF IInv

\* GetWallet keeps IInv.
LEMMA GetWalletInv == IInv /\ GetWallet => IInv'
<1> SUFFICES ASSUME IInv, GetWallet PROVE IInv'
  OBVIOUS
<1>1. WalletInv' /\ DeploymentInv' /\ CacheInv'
  BY Kept DEF GetWallet
<1>2. PICK old \in GoodWallet : old = Cached.wallet
  BY CachedTypes
<1>3. [old EXCEPT !.exists = TRUE, !.spec = shopPass.declared] \in GoodWallet
  BY DEF IInv, ShopPassInv, ShopPass, GoodWallet
<1>4. PICK new \in GoodWallet : new = [old EXCEPT !.exists = TRUE, !.spec = shopPass.declared]
  BY <1>3
<1>5. Continue("getDeployment") \/ Attempt("writeWallet", seen.wallet, new)
  BY <1>2, <1>4 DEF GetWallet
<1>6. ShopPassInv'
  <2>1. CASE Continue("getDeployment")
    BY <2>1, GoesOn
  <2>2. CASE Attempt("writeWallet", seen.wallet, new)
    <3>1. PICK b \in Nat : b = seen.wallet
      BY CachedTypes
    <3>2. shopPass' = [shopPass EXCEPT !.call = "writeWallet", !.base = b, !.object = new]
      BY <2>2, <3>1 DEF Attempt
    <3> QED BY <3>2, Data DEF IInv, ShopPassInv, ShopPass, ShopCalls
  <2> QED BY <1>5, <2>1, <2>2
<1>7. UNCHANGED <<walletPass, budget, touched, queued>>
  BY <1>5 DEF GetWallet, Continue, Attempt
<1>8. WalletPassInv' /\ RestInv'
  BY <1>7 DEF IInv, WalletPassInv, RestInv
<1> QED BY <1>1, <1>6, <1>8 DEF IInv

\* WriteWallet keeps IInv.
LEMMA WriteWalletInv == IInv /\ WriteWallet => IInv'
<1> SUFFICES ASSUME IInv, WriteWallet PROVE IInv'
  OBVIOUS
<1>1. PICK o \in GoodWallet : o = shopPass.object
  BY DEF IInv, ShopPassInv, WriteWallet
<1>2. /\ wallet' \in {wallet, Append(wallet, o)}
      /\ UNCHANGED <<shop, deployment, seen, walletPass, touched>>
      /\ Continue("getDeployment") \/ Fail
      /\ Disturb \/ UNCHANGED budget
  BY <1>1 DEF WriteWallet
<1>3. WalletInv' /\ DeploymentInv' /\ CacheInv'
  BY <1>2, WalletWritten
<1>4. ShopPassInv'
  BY <1>2, GoesOn, ShopRests DEF Fail
<1>5. WalletPassInv'
  BY <1>2 DEF IInv, WalletPassInv
<1>6. queued' \subseteq {"shop", "wallet"}
  BY <1>2 DEF IInv, RestInv, Continue, Fail
<1>7. RestInv'
  BY <1>2, <1>6, Spent DEF IInv, RestInv
<1> QED BY <1>3, <1>4, <1>5, <1>7 DEF IInv

\* GetDeployment keeps IInv.
LEMMA GetDeploymentInv == IInv /\ GetDeployment => IInv'
<1> SUFFICES ASSUME IInv, GetDeployment PROVE IInv'
  OBVIOUS
<1>1. WalletInv' /\ DeploymentInv' /\ CacheInv'
  BY Kept DEF GetDeployment
<1>2. PICK d \in Handed, b \in Nat : d = Cached.deployment /\ b = seen.deployment
  BY CachedTypes
<1>3. /\ Attempt("payoutAddress", b, d) \/ Fail
      /\ Disturb \/ UNCHANGED budget
      /\ UNCHANGED <<walletPass, touched>>
  BY <1>2 DEF GetDeployment
<1>4. ShopPassInv'
  <2>1. CASE Attempt("payoutAddress", b, d)
    <3>1. shopPass' = [shopPass EXCEPT !.call = "payoutAddress", !.base = b, !.object = d]
      BY <2>1 DEF Attempt
    <3>2. Handed' = Handed
      BY <1>3 DEF Handed
    <3> QED BY <3>1, <3>2, Data DEF IInv, ShopPassInv, ShopPass, ShopCalls
  <2>2. CASE Fail
    BY <2>2, ShopRests DEF Fail
  <2> QED BY <1>3, <2>1, <2>2
<1>5. queued' \subseteq {"shop", "wallet"}
  BY <1>3 DEF IInv, RestInv, Attempt, Fail
<1>6. WalletPassInv' /\ RestInv'
  BY <1>3, <1>5, Spent DEF IInv, WalletPassInv, RestInv
<1> QED BY <1>1, <1>4, <1>6 DEF IInv

\* PayoutAddress keeps IInv.
LEMMA PayoutAddressInv == IInv /\ PayoutAddress => IInv'
<1> SUFFICES ASSUME IInv, PayoutAddress PROVE IInv'
  OBVIOUS
<1>1. WalletInv' /\ DeploymentInv' /\ CacheInv'
  BY Kept DEF PayoutAddress
<1>2. PICK a \in Published : a = Cached.wallet.address
  <2>1. Cached.wallet \in GoodWallet
    BY CachedTypes
  <2> QED BY <2>1 DEF GoodWallet
<1>3. PICK new \in Handed : new = [exists |-> TRUE, address |-> a]
  BY <1>2, Data DEF Handed, Deployment
<1>4. \/ shopPass' = Rest /\ UNCHANGED queued
      \/ Attempt("writeDeployment", shopPass.base, new)
  BY <1>2, <1>3 DEF PayoutAddress, Deploy
<1>5. UNCHANGED <<walletPass, budget, touched, queued>>
  BY <1>4 DEF PayoutAddress, Attempt
<1>6. ShopPassInv'
  <2>1. CASE shopPass' = Rest
    BY <2>1, ShopRests
  <2>2. CASE Attempt("writeDeployment", shopPass.base, new)
    <3>1. shopPass' = [shopPass EXCEPT !.call = "writeDeployment", !.base = shopPass.base,
                                       !.object = new]
      BY <2>2 DEF Attempt
    <3>2. Handed' = Handed
      BY <1>5 DEF Handed
    <3> QED BY <3>1, <3>2, Data DEF IInv, ShopPassInv, ShopPass, ShopCalls
  <2> QED BY <1>4, <2>1, <2>2
<1>7. WalletPassInv' /\ RestInv'
  BY <1>5 DEF IInv, WalletPassInv, RestInv
<1> QED BY <1>1, <1>6, <1>7 DEF IInv

\* WriteDeployment keeps IInv.
LEMMA WriteDeploymentInv == IInv /\ WriteDeployment => IInv'
<1> SUFFICES ASSUME IInv, WriteDeployment PROVE IInv'
  OBVIOUS
<1>1. PICK o \in Handed : o = shopPass.object
  BY DEF IInv, ShopPassInv, WriteDeployment
<1>2. /\ deployment' \in {deployment, Append(deployment, o)}
      /\ UNCHANGED <<shop, wallet, seen, walletPass, touched>>
      /\ shopPass' = Rest
      /\ queued' \in {queued, queued \cup {"shop"}}
      /\ Disturb \/ UNCHANGED budget
  BY <1>1 DEF WriteDeployment, Fail
<1>3. WalletInv' /\ DeploymentInv' /\ CacheInv'
  BY <1>2, DeploymentWritten
<1>4. ShopPassInv' /\ WalletPassInv'
  BY <1>2, ShopRests DEF IInv, WalletPassInv
<1>5. RestInv'
  BY <1>2, Spent DEF IInv, RestInv
<1> QED BY <1>3, <1>4, <1>5 DEF IInv

(***************************************************************************)
(* The Wallet controller's worker, the watches and the environment.        *)
(***************************************************************************)

\* The verdict publishes a valid address or none.
LEMMA Verdicts ==
  ASSUME NEW w \in GoodWallet
  PROVE  [w EXCEPT !.address = Validated(w.spec), !.reason = Verdict(w.spec)] \in GoodWallet
<1>1. Validated(w.spec) \in Published
  BY DEF Validated, Published
<1>2. Verdict(w.spec) \in Reasons
  BY DEF Verdict, Reasons
<1> QED BY <1>1, <1>2 DEF GoodWallet

\* StartWallet keeps IInv.
LEMMA StartWalletInv == IInv /\ StartWallet => IInv'
<1> SUFFICES ASSUME IInv, StartWallet PROVE IInv'
  OBVIOUS
<1>1. WalletInv' /\ DeploymentInv' /\ CacheInv'
  BY Kept DEF StartWallet
<1>2. PICK w \in GoodWallet, b \in Nat : w = Cached.wallet /\ b = seen.wallet
  BY CachedTypes
<1>3. PICK new \in GoodWallet :
        new = [w EXCEPT !.address = Validated(w.spec), !.reason = Verdict(w.spec)]
  BY Verdicts
<1>4. walletPass' \in {[call |-> "setStatus", base |-> b, object |-> new], WalletRest}
  BY <1>2, <1>3 DEF StartWallet
<1>5. WalletPassInv'
  BY <1>4, Data DEF WalletPassInv, WalletPass, WalletRest
<1>6. ShopPassInv' /\ RestInv'
  BY DEF IInv, ShopPassInv, Handed, RestInv, StartWallet
<1> QED BY <1>1, <1>5, <1>6 DEF IInv

\* SetStatus keeps IInv.
LEMMA SetStatusInv == IInv /\ SetStatus => IInv'
<1> SUFFICES ASSUME IInv, SetStatus PROVE IInv'
  OBVIOUS
<1>1. PICK o \in GoodWallet : o = walletPass.object
  BY DEF IInv, WalletPassInv
<1>2. /\ wallet' \in {wallet, Written(wallet, o)}
      /\ UNCHANGED <<shop, deployment, seen, shopPass, touched>>
      /\ walletPass' = WalletRest
      /\ queued' \in {queued, queued \cup {"wallet"}}
      /\ Disturb \/ UNCHANGED budget
  BY <1>1 DEF SetStatus
<1>3. WalletInv' /\ DeploymentInv' /\ CacheInv'
  BY <1>2, WalletWritten
<1>4. ShopPassInv' /\ WalletPassInv'
  BY <1>2, WalletRests DEF IInv, ShopPassInv, Handed
<1>5. RestInv'
  BY <1>2, Spent DEF IInv, RestInv
<1> QED BY <1>3, <1>4, <1>5 DEF IInv

\* An informer moves on.
LEMMA DeliverInv == IInv /\ (DeliverShop \/ DeliverWallet \/ DeliverDeployment) => IInv'
<1> SUFFICES ASSUME IInv, DeliverShop \/ DeliverWallet \/ DeliverDeployment PROVE IInv'
  OBVIOUS
<1>1. /\ UNCHANGED <<objects, shopPass, walletPass, budget, touched>>
      /\ \E ks \in SUBSET {"shop", "wallet"} : queued' = queued \cup ks
  BY DEF DeliverShop, DeliverWallet, DeliverDeployment, Deliver
<1>2. WalletInv' /\ DeploymentInv'
  BY <1>1, Kept
<1>3. Len(shop) \in Nat /\ Len(wallet) \in Nat /\ Len(deployment) \in Nat
  BY DEF IInv, CacheInv, WalletInv, DeploymentInv
<1>4. seen \in [shop : 1..Len(shop), wallet : 1..Len(wallet), deployment : 1..Len(deployment)]
  BY DEF IInv, CacheInv
<1>5. seen' \in [shop : 1..Len(shop), wallet : 1..Len(wallet), deployment : 1..Len(deployment)]
  <2>1. CASE DeliverShop
    <3>1. seen' = [seen EXCEPT !["shop"] = seen["shop"] + 1] /\ seen["shop"] < Len(shop)
      BY <2>1 DEF DeliverShop, Deliver
    <3>2. seen["shop"] + 1 \in 1..Len(shop)
      BY <1>3, <1>4, <3>1
    <3> QED BY <1>4, <3>1, <3>2
  <2>2. CASE DeliverWallet
    <3>1. seen' = [seen EXCEPT !["wallet"] = seen["wallet"] + 1] /\ seen["wallet"] < Len(wallet)
      BY <2>2 DEF DeliverWallet, Deliver
    <3>2. seen["wallet"] + 1 \in 1..Len(wallet)
      BY <1>3, <1>4, <3>1
    <3> QED BY <1>4, <3>1, <3>2
  <2>3. CASE DeliverDeployment
    <3>1. /\ seen' = [seen EXCEPT !["deployment"] = seen["deployment"] + 1]
          /\ seen["deployment"] < Len(deployment)
      BY <2>3 DEF DeliverDeployment, Deliver
    <3>2. seen["deployment"] + 1 \in 1..Len(deployment)
      BY <1>3, <1>4, <3>1
    <3> QED BY <1>4, <3>1, <3>2
  <2> QED BY <2>1, <2>2, <2>3
<1>6. CacheInv'
  BY <1>1, <1>5 DEF IInv, CacheInv, objects
<1>7. ShopPassInv' /\ WalletPassInv' /\ RestInv'
  BY <1>1 DEF IInv, ShopPassInv, Handed, WalletPassInv, RestInv
<1> QED BY <1>2, <1>6, <1>7 DEF IInv

\* Restart keeps IInv.
LEMMA RestartInv == IInv /\ Restart => IInv'
<1> SUFFICES ASSUME IInv, Restart PROVE IInv'
  OBVIOUS
<1>1. UNCHANGED <<objects, touched>> /\ shopPass' = Rest /\ walletPass' = WalletRest
  BY DEF Restart
<1>2. WalletInv' /\ DeploymentInv' /\ ShopPassInv' /\ WalletPassInv'
  BY <1>1, Kept, ShopRests, WalletRests
<1>3. /\ Len(shop) \in 1..Len(shop) /\ Len(wallet) \in 1..Len(wallet)
      /\ Len(deployment) \in 1..Len(deployment)
  BY DEF IInv, CacheInv, WalletInv, DeploymentInv
<1>4. seen' \in [shop : 1..Len(shop), wallet : 1..Len(wallet), deployment : 1..Len(deployment)]
  BY <1>3 DEF Restart
<1>5. CacheInv'
  BY <1>1, <1>4 DEF IInv, CacheInv, objects
<1>6. RestInv'
  BY <1>1, Spent DEF IInv, RestInv, Restart
<1> QED BY <1>2, <1>5, <1>6 DEF IInv

\* What others do to the Shop, the Wallet's spec and the Deployment.
LEMMA OthersInv == IInv /\ (Declare \/ ReportRollout \/ Tamper) => IInv'
<1> SUFFICES ASSUME IInv, Declare \/ ReportRollout \/ Tamper PROVE IInv'
  OBVIOUS
<1>1. UNCHANGED <<seen, shopPass, walletPass, queued>>
  BY DEF Declare, ReportRollout, Tamper, process
<1>2. WalletPassInv'
  BY <1>1 DEF IInv, WalletPassInv
<1>3. RestInv'
  <2>1. Disturb \/ UNCHANGED budget
    BY DEF Declare, ReportRollout, Tamper
  <2>2. touched' \in BOOLEAN
    BY DEF IInv, RestInv, Declare, ReportRollout, Tamper
  <2> QED BY <1>1, <2>1, <2>2, Spent DEF IInv, RestInv
<1>4. Handed \subseteq Handed'
  BY DEF Handed, Declare, ReportRollout, Tamper
<1>5. ShopPassInv'
  BY <1>1, <1>4 DEF IInv, ShopPassInv
<1>6. CASE Declare
  <2>1. PICK a \in Typed : shop' = Append(shop, a)
    BY <1>6 DEF Declare
  <2>2. UNCHANGED <<wallet, deployment, touched>> /\ Len(shop) <= MaxEdits
    BY <1>6 DEF Declare
  <2>3. PICK h \in Seq(Typed) : h = shop /\ Len(h) \in 1..MaxEdits + 1
    BY DEF IInv, CacheInv
  <2>4. Append(h, a) \in Seq(Typed) /\ Len(Append(h, a)) = Len(h) + 1
    BY Grown
  <2>5. shop' \in Seq(Typed) /\ Len(shop') \in 1..MaxEdits + 1
    BY <2>1, <2>2, <2>3, <2>4, AddressAssumption
  <2>6. 1..Len(shop) \subseteq 1..Len(shop')
    BY <2>1, <2>3, <2>4
  <2>7. seen \in [shop : 1..Len(shop'), wallet : 1..Len(wallet), deployment : 1..Len(deployment)]
    BY <2>6 DEF IInv, CacheInv
  <2>8. CacheInv'
    BY <1>1, <2>2, <2>5, <2>7 DEF CacheInv
  <2>9. WalletInv' /\ DeploymentInv'
    BY <2>2 DEF IInv, WalletInv, DeploymentInv, Handed
  <2> QED BY <1>2, <1>3, <1>5, <2>8, <2>9 DEF IInv
<1>7. CASE ReportRollout
  <2>1. PICK o \in Handed : o = Latest(deployment)
    BY Member DEF IInv, DeploymentInv
  <2>2. deployment' = Append(deployment, o) /\ UNCHANGED <<shop, wallet, seen, touched>>
    BY <1>1, <1>7, <2>1 DEF ReportRollout
  <2>3. WalletInv' /\ DeploymentInv' /\ CacheInv'
    BY <2>2, DeploymentWritten
  <2> QED BY <1>2, <1>3, <1>5, <2>3 DEF IInv
<1>8. CASE Tamper
  <2>1. PICK a \in Typed :
          \/ /\ wallet' = Written(wallet, [Latest(wallet) EXCEPT !.spec = a])
             /\ UNCHANGED deployment
          \/ /\ deployment' = Written(deployment, [exists |-> TRUE, address |-> a])
             /\ UNCHANGED wallet
    BY <1>8 DEF Tamper
  <2>2. touched' = TRUE /\ UNCHANGED shop
    BY <1>8 DEF Tamper
  <2>3. Handed' = Deployment
    BY <2>2 DEF Handed
  <2>4. PICK h \in Seq(GoodWallet), g \in Seq(Deployment) :
          h = wallet /\ g = deployment /\ Len(h) > 0 /\ Len(g) > 0
    <3>1. deployment \in Seq(Deployment)
      BY Data, Wider DEF IInv, DeploymentInv
    <3> QED BY <3>1 DEF IInv, WalletInv, DeploymentInv
  <2>5. PICK w \in GoodWallet : w = [Latest(wallet) EXCEPT !.spec = a]
    <3>1. Latest(wallet) \in GoodWallet
      BY <2>4, Member
    <3> QED BY <3>1 DEF GoodWallet
  <2>6. PICK d \in Deployment : d = [exists |-> TRUE, address |-> a]
    BY DEF Deployment
  <2>7. /\ Written(h, w) \in Seq(GoodWallet) /\ Len(Written(h, w)) \in {Len(h), Len(h) + 1}
        /\ Written(g, d) \in Seq(Deployment) /\ Len(Written(g, d)) \in {Len(g), Len(g) + 1}
    BY Grown
  <2>8. /\ wallet' \in {h, Written(h, w)} /\ deployment' \in {g, Written(g, d)}
    BY <2>1, <2>4, <2>5, <2>6
  <2>9. /\ wallet' \in Seq(GoodWallet) /\ Len(wallet') \in Nat /\ Len(wallet) <= Len(wallet')
        /\ deployment' \in Seq(Deployment) /\ Len(deployment') \in Nat
        /\ Len(deployment) <= Len(deployment')
        /\ Len(wallet) \in Nat /\ Len(deployment) \in Nat
        /\ Len(wallet') > 0 /\ Len(deployment') > 0
    BY <2>4, <2>7, <2>8
  <2>10. WalletInv' /\ DeploymentInv'
    BY <2>3, <2>9 DEF WalletInv, DeploymentInv
  <2>11. seen \in [shop : 1..Len(shop), wallet : 1..Len(wallet'), deployment : 1..Len(deployment')]
    BY <2>9, Behind DEF IInv
  <2>12. CacheInv'
    BY <1>1, <2>2, <2>11 DEF IInv, CacheInv
  <2> QED BY <1>2, <1>3, <1>5, <2>10, <2>12 DEF IInv
<1> QED BY <1>6, <1>7, <1>8

\* IInv is inductive.
LEMMA InvNext == IInv /\ [Next]_vars => IInv'
<1> SUFFICES ASSUME IInv, [Next]_vars PROVE IInv'
  OBVIOUS
<1>1. CASE UNCHANGED vars
  <2>1. UNCHANGED <<objects, seen, queued, shopPass, walletPass, budget, touched>>
    BY <1>1 DEF vars, process
  <2>2. WalletInv' /\ DeploymentInv' /\ CacheInv'
    BY <2>1, Kept
  <2>3. ShopPassInv' /\ WalletPassInv' /\ RestInv'
    BY <2>1 DEF IInv, ShopPassInv, Handed, WalletPassInv, RestInv
  <2> QED BY <2>2, <2>3 DEF IInv
<1>2. CASE Next
  BY <1>2, StartShopInv, GetWalletInv, WriteWalletInv, GetDeploymentInv, PayoutAddressInv,
     WriteDeploymentInv, StartWalletInv, SetStatusInv, DeliverInv, RestartInv, OthersInv
     DEF Next, ShopWorker, WalletWorker
<1> QED BY <1>1, <1>2

\* IInv has the types.
LEMMA InvTypes == IInv => TypeOK
<1> SUFFICES ASSUME IInv PROVE TypeOK
  OBVIOUS
<1>1. wallet \in Seq(Wallet) /\ deployment \in Seq(Deployment)
  BY Data, Wider DEF IInv, WalletInv, DeploymentInv
<1>2. /\ shop \in Seq(Typed) /\ Len(shop) \in 1..MaxEdits + 1
      /\ seen.shop \in 1..Len(shop) /\ seen.wallet \in 1..Len(wallet)
      /\ seen.deployment \in 1..Len(deployment)
  BY DEF IInv, CacheInv
<1>3. /\ queued \subseteq {"shop", "wallet"} /\ shopPass \in ShopPass
      /\ walletPass \in WalletPass /\ budget \in 0..MaxDisturbances /\ touched \in BOOLEAN
  BY DEF IInv, ShopPassInv, WalletPassInv, RestInv
<1> QED BY <1>1, <1>2, <1>3 DEF TypeOK

\* The inductive invariant holds throughout.
THEOREM Invariance == Spec => []IInv
  BY InvInit, InvNext, PTL DEF Spec

\* Every variable keeps its type, whatever is typed in and however often.
THEOREM TypeCorrect == Spec => []TypeOK
  BY Invariance, InvTypes, PTL

\* The payment service is given a validated address or none, however far the
\* caches are behind and whatever fails, unless somebody else has edited a
\* child of the Shop (shop_controller.go:949-983, wallet_controller.go:49-86).
THEOREM HandsOnPublished == Spec => []OnlyPublished
<1>1. IInv => OnlyPublished
  <2> SUFFICES ASSUME IInv, ~touched PROVE Latest(deployment).address \in Published
    BY DEF OnlyPublished
  <2>1. Latest(deployment) \in Handed
    BY Member DEF IInv, DeploymentInv
  <2> QED BY <2>1 DEF Handed
<1> QED BY <1>1, Invariance, PTL

(***************************************************************************)
(* Recursion on the naturals.  The induction theorems of the library take  *)
(* an operator; that < is well-founded says the same of sets.              *)
(***************************************************************************)

\* A set of natural numbers has a least element.
LEMMA LeastNatural ==
  ASSUME NEW T, T \subseteq Nat, T # {}
  PROVE  \E x \in T : \A y \in T : x <= y
<1>1. IsWellFoundedOn({ss \in Nat \X Nat : ss[1] < ss[2]}, Nat)
  BY NatLessThanWellFounded, Zenon DEF OpToRel
<1>2. PICK x \in T : \A y \in T : ~(<<y, x>> \in {ss \in Nat \X Nat : ss[1] < ss[2]})
  BY <1>1, WFMin, Zenon
<1>3. ASSUME NEW y \in T PROVE x <= y
  <2>1. x \in Nat /\ y \in Nat
    OBVIOUS
  <2>2. <<y, x>> \in Nat \X Nat /\ <<y, x>>[1] = y /\ <<y, x>>[2] = x
    BY <2>1
  <2>3. ~(y < x)
    BY <1>2, <2>2, Zenon
  <2> QED BY <2>1, <2>3
<1> QED BY <1>3

\* Induction over a set: it has all of 0..n when it has 0 and goes on.
LEMMA UpTo ==
  ASSUME NEW n \in Nat, NEW T, 0 \in T, \A i \in 1..n : i - 1 \in T => i \in T
  PROVE  \A i \in 0..n : i \in T
<1> DEFINE U == {i \in 0..n : i \notin T}
<1> SUFFICES ASSUME U # {} PROVE FALSE
  OBVIOUS
<1>1. PICK x \in U : \A y \in U : x <= y
  <2>1. U \subseteq Nat
    OBVIOUS
  <2> QED BY <2>1, LeastNatural
<1>2. x \in 1..n /\ x - 1 \in 0..n /\ ~(x <= x - 1)
  OBVIOUS
<1>3. x - 1 \in T
  BY <1>1, <1>2
<1> QED BY <1>2, <1>3

\* Functions that give each value from its number and the value before it.
Steps(G) == G \in [Nat -> [Nat -> Nat]]

\* The values up to n of the function that begins with 0 and goes on by G.
Begun(G, n, g) ==
  /\ g \in [0..n -> Nat]
  /\ g[0] = 0
  /\ \A i \in 1..n : g[i] = G[i][g[i - 1]]

\* Two of them agree as far as both go.
LEMMA SameBegun ==
  ASSUME NEW G, NEW m \in Nat, NEW n \in Nat, m <= n, NEW g, NEW h, Begun(G, m, g), Begun(G, n, h)
  PROVE  \A i \in 0..m : g[i] = h[i]
<1> DEFINE T == {i \in 0..m : g[i] = h[i]}
<1>1. 0 \in T
  BY DEF Begun
<1>2. ASSUME NEW i \in 1..m, i - 1 \in T PROVE i \in T
  <2>1. i \in 1..n /\ i \in 0..m
    OBVIOUS
  <2>2. g[i] = G[i][g[i - 1]] /\ h[i] = G[i][h[i - 1]]
    BY <2>1 DEF Begun
  <2>3. g[i - 1] = h[i - 1]
    BY <1>2
  <2> QED BY <2>1, <2>2, <2>3
<1>3. \A i \in 0..m : i \in T
  <2> HIDE DEF T
  <2> QED BY <1>1, <1>2, UpTo
<1> QED BY <1>3

\* There is one for every n.
LEMMA SomeBegun ==
  ASSUME NEW G, Steps(G), NEW n \in Nat
  PROVE  \E g : Begun(G, n, g)
<1> DEFINE T == {i \in Nat : \E g : Begun(G, i, g)}
<1>1. 0 \in T
  <2>1. Begun(G, 0, [i \in 0..0 |-> 0])
    BY DEF Begun
  <2> QED BY <2>1
<1>2. ASSUME NEW i \in 1..n, i - 1 \in T PROVE i \in T
  <2>1. PICK g : Begun(G, i - 1, g)
    BY <1>2
  <2> DEFINE h == [j \in 0..i |-> IF j = i THEN G[i][g[i - 1]] ELSE g[j]]
  <2>2. g \in [0..(i - 1) -> Nat] /\ i \in Nat /\ i - 1 \in 0..(i - 1)
    <3>1. i \in Nat /\ i - 1 \in 0..(i - 1)
      OBVIOUS
    <3> QED BY <2>1, <3>1 DEF Begun
  <2>3. h \in [0..i -> Nat]
    <3>1. G[i][g[i - 1]] \in Nat
      BY <2>2 DEF Steps
    <3>2. \A j \in 0..i : j # i => j \in 0..(i - 1)
      BY <2>2
    <3> QED BY <2>2, <3>1, <3>2
  <2>4. h[0] = 0
    BY <2>1, <2>2 DEF Begun
  <2>5. ASSUME NEW j \in 1..i PROVE h[j] = G[j][h[j - 1]]
    <3>1. j - 1 \in 0..i /\ j - 1 # i /\ j \in 0..i
      BY <2>2
    <3>2. h[j - 1] = g[j - 1]
      BY <3>1
    <3>3. CASE j = i
      BY <3>1, <3>2, <3>3
    <3>4. CASE j # i
      <4>1. j \in 1..(i - 1)
        BY <2>2, <3>4
      <4> QED BY <2>1, <3>1, <3>2, <3>4, <4>1 DEF Begun
    <3> QED BY <3>3, <3>4
  <2>6. Begun(G, i, h)
    <3> HIDE DEF h
    <3> QED BY <2>3, <2>4, <2>5 DEF Begun
  <2> QED BY <2>2, <2>6
<1>3. \A i \in 0..n : i \in T
  <2> HIDE DEF T
  <2> QED BY <1>1, <1>2, UpTo
<1> QED BY <1>3

\* There is such a function.
LEMMA Recursion ==
  ASSUME NEW G, Steps(G)
  PROVE  \E f \in [Nat -> Nat] : f[0] = 0 /\ \A i \in Nat \ {0} : f[i] = G[i][f[i - 1]]
<1>1. PICK b : \A n \in Nat : Begun(G, n, b[n])
  <2> DEFINE c == [n \in Nat |-> CHOOSE g : Begun(G, n, g)]
  <2>1. \A n \in Nat : Begun(G, n, c[n])
    BY SomeBegun
  <2> QED BY <2>1
<1>2. ASSUME NEW n \in Nat PROVE b[n][n] \in Nat
  <2>1. n \in 0..n
    OBVIOUS
  <2> QED BY <1>1, <2>1 DEF Begun
<1>3. PICK f : f = [n \in Nat |-> b[n][n]]
  OBVIOUS
<1>4. f \in [Nat -> Nat]
  BY <1>2, <1>3
<1>5. f[0] = 0
  BY <1>1, <1>3 DEF Begun
<1>6. ASSUME NEW i \in Nat \ {0} PROVE f[i] = G[i][f[i - 1]]
  <2>1. PICK k \in Nat : k = i - 1 /\ k <= i /\ k \in 0..k /\ i \in 1..i
    OBVIOUS
  <2>2. PICK g, h : g = b[k] /\ h = b[i] /\ Begun(G, k, g) /\ Begun(G, i, h)
    BY <1>1
  <2>3. g[k] = h[k]
    <3>1. \A j \in 0..k : g[j] = h[j]
      <4>1. i \in Nat /\ k <= i /\ Begun(G, k, g) /\ Begun(G, i, h)
        BY <2>1, <2>2
      <4> QED BY <4>1, SameBegun
    <3> QED BY <2>1, <3>1
  <2>4. h[i] = G[i][h[k]]
    BY <2>1, <2>2 DEF Begun
  <2> QED BY <1>3, <2>1, <2>2, <2>3, <2>4
<1> QED BY <1>4, <1>5, <1>6

(***************************************************************************)
(* Reached, for any versions d of the Deployment and h of the Shop.        *)
(***************************************************************************)

\* What the payment service is given when it has come to declaration q, and
\* the first declaration from p on by which it is given a.
GivenAt(h, q) == IF q = 0 THEN Empty ELSE Validated(h[q])
Sources(h, a, p) == {q \in p..Len(h) : a = GivenAt(h, q)}
FirstFrom(h, a, p) ==
  IF Sources(h, a, p) = {} THEN Len(h) + 1
  ELSE CHOOSE q \in Sources(h, a, p) : \A r \in Sources(h, a, p) : q <= r

IsChain(d, h, f) ==
  f = [i \in Nat |-> IF i <= 1 THEN 0 ELSE FirstFrom(h, d[i].address, f[i - 1])]
Chain(d, h) == CHOOSE f : IsChain(d, h, f)

\* The model's recursive function is the one of the two histories.
LEMMA ReachedIsChain == Reached = Chain(deployment, shop)
  BY DEF Reached, Chain, IsChain, FirstFrom, Sources, GivenAt

\* So it is after a step.
LEMMA ReachedIsChainNext == Reached' = Chain(deployment', shop')
  BY DEF Reached, Chain, IsChain, FirstFrom, Sources, GivenAt

\* The first source is one, if there is any.
LEMMA FirstSource ==
  ASSUME NEW h \in Seq(Typed), NEW a, NEW p \in Nat
  PROVE  /\ FirstFrom(h, a, p) \in Nat
         /\ p <= Len(h) + 1 => p <= FirstFrom(h, a, p) /\ FirstFrom(h, a, p) <= Len(h) + 1
         /\ FirstFrom(h, a, p) <= Len(h) => FirstFrom(h, a, p) \in Sources(h, a, p)
         /\ \A q \in Sources(h, a, p) : /\ FirstFrom(h, a, p) \in Sources(h, a, p)
                                        /\ FirstFrom(h, a, p) <= q
<1>1. Sources(h, a, p) \subseteq Nat /\ Len(h) \in Nat
  BY DEF Sources
<1>2. CASE Sources(h, a, p) = {}
  BY <1>1, <1>2 DEF FirstFrom
<1>3. CASE Sources(h, a, p) # {}
  <2>1. \E q \in Sources(h, a, p) : \A r \in Sources(h, a, p) : q <= r
    BY <1>1, <1>3, LeastNatural
  <2>2. PICK q : q = FirstFrom(h, a, p)
    OBVIOUS
  <2>3. q \in Sources(h, a, p) /\ \A r \in Sources(h, a, p) : q <= r
    BY <1>3, <2>1, <2>2 DEF FirstFrom
  <2>4. q \in Nat /\ p <= q /\ q <= Len(h)
    BY <1>1, <2>3 DEF Sources
  <2> QED BY <1>1, <2>2, <2>3, <2>4
<1> QED BY <1>2, <1>3

\* A longer history has the same first source, if the shorter has one.
LEMMA SameSource ==
  ASSUME NEW h \in Seq(Typed), NEW o \in Typed, NEW a, NEW p \in Nat,
         FirstFrom(h, a, p) <= Len(h)
  PROVE  FirstFrom(Append(h, o), a, p) = FirstFrom(h, a, p)
<1>1. PICK g \in Seq(Typed) :
        g = Append(h, o) /\ Len(g) = Len(h) + 1 /\ \A i \in 1..Len(h) : g[i] = h[i]
  <2>1. /\ Append(h, o) \in Seq(Typed) /\ Len(Append(h, o)) = Len(h) + 1
        /\ \A i \in 1..Len(h) : Append(h, o)[i] = h[i]
    OBVIOUS
  <2> QED BY <2>1
<1>2. Len(h) \in Nat
  OBVIOUS
<1>3. ASSUME NEW q \in p..Len(h)
      PROVE  q \in Sources(h, a, p) <=> q \in Sources(g, a, p)
  BY <1>1, <1>2 DEF Sources, GivenAt
<1>4. PICK q \in Sources(h, a, p) :
        q = FirstFrom(h, a, p) /\ \A r \in Sources(h, a, p) : q <= r
  BY FirstSource
<1>5. q \in p..Len(h)
  BY DEF Sources
<1>6. q \in Sources(g, a, p)
  BY <1>3, <1>5
<1>7. PICK r \in Sources(g, a, p) : r = FirstFrom(g, a, p) /\ r <= q
  BY <1>6, FirstSource
<1>8. r \in p..Len(h)
  BY <1>2, <1>5, <1>7 DEF Sources
<1>9. q <= r
  BY <1>3, <1>4, <1>8
<1> QED BY <1>1, <1>4, <1>5, <1>7, <1>8, <1>9

\* The recursive definition defines a function.
LEMMA ChainDefined ==
  ASSUME NEW d, NEW h \in Seq(Typed)
  PROVE  IsChain(d, h, Chain(d, h))
<1>1. PICK G : G = [i \in Nat |-> [p \in Nat |->
                 IF i <= 1 THEN 0 ELSE FirstFrom(h, d[i].address, p)]]
  OBVIOUS
<1>2. Steps(G)
  <2>1. \A i \in Nat, p \in Nat : FirstFrom(h, d[i].address, p) \in Nat
    BY FirstSource
  <2> QED BY <1>1, <2>1 DEF Steps
<1>3. PICK f \in [Nat -> Nat] : f[0] = 0 /\ \A i \in Nat \ {0} : f[i] = G[i][f[i - 1]]
  BY <1>2, Recursion
<1>4. ASSUME NEW i \in Nat
      PROVE  f[i] = IF i <= 1 THEN 0 ELSE FirstFrom(h, d[i].address, f[i - 1])
  <2>1. CASE i = 0
    BY <1>3, <2>1
  <2>2. CASE i # 0
    <3>1. f[i - 1] \in Nat
      BY <2>2
    <3> QED BY <1>1, <1>3, <2>2, <3>1
  <2> QED BY <2>1, <2>2
<1>5. IsChain(d, h, f)
  BY <1>4 DEF IsChain
<1> QED BY <1>5 DEF Chain

\* What it is at each version, from what it is at the one before.
LEMMA ChainSteps ==
  ASSUME NEW d, NEW h \in Seq(Typed), NEW f, f = Chain(d, h)
  PROVE  /\ f \in [Nat -> Nat] /\ f[0] = 0 /\ f[1] = 0
         /\ \A i \in Nat : i > 1 => f[i] = FirstFrom(h, d[i].address, f[i - 1])
         /\ \A i \in Nat : f[i] <= Len(h) + 1
         /\ \A i \in Nat : f[i] <= f[i + 1]
<1>1. \A i \in Nat : f[i] = IF i <= 1 THEN 0 ELSE FirstFrom(h, d[i].address, f[i - 1])
  BY ChainDefined DEF IsChain
<1>2. f = [i \in Nat |-> f[i]]
  BY ChainDefined DEF IsChain
<1>3. f[0] = 0 /\ f[1] = 0 /\ \A i \in Nat : i > 1 => f[i] = FirstFrom(h, d[i].address, f[i - 1])
  BY <1>1
<1>4. Len(h) \in Nat
  OBVIOUS
<1> DEFINE T == {i \in Nat : f[i] \in Nat /\ f[i] <= Len(h) + 1}
<1>5. ASSUME NEW n \in Nat PROVE n \in T
  <2>1. 0 \in T
    BY <1>3, <1>4
  <2>2. ASSUME NEW i \in 1..n, i - 1 \in T PROVE i \in T
    <3>1. CASE i = 1
      BY <1>3, <1>4, <3>1
    <3>2. CASE i # 1
      <4>1. f[i] = FirstFrom(h, d[i].address, f[i - 1])
        BY <1>3, <3>2
      <4> QED BY <2>2, <4>1, FirstSource
    <3> QED BY <3>1, <3>2
  <2>3. \A i \in 0..n : i \in T
    <3> HIDE DEF T
    <3> QED BY <2>1, <2>2, UpTo
  <2> QED BY <2>3
<1>6. \A i \in Nat : f[i] \in Nat /\ f[i] <= Len(h) + 1
  BY <1>5
<1>7. ASSUME NEW i \in Nat PROVE f[i] <= f[i + 1]
  <2>1. CASE i = 0
    BY <1>3, <2>1
  <2>2. CASE i # 0
    <3>1. f[i + 1] = FirstFrom(h, d[i + 1].address, f[i])
      <4>1. i + 1 \in Nat /\ i + 1 > 1 /\ i + 1 - 1 = i
        BY <2>2
      <4> QED BY <1>3, <4>1
    <3> QED BY <1>6, <3>1, FirstSource
  <2> QED BY <2>1, <2>2
<1>8. f \in [Nat -> Nat]
  BY <1>2, <1>6
<1> QED BY <1>3, <1>6, <1>7, <1>8

\* What comes later is not less.
LEMMA ChainGrows ==
  ASSUME NEW d, NEW h \in Seq(Typed), NEW f, f = Chain(d, h), NEW n \in Nat, NEW i \in 0..n
  PROVE  f[i] <= f[n]
<1>1. f \in [Nat -> Nat] /\ \A j \in Nat : f[j] <= f[j + 1]
  BY ChainSteps
<1> DEFINE T == {j \in Nat : \A k \in 0..j : f[k] <= f[j]}
<1>2. 0 \in T
  BY <1>1
<1>3. ASSUME NEW j \in 1..n, j - 1 \in T PROVE j \in T
  <2>1. j \in Nat /\ j - 1 \in Nat /\ j - 1 + 1 = j
    OBVIOUS
  <2>2. f[j - 1] <= f[j] /\ f[j - 1] \in Nat /\ f[j] \in Nat
    BY <1>1, <2>1
  <2>3. ASSUME NEW k \in 0..j PROVE f[k] <= f[j]
    <3>1. CASE k = j
      BY <2>2, <3>1
    <3>2. CASE k # j
      <4>1. k \in 0..(j - 1) /\ k \in Nat
        BY <2>1, <3>2
      <4>2. f[k] <= f[j - 1] /\ f[k] \in Nat
        BY <1>1, <1>3, <4>1
      <4> QED BY <2>2, <4>2
    <3> QED BY <3>1, <3>2
  <2> QED BY <2>1, <2>3
<1>4. n \in T
  <2>1. \A j \in 0..n : j \in T
    <3> HIDE DEF T
    <3> QED BY <1>2, <1>3, UpTo
  <2> QED BY <2>1
<1> QED BY <1>4

\* Where first sources are the same, the same is reached.
LEMMA SameChain ==
  ASSUME NEW d, NEW h \in Seq(Typed), NEW g \in Seq(Typed), NEW n \in Nat,
         NEW f, f = Chain(d, h), NEW e, e = Chain(d, g)
  PROVE  /\ f[n] <= Len(h)
         /\ \A a : \A p \in Nat :
              FirstFrom(h, a, p) <= Len(h) => FirstFrom(g, a, p) = FirstFrom(h, a, p)
         => e[n] = f[n]
<1>1. IsChain(d, h, f) /\ IsChain(d, g, e)
  BY ChainDefined
<1>2. f \in [Nat -> Nat] /\ e \in [Nat -> Nat]
  BY ChainSteps
<1>3. /\ f \in [Nat -> Nat] /\ f[0] = 0 /\ f[1] = 0
      /\ \A i \in Nat : i > 1 => f[i] = FirstFrom(h, d[i].address, f[i - 1])
  BY <1>1, <1>2 DEF IsChain
<1>4. /\ e \in [Nat -> Nat] /\ e[0] = 0 /\ e[1] = 0
      /\ \A i \in Nat : i > 1 => e[i] = FirstFrom(g, d[i].address, e[i - 1])
  BY <1>1, <1>2 DEF IsChain
<1> SUFFICES ASSUME f[n] <= Len(h),
                    \A a : \A p \in Nat :
                      FirstFrom(h, a, p) <= Len(h) => FirstFrom(g, a, p) = FirstFrom(h, a, p)
             PROVE  e[n] = f[n]
  OBVIOUS
<1>5. \A i \in 0..n : f[i] <= f[n] /\ f[i] <= Len(h)
  <2>1. \A i \in 0..n : f[i] <= f[n]
    BY ChainGrows
  <2>2. \A i \in 0..n : f[i] \in Nat
    BY <1>3
  <2>3. f[n] \in Nat /\ Len(h) \in Nat /\ f[n] <= Len(h)
    BY <1>3
  <2> QED BY <2>1, <2>2, <2>3
<1> DEFINE T == {i \in 0..n : e[i] = f[i]}
<1>6. 0 \in T
  BY <1>3, <1>4
<1>7. ASSUME NEW i \in 1..n, i - 1 \in T PROVE i \in T
  <2>1. CASE i = 1
    BY <1>3, <1>4, <2>1
  <2>2. CASE i # 1
    <3>1. i \in Nat /\ i > 1 /\ i \in 0..n /\ i - 1 \in Nat
      BY <2>2
    <3>2. PICK p \in Nat : p = f[i - 1]
      BY <1>3, <3>1
    <3>3. PICK a : a = d[i].address
      OBVIOUS
    <3>4. e[i] = FirstFrom(g, a, p) /\ f[i] = FirstFrom(h, a, p)
      BY <1>3, <1>4, <1>7, <3>1, <3>2, <3>3
    <3>5. FirstFrom(h, a, p) <= Len(h)
      BY <1>5, <3>1, <3>4
    <3>6. FirstFrom(g, a, p) = FirstFrom(h, a, p)
      BY <3>5
    <3> QED BY <3>1, <3>4, <3>6
  <2> QED BY <2>1, <2>2
<1>8. \A i \in 0..n : i \in T
  <2> HIDE DEF T
  <2> QED BY <1>6, <1>7, UpTo
<1> QED BY <1>8

\* Another declaration does not change what was reached.
LEMMA SameReached ==
  ASSUME NEW d, NEW h \in Seq(Typed), NEW o \in Typed, NEW n \in Nat, Chain(d, h)[n] <= Len(h)
  PROVE  Chain(d, Append(h, o))[n] = Chain(d, h)[n]
<1>1. PICK g \in Seq(Typed) : g = Append(h, o)
  <2>1. Append(h, o) \in Seq(Typed)
    OBVIOUS
  <2> QED BY <2>1
<1>2. \A a : \A p \in Nat :
        FirstFrom(h, a, p) <= Len(h) => FirstFrom(g, a, p) = FirstFrom(h, a, p)
  BY <1>1, SameSource
<1>3. PICK f, e : f = Chain(d, h) /\ e = Chain(d, g)
  OBVIOUS
<1>4. e[n] = f[n]
  BY <1>2, <1>3, SameChain
<1> QED BY <1>1, <1>3, <1>4

\* Another version of the Deployment goes on from there.
LEMMA ReachedNext ==
  ASSUME NEW S, NEW d \in Seq(S), Len(d) > 0, NEW o \in S, NEW h \in Seq(Typed)
  PROVE  Chain(Append(d, o), h)[Len(d) + 1] = FirstFrom(h, o.address, Chain(d, h)[Len(d)])
<1>1. PICK c \in Seq(S), n \in Nat :
        /\ c = Append(d, o) /\ n = Len(d) /\ n > 0 /\ c[n + 1] = o
        /\ \A i \in 1..n : c[i] = d[i]
  <2>1. /\ Append(d, o) \in Seq(S) /\ Len(d) \in Nat /\ Append(d, o)[Len(d) + 1] = o
        /\ \A i \in 1..Len(d) : Append(d, o)[i] = d[i]
    OBVIOUS
  <2> QED BY <2>1
<1>2. PICK f, e : f = Chain(d, h) /\ e = Chain(c, h)
  OBVIOUS
<1>3. /\ f \in [Nat -> Nat] /\ f[0] = 0 /\ f[1] = 0
      /\ \A i \in Nat : i > 1 => f[i] = FirstFrom(h, d[i].address, f[i - 1])
  BY <1>2, ChainSteps
<1>4. /\ e \in [Nat -> Nat] /\ e[0] = 0 /\ e[1] = 0
      /\ \A i \in Nat : i > 1 => e[i] = FirstFrom(h, c[i].address, e[i - 1])
  BY <1>2, ChainSteps
<1> DEFINE T == {i \in 0..n : e[i] = f[i]}
<1>5. 0 \in T
  BY <1>3, <1>4
<1>6. ASSUME NEW i \in 1..n, i - 1 \in T PROVE i \in T
  <2>1. CASE i = 1
    BY <1>3, <1>4, <2>1
  <2>2. CASE i # 1
    <3>1. i \in Nat /\ i > 1 /\ i \in 0..n /\ c[i] = d[i]
      BY <1>1, <2>2
    <3> QED BY <1>3, <1>4, <1>6, <3>1
  <2> QED BY <2>1, <2>2
<1>7. \A i \in 0..n : i \in T
  <2> HIDE DEF T
  <2> QED BY <1>5, <1>6, UpTo
<1>8. e[n] = f[n]
  BY <1>7
<1>9. e[n + 1] = FirstFrom(h, c[n + 1].address, e[n])
  <2>1. n + 1 \in Nat /\ n + 1 > 1 /\ n + 1 - 1 = n
    BY <1>1
  <2> QED BY <1>4, <2>1
<1> QED BY <1>1, <1>2, <1>8, <1>9

\* What the owner had declared at declaration q.
DeclaredAt(h, q) == IF q = 0 THEN Empty ELSE h[q]

\* The declaration that the payment service has come to.
reached == Reached[Len(deployment)]

\* What the workers carry comes from a version that they have read, and a
\* version without a Wallet says nothing.
CopyInv ==
  /\ \A i \in 1..Len(wallet) : ~wallet[i].exists => wallet[i] = NoWallet
  /\ shopPass.call = "writeWallet" =>
       /\ shopPass.base \in 1..Len(wallet)
       /\ shopPass.object = [wallet[shopPass.base] EXCEPT !.exists = TRUE, !.spec = shopPass.declared]
  /\ walletPass.call = "setStatus" =>
       /\ walletPass.base \in 1..Len(wallet)
       /\ wallet[walletPass.base].exists
       /\ walletPass.object.exists
       /\ walletPass.object.spec = wallet[walletPass.base].spec
       /\ walletPass.object.address = Validated(wallet[walletPass.base].spec)

\* Version i of the Wallet publishes what declaration ap[i] came to; its last
\* version has the address of declaration s.
WalletFrom(s, ap) ==
  /\ ap \in [1..Len(wallet) -> Nat]
  /\ \A i, j \in 1..Len(wallet) : i <= j => ap[i] <= ap[j]
  /\ \A i \in 1..Len(wallet) : ap[i] <= s /\ wallet[i].address = GivenAt(shop, ap[i])
  /\ Latest(wallet).spec = DeclaredAt(shop, s)

\* A pass that is to write the Wallet has read declaration s or a later one.
PassFrom(s) ==
  shopPass.call \in {"getWallet", "writeWallet"} =>
    \E p \in s..seen.shop : p > 0 /\ shopPass.declared = shop[p]

\* The payment service is not ahead of the Wallet in the cache, nor is what it
\* is about to be given; and that is not behind.
ServiceFrom(ap) ==
  /\ reached <= ap[seen.wallet]
  /\ shopPass.call = "writeDeployment" =>
       \E y \in Nat : /\ reached <= y /\ y <= ap[seen.wallet]
                      /\ shopPass.object.address = GivenAt(shop, y)

Origins(s, ap) ==
  /\ s \in 0..seen.shop
  /\ WalletFrom(s, ap)
  /\ PassFrom(s)
  /\ ServiceFrom(ap)

\* Each step of the way is at a declaration that the steps before it have come
\* to, until somebody else writes.
OrderInv ==
  ~touched => /\ Latest(deployment).address = GivenAt(shop, reached)
              /\ \E s, ap : Origins(s, ap)

\* The types of what OrderInv is about.
LEMMA SourceData ==
  ASSUME IInv
  PROVE  /\ shop \in Seq(Typed) /\ Len(shop) \in Nat
         /\ wallet \in Seq(GoodWallet) /\ Len(wallet) \in Nat /\ Len(wallet) > 0
         /\ deployment \in Seq(Handed) /\ Len(deployment) \in Nat /\ Len(deployment) > 0
         /\ seen.shop \in 1..Len(shop) /\ seen.wallet \in 1..Len(wallet)
         /\ seen.deployment \in 1..Len(deployment)
         /\ shopPass \in ShopPass /\ walletPass \in WalletPass
         /\ reached \in Nat
<1>1. /\ shop \in Seq(Typed) /\ Len(shop) \in Nat
      /\ wallet \in Seq(GoodWallet) /\ Len(wallet) \in Nat /\ Len(wallet) > 0
      /\ deployment \in Seq(Handed) /\ Len(deployment) \in Nat /\ Len(deployment) > 0
      /\ seen.shop \in 1..Len(shop) /\ seen.wallet \in 1..Len(wallet)
      /\ seen.deployment \in 1..Len(deployment)
      /\ shopPass \in ShopPass /\ walletPass \in WalletPass
  BY DEF IInv, CacheInv, WalletInv, DeploymentInv, ShopPassInv, WalletPassInv
<1>2. reached \in Nat
  <2>1. PICK d \in Seq(Handed), h \in Seq(Typed), n \in Nat :
          d = deployment /\ h = shop /\ n = Len(deployment)
    BY <1>1
  <2>2. PICK f : f = Chain(d, h)
    OBVIOUS
  <2>3. f[n] \in Nat
    BY <2>2, ChainSteps
  <2>4. reached = Chain(deployment, shop)[Len(deployment)]
    BY ReachedIsChain, Zenon DEF reached
  <2>5. reached = f[n]
    BY <2>1, <2>2, <2>4, Zenon
  <2> QED BY <2>3, <2>5
<1> QED BY <1>1, <1>2

\* Nothing is reached when neither history grows.
LEMMA ReachedStays ==
  ASSUME UNCHANGED <<shop, deployment>>
  PROVE  reached' = reached
  BY ReachedIsChain, ReachedIsChainNext DEF reached

\* Declarations that are there stay.
LEMMA DeclaredStays ==
  ASSUME NEW h \in Seq(Typed), NEW a \in Typed, NEW q \in 0..Len(h)
  PROVE  /\ GivenAt(Append(h, a), q) = GivenAt(h, q)
         /\ DeclaredAt(Append(h, a), q) = DeclaredAt(h, q)
<1>1. \A i \in 1..Len(h) : Append(h, a)[i] = h[i]
  OBVIOUS
<1>2. q # 0 => q \in 1..Len(h)
  OBVIOUS
<1> QED BY <1>1, <1>2 DEF GivenAt, DeclaredAt

\* The verdict on a declaration.
LEMMA GivenIsValidated ==
  ASSUME NEW h, NEW q
  PROVE  Validated(DeclaredAt(h, q)) = GivenAt(h, q)
  BY AddressAssumption DEF Validated, DeclaredAt, GivenAt

(***************************************************************************)
(* CopyInv.                                                                *)
(***************************************************************************)

\* CopyInv holds at the start.
LEMMA CopyInit == Init => CopyInv
<1> SUFFICES ASSUME Init PROVE CopyInv
  OBVIOUS
<1>1. shopPass = Rest /\ walletPass = WalletRest /\ wallet = <<NoWallet>>
  BY DEF Init
<1>2. Len(wallet) = 1 /\ \A i \in 1..Len(wallet) : wallet[i] = NoWallet
  BY <1>1
<1>3. shopPass.call = "idle" /\ walletPass.call = "idle"
  BY <1>1 DEF Rest, WalletRest
<1> QED BY <1>2, <1>3 DEF CopyInv

\* The Wallet's history stays or grows by a Wallet that exists.
LEMMA CopyStays ==
  ASSUME IInv, CopyInv,
         \/ wallet' = wallet
         \/ \E o \in GoodWallet : o.exists /\ wallet' = Append(wallet, o),
         shopPass'.call = "writeWallet" =>
           shopPass.call = "writeWallet" /\ UNCHANGED shopPass,
         walletPass'.call = "setStatus" => UNCHANGED walletPass
  PROVE  CopyInv'
<1>1. PICK W \in Seq(GoodWallet), n \in Nat : W = wallet /\ n = Len(W)
  BY SourceData
<1>2. PICK V \in Seq(GoodWallet), m \in Nat :
        /\ V = wallet' /\ m = Len(V) /\ n <= m
        /\ \A i \in 1..n : V[i] = W[i]
        /\ \A i \in 1..m : i \notin 1..n => V[i].exists
  <2>1. CASE wallet' = wallet
    BY <1>1, <2>1
  <2>2. CASE \E o \in GoodWallet : o.exists /\ wallet' = Append(wallet, o)
    <3>1. PICK o \in GoodWallet : o.exists /\ wallet' = Append(W, o)
      BY <1>1, <2>2
    <3>2. /\ Append(W, o) \in Seq(GoodWallet) /\ Len(Append(W, o)) = n + 1
          /\ Append(W, o)[n + 1] = o /\ \A i \in 1..n : Append(W, o)[i] = W[i]
      BY <1>1
    <3>3. \A i \in 1..(n + 1) : i \notin 1..n => i = n + 1
      OBVIOUS
    <3>4. n + 1 \in Nat /\ n <= n + 1
      OBVIOUS
    <3> QED BY <3>1, <3>2, <3>3, <3>4
  <2> QED BY <2>1, <2>2
<1>3. \A i \in 1..n : i \in 1..m
  BY <1>2
<1>4. \A i \in 1..m : ~V[i].exists => V[i] = NoWallet
  BY <1>1, <1>2 DEF CopyInv
<1>5. shopPass'.call = "writeWallet" =>
        /\ shopPass'.base \in 1..m
        /\ shopPass'.object = [V[shopPass'.base] EXCEPT !.exists = TRUE, !.spec = shopPass'.declared]
  BY <1>1, <1>2, <1>3 DEF CopyInv
<1>6. walletPass'.call = "setStatus" =>
        /\ walletPass'.base \in 1..m
        /\ V[walletPass'.base].exists /\ walletPass'.object.exists
        /\ walletPass'.object.spec = V[walletPass'.base].spec
        /\ walletPass'.object.address = Validated(V[walletPass'.base].spec)
  BY <1>1, <1>2, <1>3 DEF CopyInv
<1> QED BY <1>2, <1>4, <1>5, <1>6 DEF CopyInv

\* CopyInv is kept by every step.
LEMMA CopyNext == IInv /\ CopyInv /\ [Next]_vars => CopyInv'
<1> SUFFICES ASSUME IInv, CopyInv, [Next]_vars PROVE CopyInv'
  OBVIOUS
<1>0. shopPass \in ShopPass /\ walletPass \in WalletPass /\ Len(wallet) \in Nat
  BY SourceData
<1>rest. Rest.call = "idle" /\ WalletRest.call = "idle"
  BY DEF Rest, WalletRest
<1>1. CASE StartShop
  <2>1. shopPass'.call = "getWallet" /\ UNCHANGED <<wallet, walletPass>>
    BY <1>1 DEF StartShop, objects, Rest
  <2> QED BY <2>1, CopyStays
<1>2. CASE GetWallet
  <2>1. PICK old : old = wallet[seen.wallet]
    OBVIOUS
  <2>2. UNCHANGED <<wallet, walletPass>> /\ seen.wallet \in 1..Len(wallet)
    BY <1>2, SourceData DEF GetWallet, objects
  <2>3. \/ shopPass' = [shopPass EXCEPT !.call = "getDeployment"]
        \/ shopPass' = [shopPass EXCEPT !.call = "writeWallet", !.base = seen.wallet,
                          !.object = [old EXCEPT !.exists = TRUE, !.spec = shopPass.declared]]
    BY <1>2, <2>1 DEF GetWallet, Continue, Attempt, Cached
  <2>4. CASE shopPass' = [shopPass EXCEPT !.call = "getDeployment"]
    <3>1. shopPass'.call = "getDeployment"
      BY <1>0, <2>4 DEF ShopPass
    <3> QED BY <2>2, <3>1, CopyStays
  <2>5. CASE shopPass' = [shopPass EXCEPT !.call = "writeWallet", !.base = seen.wallet,
                            !.object = [old EXCEPT !.exists = TRUE, !.spec = shopPass.declared]]
    <3>1. /\ shopPass'.base = seen.wallet /\ shopPass'.declared = shopPass.declared
          /\ shopPass'.object = [old EXCEPT !.exists = TRUE, !.spec = shopPass.declared]
      BY <1>0, <2>5 DEF ShopPass
    <3> QED BY <2>1, <2>2, <3>1 DEF CopyInv
  <2> QED BY <2>3, <2>4, <2>5
<1>3. CASE WriteWallet
  <2>1. shopPass.object \in GoodWallet /\ shopPass.object.exists
    <3>1. shopPass.call = "writeWallet"
      BY <1>3 DEF WriteWallet
    <3>2. PICK w \in GoodWallet : w = wallet[shopPass.base]
      <4>1. shopPass.base \in 1..Len(wallet)
        BY <3>1 DEF CopyInv
      <4> QED BY <4>1, SourceData, Member
    <3>3. shopPass.object = [w EXCEPT !.exists = TRUE, !.spec = shopPass.declared]
      BY <3>1, <3>2 DEF CopyInv
    <3>4. shopPass.object.exists = TRUE
      BY <3>3 DEF GoodWallet
    <3> QED BY <3>1, <3>4 DEF IInv, ShopPassInv
  <2>2. wallet' = wallet \/ wallet' = Append(wallet, shopPass.object)
    BY <1>3 DEF WriteWallet
  <2>3. shopPass'.call \in {"idle", "getDeployment"} /\ UNCHANGED walletPass
    BY <1>0, <1>3, <1>rest DEF WriteWallet, Continue, Fail, ShopPass
  <2> QED BY <2>1, <2>2, <2>3, CopyStays
<1>4. CASE GetDeployment
  <2>1. shopPass'.call \in {"idle", "payoutAddress"} /\ UNCHANGED <<wallet, walletPass>>
    BY <1>0, <1>4, <1>rest DEF GetDeployment, Attempt, Fail, ShopPass, objects
  <2> QED BY <2>1, CopyStays
<1>5. CASE PayoutAddress
  <2>1. shopPass'.call \in {"idle", "writeDeployment"} /\ UNCHANGED <<wallet, walletPass>>
    BY <1>0, <1>5, <1>rest DEF PayoutAddress, Deploy, Attempt, ShopPass, objects
  <2> QED BY <2>1, CopyStays
<1>6. CASE WriteDeployment
  <2>1. shopPass'.call = "idle" /\ UNCHANGED <<wallet, walletPass>>
    BY <1>6, <1>rest DEF WriteDeployment, Fail
  <2> QED BY <2>1, CopyStays
<1>7. CASE StartWallet
  <2>1. UNCHANGED <<wallet, shopPass>> /\ seen.wallet \in 1..Len(wallet)
    BY <1>7, SourceData DEF StartWallet, objects
  <2>2. PICK w \in GoodWallet : w = wallet[seen.wallet]
    BY <2>1, SourceData, Member
  <2>3. PICK new \in GoodWallet :
          new = [w EXCEPT !.address = Validated(w.spec), !.reason = Verdict(w.spec)]
    BY Verdicts
  <2>4. new.exists = w.exists /\ new.spec = w.spec /\ new.address = Validated(w.spec)
    BY <2>3 DEF GoodWallet
  <2>5. walletPass' = IF w.exists THEN [call |-> "setStatus", base |-> seen.wallet, object |-> new]
                                  ELSE WalletRest
    BY <1>7, <2>2, <2>3 DEF StartWallet, Cached
  <2>6. CASE w.exists
    <3>1. walletPass'.base = seen.wallet /\ walletPass'.object = new
      BY <2>5, <2>6
    <3> QED BY <2>1, <2>2, <2>4, <2>6, <3>1 DEF CopyInv
  <2>7. CASE ~w.exists
    <3>1. walletPass'.call = "idle"
      BY <1>rest, <2>5, <2>7
    <3> QED BY <2>1, <3>1, CopyStays
  <2> QED BY <2>6, <2>7
<1>8. CASE SetStatus
  <2>1. PICK o \in GoodWallet : o = walletPass.object /\ o.exists
    BY <1>8 DEF SetStatus, CopyInv, IInv, WalletPassInv
  <2>2. wallet' = wallet \/ wallet' = Append(wallet, o)
    BY <1>8, <2>1 DEF SetStatus, Written
  <2>3. walletPass'.call = "idle" /\ UNCHANGED shopPass
    BY <1>8, <1>rest DEF SetStatus
  <2> QED BY <2>1, <2>2, <2>3, CopyStays
<1>9. CASE DeliverShop \/ DeliverWallet \/ DeliverDeployment
  <2>1. UNCHANGED <<wallet, shopPass, walletPass>>
    BY <1>9 DEF DeliverShop, DeliverWallet, DeliverDeployment, Deliver, objects
  <2> QED BY <2>1, CopyStays
<1>10. CASE Restart
  <2>1. shopPass'.call = "idle" /\ walletPass'.call = "idle" /\ UNCHANGED wallet
    BY <1>10, <1>rest DEF Restart, objects
  <2> QED BY <2>1, CopyStays
<1>11. CASE Declare \/ ReportRollout
  <2>1. UNCHANGED <<wallet, shopPass, walletPass>>
    BY <1>11 DEF Declare, ReportRollout, process
  <2> QED BY <2>1, CopyStays
<1>12. CASE Tamper
  <2>1. UNCHANGED <<shopPass, walletPass>>
    BY <1>12 DEF Tamper, process
  <2>2. PICK w \in GoodWallet : w = Latest(wallet)
    BY SourceData, Member
  <2>3. wallet' = wallet \/ \E a \in Typed : w.exists /\ wallet' = Append(wallet, [w EXCEPT !.spec = a])
    BY <1>12, <2>2 DEF Tamper, Written
  <2>4. \A a \in Typed : [w EXCEPT !.spec = a] \in GoodWallet /\ [w EXCEPT !.spec = a].exists = w.exists
    BY DEF GoodWallet
  <2> QED BY <2>1, <2>3, <2>4, CopyStays
<1>13. CASE UNCHANGED vars
  <2>1. UNCHANGED <<wallet, shopPass, walletPass>>
    BY <1>13 DEF vars, objects, process
  <2> QED BY <2>1, CopyStays
<1> QED BY <1>1, <1>2, <1>3, <1>4, <1>5, <1>6, <1>7, <1>8, <1>9, <1>10, <1>11, <1>12, <1>13
        DEF Next, ShopWorker, WalletWorker

(***************************************************************************)
(* OrderInv.                                                               *)
(***************************************************************************)

\* Nothing is reached at the start.
LEMMA NoneReached ==
  ASSUME NEW d, NEW h \in Seq(Typed)
  PROVE  Chain(d, h)[1] = 0
<1>1. PICK f : f = Chain(d, h)
  OBVIOUS
<1>2. f[1] = 0
  BY <1>1, ChainSteps
<1> QED BY <1>1, <1>2

\* OrderInv holds at the start.
LEMMA OrderInit == Init => OrderInv
<1> SUFFICES ASSUME Init PROVE OrderInv
  OBVIOUS
<1>1. /\ shop \in Seq(Typed) /\ Len(deployment) = 1 /\ Latest(deployment) = NoDeployment
      /\ Len(wallet) = 1 /\ wallet[1] = NoWallet /\ Latest(wallet) = NoWallet
  <2>1. PICK a \in Typed : shop = <<a>>
    BY DEF Init
  <2>2. shop \in Seq(Typed)
    BY <2>1
  <2>3. deployment = <<NoDeployment>> /\ wallet = <<NoWallet>>
    BY DEF Init
  <2> QED BY <2>2, <2>3 DEF Latest
<1>2. seen.wallet = 1 /\ seen.shop = 1 /\ shopPass.call = "idle"
  BY DEF Init, Rest
<1>3. reached = 0
  <2>1. reached = Chain(deployment, shop)[1]
    BY <1>1, ReachedIsChain, Zenon DEF reached
  <2> QED BY <1>1, <2>1, NoneReached, Zenon
<1>4. PICK ap : ap = [i \in 1..1 |-> 0]
  OBVIOUS
<1>5. ap \in [1..1 -> Nat] /\ ap[1] = 0
  BY <1>4
<1>6. NoWallet.address = Empty /\ NoWallet.spec = Empty /\ NoDeployment.address = Empty
  BY DEF NoWallet, NoDeployment
<1>7. GivenAt(shop, 0) = Empty /\ DeclaredAt(shop, 0) = Empty
  BY DEF GivenAt, DeclaredAt
<1>8. WalletFrom(0, ap)
  BY <1>1, <1>5, <1>6, <1>7 DEF WalletFrom
<1>9. PassFrom(0) /\ ServiceFrom(ap)
  BY <1>2, <1>3, <1>5 DEF PassFrom, ServiceFrom
<1>10. Origins(0, ap)
  BY <1>2, <1>8, <1>9 DEF Origins
<1> QED BY <1>1, <1>3, <1>6, <1>7, <1>10 DEF OrderInv

\* Caches that move on read later declarations.
LEMMA LaterRead ==
  ASSUME IInv, NEW s, NEW ap, WalletFrom(s, ap), NEW i \in 1..Len(wallet), NEW j \in 1..Len(wallet),
         i <= j
  PROVE  ap[i] \in Nat /\ ap[j] \in Nat /\ ap[i] <= ap[j]
  BY DEF WalletFrom

\* The Wallet, the declarations and the Deployment stay, the caches move on
\* and the pass has nothing new to write.
LEMMA OrderStays ==
  ASSUME IInv, IInv', OrderInv, UNCHANGED <<shop, wallet, deployment, touched>>,
         seen.shop <= seen'.shop, seen.wallet <= seen'.wallet,
         shopPass'.call \in {"getWallet", "writeWallet"} =>
           \/ /\ shopPass.call \in {"getWallet", "writeWallet"}
              /\ shopPass'.declared = shopPass.declared
           \/ shopPass'.declared = shop[seen'.shop],
         shopPass'.call = "writeDeployment" =>
           \/ shopPass.call = "writeDeployment" /\ shopPass'.object = shopPass.object
           \/ shopPass'.object.address = wallet[seen.wallet].address
  PROVE  OrderInv'
<1> SUFFICES ASSUME ~touched PROVE OrderInv'
  BY DEF OrderInv
<1>1. /\ Latest(deployment).address = GivenAt(shop, reached) /\ reached' = reached
      /\ reached \in Nat
  BY ReachedStays, SourceData DEF OrderInv
<1>2. PICK s, ap : Origins(s, ap)
  BY DEF OrderInv
<1>3. /\ s \in 0..seen.shop /\ WalletFrom(s, ap) /\ PassFrom(s) /\ ServiceFrom(ap)
  BY <1>2 DEF Origins
<1>4. /\ seen.shop \in Nat /\ seen'.shop \in Nat /\ seen'.shop > 0
      /\ seen.wallet \in 1..Len(wallet) /\ seen'.wallet \in 1..Len(wallet)
  <2>1. /\ seen.shop \in 1..Len(shop) /\ seen'.shop \in 1..Len(shop')
        /\ seen.wallet \in 1..Len(wallet) /\ seen'.wallet \in 1..Len(wallet')
    BY SourceData DEF IInv, CacheInv
  <2> QED BY <2>1, SourceData
<1>5. WalletFrom(s, ap)'
  BY <1>3 DEF WalletFrom, Latest
<1>6. s \in 0..seen'.shop
  BY <1>3, <1>4
<1>7. PassFrom(s)'
  <2> SUFFICES ASSUME shopPass'.call \in {"getWallet", "writeWallet"}
               PROVE  \E p \in s..seen'.shop : p > 0 /\ shopPass'.declared = shop[p]
    BY DEF PassFrom
  <2>1. CASE /\ shopPass.call \in {"getWallet", "writeWallet"}
             /\ shopPass'.declared = shopPass.declared
    <3>1. PICK p \in s..seen.shop : p > 0 /\ shopPass.declared = shop[p]
      BY <1>3, <2>1 DEF PassFrom
    <3>2. p \in s..seen'.shop
      BY <1>3, <1>4, <3>1
    <3> QED BY <2>1, <3>1, <3>2
  <2>2. CASE shopPass'.declared = shop[seen'.shop]
    <3>1. seen'.shop \in s..seen'.shop
      BY <1>3, <1>4, <1>6
    <3> QED BY <1>4, <2>2, <3>1
  <2> QED BY <2>1, <2>2
<1>8. ap[seen.wallet] \in Nat /\ ap[seen'.wallet] \in Nat /\ ap[seen.wallet] <= ap[seen'.wallet]
  BY <1>3, <1>4, LaterRead
<1>9. ServiceFrom(ap)'
  <2>1. reached <= ap[seen'.wallet]
    BY <1>1, <1>3, <1>8 DEF ServiceFrom
  <2>2. ASSUME shopPass'.call = "writeDeployment"
        PROVE  \E y \in Nat : /\ reached <= y /\ y <= ap[seen'.wallet]
                              /\ shopPass'.object.address = GivenAt(shop, y)
    <3>1. CASE shopPass.call = "writeDeployment" /\ shopPass'.object = shopPass.object
      <4>1. PICK y \in Nat : /\ reached <= y /\ y <= ap[seen.wallet]
                             /\ shopPass.object.address = GivenAt(shop, y)
        BY <1>3, <3>1 DEF ServiceFrom
      <4>2. y <= ap[seen'.wallet]
        BY <1>8, <4>1
      <4> QED BY <3>1, <4>1, <4>2
    <3>2. CASE shopPass'.object.address = wallet[seen.wallet].address
      <4>1. wallet[seen.wallet].address = GivenAt(shop, ap[seen.wallet])
        BY <1>3, <1>4 DEF WalletFrom
      <4>2. reached <= ap[seen.wallet]
        BY <1>3 DEF ServiceFrom
      <4> QED BY <1>8, <3>2, <4>1, <4>2
    <3> QED BY <2>2, <3>1, <3>2
  <2> QED BY <1>1, <2>1, <2>2 DEF ServiceFrom
<1>10. Origins(s, ap)'
  BY <1>5, <1>6, <1>7, <1>9 DEF Origins
<1> QED BY <1>1, <1>10 DEF OrderInv, Latest

\* The Wallet is written: o has the address of declaration t and publishes
\* what declaration v came to, neither earlier than those before.
LEMMA OrderWallet ==
  ASSUME IInv, ~touched, UNCHANGED <<shop, deployment, touched, seen>>,
         Latest(deployment).address = GivenAt(shop, reached),
         NEW s, NEW ap, Origins(s, ap), NEW o \in GoodWallet, wallet' = Append(wallet, o),
         NEW t \in Nat, NEW v \in Nat, s <= t, t <= seen.shop, ap[Len(wallet)] <= v, v <= t,
         o.address = GivenAt(shop, v), o.spec = DeclaredAt(shop, t),
         shopPass'.call \in {"getWallet", "writeWallet"} =>
           UNCHANGED shopPass /\ s = t,
         shopPass'.call = "writeDeployment" => UNCHANGED shopPass
  PROVE  OrderInv'
<1>1. reached' = reached /\ reached \in Nat
  BY ReachedStays, SourceData
<1>2. /\ s \in 0..seen.shop /\ WalletFrom(s, ap) /\ PassFrom(s) /\ ServiceFrom(ap)
  BY DEF Origins
<1>3. PICK W \in Seq(GoodWallet), n \in Nat :
        W = wallet /\ n = Len(W) /\ n > 0 /\ seen.shop \in Nat /\ seen.wallet \in 1..n
  <2>1. seen.shop \in Nat
    BY SourceData
  <2> QED BY <2>1, SourceData
<1>4. PICK V \in Seq(GoodWallet) :
        V = wallet' /\ Len(V) = n + 1 /\ V[n + 1] = o /\ \A i \in 1..n : V[i] = W[i]
  <2>1. /\ Append(W, o) \in Seq(GoodWallet) /\ Len(Append(W, o)) = n + 1
        /\ Append(W, o)[n + 1] = o /\ \A i \in 1..n : Append(W, o)[i] = W[i]
    BY <1>3
  <2> QED BY <1>3, <2>1
<1>5. /\ ap \in [1..n -> Nat] /\ ap[n] <= v
      /\ \A i, j \in 1..n : i <= j => ap[i] <= ap[j]
      /\ \A i \in 1..n : ap[i] <= s /\ W[i].address = GivenAt(shop, ap[i])
  BY <1>2, <1>3 DEF WalletFrom
<1>6. PICK bp : bp = [i \in 1..(n + 1) |-> IF i = n + 1 THEN v ELSE ap[i]]
  OBVIOUS
<1>7. \A i \in 1..(n + 1) : i # n + 1 => i \in 1..n
  BY <1>3
<1>8. /\ bp \in [1..(n + 1) -> Nat] /\ bp[n + 1] = v
      /\ \A i \in 1..n : bp[i] = ap[i]
  <2>1. n + 1 \in 1..(n + 1) /\ \A i \in 1..n : i \in 1..(n + 1) /\ i # n + 1
    BY <1>3
  <2>2. bp \in [1..(n + 1) -> Nat]
    BY <1>5, <1>6, <1>7
  <2> QED BY <1>6, <2>1, <2>2
<1>9. \A i, j \in 1..(n + 1) : i <= j => bp[i] <= bp[j]
  <2> SUFFICES ASSUME NEW i \in 1..(n + 1), NEW j \in 1..(n + 1), i <= j
               PROVE  bp[i] <= bp[j]
    OBVIOUS
  <2>1. CASE j # n + 1
    <3>1. i \in 1..n /\ j \in 1..n
      BY <1>3, <2>1
    <3> QED BY <1>5, <1>8, <3>1
  <2>2. CASE j = n + 1 /\ i # n + 1
    <3>1. i \in 1..n /\ n \in 1..n /\ i <= n
      BY <1>3, <2>2
    <3>2. ap[i] <= ap[n] /\ ap[i] \in Nat /\ ap[n] \in Nat
      BY <1>5, <3>1
    <3>3. ap[i] <= v
      BY <1>5, <3>2
    <3> QED BY <1>8, <2>2, <3>1, <3>3
  <2>3. CASE j = n + 1 /\ i = n + 1
    BY <1>8, <2>3
  <2> QED BY <2>1, <2>2, <2>3
<1>10. \A i \in 1..(n + 1) : bp[i] <= t /\ V[i].address = GivenAt(shop, bp[i])
  <2> SUFFICES ASSUME NEW i \in 1..(n + 1)
               PROVE  bp[i] <= t /\ V[i].address = GivenAt(shop, bp[i])
    OBVIOUS
  <2>1. CASE i = n + 1
    BY <1>4, <1>8, <2>1
  <2>2. CASE i # n + 1
    <3>1. i \in 1..n
      BY <1>7, <2>2
    <3>2. ap[i] <= s /\ ap[i] \in Nat /\ s \in Nat
      <4>1. s \in Nat
        BY <1>2, <1>3
      <4> QED BY <1>5, <3>1, <4>1
    <3>3. ap[i] <= t
      BY <3>2
    <3> QED BY <1>4, <1>5, <1>8, <3>1, <3>3
  <2> QED BY <2>1, <2>2
<1>11. WalletFrom(t, bp)'
  <2>1. Len(wallet') = n + 1 /\ Latest(wallet') = o
    BY <1>4 DEF Latest
  <2>2. /\ bp \in [1..Len(wallet') -> Nat]
        /\ \A i, j \in 1..Len(wallet') : i <= j => bp[i] <= bp[j]
        /\ \A i \in 1..Len(wallet') : bp[i] <= t /\ wallet'[i].address = GivenAt(shop, bp[i])
    BY <1>4, <1>8, <1>9, <1>10, <2>1
  <2> QED BY <2>1, <2>2 DEF WalletFrom, DeclaredAt
<1>12. t \in 0..seen'.shop
  BY <1>3
<1>13. PassFrom(t)'
  BY <1>2 DEF PassFrom
<1>14. ServiceFrom(bp)'
  <2>1. bp[seen.wallet] = ap[seen.wallet]
    BY <1>3, <1>8
  <2> QED BY <1>1, <1>2, <2>1 DEF ServiceFrom
<1>15. Origins(t, bp)'
  BY <1>11, <1>12, <1>13, <1>14 DEF Origins
<1> QED BY <1>1, <1>15 DEF OrderInv, Latest

\* What the payment service has come to is a declaration that was made.
LEMMA ReachedBehind ==
  ASSUME IInv, NEW s, NEW ap, Origins(s, ap)
  PROVE  /\ s \in Nat /\ s <= Len(shop) /\ ap[seen.wallet] \in Nat /\ ap[seen.wallet] <= s
         /\ reached \in Nat /\ reached <= ap[seen.wallet] /\ reached <= Len(shop)
<1>1. s \in 0..seen.shop /\ WalletFrom(s, ap) /\ ServiceFrom(ap)
  BY DEF Origins
<1>2. /\ seen.shop \in 1..Len(shop) /\ Len(shop) \in Nat /\ seen.wallet \in 1..Len(wallet)
      /\ reached \in Nat
  BY SourceData
<1>3. s \in Nat /\ s <= Len(shop)
  BY <1>1, <1>2
<1>4. ap[seen.wallet] \in Nat /\ ap[seen.wallet] <= s
  BY <1>1, <1>2 DEF WalletFrom
<1>5. reached <= ap[seen.wallet]
  BY <1>1 DEF ServiceFrom
<1> QED BY <1>2, <1>3, <1>4, <1>5

\* The owner declares another address: what was reached is the same.
LEMMA OrderDeclare ==
  ASSUME IInv, OrderInv, ~touched, NEW a \in Typed, shop' = Append(shop, a),
         UNCHANGED <<wallet, deployment, seen, shopPass, touched>>
  PROVE  OrderInv' /\ reached' = reached
<1>1. PICK s, ap : Origins(s, ap)
  BY DEF OrderInv
<1>2. /\ s \in Nat /\ s <= Len(shop) /\ ap[seen.wallet] \in Nat /\ ap[seen.wallet] <= s
      /\ reached \in Nat /\ reached <= ap[seen.wallet] /\ reached <= Len(shop)
  BY <1>1, ReachedBehind
<1>3. s \in 0..seen.shop /\ WalletFrom(s, ap) /\ PassFrom(s) /\ ServiceFrom(ap)
  BY <1>1 DEF Origins
<1>4. PICK h \in Seq(Typed), n \in Nat : h = shop /\ n = Len(h)
  BY SourceData
<1>5. PICK g \in Seq(Typed) : g = shop' /\ g = Append(h, a)
  <2>1. Append(h, a) \in Seq(Typed)
    OBVIOUS
  <2> QED BY <1>4, <2>1
<1>6. \A q \in 0..n : GivenAt(g, q) = GivenAt(h, q) /\ DeclaredAt(g, q) = DeclaredAt(h, q)
  BY <1>4, <1>5, DeclaredStays
<1>7. \A q \in 1..n : g[q] = h[q]
  BY <1>4, <1>5
<1>8. reached' = reached
  <2>1. PICK d \in Seq(Handed), m \in Nat : d = deployment /\ m = Len(deployment)
    BY SourceData
  <2>2. reached = Chain(d, h)[m] /\ reached' = Chain(d, g)[m]
    BY <1>4, <1>5, <2>1, ReachedIsChain, ReachedIsChainNext, Zenon DEF reached
  <2>3. Chain(d, h)[m] <= Len(h)
    BY <1>2, <1>4, <2>2
  <2>4. Chain(d, g)[m] = Chain(d, h)[m]
    BY <1>5, <2>3, SameReached
  <2> QED BY <2>2, <2>4
<1>9. Latest(deployment').address = GivenAt(shop', reached')
  <2>1. reached \in 0..n
    BY <1>2, <1>4
  <2> QED BY <1>4, <1>5, <1>6, <1>8, <2>1 DEF OrderInv, Latest
<1>10. WalletFrom(s, ap)'
  <2>1. ASSUME NEW i \in 1..Len(wallet)
        PROVE  ap[i] <= s /\ wallet[i].address = GivenAt(g, ap[i])
    <3>1. ap[i] \in Nat /\ ap[i] <= s /\ wallet[i].address = GivenAt(h, ap[i])
      BY <1>3, <1>4 DEF WalletFrom
    <3>2. ap[i] \in 0..n
      BY <1>2, <1>4, <3>1
    <3> QED BY <1>6, <3>1, <3>2
  <2>2. Latest(wallet).spec = DeclaredAt(g, s)
    <3>1. s \in 0..n
      BY <1>2, <1>4
    <3> QED BY <1>3, <1>4, <1>6, <3>1 DEF WalletFrom
  <2> QED BY <1>3, <1>5, <2>1, <2>2 DEF WalletFrom, Latest
<1>11. PassFrom(s)'
  <2> SUFFICES ASSUME shopPass.call \in {"getWallet", "writeWallet"}
               PROVE  \E p \in s..seen.shop : p > 0 /\ shopPass.declared = g[p]
    BY <1>5 DEF PassFrom
  <2>1. PICK p \in s..seen.shop : p > 0 /\ shopPass.declared = h[p]
    BY <1>3, <1>4 DEF PassFrom
  <2>2. p \in 1..n
    <3>1. seen.shop \in 1..n
      BY <1>4, SourceData
    <3> QED BY <1>2, <2>1, <3>1
  <2> QED BY <1>7, <2>1, <2>2
<1>12. ServiceFrom(ap)'
  <2>1. ASSUME shopPass.call = "writeDeployment"
        PROVE  \E y \in Nat : /\ reached <= y /\ y <= ap[seen.wallet]
                              /\ shopPass.object.address = GivenAt(g, y)
    <3>1. PICK y \in Nat : /\ reached <= y /\ y <= ap[seen.wallet]
                           /\ shopPass.object.address = GivenAt(h, y)
      BY <1>3, <1>4, <2>1 DEF ServiceFrom
    <3>2. y \in 0..n
      BY <1>2, <1>4, <3>1
    <3> QED BY <1>6, <3>1, <3>2
  <2> QED BY <1>2, <1>5, <1>8, <2>1 DEF ServiceFrom
<1>13. Origins(s, ap)'
  BY <1>3, <1>10, <1>11, <1>12 DEF Origins
<1> QED BY <1>8, <1>9, <1>13 DEF OrderInv

\* The Deployment gets another version: the payment service goes on to y or to
\* a declaration before it, not behind the one it has come to.
LEMMA OrderDeployment ==
  ASSUME IInv, ~touched, UNCHANGED <<shop, wallet, seen, touched>>,
         NEW s, NEW ap, Origins(s, ap), NEW o \in Handed, deployment' = Append(deployment, o),
         NEW y \in Nat, reached <= y, y <= ap[seen.wallet], o.address = GivenAt(shop, y),
         shopPass'.call = "writeDeployment" => UNCHANGED shopPass /\ y = reached,
         shopPass'.call \in {"getWallet", "writeWallet"} => UNCHANGED shopPass
  PROVE  OrderInv' /\ reached <= reached'
<1>1. s \in 0..seen.shop /\ WalletFrom(s, ap) /\ PassFrom(s)
  BY DEF Origins
<1>2. /\ s \in Nat /\ s <= Len(shop) /\ ap[seen.wallet] \in Nat /\ ap[seen.wallet] <= s
      /\ reached \in Nat /\ reached <= Len(shop)
  BY ReachedBehind
<1>3. PICK d \in Seq(Handed), h \in Seq(Typed) : d = deployment /\ h = shop /\ Len(d) > 0
  BY SourceData
<1>4. /\ deployment' = Append(d, o) /\ Len(Append(d, o)) = Len(d) + 1
      /\ Latest(deployment') = o
  BY <1>3 DEF Latest
<1>5. PICK p \in Nat : p = reached
  BY <1>2
<1>6. PICK r : r = reached'
  OBVIOUS
<1>7. r = FirstFrom(h, o.address, p)
  <2>1. reached = Chain(d, h)[Len(d)]
    BY <1>3, ReachedIsChain, Zenon DEF reached
  <2>2. reached' = Chain(Append(d, o), h)[Len(d) + 1]
    <3>1. reached' = Chain(deployment', shop')[Len(deployment')]
      BY ReachedIsChainNext, Zenon DEF reached
    <3>2. shop' = h /\ Len(deployment') = Len(d) + 1
      BY <1>3, <1>4
    <3> QED BY <1>4, <3>1, <3>2, Zenon
  <2>3. Chain(Append(d, o), h)[Len(d) + 1] = FirstFrom(h, o.address, Chain(d, h)[Len(d)])
    BY <1>3, ReachedNext
  <2> QED BY <1>5, <1>6, <2>1, <2>2, <2>3, Zenon
<1>8. y \in Sources(h, o.address, p)
  <2>1. y \in p..Len(h)
    BY <1>2, <1>3, <1>5
  <2> QED BY <1>3, <2>1 DEF Sources
<1>9. r \in Sources(h, o.address, p) /\ r <= y
  BY <1>7, <1>8, FirstSource
<1>10. r \in Nat /\ p <= r /\ o.address = GivenAt(h, r)
  BY <1>3, <1>5, <1>9 DEF Sources
<1>11. r <= ap[seen.wallet]
  BY <1>2, <1>9, <1>10
<1>12. WalletFrom(s, ap)' /\ PassFrom(s)'
  BY <1>1 DEF WalletFrom, PassFrom, Latest
<1>13. ServiceFrom(ap)'
  <2>1. ASSUME shopPass'.call = "writeDeployment"
        PROVE  UNCHANGED shopPass /\ r = p
    BY <1>5, <1>9, <1>10, <2>1
  <2> QED BY <1>3, <1>5, <1>6, <1>11, <2>1 DEF Origins, ServiceFrom
<1>14. Origins(s, ap)'
  BY <1>1, <1>12, <1>13 DEF Origins
<1>15. Latest(deployment').address = GivenAt(shop', reached')
  BY <1>3, <1>4, <1>6, <1>10
<1> QED BY <1>5, <1>6, <1>10, <1>14, <1>15 DEF OrderInv

\* The step of the contract that the two together make.
Carried == OrderInv' /\ (UNCHANGED shop => reached <= reached')

\* A step that writes neither the Shop nor the Deployment.
LEMMA StaysCarried ==
  ASSUME IInv, OrderInv', UNCHANGED <<shop, deployment>>
  PROVE  Carried
<1>1. reached' = reached /\ reached \in Nat
  BY ReachedStays, SourceData
<1> QED BY <1>1 DEF Carried

\* The Shop controller writes the Wallet: what it has read is no older than
\* what it wrote before.
LEMMA WriteWalletOrder ==
  ASSUME IInv, IInv', CopyInv, OrderInv, ~touched, WriteWallet
  PROVE  Carried
<1>1. /\ UNCHANGED <<shop, deployment, seen, touched>> /\ shopPass.call = "writeWallet"
      /\ shopPass'.call \in {"idle", "getDeployment"}
      /\ seen.shop \in Nat /\ seen.wallet \in Nat
  <2>1. shopPass \in ShopPass /\ Rest.call = "idle" /\ seen.shop \in Nat /\ seen.wallet \in Nat
    BY SourceData DEF Rest
  <2> QED BY <2>1 DEF WriteWallet, Continue, Fail, ShopPass
<1>2. CASE wallet' = wallet
  <2>1. OrderInv'
    BY <1>1, <1>2, OrderStays
  <2> QED BY <1>1, <2>1, StaysCarried
<1>3. CASE wallet' # wallet
  <2>1. wallet' = Append(wallet, shopPass.object) /\ Accepted(wallet, shopPass.base)
    BY <1>3 DEF WriteWallet
  <2>2. PICK s, ap : Origins(s, ap)
    BY DEF OrderInv
  <2>3. PICK p \in s..seen.shop : p > 0 /\ shopPass.declared = shop[p]
    BY <1>1, <2>2 DEF Origins, PassFrom
  <2>4. PICK o \in GoodWallet : o = shopPass.object
    BY <1>1 DEF IInv, ShopPassInv
  <2>5. PICK b \in 1..Len(wallet) : b = shopPass.base
    BY <1>1 DEF CopyInv
  <2>6. PICK w \in GoodWallet : w = wallet[b]
    BY SourceData, Member
  <2>7. o.spec = shopPass.declared /\ o.address = w.address
    <3>1. o = [w EXCEPT !.exists = TRUE, !.spec = shopPass.declared]
      BY <1>1, <2>4, <2>5, <2>6 DEF CopyInv
    <3> QED BY <3>1 DEF GoodWallet
  <2>8. Len(wallet) \in 1..Len(wallet)
    BY SourceData
  <2>9. w.address = wallet[Len(wallet)].address
    <3>1. CASE w.exists
      <4>1. b = Len(wallet)
        BY <2>1, <2>5, <2>6, <3>1 DEF Accepted, IsLatest
      <4> QED BY <2>6, <4>1
    <3>2. CASE ~w.exists
      <4>1. ~Latest(wallet).exists
        BY <2>1, <2>5, <2>6, <3>2 DEF Accepted
      <4>2. w = NoWallet /\ wallet[Len(wallet)] = NoWallet
        BY <2>5, <2>6, <2>8, <3>2, <4>1 DEF CopyInv, Latest
      <4> QED BY <4>2
    <3> QED BY <3>1, <3>2
  <2>10. /\ s \in 0..seen.shop /\ ap[Len(wallet)] \in Nat /\ ap[Len(wallet)] <= s
         /\ wallet[Len(wallet)].address = GivenAt(shop, ap[Len(wallet)])
    BY <2>2, <2>8 DEF Origins, WalletFrom
  <2>11. /\ p \in Nat /\ s <= p /\ p <= seen.shop /\ ap[Len(wallet)] <= p
         /\ o.spec = DeclaredAt(shop, p) /\ o.address = GivenAt(shop, ap[Len(wallet)])
    <3>1. s \in Nat /\ p \in Nat /\ s <= p /\ p <= seen.shop
      BY <1>1, <2>3, <2>10
    <3>2. ap[Len(wallet)] <= p
      BY <2>10, <3>1
    <3> QED BY <2>3, <2>7, <2>9, <2>10, <3>1, <3>2 DEF DeclaredAt
  <2>12. PICK v \in Nat : /\ ap[Len(wallet)] <= v /\ v <= p
                          /\ o.address = GivenAt(shop, v)
    BY <2>10, <2>11
  <2>13. OrderInv'
    <3>1. Latest(deployment).address = GivenAt(shop, reached)
      BY DEF OrderInv
    <3>2. wallet' = Append(wallet, o)
      BY <2>1, <2>4
    <3>3. s <= p /\ p <= seen.shop /\ p \in Nat /\ o.spec = DeclaredAt(shop, p)
      BY <2>11
    <3> QED BY <1>1, <2>2, <2>12, <3>1, <3>2, <3>3, OrderWallet
  <2> QED BY <1>1, <2>13, StaysCarried
<1> QED BY <1>2, <1>3

\* The Wallet controller publishes its verdict on the version that it has read:
\* the write fails if that is not the last.
LEMMA SetStatusOrder ==
  ASSUME IInv, IInv', CopyInv, OrderInv, ~touched, SetStatus
  PROVE  Carried
<1>1. /\ UNCHANGED <<shop, deployment, seen, touched, shopPass>> /\ walletPass.call = "setStatus"
      /\ seen.shop \in Nat /\ seen.wallet \in Nat
  BY SourceData DEF SetStatus
<1>2. CASE wallet' = wallet
  <2>1. OrderInv'
    BY <1>1, <1>2, OrderStays
  <2> QED BY <1>1, <2>1, StaysCarried
<1>3. CASE wallet' # wallet
  <2>1. wallet' = Append(wallet, walletPass.object) /\ walletPass.base = Len(wallet)
    BY <1>3 DEF SetStatus, Written, IsLatest
  <2>2. PICK s, ap : Origins(s, ap)
    BY DEF OrderInv
  <2>3. PICK o \in GoodWallet : o = walletPass.object
    BY DEF IInv, WalletPassInv
  <2>4. o.spec = Latest(wallet).spec /\ o.address = Validated(Latest(wallet).spec)
    BY <1>1, <2>1, <2>3 DEF CopyInv, Latest
  <2>5. Latest(wallet).spec = DeclaredAt(shop, s)
    BY <2>2 DEF Origins, WalletFrom
  <2>6. o.address = GivenAt(shop, s) /\ o.spec = DeclaredAt(shop, s)
    BY <2>4, <2>5, GivenIsValidated
  <2>7. Len(wallet) \in 1..Len(wallet)
    BY SourceData
  <2>8. s \in 0..seen.shop /\ ap[Len(wallet)] <= s
    BY <2>2, <2>7 DEF Origins, WalletFrom
  <2>9. s \in Nat /\ s <= s /\ s <= seen.shop
    BY <1>1, <2>8
  <2>10. OrderInv'
    <3>1. Latest(deployment).address = GivenAt(shop, reached)
      BY DEF OrderInv
    <3> QED BY <1>1, <2>1, <2>2, <2>3, <2>6, <2>8, <2>9, <3>1, OrderWallet
  <2> QED BY <1>1, <2>10, StaysCarried
<1> QED BY <1>2, <1>3

\* The Shop controller writes the Deployment, from the Wallet that it has read.
LEMMA WriteDeploymentOrder ==
  ASSUME IInv, IInv', OrderInv, ~touched, WriteDeployment
  PROVE  Carried
<1>1. /\ UNCHANGED <<shop, wallet, seen, touched>> /\ shopPass.call = "writeDeployment"
      /\ shopPass'.call = "idle"
      /\ seen.shop \in Nat /\ seen.wallet \in Nat
  BY SourceData DEF WriteDeployment, Fail, Rest
<1>2. CASE deployment' = deployment
  <2>1. OrderInv'
    BY <1>1, <1>2, OrderStays
  <2> QED BY <1>1, <1>2, <2>1, StaysCarried
<1>3. CASE deployment' # deployment
  <2>1. deployment' = Append(deployment, shopPass.object)
    BY <1>3 DEF WriteDeployment
  <2>2. PICK o \in Handed : o = shopPass.object
    BY <1>1 DEF IInv, ShopPassInv
  <2>3. PICK s, ap : Origins(s, ap)
    BY DEF OrderInv
  <2>4. PICK y \in Nat : /\ reached <= y /\ y <= ap[seen.wallet]
                         /\ o.address = GivenAt(shop, y)
    BY <1>1, <2>2, <2>3 DEF Origins, ServiceFrom
  <2> QED BY <1>1, <2>1, <2>2, <2>3, <2>4, OrderDeployment DEF Carried
<1> QED BY <1>2, <1>3

\* The Deployment controller's write leaves the address alone.
LEMMA ReportRolloutOrder ==
  ASSUME IInv, IInv', OrderInv, ~touched, ReportRollout
  PROVE  Carried
<1>1. UNCHANGED <<shop, wallet, seen, touched, shopPass>>
  BY DEF ReportRollout, process
<1>2. PICK o \in Handed : o = Latest(deployment)
  BY SourceData, Member
<1>3. deployment' = Append(deployment, o)
  BY <1>2 DEF ReportRollout
<1>4. PICK s, ap : Origins(s, ap)
  BY DEF OrderInv
<1>5. /\ reached \in Nat /\ reached <= ap[seen.wallet] /\ reached <= reached
      /\ o.address = GivenAt(shop, reached)
  BY <1>2, <1>4, ReachedBehind DEF OrderInv
<1> QED BY <1>1, <1>3, <1>4, <1>5, OrderDeployment DEF Carried

\* The steps that write none of the histories.
LEMMA QuietOrder ==
  ASSUME IInv, IInv', OrderInv, ~touched, UNCHANGED <<objects, touched>>, [Next]_vars
  PROVE  Carried
<1>0. /\ UNCHANGED <<shop, wallet, deployment, touched>> /\ shopPass \in ShopPass
      /\ seen.shop \in 1..Len(shop) /\ seen.wallet \in 1..Len(wallet)
      /\ Len(shop) \in Nat /\ Len(wallet) \in Nat
      /\ seen \in [shop : 1..Len(shop), wallet : 1..Len(wallet), deployment : 1..Len(deployment)]
  BY SourceData DEF objects, IInv, CacheInv
<1>rest. Rest.call = "idle"
  BY DEF Rest
<1> SUFFICES OrderInv'
  BY <1>0, StaysCarried
<1>1. CASE UNCHANGED <<seen, shopPass>>
  BY <1>0, <1>1, OrderStays
<1>2. CASE UNCHANGED seen /\ shopPass'.call \in {"idle", "getDeployment", "payoutAddress"}
  BY <1>0, <1>2, OrderStays
<1>3. CASE StartShop
  <2>1. UNCHANGED seen /\ shopPass'.call = "getWallet" /\ shopPass'.declared = shop[seen.shop]
    BY <1>3 DEF StartShop, Rest, Cached
  <2> QED BY <1>0, <2>1, OrderStays
<1>4. CASE GetWallet
  <2>1. UNCHANGED seen /\ shopPass.call = "getWallet"
    BY <1>4 DEF GetWallet
  <2>2. CASE shopPass'.call = "getDeployment"
    BY <1>2, <2>1, <2>2
  <2>3. CASE shopPass'.call = "writeWallet" /\ shopPass'.declared = shopPass.declared
    BY <1>0, <2>1, <2>3, OrderStays
  <2>4. \/ shopPass'.call = "getDeployment"
        \/ shopPass'.call = "writeWallet" /\ shopPass'.declared = shopPass.declared
    BY <1>0, <1>4 DEF GetWallet, Continue, Attempt, ShopPass
  <2> QED BY <2>2, <2>3, <2>4
<1>5. CASE WriteWallet
  <2>1. UNCHANGED seen /\ shopPass'.call \in {"idle", "getDeployment"}
    BY <1>0, <1>5, <1>rest DEF WriteWallet, Continue, Fail, ShopPass
  <2> QED BY <1>2, <2>1
<1>6. CASE GetDeployment
  <2>1. UNCHANGED seen /\ shopPass'.call \in {"idle", "payoutAddress"}
    BY <1>0, <1>6, <1>rest DEF GetDeployment, Attempt, Fail, ShopPass
  <2> QED BY <1>2, <2>1
<1>7. CASE PayoutAddress
  <2>1. PICK a : a = wallet[seen.wallet].address
    OBVIOUS
  <2>2. UNCHANGED seen /\ Deploy(a)
    BY <1>7, <2>1 DEF PayoutAddress, Cached
  <2>3. \/ shopPass'.call = "idle"
        \/ shopPass'.call = "writeDeployment" /\ shopPass'.object.address = a
    <3>1. PICK new : new = [exists |-> TRUE, address |-> a]
      OBVIOUS
    <3>2. new.address = a
      BY <3>1
    <3>3. shopPass' = Rest \/ Attempt("writeDeployment", shopPass.base, new)
      BY <2>2, <3>1 DEF Deploy
    <3> QED BY <1>0, <1>rest, <3>2, <3>3 DEF Attempt, ShopPass
  <2> QED BY <1>0, <2>1, <2>2, <2>3, OrderStays
<1>8. CASE WriteDeployment
  <2>1. UNCHANGED seen /\ shopPass'.call = "idle"
    BY <1>8, <1>rest DEF WriteDeployment, Fail
  <2> QED BY <1>2, <2>1
<1>9. CASE StartWallet \/ SetStatus
  BY <1>1, <1>9 DEF StartWallet, SetStatus
<1>10. CASE DeliverShop \/ DeliverWallet \/ DeliverDeployment
  <2>1. /\ seen.shop <= seen'.shop /\ seen.wallet <= seen'.wallet
        /\ UNCHANGED shopPass
    <3>1. CASE DeliverShop
      <4>1. seen' = [seen EXCEPT !["shop"] = seen["shop"] + 1] /\ UNCHANGED shopPass
        BY <3>1 DEF DeliverShop, Deliver
      <4> QED BY <1>0, <4>1
    <3>2. CASE DeliverWallet
      <4>1. seen' = [seen EXCEPT !["wallet"] = seen["wallet"] + 1] /\ UNCHANGED shopPass
        BY <3>2 DEF DeliverWallet, Deliver
      <4> QED BY <1>0, <4>1
    <3>3. CASE DeliverDeployment
      <4>1. seen' = [seen EXCEPT !["deployment"] = seen["deployment"] + 1] /\ UNCHANGED shopPass
        BY <3>3 DEF DeliverDeployment, Deliver
      <4> QED BY <1>0, <4>1
    <3> QED BY <1>10, <3>1, <3>2, <3>3
  <2> QED BY <1>0, <2>1, OrderStays
<1>11. CASE Restart
  <2>1. /\ seen'.shop = Len(shop) /\ seen'.wallet = Len(wallet) /\ shopPass'.call = "idle"
    BY <1>11, <1>rest DEF Restart
  <2>2. seen.shop <= seen'.shop /\ seen.wallet <= seen'.wallet
    BY <1>0, <2>1
  <2> QED BY <1>0, <2>1, <2>2, OrderStays
<1>12. CASE Declare \/ ReportRollout \/ Tamper
  BY <1>1, <1>12 DEF Declare, ReportRollout, Tamper, process
<1>13. CASE UNCHANGED vars
  BY <1>1, <1>13 DEF vars, process
<1> QED BY <1>3, <1>4, <1>5, <1>6, <1>7, <1>8, <1>9, <1>10, <1>11, <1>12, <1>13
        DEF Next, ShopWorker, WalletWorker

\* Every step keeps the order, or is an edit of the owner.
LEMMA OrderNext ==
  ASSUME IInv, IInv', CopyInv, OrderInv, ~touched, ~touched', [Next]_vars
  PROVE  \/ Carried
         \/ /\ \E a \in Typed : shop' = Append(shop, a)
            /\ UNCHANGED deployment /\ reached' = reached /\ OrderInv'
<1>1. touched' = touched
  BY DEF IInv, RestInv
<1>2. CASE UNCHANGED objects
  BY <1>1, <1>2, QuietOrder
<1>3. CASE WriteWallet
  BY <1>3, WriteWalletOrder
<1>4. CASE SetStatus
  BY <1>4, SetStatusOrder
<1>5. CASE WriteDeployment
  BY <1>5, WriteDeploymentOrder
<1>6. CASE ReportRollout
  BY <1>6, ReportRolloutOrder
<1>7. CASE Declare
  <2>1. PICK a \in Typed : shop' = Append(shop, a)
    BY <1>7 DEF Declare
  <2>2. UNCHANGED <<wallet, deployment, seen, shopPass, touched>>
    BY <1>7 DEF Declare, process
  <2>3. OrderInv' /\ reached' = reached
    BY <2>1, <2>2, OrderDeclare
  <2> QED BY <2>1, <2>2, <2>3
<1>8. ~Tamper
  BY DEF Tamper
<1>9. StartShop \/ GetWallet \/ GetDeployment \/ PayoutAddress \/ StartWallet \/ DeliverShop
      \/ DeliverWallet \/ DeliverDeployment \/ Restart \/ UNCHANGED vars => UNCHANGED objects
  BY DEF StartShop, GetWallet, GetDeployment, PayoutAddress, StartWallet, DeliverShop,
         DeliverWallet, DeliverDeployment, Deliver, Restart, vars
<1> QED BY <1>2, <1>3, <1>4, <1>5, <1>6, <1>7, <1>8, <1>9 DEF Next, ShopWorker, WalletWorker

\* All that keeps the order.
OrderedInv == IInv /\ CopyInv /\ OrderInv

\* OrderedInv is inductive.
LEMMA OrderedNext == OrderedInv /\ [Next]_vars => OrderedInv'
<1> SUFFICES ASSUME IInv, CopyInv, OrderInv, [Next]_vars PROVE OrderedInv'
  BY DEF OrderedInv
<1>1. IInv' /\ CopyInv'
  BY InvNext, CopyNext
<1>2. OrderInv'
  <2>1. CASE touched'
    BY <2>1 DEF OrderInv
  <2>2. CASE ~touched'
    <3>1. ~touched
      BY <2>2 DEF Next, ShopWorker, WalletWorker, StartShop, GetWallet, WriteWallet, GetDeployment,
         PayoutAddress, WriteDeployment, StartWallet, SetStatus, DeliverShop, DeliverWallet,
         DeliverDeployment, Deliver, Restart, Declare, ReportRollout, Tamper, vars
    <3> QED BY <1>1, <2>2, <3>1, OrderNext DEF Carried
  <2> QED BY <2>1, <2>2
<1> QED BY <1>1, <1>2 DEF OrderedInv

(***************************************************************************)
(* The refinement.                                                         *)
(***************************************************************************)

\* The contract's notion of what is given is the Wallet controller's.
LEMMA GivenByContract ==
  ASSUME NEW h, NEW q \in Nat
  PROVE  Contract!Given(h, q) = GivenAt(h, q)
  BY DEF Contract!Given, GivenAt, Validated

\* The initial states are initial states of the contract.
LEMMA ContractInit == Init => Contract!Init
<1> SUFFICES ASSUME Init PROVE Contract!Init
  OBVIOUS
<1>1. shop \in {<<a>> : a \in Typed} /\ touched = FALSE
  BY DEF Init
<1>2. deployment = <<NoDeployment>> /\ Len(deployment) = 1
  BY DEF Init
<1>3. Latest(deployment).address = Empty
  BY <1>2 DEF Latest, NoDeployment
<1>4. Reached[Len(deployment)] = 0
  <2>1. shop \in Seq(Typed)
    BY <1>1
  <2>2. Chain(deployment, shop)[1] = 0
    BY <2>1, NoneReached
  <2> QED BY <1>2, <2>2, ReachedIsChain, Zenon
<1> QED BY <1>1, <1>3, <1>4 DEF Contract!Init, Contract!Typed, Typed

\* Every step is one of the contract, or a stutter.
LEMMA ContractNext ==
  ASSUME OrderedInv, OrderedInv', [Next]_vars
  PROVE  [Contract!Next]_Contract!vars
<1>0. IInv /\ IInv' /\ CopyInv /\ OrderInv /\ OrderInv'
  BY DEF OrderedInv
<1>1. reached \in Nat /\ reached' \in Nat
  <2>1. reached \in Nat
    BY <1>0, SourceData
  <2>2. reached' \in Nat
    <3>1. PICK d \in Seq(Handed'), h \in Seq(Typed), n \in Nat :
            d = deployment' /\ h = shop' /\ n = Len(deployment')
      BY <1>0 DEF IInv, CacheInv, DeploymentInv
    <3>2. PICK f : f = Chain(d, h)
      OBVIOUS
    <3>3. f[n] \in Nat
      BY <3>2, ChainSteps
    <3>4. reached' = Chain(deployment', shop')[Len(deployment')]
      BY ReachedIsChainNext, Zenon DEF reached
    <3>5. reached' = f[n]
      BY <3>1, <3>2, <3>4, Zenon
    <3> QED BY <3>3, <3>5
  <2> QED BY <2>1, <2>2
<1>2. shop' = shop \/ \E a \in Typed : shop' = Append(shop, a)
  BY DEF Next, ShopWorker, WalletWorker, StartShop, GetWallet, WriteWallet, GetDeployment,
         PayoutAddress, WriteDeployment, StartWallet, SetStatus, DeliverShop, DeliverWallet,
         DeliverDeployment, Deliver, Restart, Declare, ReportRollout, Tamper, vars, objects
<1>3. CASE touched'
  <2>1. touched' = TRUE
    BY <1>0, <1>3 DEF IInv, RestInv
  <2>2. Latest(deployment)' \in Deployment
    <3>1. deployment' \in Seq(Deployment) /\ Len(deployment') > 0
      <4>1. Handed' \subseteq Deployment
        BY DEF Handed
      <4> QED BY <1>0, <4>1, Wider DEF IInv, DeploymentInv
    <3> QED BY <3>1, Member DEF Latest
  <2>3. Latest(deployment)'.address \in Typed
    BY <2>2 DEF Deployment
  <2>4. Contract!Meddle
    BY <1>1, <1>2, <2>1, <2>3 DEF Contract!Meddle, Contract!Typed, Typed, reached
  <2> QED BY <2>4 DEF Contract!Next
<1>4. CASE ~touched' /\ ~touched
  <2>1. touched' = touched
    BY <1>0, <1>4 DEF IInv, RestInv
  <2>2. CASE shop' = shop /\ reached <= reached'
    <3>1. /\ Latest(deployment)'.address = GivenAt(shop', reached')
      BY <1>0, <1>4 DEF OrderInv
    <3>2. reached' <= Len(shop)
      <4>1. PICK s, ap : Origins(s, ap)'
        BY <1>0, <1>4 DEF OrderInv
      <4>2. /\ s \in 0..seen'.shop /\ WalletFrom(s, ap)' /\ ServiceFrom(ap)'
        BY <4>1 DEF Origins
      <4>3. /\ seen'.shop \in 1..Len(shop) /\ Len(shop) \in Nat /\ seen'.wallet \in 1..Len(wallet')
        BY <1>0, <2>2 DEF IInv, CacheInv
      <4>4. s \in Nat /\ s <= Len(shop)
        BY <4>2, <4>3
      <4>5. ap[seen'.wallet] \in Nat /\ ap[seen'.wallet] <= s
        BY <4>2, <4>3 DEF WalletFrom
      <4>6. reached' <= ap[seen'.wallet]
        BY <4>2 DEF ServiceFrom
      <4> QED BY <1>1, <4>4, <4>5, <4>6
    <3>3. reached' \in reached..Len(shop)
      <4>1. Len(shop) \in Nat
        BY <1>0, SourceData
      <4> QED BY <1>1, <2>2, <3>2, <4>1
    <3>4. Latest(deployment)'.address = Contract!Given(shop, reached')
      BY <1>1, <2>2, <3>1, GivenByContract
    <3>5. Contract!Follow
      BY <2>1, <2>2, <3>3, <3>4 DEF Contract!Follow, reached
    <3> QED BY <3>5 DEF Contract!Next
  <2>3. CASE /\ \E a \in Typed : shop' = Append(shop, a)
             /\ UNCHANGED deployment /\ reached' = reached
    <3>1. Contract!Declare
      BY <2>1, <2>3 DEF Contract!Declare, Contract!Typed, Typed, reached, Latest
    <3> QED BY <3>1 DEF Contract!Next
  <2>4. reached \in Nat /\ (reached' = reached => reached <= reached')
    BY <1>1
  <2>5. CASE shop' = shop
    BY <1>0, <1>4, <2>2, <2>4, <2>5, OrderNext DEF Carried
  <2>6. CASE shop' # shop
    <3>1. Declare
      BY <2>6 DEF Next, ShopWorker, WalletWorker, StartShop, GetWallet, WriteWallet, GetDeployment,
         PayoutAddress, WriteDeployment, StartWallet, SetStatus, DeliverShop, DeliverWallet,
         DeliverDeployment, Deliver, Restart, ReportRollout, Tamper, vars, objects
    <3>2. PICK a \in Typed : shop' = Append(shop, a)
      BY <3>1 DEF Declare
    <3>3. UNCHANGED <<wallet, deployment, seen, shopPass, touched>>
      BY <3>1 DEF Declare, process
    <3>4. reached' = reached
      BY <1>0, <1>4, <3>2, <3>3, OrderDeclare
    <3> QED BY <2>3, <3>2, <3>3, <3>4
  <2> QED BY <2>5, <2>6
<1>5. CASE ~touched' /\ touched
  BY <1>5 DEF Next, ShopWorker, WalletWorker, StartShop, GetWallet, WriteWallet, GetDeployment,
     PayoutAddress, WriteDeployment, StartWallet, SetStatus, DeliverShop, DeliverWallet,
     DeliverDeployment, Deliver, Restart, Declare, ReportRollout, Tamper, vars
<1> QED BY <1>3, <1>4, <1>5

\* Payout implements PayoutContract: as long as nobody else edits the children,
\* the payment service only ever goes on to the verdict on a later declaration
\* of the owner, never back to an earlier one, whatever the caches show and
\* whichever passes fail or are cut off (shop_controller.go:949-983,
\* wallet_controller.go).
THEOREM PromiseKept == Spec => KeepsPromise
<1>1. Init => OrderedInv
  BY InvInit, CopyInit, OrderInit DEF OrderedInv
<1>2. OrderedInv /\ [Next]_vars => OrderedInv'
  BY OrderedNext
<1>3. OrderedInv /\ OrderedInv' /\ [Next]_vars => [Contract!Next]_Contract!vars
  BY ContractNext
<1> QED BY <1>1, <1>2, <1>3, ContractInit, PTL DEF Spec, KeepsPromise, Contract!Spec

(***************************************************************************)
(* Rest.                                                                   *)
(***************************************************************************)

\* What the Shop controller has settled when no event and no key is left for
\* it, at each call of its pass.
ShopSettled ==
  AllSeen /\ "shop" \notin queued =>
    /\ shopPass.call # "idle" => shopPass.declared = Latest(shop)
    /\ shopPass.call \notin {"getWallet", "writeWallet"} =>
         Latest(wallet).exists /\ Latest(wallet).spec = Latest(shop)
    /\ shopPass.call = "idle" =>
         Latest(deployment) = [exists |-> TRUE, address |-> Latest(wallet).address]
    /\ shopPass.call = "payoutAddress" => shopPass.object = Latest(deployment)

\* What the Wallet controller has settled when none is left for it.
WalletSettled ==
  /\ walletPass.call = "setStatus" =>
       walletPass.object.address = Validated(walletPass.object.spec)
  /\ seen.wallet = Len(wallet) /\ "wallet" \notin queued /\ walletPass.call = "idle"
     /\ Latest(wallet).exists
       => Latest(wallet).address = Validated(Latest(wallet).spec)

Settled == IInv /\ ShopSettled /\ WalletSettled

\* A history that grows leaves an event.
LEMMA GrowthIsUnseen ==
  ASSUME IInv, seen' = seen,
         \/ \E o : shop' = Append(shop, o)
         \/ \E o : wallet' = Append(wallet, o)
         \/ \E o : deployment' = Append(deployment, o)
  PROVE  ~AllSeen' /\ ((\E o : wallet' = Append(wallet, o)) => seen.wallet # Len(wallet'))
<1>1. /\ shop \in Seq(Typed) /\ wallet \in Seq(GoodWallet) /\ deployment \in Seq(Handed)
      /\ seen.shop \in 1..Len(shop) /\ seen.wallet \in 1..Len(wallet)
      /\ seen.deployment \in 1..Len(deployment)
      /\ Len(shop) \in Nat /\ Len(wallet) \in Nat /\ Len(deployment) \in Nat
  BY DEF IInv, CacheInv, WalletInv, DeploymentInv
<1>2. ASSUME NEW o, shop' = Append(shop, o) PROVE seen.shop # Len(shop')
  BY <1>1, <1>2
<1>3. ASSUME NEW o, wallet' = Append(wallet, o) PROVE seen.wallet # Len(wallet')
  BY <1>1, <1>3
<1>4. ASSUME NEW o, deployment' = Append(deployment, o) PROVE seen.deployment # Len(deployment')
  BY <1>1, <1>4
<1>5. AllSeen' => /\ seen'.shop = Len(shop') /\ seen'.wallet = Len(wallet')
                  /\ seen'.deployment = Len(deployment')
  BY DEF AllSeen
<1> QED BY <1>2, <1>3, <1>4, <1>5

\* What the caches show when everything is delivered.
LEMMA CachedIsLatest ==
  ASSUME AllSeen
  PROVE  /\ Cached.shop = Latest(shop) /\ Cached.wallet = Latest(wallet)
         /\ Cached.deployment = Latest(deployment)
  BY DEF AllSeen, Cached, Latest

\* The initial states are settled, for the Shop is queued.
LEMMA SettledInit == Init => Settled
<1> SUFFICES ASSUME Init PROVE Settled
  OBVIOUS
<1>1. "shop" \in queued /\ walletPass = WalletRest /\ wallet = <<NoWallet>>
  BY DEF Init
<1>2. Latest(wallet) = NoWallet
  BY <1>1 DEF Latest
<1>3. ~Latest(wallet).exists /\ walletPass.call = "idle"
  BY <1>1, <1>2 DEF NoWallet, WalletRest
<1> QED BY <1>1, <1>3, InvInit DEF Settled, ShopSettled, WalletSettled

\* The Shop controller's worker.
LEMMA ShopWorkerSettled ==
  ASSUME Settled, ShopWorker
  PROVE  ShopSettled'
<1>0. IInv /\ ShopSettled /\ WalletSettled
  BY DEF Settled
<1>1. CASE StartShop
  <2>1. /\ UNCHANGED <<shop, wallet, deployment, seen>>
        /\ shopPass' = [Rest EXCEPT !.call = "getWallet", !.declared = Cached.shop]
    BY <1>1 DEF StartShop, objects
  <2>2. shopPass'.call = "getWallet" /\ shopPass'.declared = Cached.shop
    BY <2>1 DEF Rest
  <2>3. AllSeen' => Cached.shop = Latest(shop')
    BY <2>1, CachedIsLatest DEF AllSeen
  <2> QED BY <2>2, <2>3 DEF ShopSettled
<1>2. CASE GetWallet
  <2>1. /\ UNCHANGED <<shop, wallet, deployment, seen, queued>> /\ shopPass.call = "getWallet"
        /\ shopPass \in ShopPass
    BY <1>0, <1>2 DEF GetWallet, Continue, Attempt, objects, IInv, ShopPassInv
  <2>2. shopPass'.declared = shopPass.declared
    BY <1>2, <2>1 DEF GetWallet, Continue, Attempt, ShopPass
  <2>3. \/ shopPass'.call = "writeWallet"
        \/ /\ shopPass'.call = "getDeployment"
           /\ Cached.wallet = [Cached.wallet EXCEPT !.exists = TRUE, !.spec = shopPass.declared]
    BY <1>2, <2>1 DEF GetWallet, Continue, Attempt, ShopPass
  <2>4. Cached.wallet \in GoodWallet
    BY <1>0, CachedTypes
  <2>5. shopPass'.call = "getDeployment"
          => Cached.wallet.exists /\ Cached.wallet.spec = shopPass.declared
    BY <2>3, <2>4 DEF GoodWallet
  <2>6. SUFFICES ASSUME AllSeen', "shop" \notin queued'
                 PROVE  /\ shopPass'.declared = Latest(shop')
                        /\ shopPass'.call = "getDeployment"
                             => Latest(wallet').exists /\ Latest(wallet').spec = Latest(shop')
    BY <2>3 DEF ShopSettled
  <2>7. AllSeen /\ "shop" \notin queued
    BY <2>1, <2>6 DEF AllSeen
  <2>8. shopPass.declared = Latest(shop)
    BY <1>0, <2>1, <2>7 DEF ShopSettled
  <2>9. Cached.wallet = Latest(wallet)
    BY <2>7, CachedIsLatest
  <2> QED BY <2>1, <2>2, <2>5, <2>8, <2>9
<1>3. CASE WriteWallet
  <2>1. \/ "shop" \in queued'
        \/ wallet' = Append(wallet, shopPass.object) /\ UNCHANGED seen
    BY <1>3 DEF WriteWallet, Fail
  <2> QED BY <1>0, <2>1, GrowthIsUnseen DEF ShopSettled
<1>4. CASE GetDeployment
  <2>1. /\ UNCHANGED <<shop, wallet, deployment, seen>> /\ shopPass.call = "getDeployment"
        /\ shopPass \in ShopPass
    BY <1>0, <1>4 DEF GetDeployment, objects, IInv, ShopPassInv
  <2>2. \/ "shop" \in queued'
        \/ /\ queued' = queued /\ shopPass'.call = "payoutAddress"
           /\ shopPass'.declared = shopPass.declared /\ shopPass'.object = Cached.deployment
    BY <1>4, <2>1 DEF GetDeployment, Attempt, Fail, ShopPass
  <2>3. SUFFICES ASSUME AllSeen', "shop" \notin queued'
                 PROVE  /\ shopPass'.call = "payoutAddress" /\ shopPass'.declared = Latest(shop')
                        /\ Latest(wallet').exists /\ Latest(wallet').spec = Latest(shop')
                        /\ shopPass'.object = Latest(deployment')
    BY DEF ShopSettled
  <2>4. AllSeen /\ "shop" \notin queued
    BY <2>1, <2>2, <2>3 DEF AllSeen
  <2>5. /\ shopPass.declared = Latest(shop)
        /\ Latest(wallet).exists /\ Latest(wallet).spec = Latest(shop)
    BY <1>0, <2>1, <2>4 DEF ShopSettled
  <2>6. Cached.deployment = Latest(deployment)
    BY <2>4, CachedIsLatest
  <2> QED BY <2>1, <2>2, <2>3, <2>5, <2>6
<1>5. CASE PayoutAddress
  <2>1. /\ UNCHANGED <<shop, wallet, deployment, seen, queued>> /\ shopPass.call = "payoutAddress"
        /\ shopPass \in ShopPass
    BY <1>0, <1>5 DEF PayoutAddress, Deploy, Attempt, objects, IInv, ShopPassInv
  <2>2. \/ /\ shopPass'.call = "idle"
           /\ shopPass.object = [exists |-> TRUE, address |-> Cached.wallet.address]
        \/ shopPass'.call = "writeDeployment" /\ shopPass'.declared = shopPass.declared
    <3>1. PICK n : n = [exists |-> TRUE, address |-> Cached.wallet.address]
      OBVIOUS
    <3>2. IF n = shopPass.object THEN shopPass' = Rest
                                 ELSE Attempt("writeDeployment", shopPass.base, n)
      BY <1>5, <3>1 DEF PayoutAddress, Deploy
    <3>3. CASE n = shopPass.object
      <4>1. shopPass' = Rest
        BY <3>2, <3>3
      <4>2. shopPass'.call = "idle"
        BY <4>1 DEF Rest
      <4> QED BY <3>1, <3>3, <4>2
    <3>4. CASE n # shopPass.object
      <4>1. shopPass' = [shopPass EXCEPT !.call = "writeDeployment", !.base = shopPass.base,
                                         !.object = n]
        BY <3>2, <3>4, Zenon DEF Attempt
      <4> QED BY <2>1, <4>1 DEF ShopPass
    <3> QED BY <3>3, <3>4
  <2>3. SUFFICES ASSUME AllSeen', "shop" \notin queued'
                 PROVE  /\ shopPass'.call # "idle" => shopPass'.declared = Latest(shop')
                        /\ Latest(wallet').exists /\ Latest(wallet').spec = Latest(shop')
                        /\ shopPass'.call = "idle" => Latest(deployment')
                             = [exists |-> TRUE, address |-> Latest(wallet').address]
    BY <2>2 DEF ShopSettled
  <2>4. AllSeen /\ "shop" \notin queued
    BY <2>1, <2>3 DEF AllSeen
  <2>5. /\ shopPass.declared = Latest(shop)
        /\ Latest(wallet).exists /\ Latest(wallet).spec = Latest(shop)
        /\ shopPass.object = Latest(deployment)
    BY <1>0, <2>1, <2>4 DEF ShopSettled
  <2>6. Cached.wallet = Latest(wallet)
    BY <2>4, CachedIsLatest
  <2> QED BY <2>1, <2>2, <2>5, <2>6
<1>6. CASE WriteDeployment
  <2>1. \/ "shop" \in queued'
        \/ deployment' = Append(deployment, shopPass.object) /\ UNCHANGED seen
    BY <1>6 DEF WriteDeployment, Fail
  <2> QED BY <1>0, <2>1, GrowthIsUnseen DEF ShopSettled
<1> QED BY <1>1, <1>2, <1>3, <1>4, <1>5, <1>6 DEF ShopWorker

\* A step that leaves the Shop controller alone, or leaves it an event.
LEMMA ShopAlone ==
  ASSUME Settled,
         \/ "shop" \in queued' \/ ~AllSeen'
         \/ /\ UNCHANGED <<shop, wallet, deployment, seen, shopPass>>
            /\ ("shop" \in queued <=> "shop" \in queued')
  PROVE  ShopSettled'
<1>1. CASE "shop" \in queued' \/ ~AllSeen'
  BY <1>1 DEF ShopSettled
<1>2. CASE /\ UNCHANGED <<shop, wallet, deployment, seen, shopPass>>
           /\ "shop" \in queued <=> "shop" \in queued'
  <2>1. AllSeen' <=> AllSeen
    BY <1>2 DEF AllSeen
  <2> QED BY <1>2, <2>1 DEF Settled, ShopSettled
<1> QED BY <1>1, <1>2

\* A step that leaves the Wallet controller alone, or leaves it an event.
LEMMA WalletAlone ==
  ASSUME Settled, UNCHANGED walletPass \/ walletPass' = WalletRest,
         \/ "wallet" \in queued' \/ seen'.wallet # Len(wallet') \/ ~Latest(wallet').exists
         \/ /\ UNCHANGED <<wallet, walletPass>> /\ seen'.wallet = seen.wallet
            /\ "wallet" \in queued <=> "wallet" \in queued'
  PROVE  WalletSettled'
<1>1. walletPass'.call = "setStatus"
        => walletPass'.object.address = Validated(walletPass'.object.spec)
  BY DEF Settled, WalletSettled, WalletRest
<1> QED BY <1>1 DEF Settled, WalletSettled

\* The Wallet controller's worker.
LEMMA WalletWorkerSettled ==
  ASSUME Settled, WalletWorker
  PROVE  Settled'
<1>0. IInv /\ IInv'
  BY InvNext DEF Settled, Next
<1>1. CASE StartWallet
  <2>1. UNCHANGED <<shop, wallet, deployment, seen, shopPass>> /\ queued' = queued \ {"wallet"}
    BY <1>1 DEF StartWallet, objects
  <2>2. ShopSettled'
    BY <2>1, ShopAlone
  <2>3. Cached.wallet \in GoodWallet
    BY <1>0, CachedTypes
  <2>4. CASE Cached.wallet.exists
    <3>1. PICK w \in GoodWallet : w = Cached.wallet
      BY <2>3
    <3>2. walletPass' = [call |-> "setStatus", base |-> seen.wallet,
                         object |-> [w EXCEPT !.address = Validated(w.spec),
                                              !.reason = Verdict(w.spec)]]
      BY <1>1, <2>4, <3>1 DEF StartWallet
    <3>3. /\ walletPass'.call = "setStatus"
          /\ walletPass'.object.address = Validated(walletPass'.object.spec)
      BY <3>2 DEF GoodWallet
    <3> QED BY <1>0, <2>2, <3>3 DEF Settled, WalletSettled
  <2>5. CASE ~Cached.wallet.exists
    <3>1. walletPass' = WalletRest
      BY <1>1, <2>5 DEF StartWallet
    <3>2. seen'.wallet = Len(wallet') => ~Latest(wallet').exists
      BY <2>1, <2>5 DEF Cached, Latest
    <3>3. WalletSettled'
      BY <3>1, <3>2, WalletAlone
    <3> QED BY <1>0, <2>2, <3>3 DEF Settled
  <2> QED BY <2>4, <2>5
<1>2. CASE SetStatus
  <2>1. /\ UNCHANGED <<shop, deployment, seen, shopPass>> /\ walletPass' = WalletRest
        /\ walletPass.call = "setStatus"
    BY <1>2 DEF SetStatus
  <2>2. \/ "wallet" \in queued' /\ wallet' = wallet /\ queued' = queued \cup {"wallet"}
        \/ "wallet" \in queued' /\ wallet' = Written(wallet, walletPass.object)
           /\ queued' = queued \cup {"wallet"}
        \/ queued' = queued /\ wallet' = Written(wallet, walletPass.object)
    BY <1>2 DEF SetStatus
  <2>3. \/ wallet' = wallet
        \/ \E o : wallet' = Append(wallet, o)
    BY <2>2 DEF Written
  <2>4. ShopSettled'
    BY <1>0, <2>1, <2>2, <2>3, ShopAlone, GrowthIsUnseen
  <2>5. WalletSettled'
    <3>1. CASE "wallet" \in queued'
      BY <2>1, <3>1, WalletAlone
    <3>2. CASE wallet' = Written(wallet, walletPass.object)
      <4>1. CASE walletPass.object = Latest(wallet)
        <5>1. wallet' = wallet
          BY <3>2, <4>1 DEF Written
        <5>2. Latest(wallet').address = Validated(Latest(wallet').spec)
          BY <2>1, <4>1, <5>1 DEF Settled, WalletSettled
        <5>3. walletPass'.call = "idle"
          BY <2>1 DEF WalletRest
        <5> QED BY <5>2, <5>3 DEF WalletSettled
      <4>2. CASE walletPass.object # Latest(wallet)
        <5>1. wallet' = Append(wallet, walletPass.object)
          BY <3>2, <4>2 DEF Written
        <5> QED BY <1>0, <2>1, <5>1, GrowthIsUnseen, WalletAlone
      <4> QED BY <4>1, <4>2
    <3> QED BY <2>2, <3>1, <3>2
  <2> QED BY <1>0, <2>4, <2>5 DEF Settled
<1> QED BY <1>1, <1>2 DEF WalletWorker

\* Settled is inductive.
LEMMA SettledNext == Settled /\ [Next]_vars => Settled'
<1> SUFFICES ASSUME Settled, [Next]_vars PROVE Settled'
  OBVIOUS
<1>0. IInv /\ IInv'
  BY InvNext DEF Settled
<1>1. CASE ShopWorker
  <2>1. ShopSettled'
    BY <1>1, ShopWorkerSettled
  <2>2. UNCHANGED <<walletPass, seen>> /\ ("wallet" \in queued <=> "wallet" \in queued')
    BY <1>1 DEF ShopWorker, StartShop, GetWallet, WriteWallet, GetDeployment, PayoutAddress,
       WriteDeployment, Continue, Fail, Attempt, Deploy
  <2>3. wallet' = wallet \/ \E o : wallet' = Append(wallet, o)
    BY <1>1 DEF ShopWorker, StartShop, GetWallet, WriteWallet, GetDeployment, PayoutAddress,
       WriteDeployment, objects
  <2>4. WalletSettled'
    BY <1>0, <2>2, <2>3, WalletAlone, GrowthIsUnseen
  <2> QED BY <1>0, <2>1, <2>4 DEF Settled
<1>2. CASE WalletWorker
  BY <1>2, WalletWorkerSettled
<1>3. CASE DeliverShop \/ DeliverWallet \/ DeliverDeployment
  <2>1. /\ UNCHANGED <<objects, shopPass, walletPass>>
        /\ "shop" \in queued'
        /\ ("wallet" \in queued <=> "wallet" \in queued') \/ "wallet" \in queued'
    BY <1>3 DEF DeliverShop, DeliverWallet, DeliverDeployment, Deliver
  <2>2. seen'.wallet = seen.wallet \/ "wallet" \in queued'
    BY <1>0, <1>3 DEF DeliverShop, DeliverWallet, DeliverDeployment, Deliver, IInv, CacheInv
  <2>3. ShopSettled' /\ WalletSettled'
    BY <2>1, <2>2, ShopAlone, WalletAlone DEF objects
  <2> QED BY <1>0, <2>3 DEF Settled
<1>4. CASE Restart
  <2>1. /\ UNCHANGED objects /\ "shop" \in queued' /\ walletPass' = WalletRest
        /\ Latest(wallet).exists => "wallet" \in queued'
    BY <1>4 DEF Restart
  <2>2. ShopSettled' /\ WalletSettled'
    BY <2>1, ShopAlone, WalletAlone DEF objects
  <2> QED BY <1>0, <2>2 DEF Settled
<1>5. CASE Declare \/ ReportRollout
  <2>1. /\ UNCHANGED <<wallet, process>>
        /\ (\E o : shop' = Append(shop, o)) \/ \E o : deployment' = Append(deployment, o)
    BY <1>5 DEF Declare, ReportRollout
  <2>2. ~AllSeen'
    BY <1>0, <2>1, GrowthIsUnseen DEF process
  <2>3. ShopSettled' /\ WalletSettled'
    BY <2>1, <2>2, ShopAlone, WalletAlone DEF process
  <2> QED BY <1>0, <2>3 DEF Settled
<1>6. CASE Tamper
  <2>1. /\ UNCHANGED <<shop, process>>
        /\ \/ wallet' = wallet
           \/ \E o : wallet' = Append(wallet, o)
        /\ \/ deployment' = deployment
           \/ \E o : deployment' = Append(deployment, o)
    <3>1. UNCHANGED <<shop, process>>
      BY <1>6 DEF Tamper
    <3>2. \/ wallet' = wallet
          \/ \E o : wallet' = Append(wallet, o)
      BY <1>6, Zenon DEF Tamper, Written
    <3>3. \/ deployment' = deployment
          \/ \E o : deployment' = Append(deployment, o)
      BY <1>6, Zenon DEF Tamper, Written
    <3> QED BY <3>1, <3>2, <3>3
  <2>2. ShopSettled'
    BY <1>0, <2>1, GrowthIsUnseen, ShopAlone DEF process
  <2>3. WalletSettled'
    BY <1>0, <2>1, GrowthIsUnseen, WalletAlone DEF process
  <2> QED BY <1>0, <2>2, <2>3 DEF Settled
<1>7. CASE UNCHANGED vars
  <2>1. ShopSettled' /\ WalletSettled'
    BY <1>7, ShopAlone, WalletAlone DEF vars, objects, process
  <2> QED BY <1>0, <2>1 DEF Settled
<1> QED BY <1>1, <1>2, <1>3, <1>4, <1>5, <1>6, <1>7 DEF Next

\* The operator never comes to rest before the payment service has what the
\* owner declared last, whatever failed or was changed by others on the way:
\* no requeue is needed (shop_controller.go:972).
THEOREM RestIsRight == Spec => []RestsWhenRight
<1>1. Settled => RestsWhenRight
  <2> SUFFICES ASSUME Settled, Quiet
               PROVE  Latest(deployment) = [exists |-> TRUE, address |-> Validated(Latest(shop))]
    BY DEF RestsWhenRight
  <2>1. /\ AllSeen /\ seen.wallet = Len(wallet) /\ queued = {}
        /\ shopPass.call = "idle" /\ walletPass.call = "idle"
    BY DEF Quiet, AllSeen
  <2>2. /\ Latest(wallet).exists /\ Latest(wallet).spec = Latest(shop)
        /\ Latest(deployment) = [exists |-> TRUE, address |-> Latest(wallet).address]
    BY <2>1 DEF Settled, ShopSettled
  <2>3. Latest(wallet).address = Validated(Latest(wallet).spec)
    BY <2>1, <2>2 DEF Settled, WalletSettled
  <2> QED BY <2>2, <2>3
<1> QED BY <1>1, SettledInit, SettledNext, PTL DEF Spec
=============================================================================
