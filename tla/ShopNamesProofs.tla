-------------------------- MODULE ShopNamesProofs --------------------------
(***************************************************************************)
(* Names, labels and matchers keep Shops apart whatever the Shops are      *)
(* called: proofs about ShopNames and ShopSelectors for any set of names,  *)
(* and what they say of a Shop whose objects are made (MCMonitoring).      *)
(***************************************************************************)
EXTENDS MCMonitoring, SequenceTheorems, TLAPS

\* Tuples of words are names.
LEMMA Tuples ==
  ASSUME NEW u \in Words, NEW v \in Words, NEW w \in Words
  PROVE  /\ <<u>> \in Seq(Words)
         /\ <<u, v>> \in Seq(Words) /\ Len(<<u, v>>) = 2
         /\ <<u, v, w>> \in Seq(Words) /\ Len(<<u, v, w>>) = 3
  OBVIOUS

\* A name with an end of known length has one end and one beginning.
LEMMA SameEnd ==
  ASSUME NEW s \in Seq(Words), NEW t \in Seq(Words), NEW u \in Seq(Words), NEW v \in Seq(Words),
         Len(u) = Len(v), s \o u = t \o v
  PROVE  u = v
<1>1. /\ Len(s \o u) = Len(s) + Len(u) /\ Len(t \o v) = Len(t) + Len(v)
      /\ \A i \in 1..Len(s) + Len(u) :
           (s \o u)[i] = IF i <= Len(s) THEN s[i] ELSE u[i - Len(s)]
      /\ \A i \in 1..Len(t) + Len(v) :
           (t \o v)[i] = IF i <= Len(t) THEN t[i] ELSE v[i - Len(t)]
  BY ConcatProperties
<1>2. Len(s) \in Nat /\ Len(u) \in Nat /\ Len(t) \in Nat
  BY LenProperties
<1>3. Len(s) = Len(t)
  BY <1>1, <1>2
<1>4. ASSUME NEW i \in 1..Len(u) PROVE u[i] = v[i]
  <2>1. /\ i + Len(s) \in 1..Len(s) + Len(u) /\ i + Len(s) \in 1..Len(t) + Len(v)
        /\ ~(i + Len(s) <= Len(s)) /\ ~(i + Len(s) <= Len(t))
        /\ i + Len(s) - Len(s) = i /\ i + Len(s) - Len(t) = i
    BY <1>2, <1>3
  <2> QED BY <1>1, <2>1
<1> QED BY <1>4, SeqEqual

LEMMA SameBeginning ==
  ASSUME NEW s \in Seq(Words), NEW t \in Seq(Words), NEW u \in Seq(Words), NEW v \in Seq(Words),
         Len(u) = Len(v), s \o u = t \o v
  PROVE  s = t
<1>1. u = v
  BY SameEnd
<1> QED BY <1>1, ConcatSimplifications

\* The beginning of a name tells the Shop.
LEMMA ResourceNames ==
  ASSUME NEW m \in Seq(Words), NEW n \in Seq(Words)
  PROVE  /\ resourceName(n) \in Seq(Words)
         /\ resourceName(m) = resourceName(n) => m = n
<1>1. "shop" \in Words
  BY NamesAssumption DEF OwnWords
<1>2. <<"shop">> \in Seq(Words)
  BY <1>1, Tuples
<1> QED BY <1>2, ConcatProperties, ConcatSimplifications DEF resourceName

\* So does a name with one word appended, and that word is known.
LEMMA OneWordShop ==
  ASSUME NEW m \in Seq(Words), NEW n \in Seq(Words), NEW v \in Words, NEW w \in Words,
         Append(resourceName(m), v) = Append(resourceName(n), w)
  PROVE  m = n
<1>1. resourceName(m) = resourceName(n)
  BY ResourceNames, AppendInjective
<1> QED BY <1>1, ResourceNames

LEMMA OneWordWord ==
  ASSUME NEW m \in Seq(Words), NEW n \in Seq(Words), NEW v \in Words, NEW w \in Words,
         Append(resourceName(m), v) = Append(resourceName(n), w)
  PROVE  v = w
  BY ResourceNames, AppendInjective

\* And so does a name with the end of a Secret's, or of a Job's.
LEMMA SecretEnd ==
  ASSUME NEW p \in DOMAIN SecretSuffix
  PROVE  SecretSuffix[p] \in Seq(Words) /\ Len(SecretSuffix[p]) = 2
<1>1. {"auth", "jwt", "redis", "auth", "db", "app", "discord", "webhook"} \subseteq Words
  BY NamesAssumption DEF OwnWords, MicroserviceNames, Backends
<1>2. PICK v \in Words, w \in Words : SecretSuffix[p] = <<v, w>>
  BY <1>1 DEF SecretSuffix
<1>3. <<v, w>> \in Seq(Words) /\ Len(<<v, w>>) = 2
  BY Tuples
<1> QED BY <1>2, <1>3

LEMMA SecretShop ==
  ASSUME NEW m \in Seq(Words), NEW n \in Seq(Words),
         NEW p \in DOMAIN SecretSuffix, NEW q \in DOMAIN SecretSuffix,
         resourceName(m) \o SecretSuffix[p] = resourceName(n) \o SecretSuffix[q]
  PROVE  m = n
<1>1. resourceName(m) = resourceName(n)
  BY SecretEnd, ResourceNames, SameBeginning, Zenon
<1> QED BY <1>1, ResourceNames

LEMMA SecretPurpose ==
  ASSUME NEW m \in Seq(Words), NEW n \in Seq(Words),
         NEW p \in DOMAIN SecretSuffix, NEW q \in DOMAIN SecretSuffix,
         resourceName(m) \o SecretSuffix[p] = resourceName(n) \o SecretSuffix[q]
  PROVE  p = q
<1>1. /\ SecretSuffix[p] \in Seq(Words) /\ SecretSuffix[q] \in Seq(Words)
      /\ Len(SecretSuffix[p]) = Len(SecretSuffix[q])
  BY SecretEnd
<1>2. resourceName(m) \in Seq(Words) /\ resourceName(n) \in Seq(Words)
  BY ResourceNames
<1>3. SecretSuffix[p] = SecretSuffix[q]
  BY <1>1, <1>2, SameEnd, Zenon
<1>4. SecretSuffix[p][2] = SecretSuffix[q][2]
  BY <1>3
<1> QED BY <1>4 DEF SecretSuffix

\* The end of the name of a migration Job.
JobEnd(s) == <<s, "migrate", "hash">>

LEMMA JobEnds ==
  ASSUME NEW s \in Words
  PROVE  JobEnd(s) \in Seq(Words) /\ Len(JobEnd(s)) = 3
<1>1. "migrate" \in Words /\ "hash" \in Words
  BY NamesAssumption DEF OwnWords
<1> QED BY <1>1, Tuples DEF JobEnd

LEMMA JobShop ==
  ASSUME NEW m \in Seq(Words), NEW n \in Seq(Words), NEW s \in Words, NEW t \in Words,
         migrationJobName(m, s) = migrationJobName(n, t)
  PROVE  m = n
<1>1. m \o JobEnd(s) = n \o JobEnd(t)
  BY DEF migrationJobName, JobEnd
<1> QED BY <1>1, JobEnds, SameBeginning, Zenon

LEMMA JobService ==
  ASSUME NEW m \in Seq(Words), NEW n \in Seq(Words), NEW s \in Words, NEW t \in Words,
         migrationJobName(m, s) = migrationJobName(n, t)
  PROVE  s = t
<1>1. m \o JobEnd(s) = n \o JobEnd(t)
  BY DEF migrationJobName, JobEnd
<1>2. JobEnd(s) = JobEnd(t)
  BY <1>1, JobEnds, SameEnd, Zenon
<1> QED BY <1>2 DEF JobEnd

\* Every object a Shop owns, by its kind.
Described(n, a) ==
  \/ a[1] \in {"Deployment", "Service"} /\ a[2] \in MicroserviceNames \cup {"redis"}
       /\ a[3] = Append(resourceName(n), a[2])
  \/ a[1] = "Secret" /\ a[2] \in DOMAIN SecretSuffix
       /\ a[3] = resourceName(n) \o SecretSuffix[a[2]]
  \/ a[1] \in DOMAIN SingleSuffix /\ a[2] = "single"
       /\ a[3] = Append(resourceName(n), SingleSuffix[a[1]])
  \/ a[1] = "Job" /\ a[2] \in WithMigrations /\ a[3] = migrationJobName(n, a[2])

LEMMA OwnedDescribed ==
  ASSUME NEW n, NEW a \in Owned(n)
  PROVE  Described(n, a)
<1>1. CASE a \in {<<k, s, serviceResourceName(n, s)>> :
                    k \in {"Deployment", "Service"}, s \in MicroserviceNames}
  BY <1>1 DEF Described, serviceResourceName
<1>2. CASE a = <<"Service", "redis", serviceResourceName(n, "redis")>>
  BY <1>2 DEF Described, serviceResourceName
<1>3. CASE a \in {<<"Secret", p, resourceName(n) \o SecretSuffix[p]>> : p \in DOMAIN SecretSuffix}
  BY <1>3 DEF Described
<1>4. CASE a \in {<<k, "single", Append(resourceName(n), SingleSuffix[k])>> :
                    k \in DOMAIN SingleSuffix}
  BY <1>4 DEF Described
<1>5. CASE a \in {<<"Job", s, migrationJobName(n, s)>> : s \in WithMigrations}
  BY <1>5 DEF Described
<1> QED BY <1>1, <1>2, <1>3, <1>4, <1>5 DEF Owned

LEMMA SameObject ==
  ASSUME NEW m \in Seq(Words), NEW n \in Seq(Words), NEW a, NEW b,
         Described(m, a), Described(n, b), a[1] = b[1], a[3] = b[3]
  PROVE  m = n /\ a[2] = b[2]
<1>3. DOMAIN SingleSuffix \cap {"Deployment", "Service", "Secret", "Job"} = {}
  BY DEF SingleSuffix
<1>4. CASE a[1] \in {"Deployment", "Service"}
  <2>1. PICK v \in Words : a[2] = v /\ a[3] = Append(resourceName(m), v)
    BY <1>3, <1>4, NamesAssumption DEF Described, OwnWords
  <2>2. PICK w \in Words : b[2] = w /\ b[3] = Append(resourceName(n), w)
    BY <1>3, <1>4, NamesAssumption DEF Described, OwnWords
  <2>3. Append(resourceName(m), v) = Append(resourceName(n), w)
    BY <2>1, <2>2
  <2>4. m = n /\ v = w
    BY <2>3, OneWordShop, OneWordWord, Zenon
  <2> QED BY <2>1, <2>2, <2>4
<1>5. CASE a[1] = "Secret"
  <2>1. PICK p \in DOMAIN SecretSuffix :
           a[2] = p /\ a[3] = resourceName(m) \o SecretSuffix[p]
    BY <1>3, <1>5 DEF Described
  <2>2. PICK q \in DOMAIN SecretSuffix :
           b[2] = q /\ b[3] = resourceName(n) \o SecretSuffix[q]
    BY <1>3, <1>5 DEF Described
  <2>3. resourceName(m) \o SecretSuffix[p] = resourceName(n) \o SecretSuffix[q]
    BY <2>1, <2>2
  <2>4. m = n /\ p = q
    BY <2>3, SecretShop, SecretPurpose, Zenon
  <2> QED BY <2>1, <2>2, <2>4
<1>6. CASE a[1] \in DOMAIN SingleSuffix
  <2>1. PICK v \in Words : v = SingleSuffix[a[1]]
    BY <1>6, NamesAssumption DEF SingleSuffix, OwnWords
  <2>2. /\ a[2] = "single" /\ a[3] = Append(resourceName(m), v)
        /\ b[2] = "single" /\ b[3] = Append(resourceName(n), v)
    BY <1>3, <1>6, <2>1 DEF Described
  <2>3. Append(resourceName(m), v) = Append(resourceName(n), v)
    BY <2>2
  <2>4. m = n
    BY <2>3, OneWordShop, Zenon
  <2> QED BY <2>2, <2>4
<1>7. CASE a[1] = "Job"
  <2>1. PICK s \in Words : a[2] = s /\ a[3] = migrationJobName(m, s)
    BY <1>3, <1>7, NamesAssumption DEF Described, OwnWords, MicroserviceNames, Backends,
           WithMigrations
  <2>2. PICK t \in Words : b[2] = t /\ b[3] = migrationJobName(n, t)
    BY <1>3, <1>7, NamesAssumption DEF Described, OwnWords, MicroserviceNames, Backends,
           WithMigrations
  <2>3. migrationJobName(m, s) = migrationJobName(n, t)
    BY <2>1, <2>2
  <2>4. m = n /\ s = t
    BY <2>3, JobShop, JobService, Zenon
  <2> QED BY <2>1, <2>2, <2>4
<1> QED BY <1>4, <1>5, <1>6, <1>7 DEF Described

\* Two objects of one kind have one name only when they are the same object
\* of the same Shop, for any names of Shops (shop_controller.go:342-345).
THEOREM NamesDisjoint == ObjectNamesDisjoint
<1> SUFFICES ASSUME NEW m \in Names, NEW n \in Names, NEW a \in Owned(m), NEW b \in Owned(n),
                    a[1] = b[1], a[3] = b[3]
             PROVE  m = n /\ a[2] = b[2]
  BY DEF ObjectNamesDisjoint
<1>1. m \in Seq(Words) /\ n \in Seq(Words)
  BY NamesAssumption
<1>2. Described(m, a) /\ Described(n, b)
  BY OwnedDescribed
<1> QED BY <1>1, <1>2, SameObject
(***************************************************************************)
(* Labels.                                                                 *)
(***************************************************************************)

\* The labels of a component select those of the same component only.
LEMMA ComponentSelected ==
  ASSUME NEW m, NEW n, NEW s, NEW t
  PROVE  Selects(labelsForComponent(m, s), labelsForComponent(n, t)) <=> m = n /\ s = t
  BY DEF Selects, labelsForComponent

\* Nor do they select the pod of a Job.
LEMMA JobNotSelected ==
  ASSUME NEW m, NEW s, NEW j
  PROVE  ~Selects(labelsForComponent(m, s), [job |-> j])
  BY DEF Selects, labelsForComponent

LEMMA ServiceReachesItsPods ==
  ASSUME NEW n \in Names, NEW s \in MicroserviceNames
  PROVE  Endpoints(n, s) = {AppPod(n, s)}
<1>1. AppPod(n, s) \in ClusterPods
  BY DEF ClusterPods
<1>2. AppPod(n, s).labels = labelsForComponent(n, s)
  BY DEF AppPod
<1>3. AppPod(n, s) \in Endpoints(n, s)
  BY <1>1, <1>2, ComponentSelected DEF Endpoints
<1>4. ASSUME NEW pod \in Endpoints(n, s)
      PROVE  pod = AppPod(n, s)
  <2>1. pod \in ClusterPods /\ Selects(labelsForComponent(n, s), pod.labels)
    BY DEF Endpoints
  <2>2. CASE pod \in {AppPod(m, t) : m \in Names, t \in MicroserviceNames}
    <3>1. PICK m \in Names, t \in MicroserviceNames : pod = AppPod(m, t)
      BY <2>2
    <3>2. pod.labels = labelsForComponent(m, t)
      BY <3>1 DEF AppPod
    <3> QED BY <2>1, <3>1, <3>2, ComponentSelected
  <2>3. CASE pod \in {MigrationPod(m, t) : m \in Names, t \in WithMigrations}
    <3>1. PICK m \in Names, t \in WithMigrations : pod = MigrationPod(m, t)
      BY <2>3
    <3>2. pod.labels = [job |-> migrationJobName(m, t)]
      BY <3>1 DEF MigrationPod
    <3> QED BY <2>1, <3>2, JobNotSelected
  <2> QED BY <2>1, <2>2, <2>3 DEF ClusterPods
<1> QED BY <1>3, <1>4

\* Requests and metrics stay in their Shop, whatever the other Shops of the
\* namespace are called (shop_controller.go:357-361, 1039-1044).
THEOREM TrafficOwn == TrafficStaysInShop
<1> SUFFICES ASSUME NEW n \in Names
             PROVE  /\ \A s \in MicroserviceNames : Endpoints(n, s) = {AppPod(n, s)}
                    /\ Scraped(n) = {AppPod(n, s) : s \in Backends}
  BY DEF TrafficStaysInShop
<1>1. ASSUME NEW m, NEW s
      PROVE  /\ Selects([instance |-> n], labelsForComponent(m, s)) <=> m = n
             /\ labelsForComponent(m, s).component = s
  BY DEF Selects, labelsForComponent
<1>2. Scraped(n) = UNION {Endpoints(x[1], x[2]) : x \in
                            {y \in Names \X MicroserviceNames : y[1] = n /\ y[2] \in Backends}}
  BY <1>1 DEF Scraped
<1>3. \A s \in Backends : s \in MicroserviceNames /\ Endpoints(n, s) = {AppPod(n, s)}
  BY ServiceReachesItsPods DEF MicroserviceNames
<1>4. ASSUME NEW s \in Backends
      PROVE  AppPod(n, s) \in Scraped(n)
  <2>1. /\ <<n, s>> \in {y \in Names \X MicroserviceNames : y[1] = n /\ y[2] \in Backends}
        /\ <<n, s>>[1] = n /\ <<n, s>>[2] = s
    BY <1>3, <1>4
  <2>2. AppPod(n, s) \in Endpoints(n, s)
    BY <1>3, <1>4
  <2> QED BY <1>2, <2>1, <2>2
<1>5. ASSUME NEW pod \in Scraped(n)
      PROVE  \E s \in Backends : pod = AppPod(n, s)
  <2>1. PICK x \in Names \X MicroserviceNames :
          x[1] = n /\ x[2] \in Backends /\ pod \in Endpoints(x[1], x[2])
    BY <1>2, <1>5
  <2> QED BY <1>3, <2>1
<1>6. Scraped(n) = {AppPod(n, s) : s \in Backends}
  BY <1>4, <1>5
<1> QED BY <1>6, ServiceReachesItsPods

(***************************************************************************)
(* Alerts.                                                                 *)
(***************************************************************************)

\* A prefix agrees with the whole, word by word.
LEMMA PrefixWords ==
  ASSUME NEW s \in Seq(Words), NEW t \in Seq(Words)
  PROVE  IsPrefix(s, t) <=> Len(s) <= Len(t) /\ \A i \in 1..Len(s) : s[i] = t[i]
<1>1. CASE Len(s) <= Len(t)
  <2>1. /\ SubSeq(s, 1, Len(s)) \in Seq(Words) /\ Len(SubSeq(s, 1, Len(s))) = Len(s)
        /\ \A i \in 1..Len(s) : SubSeq(s, 1, Len(s))[i] = s[i]
    BY LenProperties, SubSeqProperties
  <2>2. /\ SubSeq(t, 1, Len(s)) \in Seq(Words) /\ Len(SubSeq(t, 1, Len(s))) = Len(s)
        /\ \A i \in 1..Len(s) : SubSeq(t, 1, Len(s))[i] = t[i]
    BY <1>1, LenProperties, SubSeqProperties
  <2>3. (\A i \in 1..Len(s) : s[i] = t[i]) => SubSeq(s, 1, Len(s)) = SubSeq(t, 1, Len(s))
    BY <2>1, <2>2, SeqEqual
  <2> QED BY <1>1, <2>1, <2>2, <2>3 DEF IsPrefix
<1>2. CASE ~(Len(s) <= Len(t))
  BY <1>2 DEF IsPrefix
<1> QED BY <1>1, <1>2

\* The words of a name that belongs to a Shop.
LEMMA Spelled ==
  ASSUME NEW n \in Seq(Words), NEW s \in Words
  PROVE  /\ Append(n, s) \in Seq(Words) /\ Len(Append(n, s)) = Len(n) + 1
         /\ \A i \in 1..Len(n) : Append(n, s)[i] = n[i]
         /\ Append(n, s)[Len(n) + 1] = s
         /\ serviceResourceName(n, s) \in Seq(Words)
         /\ Len(serviceResourceName(n, s)) = Len(n) + 2
         /\ \A i \in 1..Len(n) : serviceResourceName(n, s)[i + 1] = n[i]
         /\ serviceResourceName(n, s)[1] = "shop"
         /\ serviceResourceName(n, s)[Len(n) + 2] = s
<1>1. <<"shop">> \in Seq(Words) /\ Len(<<"shop">>) = 1 /\ <<"shop">>[1] = "shop"
  BY NamesAssumption DEF OwnWords
<1>2. /\ resourceName(n) \in Seq(Words) /\ Len(resourceName(n)) = 1 + Len(n)
      /\ \A i \in 1..1 + Len(n) :
           resourceName(n)[i] = IF i <= 1 THEN <<"shop">>[i] ELSE n[i - 1]
  BY <1>1, ConcatProperties DEF resourceName
<1>3. Len(n) \in Nat
  OBVIOUS
<1>4. resourceName(n)[1] = "shop" /\ \A i \in 1..Len(n) : resourceName(n)[i + 1] = n[i]
  <2>1. 1 \in 1..1 + Len(n)
    BY <1>3
  <2>2. \A i \in 1..Len(n) : i + 1 \in 1..1 + Len(n) /\ ~(i + 1 <= 1) /\ i + 1 - 1 = i
    BY <1>3
  <2> QED BY <1>1, <1>2, <2>1, <2>2
<1>5. PICK r \in Seq(Words) : r = resourceName(n)
  BY <1>2
<1>6. /\ Append(r, s) \in Seq(Words) /\ Len(Append(r, s)) = Len(r) + 1
      /\ \A i \in 1..Len(r) : Append(r, s)[i] = r[i]
      /\ Append(r, s)[Len(r) + 1] = s
  OBVIOUS
<1>7. /\ Append(n, s) \in Seq(Words) /\ Len(Append(n, s)) = Len(n) + 1
      /\ \A i \in 1..Len(n) : Append(n, s)[i] = n[i]
      /\ Append(n, s)[Len(n) + 1] = s
  OBVIOUS
<1>8. Len(r) = Len(n) + 1 /\ Len(r) + 1 = Len(n) + 2
  BY <1>2, <1>3, <1>5
<1>9. 1 \in 1..Len(r) /\ \A i \in 1..Len(n) : i + 1 \in 1..Len(r)
  BY <1>3, <1>8
<1> QED BY <1>4, <1>5, <1>6, <1>7, <1>8, <1>9 DEF serviceResourceName

LEMMA PodSpelled ==
  ASSUME NEW n \in Seq(Words), NEW s \in Words
  PROVE  /\ AppPod(n, s).name \in Seq(Words)
         /\ Len(AppPod(n, s).name) = Len(n) + 4
         /\ \A i \in 1..Len(n) + 2 : AppPod(n, s).name[i] = serviceResourceName(n, s)[i]
         /\ AppPod(n, s).name[Len(n) + 3] = "hash"
<1>1. <<"hash", "id">> \in Seq(Words) /\ Len(<<"hash", "id">>) = 2 /\ <<"hash", "id">>[1] = "hash"
  BY NamesAssumption DEF OwnWords
<1>2. PICK r \in Seq(Words) : r = serviceResourceName(n, s) /\ Len(r) = Len(n) + 2
  BY Spelled
<1>3. PICK e \in Seq(Words) : e = <<"hash", "id">> /\ Len(e) = 2 /\ e[1] = "hash"
  BY <1>1
<1>4. /\ r \o e \in Seq(Words) /\ Len(r \o e) = Len(r) + Len(e)
      /\ \A i \in 1..Len(r) + Len(e) : (r \o e)[i] = IF i <= Len(r) THEN r[i] ELSE e[i - Len(r)]
  BY ConcatProperties
<1>5. AppPod(n, s).name = r \o e
  BY <1>2, <1>3 DEF AppPod
<1>6. Len(n) \in Nat
  OBVIOUS
<1>7. \A i \in 1..Len(n) + 2 : i \in 1..Len(r) + Len(e) /\ i <= Len(r)
  BY <1>2, <1>3, <1>6
<1>8. /\ Len(n) + 3 \in 1..Len(r) + Len(e) /\ ~(Len(n) + 3 <= Len(r))
      /\ Len(n) + 3 - Len(r) = 1
  BY <1>2, <1>3, <1>6
<1>9. (r \o e)[Len(n) + 3] = e[1]
  BY <1>4, <1>8
<1> QED BY <1>2, <1>3, <1>4, <1>5, <1>6, <1>7, <1>9

\* The rules of a Shop look at the pods of its own backends ...
LEMMA OwnScope ==
  ASSUME NEW n \in Names, NEW s \in Backends
  PROVE  InMetricsScope(n, AppPod(n, s).name)
<1>1. n \in Seq(Words) /\ s \in Words
  BY NamesAssumption DEF OwnWords, MicroserviceNames
<1>2. PICK r \in Seq(Words) : r = serviceResourceName(n, s) /\ Len(r) = Len(n) + 2
  BY <1>1, Spelled
<1>3. PICK p \in Seq(Words) :
        /\ p = AppPod(n, s).name /\ Len(p) = Len(n) + 4
        /\ \A i \in 1..Len(n) + 2 : p[i] = r[i]
  BY <1>1, <1>2, PodSpelled
<1>4. Len(n) \in Nat
  BY <1>1
<1>5. Len(r) <= Len(p) /\ r # p
  BY <1>2, <1>3, <1>4
<1>6. IsPrefix(r, p)
  BY <1>2, <1>3, <1>5, PrefixWords
<1> QED BY <1>2, <1>3, <1>5, <1>6 DEF InMetricsScope, IsStrictPrefix

\* ... and of another Shop only if that one is named after a service.
LEMMA OtherScope ==
  ASSUME NEW m \in Names, NEW n \in Names, m # n, NEW s \in MicroserviceNames,
         InMetricsScope(m, AppPod(n, s).name)
  PROVE  n \in Confusable(m)
<1>1. m \in Seq(Words) /\ n \in Seq(Words) /\ s \in Words /\ Len(m) \in Nat /\ Len(n) \in Nat
  BY NamesAssumption DEF OwnWords
<1>2. PICK t \in Backends : IsStrictPrefix(serviceResourceName(m, t), AppPod(n, s).name)
  BY DEF InMetricsScope
<1>3. t \in Words
  BY NamesAssumption DEF OwnWords, MicroserviceNames
<1>4. PICK q \in Seq(Words) :
        /\ q = serviceResourceName(m, t) /\ Len(q) = Len(m) + 2
        /\ \A i \in 1..Len(m) : q[i + 1] = m[i]
        /\ q[Len(m) + 2] = t
  BY <1>1, <1>3, Spelled
<1>5. PICK r \in Seq(Words) :
        /\ r = serviceResourceName(n, s) /\ Len(r) = Len(n) + 2
        /\ \A i \in 1..Len(n) : r[i + 1] = n[i]
        /\ r[Len(n) + 2] = s
  BY <1>1, Spelled
<1>6. PICK p \in Seq(Words) :
        /\ p = AppPod(n, s).name /\ Len(p) = Len(n) + 4
        /\ \A i \in 1..Len(n) + 2 : p[i] = r[i]
        /\ p[Len(n) + 3] = "hash"
  BY <1>1, <1>5, PodSpelled
<1>7. Len(q) <= Len(p) /\ q # p /\ \A i \in 1..Len(q) : q[i] = p[i]
  BY <1>2, <1>4, <1>6, PrefixWords DEF IsStrictPrefix
<1>8. \A i \in 1..Len(m) : i <= Len(n) => m[i] = n[i]
  <2> SUFFICES ASSUME NEW i \in 1..Len(m), i <= Len(n) PROVE m[i] = n[i]
    OBVIOUS
  <2>1. i + 1 \in 1..Len(q) /\ i + 1 \in 1..Len(n) + 2 /\ i \in 1..Len(n)
    BY <1>1, <1>4
  <2>2. q[i + 1] = p[i + 1] /\ p[i + 1] = r[i + 1]
    BY <1>6, <1>7, <2>1
  <2> QED BY <1>4, <1>5, <2>1, <2>2
<1>9. Len(m) <= Len(n) + 2
  BY <1>1, <1>4, <1>6, <1>7
<1>10. Len(m) + 2 \in 1..Len(q) /\ t = p[Len(m) + 2]
  BY <1>1, <1>4, <1>7
<1>11. CASE Len(m) < Len(n)
  <2>1. t = n[Len(m) + 1]
    <3>1. Len(m) + 2 \in 1..Len(n) + 2 /\ Len(m) + 1 \in 1..Len(n)
      BY <1>1, <1>11
    <3>2. p[Len(m) + 2] = r[Len(m) + 2] /\ r[Len(m) + 2] = n[Len(m) + 1]
      BY <1>1, <1>5, <1>6, <3>1
    <3> QED BY <1>10, <3>2
  <2>2. PICK a \in Seq(Words) :
          /\ a = Append(m, t) /\ Len(a) = Len(m) + 1
          /\ \A i \in 1..Len(m) : a[i] = m[i]
          /\ a[Len(m) + 1] = t
    BY <1>1, <1>3, Spelled
  <2>3. \A i \in 1..Len(a) : a[i] = n[i]
    BY <1>1, <1>8, <1>11, <2>1, <2>2
  <2>4. Len(a) <= Len(n)
    BY <1>1, <1>11, <2>2
  <2>5. IsPrefix(a, n)
    <3>1. n \in Seq(Words)
      BY <1>1
    <3> QED BY <2>3, <2>4, <3>1, PrefixWords
  <2> QED BY <2>2, <2>5 DEF Confusable
<1>12. CASE Len(m) = Len(n)
  BY <1>1, <1>8, <1>12, SeqEqual
<1>13. CASE Len(m) = Len(n) + 1
  <2>1. t = "hash"
    BY <1>1, <1>6, <1>10, <1>13
  <2> QED BY <2>1 DEF Backends
<1>14. CASE Len(m) = Len(n) + 2
  BY <1>1, <1>4, <1>6, <1>7, <1>14, SeqEqual
<1> QED BY <1>1, <1>9, <1>11, <1>12, <1>13, <1>14

\* Trouble with a backend is told to its own Shop's Discord channel, and to
\* that of another only if the former is named after a service of the latter,
\* for any names of Shops (shop_alerts.go:159-161).
THEOREM AlertsOwn == AlertsReachTheirShop
<1> SUFFICES ASSUME NEW n \in Names, NEW s \in Backends
             PROVE  /\ Receiver(n) \in Notified(AppPod(n, s))
                    /\ \A m \in Names \ {n} :
                         Receiver(m) \in Notified(AppPod(n, s)) => n \in Confusable(m)
  BY Zenon DEF AlertsReachTheirShop
<1>1. ASSUME NEW m, NEW k
      PROVE  Selects(Matchers(m), AlertLabels(k)) <=> m = k
  BY DEF Selects, Matchers, AlertLabels
<1>2. Notified(AppPod(n, s)) = {Receiver(m) : m \in {k \in Names : InMetricsScope(k, AppPod(n, s).name)}}
  BY <1>1 DEF Notified, Alerts
<1>3. Receiver(n) \in Notified(AppPod(n, s))
  BY <1>2, OwnScope
<1>4. ASSUME NEW m \in Names \ {n}, Receiver(m) \in Notified(AppPod(n, s))
      PROVE  n \in Confusable(m)
  <2>1. PICK k \in Names : InMetricsScope(k, AppPod(n, s).name) /\ Receiver(m) = Receiver(k)
    BY <1>2, <1>4
  <2>2. m \in Seq(Words) /\ k \in Seq(Words) /\ "webhook" \in DOMAIN SecretSuffix
    BY NamesAssumption DEF SecretSuffix
  <2>3. resourceName(m) \o SecretSuffix["webhook"] = resourceName(k) \o SecretSuffix["webhook"]
    BY <2>1 DEF Receiver
  <2>4. m = k
    BY <2>2, <2>3, SecretShop, Zenon
  <2>5. s \in MicroserviceNames
    BY DEF MicroserviceNames
  <2> QED BY <1>4, <2>1, <2>4, <2>5, OtherScope
<1> QED BY <1>3, <1>4

(***************************************************************************)
(* Metrics.                                                                *)
(***************************************************************************)

\* The rules of a Shop do not look at its frontend.
LEMMA FrontendOutOfScope ==
  ASSUME NEW n \in Names, NEW s \in MicroserviceNames, InMetricsScope(n, AppPod(n, s).name)
  PROVE  s \in Backends
<1>1. n \in Seq(Words) /\ s \in Words /\ Len(n) \in Nat
  BY NamesAssumption DEF OwnWords
<1>2. PICK t \in Backends : IsStrictPrefix(serviceResourceName(n, t), AppPod(n, s).name)
  BY DEF InMetricsScope
<1>3. t \in Words
  BY NamesAssumption DEF OwnWords, MicroserviceNames
<1>4. PICK q \in Seq(Words) :
        q = serviceResourceName(n, t) /\ Len(q) = Len(n) + 2 /\ q[Len(n) + 2] = t
  BY <1>1, <1>3, Spelled
<1>5. PICK r \in Seq(Words) :
        r = serviceResourceName(n, s) /\ Len(r) = Len(n) + 2 /\ r[Len(n) + 2] = s
  BY <1>1, Spelled
<1>6. PICK p \in Seq(Words) :
        p = AppPod(n, s).name /\ \A i \in 1..Len(n) + 2 : p[i] = r[i]
  BY <1>1, <1>5, PodSpelled
<1>7. \A i \in 1..Len(q) : q[i] = p[i]
  BY <1>2, <1>4, <1>6, PrefixWords DEF IsStrictPrefix
<1>8. Len(n) + 2 \in 1..Len(q) /\ Len(n) + 2 \in 1..Len(n) + 2
  BY <1>1, <1>4
<1>9. t = s
  BY <1>4, <1>5, <1>6, <1>7, <1>8
<1> QED BY <1>9

\* The words of the name of a migration's pod: it begins with the bare name
\* of its Shop.
LEMMA MigrationSpelled ==
  ASSUME NEW m \in Seq(Words), NEW s \in Words
  PROVE  LET p == Append(migrationJobName(m, s), "id")
         IN  /\ p \in Seq(Words) /\ Len(p) = Len(m) + 4
             /\ \A i \in 1..Len(m) : p[i] = m[i]
             /\ p[Len(m) + 2] = "migrate" /\ p[Len(m) + 3] = "hash"
<1>1. PICK e \in Seq(Words) : e = JobEnd(s) /\ Len(e) = 3
  BY JobEnds
<1>2. e[2] = "migrate" /\ e[3] = "hash"
  BY <1>1 DEF JobEnd
<1>3. /\ m \o e \in Seq(Words) /\ Len(m \o e) = Len(m) + Len(e)
      /\ \A i \in 1..Len(m) + Len(e) : (m \o e)[i] = IF i <= Len(m) THEN m[i] ELSE e[i - Len(m)]
  BY ConcatProperties
<1>4. PICK j \in Seq(Words) : j = m \o e
  BY <1>3
<1>5. Len(m) \in Nat /\ "id" \in Words
  BY NamesAssumption DEF OwnWords
<1>6. /\ Len(j) = Len(m) + 3 /\ \A i \in 1..Len(m) : j[i] = m[i]
      /\ j[Len(m) + 2] = "migrate" /\ j[Len(m) + 3] = "hash"
  <2>1. /\ Len(m) + 2 \in 1..Len(m) + Len(e) /\ Len(m) + 3 \in 1..Len(m) + Len(e)
        /\ ~(Len(m) + 2 <= Len(m)) /\ ~(Len(m) + 3 <= Len(m))
        /\ Len(m) + 2 - Len(m) = 2 /\ Len(m) + 3 - Len(m) = 3
    BY <1>1, <1>5
  <2>2. \A i \in 1..Len(m) : i \in 1..Len(m) + Len(e) /\ i <= Len(m)
    BY <1>1, <1>5
  <2>3. j[Len(m) + 2] = e[2] /\ j[Len(m) + 3] = e[3]
    BY <1>3, <1>4, <2>1
  <2>4. Len(j) = Len(m) + 3 /\ \A i \in 1..Len(m) : j[i] = m[i]
    BY <1>1, <1>3, <1>4, <2>2
  <2> QED BY <1>2, <2>3, <2>4
<1>7. migrationJobName(m, s) = j
  BY <1>1, <1>4 DEF migrationJobName, JobEnd
<1>8. /\ Append(j, "id") \in Seq(Words) /\ Len(Append(j, "id")) = Len(j) + 1
      /\ \A i \in 1..Len(j) : Append(j, "id")[i] = j[i]
  BY <1>5
<1>9. /\ \A i \in 1..Len(m) : i \in 1..Len(j)
      /\ Len(m) + 2 \in 1..Len(j) /\ Len(m) + 3 \in 1..Len(j)
  BY <1>5, <1>6
<1> QED BY <1>5, <1>6, <1>7, <1>8, <1>9

\* The rules of a Shop look at the pod of a migration only if the migration is
\* that of a Shop whose bare name is taken for a name of the former's pods.
LEMMA MigrationScope ==
  ASSUME NEW n \in Names, NEW m \in Names, NEW s \in WithMigrations,
         InMetricsScope(n, Append(migrationJobName(m, s), "id"))
  PROVE  m \in Confusable(n)
<1>1. m \in Seq(Words) /\ n \in Seq(Words) /\ s \in Words /\ Len(m) \in Nat /\ Len(n) \in Nat
  BY NamesAssumption DEF OwnWords, MicroserviceNames, Backends, WithMigrations
<1>2. PICK t \in Backends :
        IsStrictPrefix(serviceResourceName(n, t), Append(migrationJobName(m, s), "id"))
  BY DEF InMetricsScope
<1>3. t \in Words
  BY NamesAssumption DEF OwnWords, MicroserviceNames
<1>4. PICK q \in Seq(Words) :
        /\ q = serviceResourceName(n, t) /\ Len(q) = Len(n) + 2
        /\ \A i \in 1..Len(n) : q[i + 1] = n[i]
        /\ q[1] = "shop" /\ q[Len(n) + 2] = t
  BY <1>1, <1>3, Spelled
<1>5. PICK p \in Seq(Words) :
        /\ p = Append(migrationJobName(m, s), "id") /\ Len(p) = Len(m) + 4
        /\ \A i \in 1..Len(m) : p[i] = m[i]
        /\ p[Len(m) + 2] = "migrate" /\ p[Len(m) + 3] = "hash"
  BY <1>1, MigrationSpelled, Zenon
<1>6. Len(q) <= Len(p) /\ q # p /\ \A i \in 1..Len(q) : q[i] = p[i]
  BY <1>2, <1>4, <1>5, PrefixWords DEF IsStrictPrefix
<1>7. Len(n) <= Len(m) + 2 /\ Len(n) + 2 \in 1..Len(q) /\ t = p[Len(n) + 2]
  BY <1>1, <1>4, <1>5, <1>6
<1>8. CASE Len(n) + 2 <= Len(m)
  <2>1. \A i \in 1..Len(q) : q[i] = m[i]
    <3>1. \A i \in 1..Len(q) : i \in 1..Len(m)
      BY <1>1, <1>4, <1>8
    <3> QED BY <1>5, <1>6, <3>1
  <2>2. Len(q) <= Len(m)
    BY <1>4, <1>8
  <2>3. IsPrefix(q, m)
    <3>1. m \in Seq(Words)
      BY <1>1
    <3> QED BY <2>1, <2>2, <3>1, PrefixWords
  <2> QED BY <1>4, <2>3 DEF Confusable
<1>9. CASE Len(n) + 1 = Len(m)
  <2>1. PICK r \in Seq(Words) :
          r = resourceName(n) /\ Append(r, t) = q
    BY <1>1, <1>4, ResourceNames DEF serviceResourceName
  <2>2. Len(r) = Len(m) /\ \A i \in 1..Len(r) : r[i] = q[i]
    <3>1. Len(Append(r, t)) = Len(r) + 1 /\ \A i \in 1..Len(r) : Append(r, t)[i] = r[i]
      BY <1>3
    <3>2. Len(r) \in Nat
      OBVIOUS
    <3> QED BY <1>1, <1>4, <1>9, <2>1, <3>1, <3>2
  <2>3. \A i \in 1..Len(r) : r[i] = m[i]
    <3> SUFFICES ASSUME NEW i \in 1..Len(r) PROVE r[i] = m[i]
      OBVIOUS
    <3>1. i \in 1..Len(q) /\ i \in 1..Len(m)
      BY <1>1, <1>4, <1>9, <2>2
    <3> QED BY <1>5, <1>6, <2>2, <3>1
  <2>4. r = m
    <3>1. m \in Seq(Words)
      BY <1>1
    <3> QED BY <2>2, <2>3, <3>1, SeqEqual
  <2> QED BY <2>1, <2>4 DEF Confusable
<1>10. CASE Len(n) = Len(m)
  <2>1. t = "migrate"
    BY <1>5, <1>7, <1>10
  <2> QED BY <2>1 DEF Backends
<1>11. CASE Len(n) = Len(m) + 1
  <2>1. t = "hash"
    <3>1. Len(n) + 2 = Len(m) + 3
      BY <1>1, <1>11
    <3> QED BY <1>5, <1>7, <3>1
  <2> QED BY <2>1 DEF Backends
<1>12. CASE Len(n) = Len(m) + 2
  BY <1>1, <1>4, <1>5, <1>6, <1>12, SeqEqual
<1> QED BY <1>1, <1>7, <1>8, <1>9, <1>10, <1>11, <1>12

\* The rules and the dashboard of a Shop look at the pods of its backends and
\* at no others, migrations included, except for those of Shops named after
\* one of its services, for any names of Shops (shop_dashboard.go:148-151).
THEOREM MetricsOwn == MetricsAreOwn
<1>1. \A n, s : serviceResourceName(n, s) \o <<"hash", "id">> = AppPod(n, s).name
  BY DEF AppPod
<1>2. ASSUME NEW n \in Names, NEW s \in MicroserviceNames
      PROVE  InMetricsScope(n, AppPod(n, s).name) <=> s \in Backends
  BY OwnScope, FrontendOutOfScope
<1>3. ASSUME NEW n \in Names, NEW m \in Names \ (Confusable(n) \cup {n}), NEW pod \in Pods(m),
             InMetricsScope(n, pod)
      PROVE  FALSE
  <2>1. CASE pod \in {serviceResourceName(m, s) \o <<"hash", "id">> : s \in MicroserviceNames}
    <3>1. PICK s \in MicroserviceNames : pod = AppPod(m, s).name
      BY <1>1, <2>1
    <3> QED BY <1>3, <3>1, OtherScope
  <2>2. CASE pod \in {Append(migrationJobName(m, s), "id") : s \in WithMigrations}
    <3>1. PICK s \in WithMigrations : pod = Append(migrationJobName(m, s), "id")
      BY <2>2
    <3> QED BY <1>3, <3>1, MigrationScope
  <2> QED BY <2>1, <2>2 DEF Pods
<1> QED BY <1>1, <1>2, <1>3 DEF MetricsAreOwn

(***************************************************************************)
(* A Shop whose objects are made.                                          *)
(***************************************************************************)

\* The objects of a Shop that is reported ready are its own, whatever the
\* other Shops of the namespace are called (shop_controller.go:342-345,
\* 358-360).
THEOREM ObjectsStayOwn == Spec => []ObjectsAreOwn
<1>1. ObjectsAreOwn
  BY NamesDisjoint DEF ObjectsAreOwn
<1> QED BY <1>1, PTL

\* The rules of a Shop, once made, select no pods but those of its backends
\* (shop_alerts.go:56-57), with the exception that MetricsAreOwn names.
THEOREM RulesStayOwn == Spec => []RulesAreOwn
<1>1. RulesAreOwn
  BY MetricsOwn DEF RulesAreOwn
<1> QED BY <1>1, PTL

\* A Shop that is reported ready answers its own requests and counts its own
\* pods (shop_controller.go:1039-1044).
THEOREM TrafficStaysOwn == Spec => []TrafficIsOwn
<1>1. TrafficIsOwn
  BY TrafficOwn DEF TrafficIsOwn
<1> QED BY <1>1, PTL

\* With rules and a route, a Shop's Discord channel hears of its own troubles
\* and of no others but the ones excepted (shop_alerts.go:159-161).
THEOREM AlertsStayOwn == Spec => []AlertsAreOwn
<1>1. AlertsAreOwn
  BY AlertsOwn DEF AlertsAreOwn
<1> QED BY <1>1, PTL
=============================================================================
