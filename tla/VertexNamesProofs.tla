--------------------------- MODULE VertexNamesProofs ---------------------------
(***************************************************************************)
(* Proofs about VertexNames for any vertices, Pipelines, namespaces, Pods, *)
(* annotations and domain suffix.                                          *)
(***************************************************************************)
EXTENDS VertexNames, SequenceTheorems, TLAPS

-----------------------------------------------------------------------------
(* Names and keys *)

\* What names and keys are sequences of: strings, the first part of a key and the
\* name of no Pod among them.
Label == STRING \cup {"skydns", "none"}

Name == Seq(Label)

\* The constants are made of names.
LEMMA ConstantNames ==
  /\ Suffix \in Name /\ Len(Suffix) \in Nat /\ Len(Suffix) >= 2
  /\ Vertices \subseteq Name
  /\ Pipelines \subseteq Name \X Name
  /\ PodNames \subseteq Label
  /\ "skydns" \in Label /\ "none" \in Label
<1>1. STRING \subseteq Label /\ "skydns" \in Label /\ "none" \in Label
  BY Zenon DEF Label
<1>2. Seq(STRING) \subseteq Name
  BY <1>1, SeqMonotonic, Zenon DEF Name
<1>3. Suffix \in Name /\ Vertices \subseteq Name /\ PodNames \subseteq Label
  BY <1>1, <1>2, NamesAssumption, Zenon
<1>4. Pipelines \subseteq Name \X Name
  BY <1>2, NamesAssumption
<1>5. Len(Suffix) >= 2
  BY NamesAssumption
<1>6. Len(Suffix) \in Nat
  BY <1>3 DEF Name
<1> QED
  BY <1>1, <1>3, <1>4, <1>5, <1>6

\* Concatenation of names.
LEMMA Concatenated ==
  ASSUME NEW s \in Name, NEW t \in Name
  PROVE  /\ s \o t \in Name /\ Len(s \o t) = Len(s) + Len(t)
         /\ \A i \in 1..Len(s) : (s \o t)[i] = s[i]
         /\ \A i \in 1..Len(t) : (s \o t)[Len(s) + i] = t[i]
<1>1. s \o t \in Name
  BY ConcatProperties DEF Name
<1>2. Len(s \o t) = Len(s) + Len(t)
  BY ConcatProperties DEF Name
<1>3. \A i \in 1..(Len(s) + Len(t)) :
        (s \o t)[i] = IF i <= Len(s) THEN s[i] ELSE t[i - Len(s)]
  BY ConcatProperties DEF Name
<1>4. Len(s) \in Nat /\ Len(t) \in Nat
  BY DEF Name
<1>5. ASSUME NEW i \in 1..Len(s) PROVE (s \o t)[i] = s[i]
  BY <1>3, <1>4
<1>6. ASSUME NEW i \in 1..Len(t) PROVE (s \o t)[Len(s) + i] = t[i]
  <2>1. Len(s) + i \in 1..(Len(s) + Len(t)) /\ ~(Len(s) + i <= Len(s)) /\ (Len(s) + i) - Len(s) = i
    BY <1>4
  <2> QED
    BY <1>3, <2>1
<1> QED
  BY <1>1, <1>2, <1>5, <1>6

\* The name that BuildVertexDomain makes, and that it tells its parts.
LEMMA BuildFacts ==
  ASSUME NEW v \in Name, NEW pl \in Name, NEW ns \in Name, BuildVertexDomain(v, pl, ns) # <<>>
  PROVE  /\ Len(v) = 1 /\ Len(pl) = 1 /\ Len(ns) = 1
         /\ BuildVertexDomain(v, pl, ns) \in Name
         /\ Len(BuildVertexDomain(v, pl, ns)) = 3 + Len(Suffix)
         /\ BuildVertexDomain(v, pl, ns)[1] = v[1]
         /\ BuildVertexDomain(v, pl, ns)[2] = pl[1]
         /\ BuildVertexDomain(v, pl, ns)[3] = ns[1]
<1>1. Len(v) = 1 /\ Len(pl) = 1 /\ Len(ns) = 1
  BY DEF BuildVertexDomain
<1>2. BuildVertexDomain(v, pl, ns) = v \o pl \o ns \o Suffix
  BY <1>1 DEF BuildVertexDomain
<1>3. Suffix \in Name /\ Len(Suffix) \in Nat
  BY ConstantNames
<1> DEFINE a == v \o pl
           b == a \o ns
           d == b \o Suffix
<1>4. a \in Name /\ Len(a) = 2 /\ a[1] = v[1] /\ a[2] = pl[1]
  <2>1. /\ a \in Name /\ Len(a) = Len(v) + Len(pl)
        /\ \A i \in 1..Len(v) : a[i] = v[i]
        /\ \A i \in 1..Len(pl) : a[Len(v) + i] = pl[i]
    BY Concatenated
  <2> HIDE DEF a
  <2>2. a[1 + 1] = pl[1]
    BY <1>1, <2>1
  <2> QED
    BY <1>1, <2>1, <2>2
<1> HIDE DEF a
<1>5. b \in Name /\ Len(b) = 3 /\ b[1] = a[1] /\ b[2] = a[2] /\ b[3] = ns[1]
  <2>1. /\ b \in Name /\ Len(b) = Len(a) + Len(ns)
        /\ \A i \in 1..Len(a) : b[i] = a[i]
        /\ \A i \in 1..Len(ns) : b[Len(a) + i] = ns[i]
    BY <1>4, Concatenated
  <2> HIDE DEF b
  <2>2. b[2 + 1] = ns[1]
    BY <1>1, <1>4, <2>1
  <2> QED
    BY <1>1, <1>4, <2>1, <2>2
<1> HIDE DEF b
<1>6. /\ d \in Name /\ Len(d) = 3 + Len(Suffix)
      /\ d[1] = b[1] /\ d[2] = b[2] /\ d[3] = b[3]
  <2>1. /\ d \in Name /\ Len(d) = Len(b) + Len(Suffix)
        /\ \A i \in 1..Len(b) : d[i] = b[i]
    BY <1>3, <1>5, Concatenated
  <2> HIDE DEF d
  <2> QED
    BY <1>5, <2>1
<1> HIDE DEF d
<1>7. BuildVertexDomain(v, pl, ns) = d
  BY <1>2 DEF a, b, d
<1> QED
  BY <1>1, <1>4, <1>5, <1>6, <1>7

\* A name tells vertex, Pipeline and namespace, so no two share one.
LEMMA NamedParts ==
  ASSUME NEW v \in Name, NEW pl \in Name, NEW ns \in Name, BuildVertexDomain(v, pl, ns) # <<>>
  PROVE  /\ v = <<BuildVertexDomain(v, pl, ns)[1]>>
         /\ pl = <<BuildVertexDomain(v, pl, ns)[2]>>
         /\ ns = <<BuildVertexDomain(v, pl, ns)[3]>>
<1>1. /\ Len(v) = 1 /\ Len(pl) = 1 /\ Len(ns) = 1
      /\ BuildVertexDomain(v, pl, ns)[1] = v[1]
      /\ BuildVertexDomain(v, pl, ns)[2] = pl[1]
      /\ BuildVertexDomain(v, pl, ns)[3] = ns[1]
  BY BuildFacts
<1>2. ASSUME NEW s \in Name, Len(s) = 1 PROVE s = <<s[1]>>
  BY <1>2 DEF Name
<1> QED
  BY <1>1, <1>2

\* An FQDN becomes the root and its labels backwards.
LEMMA EtcdKeyFacts ==
  ASSUME NEW f \in Name
  PROVE  /\ FQDNToEtcdKey(f) \in Name /\ Len(FQDNToEtcdKey(f)) = Len(f) + 1
         /\ \A i \in 1..Len(f) : FQDNToEtcdKey(f)[i + 1] = f[Len(f) - i + 1]
<1> DEFINE r == Reverse(f)
           k == FQDNToEtcdKey(f)
           root == <<"skydns">>
<1>1. Len(f) \in Nat
  BY DEF Name
<1>2. r \in Name /\ Len(r) = Len(f) /\ \A i \in 1..Len(f) : r[i] = f[Len(f) - i + 1]
  BY <1>1 DEF Name, Reverse
<1>3. k = root \o r
  BY DEF FQDNToEtcdKey
<1>4. root \in Name /\ Len(root) = 1
  <2>1. ASSUME NEW l \in Label PROVE <<l>> \in Name /\ Len(<<l>>) = 1
    BY DEF Name
  <2> QED
    BY <2>1, ConstantNames, Zenon
<1> HIDE DEF r, k, root
<1>5. /\ k \in Name /\ Len(k) = 1 + Len(r)
      /\ \A i \in 1..Len(r) : k[1 + i] = r[i]
  <2>1. /\ root \o r \in Name /\ Len(root \o r) = Len(root) + Len(r)
        /\ \A i \in 1..Len(r) : (root \o r)[Len(root) + i] = r[i]
    BY <1>2, <1>4, Concatenated
  <2> QED
    BY <1>3, <1>4, <2>1
<1>6. ASSUME NEW i \in 1..Len(f) PROVE k[i + 1] = f[Len(f) - i + 1]
  BY <1>1, <1>2, <1>5
<1> QED
  BY <1>1, <1>2, <1>5, <1>6 DEF k

\* The key of a record is that of the FQDN and the Pod's name.
LEMMA RecordKeyFacts ==
  ASSUME NEW f \in Name, NEW n \in Label
  PROVE  /\ RecordKey(f, n) \in Name /\ Len(RecordKey(f, n)) = Len(f) + 2
         /\ \A i \in 1..(Len(f) + 1) : RecordKey(f, n)[i] = FQDNToEtcdKey(f)[i]
         /\ RecordKey(f, n)[Len(f) + 2] = n
<1> DEFINE k == FQDNToEtcdKey(f)
<1>1. Len(f) \in Nat /\ k \in Name /\ Len(k) = Len(f) + 1
  BY EtcdKeyFacts DEF Name
<1>2. RecordKey(f, n) = Append(k, n)
  BY DEF RecordKey
<1> HIDE DEF k
<1>3. /\ Append(k, n) \in Name /\ Len(Append(k, n)) = Len(k) + 1
      /\ \A i \in 1..Len(k) : Append(k, n)[i] = k[i]
      /\ Append(k, n)[Len(k) + 1] = n
  <2>1. Append(k, n) \in Name /\ Len(Append(k, n)) = Len(k) + 1
    BY <1>1 DEF Name
  <2>2. \A i \in 1..Len(k) : Append(k, n)[i] = k[i]
    BY <1>1 DEF Name
  <2>3. Append(k, n)[Len(k) + 1] = n
    BY <1>1 DEF Name
  <2> QED
    BY <2>1, <2>2, <2>3
<1>4. Len(k) + 1 = Len(f) + 2
  BY <1>1
<1> QED
  BY <1>1, <1>2, <1>3, <1>4 DEF k

\* Names of one length with the same key parts are the same.
LEMMA KeyInjective ==
  ASSUME NEW f \in Name, NEW g \in Name, Len(f) = Len(g),
         \A i \in 1..(Len(f) + 1) : FQDNToEtcdKey(f)[i] = FQDNToEtcdKey(g)[i]
  PROVE  f = g
<1>1. Len(f) \in Nat
  BY DEF Name
<1>2. /\ \A i \in 1..Len(f) : FQDNToEtcdKey(f)[i + 1] = f[Len(f) - i + 1]
      /\ \A i \in 1..Len(g) : FQDNToEtcdKey(g)[i + 1] = g[Len(g) - i + 1]
  BY EtcdKeyFacts
<1>3. ASSUME NEW j \in 1..Len(f) PROVE f[j] = g[j]
  <2> DEFINE i == Len(f) - j + 1
  <2>1. i \in 1..Len(f) /\ i + 1 \in 1..(Len(f) + 1) /\ Len(f) - i + 1 = j
    BY <1>1
  <2> HIDE DEF i
  <2> QED
    BY <1>2, <2>1
<1> QED
  BY <1>3, SeqEqual, Zenon DEF Name

\* What Store.Put and Store.Delete address is one record.
LEMMA RecordKeyInjective ==
  ASSUME NEW f \in Name, NEW g \in Name, NEW n \in Label, NEW m \in Label,
         Len(f) = Len(g), RecordKey(f, n) = RecordKey(g, m)
  PROVE  f = g /\ n = m
<1>1. /\ \A i \in 1..(Len(f) + 1) : RecordKey(f, n)[i] = FQDNToEtcdKey(f)[i]
      /\ RecordKey(f, n)[Len(f) + 2] = n
  BY RecordKeyFacts
<1>2. /\ \A i \in 1..(Len(g) + 1) : RecordKey(g, m)[i] = FQDNToEtcdKey(g)[i]
      /\ RecordKey(g, m)[Len(g) + 2] = m
  BY RecordKeyFacts
<1>3. f = g
  BY <1>1, <1>2, KeyInjective
<1> QED
  BY <1>1, <1>2, <1>3

\* What Store.Get finds under a name is the records of that name.
LEMMA PrefixIsName ==
  ASSUME NEW f \in Name, NEW g \in Name, NEW n \in Label, Len(f) = Len(g)
  PROVE  IsPrefix(FQDNToEtcdKey(f), RecordKey(g, n)) <=> f = g
<1> DEFINE k == FQDNToEtcdKey(f)
           r == RecordKey(g, n)
           l == Len(f) + 1
<1>1. /\ k \in Name /\ Len(k) = l /\ l \in Nat
      /\ r \in Name /\ Len(r) = l + 1
      /\ \A i \in 1..l : r[i] = FQDNToEtcdKey(g)[i]
  <2>1. Len(f) \in Nat
    BY DEF Name
  <2>2. k \in Name /\ Len(k) = l
    BY EtcdKeyFacts
  <2>3. /\ r \in Name /\ Len(r) = Len(g) + 2
        /\ \A i \in 1..(Len(g) + 1) : r[i] = FQDNToEtcdKey(g)[i]
    BY RecordKeyFacts
  <2> QED
    BY <2>1, <2>2, <2>3
<1> HIDE DEF k, r, l
<1>2. IsPrefix(k, r) <=> \A i \in 1..l : k[i] = r[i]
  <2>1. ASSUME NEW s \in Name, Len(s) >= l
        PROVE  /\ SubSeq(s, 1, l) \in Name /\ Len(SubSeq(s, 1, l)) = l
               /\ \A i \in 1..l : SubSeq(s, 1, l)[i] = s[i]
    BY <1>1, <2>1 DEF Name
  <2>2. /\ SubSeq(k, 1, l) \in Name /\ Len(SubSeq(k, 1, l)) = l
        /\ \A i \in 1..l : SubSeq(k, 1, l)[i] = k[i]
    BY <1>1, <2>1
  <2>3. /\ SubSeq(r, 1, l) \in Name /\ Len(SubSeq(r, 1, l)) = l
        /\ \A i \in 1..l : SubSeq(r, 1, l)[i] = r[i]
    BY <1>1, <2>1
  <2>4. ASSUME \A i \in 1..l : k[i] = r[i] PROVE SubSeq(k, 1, l) = SubSeq(r, 1, l)
    <3>1. \A i \in 1..Len(SubSeq(k, 1, l)) : SubSeq(k, 1, l)[i] = SubSeq(r, 1, l)[i]
      BY <2>2, <2>3, <2>4
    <3> QED
      BY <2>2, <2>3, <3>1, SeqEqual, ZenonT(60) DEF Name
  <2>5. ASSUME SubSeq(k, 1, l) = SubSeq(r, 1, l) PROVE \A i \in 1..l : k[i] = r[i]
    BY <2>2, <2>3, <2>5
  <2>6. IsPrefix(k, r) <=> SubSeq(k, 1, l) = SubSeq(r, 1, l)
    BY <1>1 DEF IsPrefix
  <2> QED
    BY <2>4, <2>5, <2>6
<1>3. ASSUME \A i \in 1..l : k[i] = r[i] PROVE f = g
  BY <1>1, <1>3, KeyInjective DEF k, l
<1>4. ASSUME f = g PROVE \A i \in 1..l : k[i] = r[i]
  BY <1>1, <1>4 DEF k
<1> QED
  BY <1>2, <1>3, <1>4 DEF k, r

-----------------------------------------------------------------------------
(* The inductive invariant *)

PodType ==
  [ns : Name, name : Label, pipeline : Name, vertex : Name, fqdn : Name,
   targets : SUBSET Name, sends : SUBSET Name, ip : SUBSET IPs]

\* What the webhook wrote into a Pod: its own name, or none and then no record, and
\* the names of the vertices it sends to.
PodInv(d) ==
  /\ d.fqdn = <<>> => d.ip = {}
  /\ d.fqdn # <<>> => d.fqdn = BuildVertexDomain(d.vertex, d.pipeline, d.ns)
  /\ d.targets = {BuildVertexDomain(to, d.pipeline, d.ns) : to \in d.sends}
  /\ <<>> \notin d.targets

\* A namespace has no two Pods of one name.
Unique(ps) ==
  \A p, q \in Pods : p # q /\ ps[p].fqdn # <<>> /\ ps[q].fqdn # <<>> =>
    ps[p].ns # ps[q].ns \/ ps[p].name # ps[q].name

RecordOf(d, a) == <<RecordKey(d.fqdn, d.name), a>>

\* The store holds the records of the Pods and no other.
Backed(ps, st) == \A r \in st : \E p \in Pods : \E a \in ps[p].ip : r = RecordOf(ps[p], a)

Present(ps, st) == \A p \in Pods : \A a \in ps[p].ip : RecordOf(ps[p], a) \in st

NamesInv ==
  /\ bindings \in [Pipelines -> Annotations \cup {<<>>}]
  /\ pods \in [Pods -> PodType]
  /\ \A p \in Pods : PodInv(pods[p])
  /\ Unique(pods)
  /\ Backed(pods, store)
  /\ Present(pods, store)

\* Two Pods with records have different keys.
LEMMA KeysDiffer ==
  ASSUME NEW c \in PodType, NEW d \in PodType, PodInv(c), PodInv(d),
         c.fqdn # <<>>, d.fqdn # <<>>, c.ns # d.ns \/ c.name # d.name
  PROVE  RecordKey(c.fqdn, c.name) # RecordKey(d.fqdn, d.name)
<1>1. /\ c.fqdn = BuildVertexDomain(c.vertex, c.pipeline, c.ns)
      /\ d.fqdn = BuildVertexDomain(d.vertex, d.pipeline, d.ns)
  BY DEF PodInv
<1>2. /\ c.vertex \in Name /\ c.pipeline \in Name /\ c.ns \in Name /\ c.name \in Label
      /\ d.vertex \in Name /\ d.pipeline \in Name /\ d.ns \in Name /\ d.name \in Label
      /\ c.fqdn \in Name /\ d.fqdn \in Name
  BY DEF PodType
<1>3. Len(c.fqdn) = 3 + Len(Suffix)
  BY <1>1, <1>2, BuildFacts
<1>4. Len(d.fqdn) = 3 + Len(Suffix)
  BY <1>1, <1>2, BuildFacts
<1>5. SUFFICES ASSUME RecordKey(c.fqdn, c.name) = RecordKey(d.fqdn, d.name)
               PROVE  c.ns = d.ns /\ c.name = d.name
  OBVIOUS
<1>6. c.fqdn = d.fqdn /\ c.name = d.name
  BY <1>2, <1>3, <1>4, <1>5, RecordKeyInjective, SMTT(30)
<1>7. /\ BuildVertexDomain(c.vertex, c.pipeline, c.ns) # <<>>
      /\ BuildVertexDomain(c.vertex, c.pipeline, c.ns) = BuildVertexDomain(d.vertex, d.pipeline, d.ns)
  BY <1>1, <1>6
<1>8. c.ns = d.ns
  <2>1. c.ns = <<BuildVertexDomain(c.vertex, c.pipeline, c.ns)[3]>>
    BY <1>2, <1>7, NamedParts
  <2>2. d.ns = <<BuildVertexDomain(d.vertex, d.pipeline, d.ns)[3]>>
    BY <1>2, <1>7, NamedParts
  <2> QED
    BY <1>7, <2>1, <2>2
<1> QED
  BY <1>6, <1>8

\* A lookup finds the records of one vertex.
LEMMA GetExact ==
  ASSUME NamesInv, NEW v \in Name, NEW pl \in Name, NEW ns \in Name,
         BuildVertexDomain(v, pl, ns) # <<>>
  PROVE  Get(BuildVertexDomain(v, pl, ns)) = Registered(ns, pl, v)
<1> DEFINE f == BuildVertexDomain(v, pl, ns)
<1>1. f \in Name /\ Len(f) = 3 + Len(Suffix)
  BY BuildFacts
<1>2. ASSUME NEW p \in Pods, NEW a \in pods[p].ip
      PROVE  /\ RecordOf(pods[p], a)[1] = RecordKey(pods[p].fqdn, pods[p].name)
             /\ RecordOf(pods[p], a)[2] = a
             /\ IsPrefix(FQDNToEtcdKey(f), RecordKey(pods[p].fqdn, pods[p].name)) <=>
                  pods[p].ns = ns /\ pods[p].pipeline = pl /\ pods[p].vertex = v
  <2> DEFINE d == pods[p]
  <2>1. d \in PodType /\ PodInv(d) /\ d.ip # {}
    BY <1>2 DEF NamesInv
  <2> HIDE DEF d
  <2>2. d.fqdn # <<>> /\ d.fqdn = BuildVertexDomain(d.vertex, d.pipeline, d.ns)
    BY <2>1 DEF PodInv
  <2>3. /\ d.vertex \in Name /\ d.pipeline \in Name /\ d.ns \in Name
        /\ d.name \in Label /\ d.fqdn \in Name
    BY <2>1 DEF PodType
  <2>4. Len(d.fqdn) = 3 + Len(Suffix)
    BY <2>2, <2>3, BuildFacts
  <2>5. IsPrefix(FQDNToEtcdKey(f), RecordKey(d.fqdn, d.name)) <=> f = d.fqdn
    BY <1>1, <2>3, <2>4, PrefixIsName
  <2>6. ASSUME f = d.fqdn PROVE d.ns = ns /\ d.pipeline = pl /\ d.vertex = v
    <3>1. v = <<f[1]>> /\ pl = <<f[2]>> /\ ns = <<f[3]>>
      BY NamedParts
    <3>2. d.vertex = <<d.fqdn[1]>> /\ d.pipeline = <<d.fqdn[2]>> /\ d.ns = <<d.fqdn[3]>>
      BY <2>2, <2>3, NamedParts
    <3> HIDE DEF f
    <3> QED
      BY <2>6, <3>1, <3>2
  <2>7. ASSUME d.ns = ns, d.pipeline = pl, d.vertex = v PROVE f = d.fqdn
    BY <2>2, <2>7
  <2>8. RecordOf(d, a)[1] = RecordKey(d.fqdn, d.name) /\ RecordOf(d, a)[2] = a
    BY DEF RecordOf
  <2> QED
    BY <2>5, <2>6, <2>7, <2>8 DEF d
<1>3. ASSUME NEW x \in Get(f) PROVE x \in Registered(ns, pl, v)
  <2>1. PICK r \in store : IsPrefix(FQDNToEtcdKey(f), r[1]) /\ x = r[2]
    BY <1>3 DEF Get
  <2>2. PICK p \in Pods : \E b \in pods[p].ip : r = RecordOf(pods[p], b)
    BY DEF NamesInv, Backed
  <2> PICK a \in pods[p].ip : r = RecordOf(pods[p], a)
    BY <2>2
  <2>3. pods[p].ns = ns /\ pods[p].pipeline = pl /\ pods[p].vertex = v /\ x = a
    BY <1>2, <2>1
  <2> QED
    BY <2>3 DEF Registered
<1>4. ASSUME NEW x \in Registered(ns, pl, v) PROVE x \in Get(f)
  <2>1. PICK p \in Pods : /\ pods[p].ns = ns /\ pods[p].pipeline = pl /\ pods[p].vertex = v
                          /\ x \in pods[p].ip
    BY <1>4 DEF Registered
  <2>2. RecordOf(pods[p], x) \in store
    BY <2>1 DEF NamesInv, Present
  <2>3. /\ IsPrefix(FQDNToEtcdKey(f), RecordOf(pods[p], x)[1])
        /\ RecordOf(pods[p], x)[2] = x
    BY <1>2, <2>1
  <2> QED
    BY <2>2, <2>3 DEF Get
<1> QED
  BY <1>3, <1>4

\* The webhook's names in a state that satisfies the invariant.
LEMMA InvImplies ==
  ASSUME NamesInv
  PROVE  NamesTypeOK /\ LookupExact /\ TargetsReachPeers
<1>1. ASSUME NEW p \in Pods
      PROVE  /\ pods[p] \in PodType /\ PodInv(pods[p])
             /\ pods[p].vertex \in Name /\ pods[p].pipeline \in Name /\ pods[p].ns \in Name
             /\ pods[p].sends \subseteq Name
  BY DEF NamesInv, PodType
<1>2. NamesTypeOK
  <2>1. ASSUME NEW p \in Pods, pods[p].fqdn # <<>>
        PROVE  Len(pods[p].fqdn) = 3 + Len(Suffix)
    <3>1. pods[p].fqdn = BuildVertexDomain(pods[p].vertex, pods[p].pipeline, pods[p].ns)
      BY <1>1, <2>1 DEF PodInv
    <3> QED
      BY <1>1, <2>1, <3>1, BuildFacts, SMTT(30)
  <2>2. ASSUME NEW p \in Pods, NEW f \in pods[p].targets
        PROVE  Len(f) = 3 + Len(Suffix)
    <3>1. f # <<>>
      BY <1>1, <2>2 DEF PodInv
    <3>2. PICK to \in pods[p].sends : f = BuildVertexDomain(to, pods[p].pipeline, pods[p].ns)
      BY <1>1, <2>2 DEF PodInv
    <3> QED
      BY <1>1, <3>1, <3>2, BuildFacts
  <2>3. ASSUME NEW r \in store PROVE Len(r[1]) = 5 + Len(Suffix) /\ r[2] \in IPs
    <3>1. PICK p \in Pods : \E b \in pods[p].ip : r = RecordOf(pods[p], b)
      BY <2>3 DEF NamesInv, Backed
    <3> PICK a \in pods[p].ip : r = RecordOf(pods[p], a)
      BY <3>1
    <3>2. /\ pods[p].fqdn # <<>> /\ pods[p].fqdn \in Name /\ pods[p].name \in Label
          /\ pods[p].ip \subseteq IPs
      BY <1>1 DEF PodInv, PodType
    <3>3. r[1] = RecordKey(pods[p].fqdn, pods[p].name) /\ r[2] = a
      BY DEF RecordOf
    <3>4. Len(RecordKey(pods[p].fqdn, pods[p].name)) = Len(pods[p].fqdn) + 2
      BY <3>2, RecordKeyFacts
    <3>5. Len(pods[p].fqdn) = 3 + Len(Suffix) /\ Len(Suffix) \in Nat
      BY <2>1, <3>2, ConstantNames
    <3>6. Len(r[1]) = 5 + Len(Suffix)
      BY <3>3, <3>4, <3>5
    <3> QED
      BY <3>2, <3>3, <3>6
  <2>4. \A p \in Pods : pods[p].ip \subseteq IPs
    BY <1>1 DEF PodType
  <2> QED
    BY <2>1, <2>2, <2>3, <2>4, SMTT(30) DEF NamesTypeOK
<1>3. LookupExact
  <2>1. ASSUME NEW p \in Pods, pods[p].fqdn # <<>>
        PROVE  Get(pods[p].fqdn) = Registered(pods[p].ns, pods[p].pipeline, pods[p].vertex)
    <3>1. pods[p].fqdn = BuildVertexDomain(pods[p].vertex, pods[p].pipeline, pods[p].ns)
      BY <1>1, <2>1 DEF PodInv
    <3> QED
      BY <1>1, <2>1, <3>1, GetExact, SMTT(30)
  <2> QED
    BY <2>1 DEF LookupExact
<1>4. TargetsReachPeers
  <2> SUFFICES ASSUME NEW p \in Pods
               PROVE  LET answer == ResolveTargets(pods[p].targets)
                          peers == {Registered(pods[p].ns, pods[p].pipeline, to) : to \in pods[p].sends}
                      IN  /\ answer.ok <=> {} \notin peers
                          /\ answer.ok => answer.ips = UNION peers
    BY DEF TargetsReachPeers
  <2> DEFINE d == pods[p]
             peers == {Registered(d.ns, d.pipeline, to) : to \in d.sends}
             found == {Resolve(f) : f \in d.targets}
  <2>1. ASSUME NEW to \in d.sends
        PROVE  Resolve(BuildVertexDomain(to, d.pipeline, d.ns)) = Registered(d.ns, d.pipeline, to)
    <3>1. BuildVertexDomain(to, d.pipeline, d.ns) # <<>>
      BY <1>1, <2>1 DEF PodInv
    <3>2. to \in Name /\ d.pipeline \in Name /\ d.ns \in Name
      BY <1>1, <2>1
    <3> QED
      BY <3>1, <3>2, GetExact DEF Resolve
  <2>2. d.targets = {BuildVertexDomain(to, d.pipeline, d.ns) : to \in d.sends}
    BY <1>1 DEF PodInv
  <2> HIDE DEF d
  <2>3. found = peers
    BY <2>1, <2>2
  <2>4. (\E f \in d.targets : Resolve(f) = {}) <=> {} \in found
    BY DEF found
  <2> HIDE DEF peers, found
  <2>5. /\ ResolveTargets(d.targets).ok <=> {} \notin peers
        /\ ResolveTargets(d.targets).ok => ResolveTargets(d.targets).ips = UNION peers
    <3>1. CASE {} \in peers
      BY <2>3, <2>4, <3>1 DEF ResolveTargets
    <3>2. CASE {} \notin peers
      BY <2>3, <2>4, <3>2 DEF ResolveTargets, found
    <3> QED
      BY <3>1, <3>2
  <2> QED
    BY <2>5 DEF d, peers
<1> QED
  BY <1>2, <1>3, <1>4

-----------------------------------------------------------------------------
(* The steps *)

\* A Pod that enters under a free name, without a record.
LEMMA AdmitInv ==
  ASSUME NamesInv, NEW p \in Pods, NEW d \in PodType, PodInv(d), d.ip = {},
         pods[p] = NoPod, NameFree(d.ns, d.name),
         pods' = [pods EXCEPT ![p] = d], UNCHANGED <<bindings, store>>
  PROVE  NamesInv'
<1> USE DEF NamesInv
<1>1. /\ pods' \in [Pods -> PodType] /\ pods'[p] = d
      /\ \A q \in Pods \ {p} : pods'[q] = pods[q]
  OBVIOUS
<1>2. \A q \in Pods : PodInv(pods'[q])
  BY <1>1
<1>3. \A q \in Pods : pods[q].ns # d.ns \/ pods[q].name # d.name
  BY DEF NameFree
<1>4. Unique(pods')
  BY <1>1, <1>3 DEF Unique
<1>5. pods[p].ip = {}
  BY DEF NoPod
<1>6. \A q \in Pods : \A a \in pods[q].ip : q # p
  BY <1>5
<1>7. Backed(pods', store)
  <2> SUFFICES ASSUME NEW r \in store
               PROVE  \E q \in Pods : \E a \in pods'[q].ip : r = RecordOf(pods'[q], a)
    BY DEF Backed
  <2>1. PICK q \in Pods : \E a \in pods[q].ip : r = RecordOf(pods[q], a)
    BY DEF Backed
  <2> QED
    BY <1>1, <1>6, <2>1
<1>8. Present(pods', store)
  BY <1>1 DEF Present
<1> QED
  BY <1>1, <1>2, <1>4, <1>7, <1>8, SMTT(30)

LEMMA NoPodFacts == /\ NoPod \in PodType /\ NoPod.fqdn = <<>> /\ PodInv(NoPod)
                    /\ NoPod.targets = {} /\ NoPod.sends = {} /\ NoPod.ip = {}
<1>1. <<>> \in Name /\ "none" \in Label
  BY ConstantNames DEF Name
<1>2. /\ NoPod \in PodType /\ NoPod.fqdn = <<>> /\ NoPod.targets = {} /\ NoPod.sends = {}
      /\ NoPod.ip = {}
  BY <1>1 DEF NoPod, PodType
<1> QED
  BY <1>2 DEF PodInv

\* The Pod before the webhook.
LEMMA PlainFacts ==
  ASSUME NEW ns \in Name, NEW name \in Label, NEW pl \in Name, NEW v \in Name
  PROVE  /\ Plain(ns, name, pl, v) \in PodType /\ PodInv(Plain(ns, name, pl, v))
         /\ Plain(ns, name, pl, v).ip = {}
         /\ Plain(ns, name, pl, v).ns = ns /\ Plain(ns, name, pl, v).name = name
         /\ Plain(ns, name, pl, v).pipeline = pl /\ Plain(ns, name, pl, v).vertex = v
<1> DEFINE d == Plain(ns, name, pl, v)
<1>1. d \in PodType /\ d.ns = ns /\ d.name = name /\ d.pipeline = pl /\ d.vertex = v
  BY NoPodFacts, ZenonT(60) DEF Plain, PodType
<1>2. d.fqdn = <<>> /\ d.targets = {} /\ d.sends = {} /\ d.ip = {}
  BY NoPodFacts DEF Plain, PodType
<1> HIDE DEF d
<1>3. PodInv(d)
  BY <1>2 DEF PodInv
<1> QED
  BY <1>1, <1>2, <1>3 DEF d

\* The Pod with what the webhook adds, when it lets it pass.
LEMMA MutatedFacts ==
  ASSUME NamesInv, NEW name \in Label, NEW pl \in Pipelines, NEW v \in Vertices,
         Mutated(pl[1], name, pl[2], v).fqdn # <<>>,
         <<>> \notin Mutated(pl[1], name, pl[2], v).targets
  PROVE  /\ Mutated(pl[1], name, pl[2], v) \in PodType
         /\ PodInv(Mutated(pl[1], name, pl[2], v))
         /\ Mutated(pl[1], name, pl[2], v).ip = {}
         /\ Mutated(pl[1], name, pl[2], v).ns = pl[1]
         /\ Mutated(pl[1], name, pl[2], v).name = name
<1> DEFINE ns == pl[1]
           pn == pl[2]
           list == bindings[pl]
           plain == Plain(ns, name, pn, v)
           d == Mutated(ns, name, pn, v)
           f == BuildVertexDomain(v, pn, ns)
           out == {b.to : b \in Outgoing(v, list)}
           tgt == CollectTargetFQDNs(v, list, pn, ns)
<1>1. ns \in Name /\ pn \in Name /\ v \in Name /\ pl = <<ns, pn>>
  BY ConstantNames
<1>2. /\ plain \in PodType /\ plain.ns = ns /\ plain.name = name /\ plain.pipeline = pn
      /\ plain.vertex = v /\ plain.ip = {}
  BY <1>1, PlainFacts
<1>3. list = <<>> \/ list \in Annotations
  BY DEF NamesInv
<1>4. \A b \in ToSet(list) : b.to \in Vertices
  <2>1. CASE list = <<>>
    BY <2>1 DEF ToSet
  <2>2. CASE list \in Annotations
    BY <2>2, NamesAssumption
  <2> QED
    BY <1>3, <2>1, <2>2
<1>5. out \subseteq Name
  BY <1>4, ConstantNames DEF Outgoing
<1>6. tgt = {BuildVertexDomain(to, pn, ns) : to \in out}
  BY DEF CollectTargetFQDNs
<1>7. d = [plain EXCEPT !.fqdn = f, !.targets = tgt, !.sends = out]
  BY <1>1, ZenonT(60) DEF Mutated
<1> HIDE DEF plain, d, f, out, tgt, list
<1>8. /\ d.fqdn = f /\ d.targets = tgt /\ d.sends = out
      /\ d.ns = ns /\ d.name = name /\ d.pipeline = pn /\ d.vertex = v /\ d.ip = {}
  BY <1>2, <1>7 DEF PodType
<1>9. f # <<>> /\ <<>> \notin tgt
  BY <1>8 DEF d
<1>10. f \in Name
  BY <1>1, <1>9, BuildFacts DEF f
<1>11. tgt \subseteq Name
  <2> SUFFICES ASSUME NEW to \in out PROVE BuildVertexDomain(to, pn, ns) \in Name
    BY <1>6
  <2>1. BuildVertexDomain(to, pn, ns) # <<>>
    BY <1>6, <1>9
  <2> QED
    BY <1>1, <1>5, <2>1, BuildFacts, SMTT(30)
<1>12. d \in PodType
  BY <1>2, <1>5, <1>7, <1>10, <1>11 DEF PodType
<1>13. PodInv(d)
  BY <1>6, <1>8, <1>9 DEF PodInv, f
<1> QED
  BY <1>8, <1>12, <1>13 DEF d

\* A record written or replaced.
LEMMA RegisterInv ==
  ASSUME NamesInv, NEW p \in Pods, NEW ip \in IPs, Register(p, ip)
  PROVE  NamesInv'
<1> DEFINE d == pods[p]
           k == RecordKey(d.fqdn, d.name)
<1>1. d \in PodType /\ PodInv(d) /\ d.fqdn # <<>>
  BY DEF NamesInv, Register, HasKey
<1>2. /\ pods' = [pods EXCEPT ![p].ip = {ip}] /\ pods \in [Pods -> PodType]
      /\ store' = {r \in store : r[1] # k} \cup {<<k, ip>>} /\ bindings' = bindings
  BY DEF NamesInv, Register, Put
<1>3. /\ pods' \in [Pods -> PodType]
      /\ \A q \in Pods \ {p} : pods'[q] = pods[q]
      /\ pods'[p] = [d EXCEPT !.ip = {ip}]
  BY <1>2 DEF PodType
<1>4. /\ pods'[p].ip = {ip} /\ pods'[p].fqdn = d.fqdn /\ pods'[p].name = d.name
      /\ pods'[p].ns = d.ns /\ pods'[p].vertex = d.vertex /\ pods'[p].pipeline = d.pipeline
      /\ pods'[p].targets = d.targets /\ pods'[p].sends = d.sends
  BY <1>1, <1>3 DEF PodType
<1>5. RecordOf(pods'[p], ip) = <<k, ip>>
  BY <1>4 DEF RecordOf
<1>6. ASSUME NEW q \in Pods, q # p, NEW a \in pods[q].ip PROVE RecordOf(pods[q], a)[1] # k
  <2>1. pods[q] \in PodType /\ PodInv(pods[q]) /\ pods[q].fqdn # <<>>
    BY <1>6 DEF NamesInv, PodInv
  <2>2. pods[q].ns # d.ns \/ pods[q].name # d.name
    BY <1>1, <1>6, <2>1, SMTT(30) DEF NamesInv, Unique
  <2>3. RecordKey(pods[q].fqdn, pods[q].name) # k
    BY <1>1, <2>1, <2>2, KeysDiffer, SMTT(30)
  <2> QED
    BY <2>3 DEF RecordOf
<1> HIDE DEF d, k
<1>7. \A q \in Pods : PodInv(pods'[q])
  <2> DEFINE e == pods'[p]
  <2> HIDE DEF e
  <2>1. /\ e.fqdn = d.fqdn /\ e.ns = d.ns /\ e.vertex = d.vertex /\ e.pipeline = d.pipeline
        /\ e.targets = d.targets /\ e.sends = d.sends
    BY <1>4 DEF e
  <2>2. e.targets = {BuildVertexDomain(to, e.pipeline, e.ns) : to \in e.sends}
    BY <1>1, <2>1 DEF PodInv
  <2>3. /\ <<>> \notin e.targets /\ e.fqdn # <<>>
        /\ e.fqdn = BuildVertexDomain(e.vertex, e.pipeline, e.ns)
    BY <1>1, <2>1 DEF PodInv
  <2>4. PodInv(e)
    BY <2>2, <2>3 DEF PodInv
  <2>5. \A q \in Pods \ {p} : PodInv(pods'[q])
    BY <1>3 DEF NamesInv
  <2> QED
    BY <2>4, <2>5 DEF e
<1>8. Unique(pods')
  <2>1. \A q \in Pods : /\ pods'[q].fqdn = pods[q].fqdn /\ pods'[q].ns = pods[q].ns
                        /\ pods'[q].name = pods[q].name
    BY <1>3, <1>4 DEF d
  <2>2. Unique(pods)
    BY DEF NamesInv
  <2> QED
    BY <2>1, <2>2 DEF Unique
<1>9. ASSUME NEW r \in store' PROVE \E q \in Pods : \E a \in pods'[q].ip : r = RecordOf(pods'[q], a)
  <2>1. CASE r = <<k, ip>>
    BY <1>4, <1>5, <2>1
  <2>2. CASE r \in store /\ r[1] # k
    <3>1. PICK q \in Pods : \E a \in pods[q].ip : r = RecordOf(pods[q], a)
      BY <2>2 DEF NamesInv, Backed
    <3>2. q # p
      BY <2>2, <3>1 DEF RecordOf, d, k
    <3> QED
      BY <1>3, <3>1, <3>2
  <2> QED
    BY <1>2, <1>9, <2>1, <2>2, ZenonT(60)
<1>10. ASSUME NEW q \in Pods, NEW a \in pods'[q].ip PROVE RecordOf(pods'[q], a) \in store'
  <2>1. CASE q = p
    BY <1>2, <1>4, <1>5, <1>10, <2>1, SMTT(30)
  <2>2. CASE q # p
    <3>1. pods'[q] = pods[q] /\ a \in pods[q].ip
      BY <1>3, <1>10, <2>2
    <3>2. RecordOf(pods[q], a) \in store /\ RecordOf(pods[q], a)[1] # k
      BY <1>6, <2>2, <3>1 DEF NamesInv, Present
    <3> QED
      BY <1>2, <3>1, <3>2, ZenonT(60)
  <2> QED
    BY <2>1, <2>2
<1>11. Backed(pods', store') /\ Present(pods', store')
  BY <1>9, <1>10 DEF Backed, Present
<1> QED
  BY <1>2, <1>3, <1>7, <1>8, <1>11 DEF NamesInv

\* A Pod that goes away, with its record.
LEMMA DeregisterInv ==
  ASSUME NamesInv, NEW p \in Pods, Deregister(p)
  PROVE  NamesInv'
<1> DEFINE d == pods[p]
           k == RecordKey(d.fqdn, d.name)
<1>1. d \in PodType /\ PodInv(d) /\ pods \in [Pods -> PodType]
  BY DEF NamesInv
<1>2. NoPod \in PodType /\ NoPod.fqdn = <<>> /\ PodInv(NoPod) /\ NoPod.ip = {}
  BY NoPodFacts
<1>3. /\ pods' = [pods EXCEPT ![p] = NoPod] /\ bindings' = bindings
      /\ store' = IF HasKey(d.fqdn) THEN {r \in store : r[1] # k} ELSE store
  BY DEF Deregister, Delete
<1>4. /\ pods' \in [Pods -> PodType] /\ pods'[p] = NoPod
      /\ \A q \in Pods \ {p} : pods'[q] = pods[q]
  BY <1>1, <1>2, <1>3
<1>5. HasKey(d.fqdn) <=> d.fqdn # <<>>
  <2>1. CASE d.fqdn = <<>>
    BY <2>1 DEF HasKey
  <2>2. CASE d.fqdn # <<>>
    <3>1. d.fqdn = BuildVertexDomain(d.vertex, d.pipeline, d.ns)
      BY <1>1, <2>2 DEF PodInv
    <3>2. d.vertex \in Name /\ d.pipeline \in Name /\ d.ns \in Name
      BY <1>1 DEF PodType
    <3>3. Len(d.fqdn) = 3 + Len(Suffix)
      BY <2>2, <3>1, <3>2, BuildFacts, SMTT(30)
    <3>4. Len(d.fqdn) >= 2
      BY <3>3, ConstantNames
    <3> QED
      BY <2>2, <3>4 DEF HasKey
  <2> QED
    BY <2>1, <2>2
<1>6. ASSUME NEW q \in Pods, q # p, NEW a \in pods[q].ip
      PROVE  d.fqdn = <<>> \/ RecordOf(pods[q], a)[1] # k
  <2>1. pods[q] \in PodType /\ PodInv(pods[q]) /\ pods[q].fqdn # <<>>
    BY <1>6 DEF NamesInv, PodInv
  <2>2. d.fqdn = <<>> \/ pods[q].ns # d.ns \/ pods[q].name # d.name
    BY <1>6, <2>1, SMTT(30) DEF NamesInv, Unique
  <2>3. d.fqdn = <<>> \/ RecordKey(pods[q].fqdn, pods[q].name) # k
    BY <1>1, <2>1, <2>2, KeysDiffer, SMTT(30)
  <2> QED
    BY <2>3 DEF RecordOf
<1> HIDE DEF d, k
<1>7. \A q \in Pods : PodInv(pods'[q])
  BY <1>2, <1>4 DEF NamesInv
<1>8. Unique(pods')
  BY <1>2, <1>4 DEF NamesInv, Unique
<1>9. ASSUME NEW r \in store' PROVE \E q \in Pods : \E a \in pods'[q].ip : r = RecordOf(pods'[q], a)
  <2>1. r \in store /\ (d.fqdn = <<>> \/ r[1] # k)
    BY <1>3, <1>5, <1>9, SMTT(30)
  <2>2. PICK q \in Pods : \E a \in pods[q].ip : r = RecordOf(pods[q], a)
    BY <2>1 DEF NamesInv, Backed
  <2>3. q # p
    BY <1>1, <2>1, <2>2, SMTT(30) DEF RecordOf, PodInv, d, k
  <2> QED
    BY <1>4, <2>2, <2>3
<1>10. ASSUME NEW q \in Pods, NEW a \in pods'[q].ip PROVE RecordOf(pods'[q], a) \in store'
  <2>1. q # p /\ pods'[q] = pods[q] /\ a \in pods[q].ip
    BY <1>2, <1>4, <1>10, SMTT(30)
  <2>2. RecordOf(pods[q], a) \in store
    BY <2>1 DEF NamesInv, Present
  <2>3. d.fqdn = <<>> \/ RecordOf(pods[q], a)[1] # k
    BY <1>6, <2>1
  <2> QED
    BY <1>3, <1>5, <2>1, <2>2, <2>3, SMTT(30)
<1>11. Backed(pods', store') /\ Present(pods', store')
  BY <1>9, <1>10 DEF Backed, Present
<1> QED
  BY <1>3, <1>4, <1>7, <1>8, <1>11, SMTT(30) DEF NamesInv

\* Every step keeps the invariant.
LEMMA NamesStep == NamesInv /\ [Next]_vars => NamesInv'
<1> SUFFICES ASSUME NamesInv, [Next]_vars PROVE NamesInv'
  OBVIOUS
<1>1. ASSUME NEW pl \in Pipelines, NEW list \in Annotations, Annotate(pl, list)
      PROVE  NamesInv'
  BY <1>1 DEF NamesInv, Annotate
<1>2. ASSUME NEW p \in Pods, NEW name \in PodNames, NEW pl \in Pipelines, NEW v \in Vertices,
             AdmitPlain(p, pl[1], name, pl[2], v)
      PROVE  NamesInv'
  <2> DEFINE d == Plain(pl[1], name, pl[2], v)
  <2>1. pl[1] \in Name /\ pl[2] \in Name /\ v \in Name /\ name \in Label
    BY ConstantNames
  <2>2. d \in PodType /\ PodInv(d) /\ d.ip = {} /\ d.ns = pl[1] /\ d.name = name
    BY <2>1, PlainFacts
  <2>3. /\ pods[p] = NoPod /\ NameFree(pl[1], name) /\ pods' = [pods EXCEPT ![p] = d]
        /\ UNCHANGED <<bindings, store>>
    BY <1>2 DEF AdmitPlain
  <2> HIDE DEF d
  <2> QED
    BY <2>2, <2>3, AdmitInv
<1>3. ASSUME NEW p \in Pods, NEW name \in PodNames, NEW pl \in Pipelines, NEW v \in Vertices,
             AdmitMutated(p, pl[1], name, pl[2], v)
      PROVE  NamesInv'
  <2> DEFINE d == Mutated(pl[1], name, pl[2], v)
  <2>1. /\ pods[p] = NoPod /\ NameFree(pl[1], name) /\ pods' = [pods EXCEPT ![p] = d]
        /\ d.fqdn # <<>> /\ <<>> \notin d.targets /\ UNCHANGED <<bindings, store>>
    BY <1>3 DEF AdmitMutated
  <2>2. name \in Label
    BY ConstantNames
  <2>3. d \in PodType /\ PodInv(d) /\ d.ip = {} /\ d.ns = pl[1] /\ d.name = name
    BY <2>1, <2>2, MutatedFacts
  <2> HIDE DEF d
  <2> QED
    BY <2>1, <2>3, AdmitInv, ZenonT(60)
<1>4. CASE UNCHANGED vars
  BY <1>4 DEF NamesInv, vars
<1> QED
  BY <1>1, <1>2, <1>3, <1>4, RegisterInv, DeregisterInv, SMTT(30) DEF Next

LEMMA NamesInit == Init => NamesInv
<1> SUFFICES ASSUME Init PROVE NamesInv
  OBVIOUS
<1>1. NoPod \in PodType /\ NoPod.fqdn = <<>> /\ PodInv(NoPod) /\ NoPod.ip = {}
  BY NoPodFacts
<1>2. /\ bindings = [pl \in Pipelines |-> <<>>] /\ store = {}
      /\ pods = [p \in Pods |-> NoPod]
  BY DEF Init
<1> QED
  BY <1>1, <1>2 DEF NamesInv, Unique, Backed, Present

-----------------------------------------------------------------------------
(* Theorems *)

\* The names in Pods and store are always typed and consistent with each other.
THEOREM NamesInvariance == Spec => []NamesInv
BY NamesInit, NamesStep, PTL DEF Spec

\* The names that VertexDomainMutator.Handle writes and the keys of the records
\* have their form.
THEOREM NamesTypeCorrect == Spec => []NamesTypeOK
BY NamesInvariance, InvImplies, PTL

\* For any names, Store.Get returns the records of the vertex that was asked for.
THEOREM LookupsAreExact == Spec => []LookupExact
BY NamesInvariance, InvImplies, PTL

\* For any bindings, the targets of a Pod resolve to the vertices it was bound to.
THEOREM TargetsAreExact == Spec => []TargetsReachPeers
BY NamesInvariance, InvImplies, PTL

=============================================================================
