-------------------------- MODULE Keystores_proof --------------------------
(***************************************************************************)
(* Proofs about the key databases and the configurations made of them, for *)
(* any number of key sets, files and certificates, in any combination.     *)
(***************************************************************************)
EXTENDS Keystores, SequenceTheorems, WellFoundedInduction, TLAPS

----------------------------------------------------------------------------
(* The key sets in the order in which they are processed.                  *)

(* FlattenSeq, for one and for two sequences: the configurations have one  *)
(* key directory or two.                                                   *)
LEMMA FlattenOne ==
    ASSUME NEW A, NEW s \in Seq(Seq(A)), Len(s) = 1
    PROVE  FlattenSeq(s) = s[1]
<1>. DEFINE G(f) == [i \in 1 .. Len(s) |-> IF i = 1 THEN s[i] ELSE f[i - 1] \o s[i]]
            h == CHOOSE f : f = G(f)
            e == [i \in 1 .. 1 |-> s[1]]
<1>1. FlattenSeq(s) = h[1]
  BY DEF FlattenSeq
<1>2. e = G(e)
  OBVIOUS
<1>3. h = G(h)
  <2>. HIDE DEF G, e
  <2>. QED  BY <1>2
<1>. HIDE DEF h
<1>4. h[1] = s[1]
  BY <1>3
<1>. QED  BY <1>1, <1>4

LEMMA FlattenTwo ==
    ASSUME NEW A, NEW s \in Seq(Seq(A)), Len(s) = 2
    PROVE  FlattenSeq(s) = s[1] \o s[2]
<1>. DEFINE G(f) == [i \in 1 .. Len(s) |-> IF i = 1 THEN s[i] ELSE f[i - 1] \o s[i]]
            h == CHOOSE f : f = G(f)
            e == [i \in 1 .. 2 |-> IF i = 1 THEN s[1] ELSE s[1] \o s[2]]
<1>1. FlattenSeq(s) = h[2]
  BY DEF FlattenSeq
<1>2. e = G(e)
  <2>1. \A i \in 1 .. 2 : i = 1 \/ i = 2
    OBVIOUS
  <2>2. e[1] = s[1]
    OBVIOUS
  <2>3. \A i \in 1 .. 2 : e[i] = IF i = 1 THEN s[i] ELSE e[i - 1] \o s[i]
    BY <2>1, <2>2
  <2>4. e = [i \in 1 .. 2 |-> e[i]]
    OBVIOUS
  <2>. HIDE DEF e
  <2>. QED  BY <2>3, <2>4
<1>3. h = G(h)
  <2>. HIDE DEF G, e
  <2>. QED  BY <1>2
<1>. HIDE DEF h
<1>4. h[1] = s[1] /\ 2 - 1 = 1
  BY <1>3
<1>5. h[2] = h[2 - 1] \o s[2]
  BY <1>3, SMTT(60)
<1>. QED  BY <1>1, <1>4, <1>5

(* The key sets come directory by directory: the first of a directory is   *)
(* met before the others, and none is left out.                            *)
Jobs(dirs) == [d \in DOMAIN dirs |->
                 [i \in DOMAIN dirs[d] |-> [dir |-> d, set |-> dirs[d][i]]]]

InTurn(dirs, todo) ==
    /\ todo \in Seq([dir : DOMAIN dirs, set : KeySet])
    /\ \A i \in 1 .. Len(todo) :
         (\A j \in 1 .. i - 1 : todo[j].dir # todo[i].dir) =>
             dirs[todo[i].dir] # <<>> /\ todo[i].set = dirs[todo[i].dir][1]
    /\ \A d \in DOMAIN dirs :
         dirs[d] # <<>> => \E i \in 1 .. Len(todo) :
                              todo[i].dir = d /\ todo[i].set = dirs[d][1]

Tagged(d, a) == [i \in DOMAIN a |-> [dir |-> d, set |-> a[i]]]

LEMMA TaggedIs ==
    ASSUME NEW D, NEW d \in D, NEW a \in Seq(KeySet)
    PROVE  /\ Tagged(d, a) \in Seq([dir : D, set : KeySet])
           /\ Len(Tagged(d, a)) = Len(a)
           /\ \A i \in 1 .. Len(a) : Tagged(d, a)[i].dir = d /\ Tagged(d, a)[i].set = a[i]
<1>. DEFINE J == [dir : D, set : KeySet]
            t == [i \in 1 .. Len(a) |-> [dir |-> d, set |-> a[i]]]
<1>1. Tagged(d, a) = t
  BY DEF Tagged
<1>2. \A i \in 1 .. Len(a) : a[i] \in KeySet
  OBVIOUS
<1>3. \A i \in 1 .. Len(a) : t[i].dir = d /\ t[i].set = a[i] /\ t[i] \in J
  BY <1>2
<1>4. t \in [1 .. Len(a) -> J]
  BY <1>2
<1>. HIDE DEF t, J
<1>5. t \in Seq(J) /\ Len(t) = Len(a)
  <2>1. Len(a) \in Nat
    OBVIOUS
  <2>. QED  BY <1>4, <2>1
<1>. QED  BY <1>1, <1>3, <1>5 DEF J

LEMMA OneDirectory ==
    ASSUME NEW dirs \in Seq(Seq(KeySet)), Len(dirs) = 1
    PROVE  InTurn(dirs, FlattenSeq(Jobs(dirs)))
<1>. DEFINE J == [dir : DOMAIN dirs, set : KeySet]
            a == dirs[1]
            t == Tagged(1, a)
<1>1. DOMAIN dirs = {1} /\ a \in Seq(KeySet)
  OBVIOUS
<1>2. t \in Seq(J) /\ Len(t) = Len(a) /\ \A i \in 1 .. Len(t) : t[i].dir = 1 /\ t[i].set = a[i]
  BY <1>1, TaggedIs, ZenonT(60)
<1>3. Jobs(dirs) \in Seq(Seq(J)) /\ Len(Jobs(dirs)) = 1 /\ Jobs(dirs)[1] = t
  <2>1. Jobs(dirs) = [d \in 1 .. 1 |-> t]
    BY <1>1 DEF Jobs, Tagged
  <2>. QED  BY <1>2, <2>1
<1>4. FlattenSeq(Jobs(dirs)) = t
  BY <1>3, FlattenOne
<1>. HIDE DEF t
<1>5. InTurn(dirs, t)
  BY <1>1, <1>2, SMTT(60) DEF InTurn
<1>. QED  BY <1>4, <1>5

LEMMA TwoDirectories ==
    ASSUME NEW dirs \in Seq(Seq(KeySet)), Len(dirs) = 2
    PROVE  InTurn(dirs, FlattenSeq(Jobs(dirs)))
<1>. DEFINE J == [dir : DOMAIN dirs, set : KeySet]
            a == dirs[1]
            b == dirs[2]
            t == Tagged(1, a)
            u == Tagged(2, b)
            w == t \o u
<1>1. DOMAIN dirs = {1, 2} /\ a \in Seq(KeySet) /\ b \in Seq(KeySet)
  <2>1. DOMAIN dirs = 1 .. 2 /\ 1 .. 2 = {1, 2}
    OBVIOUS
  <2>2. \A d \in DOMAIN dirs : dirs[d] \in Seq(KeySet)
    BY SMTT(60)
  <2>3. 1 \in DOMAIN dirs /\ 2 \in DOMAIN dirs
    BY <2>1
  <2>. QED  BY <2>1, <2>2, <2>3, Zenon
<1>0. 1 \in DOMAIN dirs /\ 2 \in DOMAIN dirs
  BY <1>1
<1>. HIDE DEF a, b
<1>2. t \in Seq(J) /\ Len(t) = Len(a) /\ \A i \in 1 .. Len(t) : t[i].dir = 1 /\ t[i].set = a[i]
  <2>1. /\ t \in Seq(J) /\ Len(t) = Len(a)
        /\ \A i \in 1 .. Len(a) : t[i].dir = 1 /\ t[i].set = a[i]
    BY <1>0, <1>1, TaggedIs, ZenonT(60)
  <2>. HIDE DEF J, t
  <2>. QED  BY <2>1
<1>3. u \in Seq(J) /\ Len(u) = Len(b) /\ \A i \in 1 .. Len(u) : u[i].dir = 2 /\ u[i].set = b[i]
  <2>1. /\ u \in Seq(J) /\ Len(u) = Len(b)
        /\ \A i \in 1 .. Len(b) : u[i].dir = 2 /\ u[i].set = b[i]
    BY <1>0, <1>1, TaggedIs, ZenonT(60)
  <2>. HIDE DEF J, u
  <2>. QED  BY <2>1
<1>4. Jobs(dirs) \in Seq(Seq(J)) /\ Len(Jobs(dirs)) = 2 /\ Jobs(dirs)[1] = t /\ Jobs(dirs)[2] = u
  <2>1. Jobs(dirs) = [d \in 1 .. 2 |-> IF d = 1 THEN t ELSE u]
    BY <1>1 DEF Jobs, Tagged, a, b
  <2>. QED  BY <1>2, <1>3, <2>1
<1>5. FlattenSeq(Jobs(dirs)) = w
  BY <1>4, FlattenTwo
<1>. HIDE DEF t, u
<1>6. w \in Seq(J) /\ Len(w) = Len(t) + Len(u)
  <2>. HIDE DEF J
  <2>. QED  BY <1>2, <1>3, ConcatProperties, ZenonT(60)
<1>7. \A i \in 1 .. Len(t) : i \in 1 .. Len(w) /\ w[i].dir = 1 /\ w[i].set = a[i]
  BY <1>2, <1>3
<1>8. \A i \in 1 .. Len(u) : /\ i + Len(t) \in 1 .. Len(w)
                             /\ w[i + Len(t)].dir = 2 /\ w[i + Len(t)].set = b[i]
  BY <1>2, <1>3, SMTT(60)
<1>9. \A i \in 1 .. Len(w) : i \in 1 .. Len(t) \/ \E j \in 1 .. Len(u) : i = j + Len(t)
  <2>. TAKE i \in 1 .. Len(w)
  <2>. SUFFICES ASSUME i \notin 1 .. Len(t) PROVE \E j \in 1 .. Len(u) : i = j + Len(t)
    OBVIOUS
  <2>1. i - Len(t) \in 1 .. Len(u) /\ i = (i - Len(t)) + Len(t)
    BY <1>2, <1>3, <1>6
  <2>. QED  BY <2>1
<1>. HIDE DEF w
<1>10. ASSUME NEW i \in 1 .. Len(w), \A j \in 1 .. i - 1 : w[j].dir # w[i].dir
       PROVE  dirs[w[i].dir] # <<>> /\ w[i].set = dirs[w[i].dir][1]
  <2>1. CASE i \in 1 .. Len(t)
    <3>1. i = 1
      <4>. SUFFICES ASSUME i # 1 PROVE FALSE
        OBVIOUS
      <4>1. 1 \in 1 .. i - 1 /\ 1 \in 1 .. Len(t)
        BY <2>1
      <4>. QED  BY <1>7, <1>10, <2>1, <4>1
    <3>. QED  BY <1>1, <1>2, <1>7, <2>1, <3>1 DEF a
  <2>2. CASE i \notin 1 .. Len(t)
    <3>1. PICK j \in 1 .. Len(u) : i = j + Len(t)
      BY <1>9, <2>2
    <3>2. j = 1
      <4>. SUFFICES ASSUME j # 1 PROVE FALSE
        OBVIOUS
      <4>1. 1 \in 1 .. Len(u) /\ 1 + Len(t) \in 1 .. i - 1
        BY <1>2, <1>3, <3>1
      <4>. QED  BY <1>8, <1>10, <3>1, <4>1
    <3>. QED  BY <1>1, <1>3, <1>8, <3>1, <3>2, SMTT(60) DEF b
  <2>. QED  BY <2>1, <2>2
<1>11. ASSUME NEW d \in DOMAIN dirs, dirs[d] # <<>>
       PROVE  \E i \in 1 .. Len(w) : w[i].dir = d /\ w[i].set = dirs[d][1]
  <2>1. CASE d = 1
    <3>1. 1 \in 1 .. Len(t)
      BY <1>1, <1>2, <1>11, <2>1 DEF a
    <3>. QED  BY <1>7, <2>1, <3>1 DEF a
  <2>2. CASE d = 2
    <3>1. 1 \in 1 .. Len(u)
      BY <1>1, <1>3, <1>11, <2>2 DEF b
    <3>. QED  BY <1>8, <2>2, <3>1 DEF b
  <2>. QED  BY <1>1, <2>1, <2>2
<1>12. InTurn(dirs, w)
  BY <1>6, <1>10, <1>11 DEF InTurn
<1>. QED  BY <1>5, <1>12

LEMMA TodoInTurn ==
    ASSUME IsInput(input)
    PROVE  InTurn(input.keyDirs, Todo)
<1>1. input.keyDirs \in Seq(Seq(KeySet)) /\ Len(input.keyDirs) \in {1, 2}
  BY DEF IsInput
<1>2. Todo = FlattenSeq(Jobs(input.keyDirs))
  BY DEF Todo, Jobs
<1>. QED  BY <1>1, <1>2, OneDirectory, TwoDirectories

----------------------------------------------------------------------------
(* The certificates of a key set.                                          *)

LEMMA MaxIsIn ==
    ASSUME NEW m \in Nat, NEW S \in SUBSET (1 .. m), S # {}
    PROVE  Max(S) \in S
<1>. DEFINE T == {k \in Nat : m - k \in S}
            R == {ss \in Nat \X Nat : ss[1] < ss[2]}
<1>1. IsWellFoundedOn(R, Nat)
  BY NatLessThanWellFounded DEF OpToRel
<1>2. T \subseteq Nat /\ T # {}
  <2>1. PICK x : x \in S
    OBVIOUS
  <2>2. m - x \in Nat /\ m - (m - x) = x
    BY <2>1
  <2>. QED  BY <2>1, <2>2
<1>. HIDE DEF R, T
<1>3. PICK k \in T : \A j \in T : ~(<<j, k>> \in R)
  BY <1>1, <1>2, WFMin
<1>. USE DEF T
<1>4. \A j \in T : ~(j < k)
  BY <1>2, <1>3 DEF R
<1>5. m - k \in S /\ \A y \in S : m - k >= y
  <2>1. m - k \in S
    BY <1>3
  <2>2. ASSUME NEW y \in S PROVE m - k >= y
    <3>1. m - y \in Nat /\ m - (m - y) = y
      OBVIOUS
    <3>2. m - y \in T
      BY <3>1
    <3>3. ~(m - y < k)
      BY <1>4, <3>2
    <3>. QED  BY <3>1, <3>3, <1>3
  <2>. QED  BY <2>1, <2>2
<1>. QED  BY <1>5 DEF Max

Decoded(s) == \A i \in Prefixed(s) : s.files[i].certs # <<>>

LEMMA FilesOfSet ==
    ASSUME NEW s \in KeySet
    PROVE  /\ s.name \in STRING \ {NoLabel} /\ s.key \in Keys \union {NoKey}
           /\ s.files \in Seq(CrtFile) /\ DOMAIN s.files = 1 .. Len(s.files)
           /\ \A i \in DOMAIN s.files :
                s.files[i].prefixed \in BOOLEAN /\ s.files[i].certs \in Seq(Certs)
           /\ ToSet(s.files) = {s.files[i] : i \in DOMAIN s.files}
<1>1. s.files \in Seq(CrtFile) /\ s.name \in STRING \ {NoLabel} /\ s.key \in Keys \union {NoKey}
  BY DEF KeySet
<1>2. DOMAIN s.files = 1 .. Len(s.files) /\ \A i \in DOMAIN s.files : s.files[i] \in CrtFile
  BY <1>1
<1>3. \A f \in CrtFile : f.prefixed \in BOOLEAN /\ f.certs \in Seq(Certs)
  BY DEF CrtFile
<1>. QED  BY <1>1, <1>2, <1>3 DEF ToSet

LEMMA HeadAndTail ==
    ASSUME NEW c \in Seq(Certs)
    PROVE  /\ ToSet(c) \subseteq Certs
           /\ c # <<>> => /\ Head(c) \in Certs /\ ToSet(Tail(c)) \subseteq Certs
                          /\ ToSet(c) \subseteq {Head(c)} \union ToSet(Tail(c))
<1>1. ToSet(c) \subseteq Certs
  BY DEF ToSet
<1>2. ASSUME c # <<>>
      PROVE  /\ Head(c) \in Certs /\ ToSet(Tail(c)) \subseteq Certs
             /\ ToSet(c) \subseteq {Head(c)} \union ToSet(Tail(c))
  <2>1. Head(c) = c[1] /\ Head(c) \in Certs /\ Tail(c) \in Seq(Certs)
    BY <1>2
  <2>2. ToSet(Tail(c)) \subseteq Certs
    BY <2>1 DEF ToSet
  <2>3. ASSUME NEW i \in DOMAIN c, i # 1 PROVE c[i] \in ToSet(Tail(c))
    <3>1. i - 1 \in DOMAIN Tail(c) /\ Tail(c)[i - 1] = c[i]
      BY <1>2, <2>3
    <3>. QED  BY <3>1 DEF ToSet
  <2>. QED  BY <2>1, <2>2, <2>3 DEF ToSet
<1>. QED  BY <1>1, <1>2

----------------------------------------------------------------------------
(* The key databases.                                                      *)

Label == STRING \union {NoLabel, TruststoreName, DefaultKeystore}
Personal == [label : STRING \ {NoLabel}, key : Keys, cert : Certs]
P12File == [key : Keys \union {NoKey, SelfSigned}, certs : SUBSET Certs]

(* The types that TypeOK leaves open.                                      *)
StoresOK ==
    /\ cms \in [exists : BOOLEAN, personal : SUBSET Personal, others : SUBSET Certs]
    /\ p12 \in [DOMAIN p12 -> P12File]
    /\ lookup \in [DOMAIN lookup -> STRING \ {NoLabel}]
    /\ labels \in [DOMAIN input.keyDirs -> Label]
    /\ mqsc \in [keyRing : BOOLEAN, label : Label, fips : BOOLEAN, listed : BOOLEAN]
    /\ web \in [keystore : Label, truststoreRef : Label, password : BOOLEAN,
                fips : BOOLEAN]

InSet == at \in {"certs", "store"}
InSets == at \in {"key", "certs", "store"}
AfterSets == at \in {"trust", "truststore", "cms", "configure", "web keystore", "web",
                     "native HA", "done"}
Live == at # "failed"

(* Where the run is, and what it has done on the way: all the key sets are *)
(* behind it when it comes to the trust directory, unless there is nothing *)
(* to load.                                                                *)
OnTheWay ==
    /\ at = "generate" => n = 0 /\ p12 = <<>>
    /\ InSets => HaveKeysAndCerts
    /\ InSets \/ AfterSets => (cms.exists <=> HaveKeysAndCerts)
    /\ AfterSets => n = Len(Todo) \/ ~HaveKeysAndCerts
    /\ ~HaveKeysAndCerts => n = 0
    /\ at \in {"configure", "web keystore", "web"} => input.truststore
    /\ at = "native HA" => ~input.truststore
    /\ at \in {"web keystore", "web"} => input.env.web

(* An entry with that label is the key's: Names, of any entries.           *)
NamesIn(entries, label, key) == \E e \in entries : e.label = label /\ e.key = key

(* The key set in progress: it is allowed, and its key is known under its  *)
(* own name or stored under an earlier one.                                *)
SetInProgress ==
    InSet =>
        /\ NameAllowed /\ Set.key \in Keys
        /\ Set.key \in DOMAIN lookup
        /\ IF previous = NoLabel THEN lookup[Set.key] = Set.name
           ELSE NamesIn(cms.personal, previous, Set.key)

ReadyToStore ==
    at = "store" =>
        /\ PublicCertificate(Set) \in Certs
        /\ \A i \in Prefixed(Set) : Set.files[i].certs # <<>>

(* A key that has been looked up is in the keystore, or about to be.       *)
LookupNames ==
    Live => \A k \in DOMAIN lookup :
                \/ NamesIn(cms.personal, lookup[k], k)
                \/ InSet /\ previous = NoLabel /\ k = Set.key

(* What the CMS keystore calls a key is the file with that key.            *)
FilesMatch ==
    Live => \A e \in cms.personal : e.label \in DOMAIN p12 /\ p12[e.label].key = e.key

(* A directory has a label as soon as one of its key sets is processed.    *)
Begun(d) == \E i \in 1 .. n : Todo[i].dir = d

LabelsMatch ==
    Live =>
        /\ n = 0 => cms.personal = {}
        /\ \A d \in DOMAIN input.keyDirs :
             /\ Begun(d) => /\ labels[d] # NoLabel /\ FirstKey(d) \in Keys
                            /\ NamesIn(cms.personal, labels[d], FirstKey(d))
             /\ ~Begun(d) => labels[d] = NoLabel

(* What is known is held: in the keystore, or overridden in a key set.     *)
Held ==
    cms.others \union {e.cert : e \in cms.personal}
      \union UNION {Overridden(Todo[i].set) : i \in DOMAIN Todo}

KnownIsHeld ==
    /\ at \in {"generate", "key", "certs", "trust"} => known \subseteq Held
    /\ at = "store" => known \subseteq Held \union AllCertificates(Set)
    /\ at \in {"truststore", "cms"} => input.trust \subseteq Held \union cmsTrusted
    /\ at \in {"configure", "web keystore", "web", "native HA", "done"} =>
         input.trust \subseteq Held

(* What a truststore must hold is collected for it, and then in it.        *)
OtherCertificates(s) ==
    UNION {ToSet(f.certs) : f \in {g \in ToSet(s.files) : ~g.prefixed}}

TrustIsCollected ==
    input.truststore =>
        /\ InSets \/ at \in {"generate", "trust"} =>
             \A i \in 1 .. n : OtherCertificates(Todo[i].set) \subseteq p12Trusted
        /\ at = "store" => OtherCertificates(Set) \subseteq p12Trusted
        /\ AfterSets /\ at # "trust" => Authorities \subseteq p12Trusted
        /\ AfterSets /\ at \notin {"trust", "truststore"} =>
             p12Trusted \subseteq p12[TruststoreName].certs

TruststoreIsThere ==
    input.truststore =>
        /\ p12 = <<>> \/ TruststoreName \in DOMAIN p12
        /\ InSets \/ AfterSets => TruststoreName \in DOMAIN p12

(* The configurations say what the label, the environment and the stores   *)
(* say.                                                                    *)
MQSCFits ==
    at \in {"web keystore", "web", "done"} /\ input.truststore =>
        /\ mqsc.label = labels[1]
        /\ mqsc.keyRing <=> FirstKey(1) # NoKey /\ mqsc.listed
        /\ mqsc.keyRing => (mqsc.fips <=> IsFIPSEnabled)

WebKeystore ==
    CASE labels[1] # NoLabel -> labels[1]
      [] labels[1] = NoLabel /\ input.env.hostname -> DefaultKeystore
      [] OTHER -> NoLabel

WebFits ==
    /\ error # "web keystore"
    /\ at \in {"generate", "key", "certs", "store", "trust", "truststore", "cms",
               "configure", "web keystore"} => web = DefaultWeb
    /\ input.truststore /\ input.env.web /\ at \in {"web", "done"} =>
         /\ web.keystore = WebKeystore
         /\ web.fips <=> IsFIPSEnabled
         /\ labels[1] = NoLabel /\ input.env.hostname =>
              DefaultKeystore \in DOMAIN p12 /\ p12[DefaultKeystore].key = SelfSigned
         /\ web.truststoreRef =
              IF at = "web" \/ WebKeystore = NoLabel THEN NoLabel ELSE WebTruststoreRef

KeysInv ==
    /\ TypeOK /\ StoresOK /\ OnTheWay
    /\ SetInProgress /\ ReadyToStore /\ LookupNames /\ FilesMatch /\ LabelsMatch
    /\ KnownIsHeld /\ TrustIsCollected
    /\ TruststoreIsThere /\ NoKeyInTruststore
    /\ MQSCFits /\ WebFits /\ NativeHAIdentity

----------------------------------------------------------------------------
(* What a key set's certificates become.                                   *)

LEMMA CertificatesTyped ==
    ASSUME NEW s \in KeySet, Decoded(s)
    PROVE  /\ AllCertificates(s) \subseteq Certs
           /\ CACertificates(s) \subseteq Certs
           /\ OtherCertificates(s) \subseteq CACertificates(s)
<1>. DEFINE CA(f) == IF f.prefixed THEN Tail(f.certs) ELSE f.certs
<1>1. \A f \in ToSet(s.files) : ToSet(f.certs) \subseteq Certs
  <2>. TAKE f \in ToSet(s.files)
  <2>1. PICK i \in DOMAIN s.files : f = s.files[i]
    BY FilesOfSet, SMTT(60)
  <2>2. f.certs \in Seq(Certs)
    BY <2>1, FilesOfSet
  <2>. QED  BY <2>2, HeadAndTail
<1>2. \A f \in ToSet(s.files) : ToSet(CA(f)) \subseteq Certs
  <2>. TAKE f \in ToSet(s.files)
  <2>1. PICK i \in DOMAIN s.files : f = s.files[i]
    BY FilesOfSet
  <2>2. f.certs \in Seq(Certs) /\ f.prefixed \in BOOLEAN
    BY <2>1, FilesOfSet
  <2>3. f.prefixed => f.certs # <<>>
    BY <2>1 DEF Decoded, Prefixed
  <2>. QED  BY <2>2, <2>3, HeadAndTail
<1>3. \A f \in ToSet(s.files) : ~f.prefixed => CA(f) = f.certs
  OBVIOUS
<1>4. CACertificates(s) = UNION {ToSet(CA(f)) : f \in ToSet(s.files)}
  BY DEF CACertificates
<1>. HIDE DEF CA
<1>. QED  BY <1>1, <1>2, <1>3, <1>4 DEF AllCertificates, OtherCertificates

LEMMA PublicTyped ==
    ASSUME NEW s \in KeySet, Decoded(s), PublicCertificate(s) # NoCert
    PROVE  PublicCertificate(s) \in Certs
<1>1. Prefixed(s) # {} /\ Prefixed(s) \in SUBSET (1 .. Len(s.files))
  BY FilesOfSet DEF PublicCertificate, Prefixed
<1>2. Len(s.files) \in Nat
  BY FilesOfSet
<1>. DEFINE i == Max(Prefixed(s))
<1>3. i \in Prefixed(s)
  BY <1>1, <1>2, MaxIsIn, Zenon
<1>4. PublicCertificate(s) = Head(s.files[i].certs)
  BY <1>1 DEF PublicCertificate
<1>. HIDE DEF i
<1>5. s.files[i].certs # <<>> /\ s.files[i].certs \in Seq(Certs)
  BY <1>3, FilesOfSet DEF Decoded, Prefixed
<1>. QED  BY <1>4, <1>5, HeadAndTail

(* Every certificate of a key set goes with the key, or is overridden.     *)
LEMMA CertificatesGo ==
    ASSUME NEW s \in KeySet, Decoded(s)
    PROVE  AllCertificates(s)
             \subseteq CACertificates(s) \union {PublicCertificate(s)} \union Overridden(s)
<1>. DEFINE CA(f) == IF f.prefixed THEN Tail(f.certs) ELSE f.certs
<1>. SUFFICES ASSUME NEW f \in ToSet(s.files), NEW c \in ToSet(f.certs)
              PROVE  c \in CACertificates(s) \union {PublicCertificate(s)} \union Overridden(s)
  BY DEF AllCertificates
<1>1. PICK i \in DOMAIN s.files : f = s.files[i]
  BY FilesOfSet, ZenonT(60)
<1>2. f.certs \in Seq(Certs) /\ f.prefixed \in BOOLEAN
  BY <1>1, FilesOfSet
<1>3. \A x \in ToSet(CA(f)) : x \in CACertificates(s)
  BY DEF CACertificates
<1>4. CASE ~f.prefixed
  BY <1>3, <1>4
<1>5. CASE f.prefixed
  <2>1. i \in Prefixed(s) /\ f.certs # <<>>
    BY <1>1, <1>5 DEF Prefixed, Decoded
  <2>2. c = Head(f.certs) \/ c \in ToSet(Tail(f.certs))
    BY <1>2, <2>1, HeadAndTail
  <2>3. CASE c \in ToSet(Tail(f.certs))
    BY <1>3, <1>5, <2>3
  <2>4. CASE c = Head(f.certs)
    <3>1. CASE i = Max(Prefixed(s))
      <4>1. PublicCertificate(s) = Head(s.files[i].certs)
        BY <2>1, <3>1 DEF PublicCertificate
      <4>. QED  BY <1>1, <2>4, <4>1
    <3>2. CASE i # Max(Prefixed(s))
      BY <1>1, <2>1, <2>4, <3>2 DEF Overridden
    <3>. QED  BY <3>1, <3>2
  <2>. QED  BY <2>2, <2>3, <2>4
<1>. QED  BY <1>2, <1>4, <1>5

(* The authorities of the key sets, one by one.                            *)
LEMMA AuthoritiesAre ==
    Authorities = input.trust
                    \union UNION {OtherCertificates(Todo[i].set) : i \in DOMAIN Todo}
BY DEF Authorities, OtherCertificates

LEMMA NoFilesNoAuthority ==
    ASSUME NEW s, s.files = <<>>
    PROVE  OtherCertificates(s) = {}
<1>1. ToSet(s.files) = {}
  BY DEF ToSet
<1>. QED  BY <1>1 DEF OtherCertificates

(* The key set in progress, and the ones before it.                        *)
LEMMA TodoIs ==
    ASSUME TypeOK
    PROVE  /\ Len(Todo) \in Nat /\ DOMAIN Todo = 1 .. Len(Todo)
           /\ \A i \in DOMAIN Todo :
                Todo[i].dir \in DOMAIN input.keyDirs /\ Todo[i].set \in KeySet
           /\ InSets => /\ n + 1 \in DOMAIN Todo /\ Set \in KeySet
                        /\ Dir \in DOMAIN input.keyDirs
           /\ \A i \in 1 .. n : i \in DOMAIN Todo
<1>1. InTurn(input.keyDirs, Todo)
  BY TodoInTurn DEF TypeOK
<1>. DEFINE J == [dir : DOMAIN input.keyDirs, set : KeySet]
<1>2. Todo \in Seq(J)
  BY <1>1 DEF InTurn
<1>8. \A x \in J : x.dir \in DOMAIN input.keyDirs /\ x.set \in KeySet
  OBVIOUS
<1>. HIDE DEF Todo, J
<1>3. Len(Todo) \in Nat /\ DOMAIN Todo = 1 .. Len(Todo)
  BY <1>2
<1>4. \A i \in DOMAIN Todo : Todo[i].dir \in DOMAIN input.keyDirs /\ Todo[i].set \in KeySet
  <2>1. \A i \in DOMAIN Todo : Todo[i] \in J
    BY <1>2
  <2>. QED  BY <1>8, <2>1
<1>5. n \in 0 .. Len(Todo) /\ (InSets => n < Len(Todo))
  BY DEF TypeOK, InSets
<1>6. \A i \in 1 .. n : i \in DOMAIN Todo
  BY <1>3, <1>5
<1>7. InSets => n + 1 \in DOMAIN Todo
  BY <1>3, <1>5
<1>. QED  BY <1>3, <1>4, <1>6, <1>7 DEF Set, Dir

----------------------------------------------------------------------------
(* The steps.                                                              *)

(* The input stays, and with it whatever is computed from it alone.        *)
LEMMA InputStays ==
    ASSUME [Next]_vars
    PROVE  /\ UNCHANGED <<input, Todo, HaveKeysAndCerts, Authorities, IsFIPSEnabled>>
           /\ \A d : UNCHANGED FirstKey(d)
           /\ n' = n => UNCHANGED <<Set, Dir>>
<1>1. UNCHANGED input
  BY DEF Next, vars, GenerateAllKeystores, CommandFails, ProcessPrivateKey,
         ProcessCertificates, StoreKeySet, ReadTrust, AddCertificatesToTruststore,
         AddCertificatesToCMSKeystore, ConfigureTLS, ConfigureWebKeystore,
         ConfigureWebTLS, ConfigureNativeHA
<1>2. UNCHANGED Todo
  BY <1>1 DEF Todo
<1>3. UNCHANGED <<HaveKeysAndCerts, Authorities, IsFIPSEnabled>>
  BY <1>1, <1>2 DEF HaveKeysAndCerts, Authorities, IsFIPSEnabled
<1>4. \A d : UNCHANGED FirstKey(d)
  BY <1>1 DEF FirstKey
<1>. QED  BY <1>1, <1>2, <1>3, <1>4, SMTT(60) DEF Set, Dir

(* A key set is done: the next one, or the trust directory.                *)
LEMMA NextSetGoes ==
    ASSUME TypeOK, InSets, NextSet
    PROVE  /\ n' = n + 1 /\ n' \in 0 .. Len(Todo)
           /\ at' \in {"key", "trust"}
           /\ at' = "key" => n' < Len(Todo)
           /\ at' = "trust" => n' = Len(Todo)
<1>1. n \in 0 .. Len(Todo) /\ n < Len(Todo) /\ Len(Todo) \in Nat
  BY TodoIs DEF TypeOK, InSets
<1>2. n' = n + 1 /\ at' = IF n' < Len(Todo) THEN "key" ELSE "trust"
  BY DEF NextSet
<1>. QED  BY <1>1, <1>2

(* A private key is looked up, or remembered under the key set's name.     *)
KeyFound ==
    /\ at' = "certs" /\ UNCHANGED error
    /\ NameAllowed /\ Set.key \in Keys
    /\ DOMAIN lookup' = DOMAIN lookup \union {Set.key}
    /\ lookup' \in [DOMAIN lookup' -> STRING \ {NoLabel}]
    /\ \A k \in DOMAIN lookup : lookup'[k] = lookup[k]
    /\ IF Set.key \in DOMAIN lookup THEN previous' = lookup[Set.key]
       ELSE previous' = NoLabel /\ lookup'[Set.key] = Set.name

LEMMA KeyEffect ==
    ASSUME TypeOK, StoresOK, ProcessPrivateKey
    PROVE  /\ at = "key"
           /\ UNCHANGED <<input, n, cms, p12, known, cmsTrusted, p12Trusted, labels,
                          mqsc, web, ini>>
           /\ \/ KeyFound
              \/ /\ at' = "failed" /\ error' \in {"name", "no key"}
                 /\ UNCHANGED <<previous, lookup>>
<1>1. /\ at = "key"
      /\ UNCHANGED <<input, n, cms, p12, known, cmsTrusted, p12Trusted, labels,
                     mqsc, web, ini>>
  BY DEF ProcessPrivateKey, storeVars, configVars
<1>2. Set \in KeySet
  BY <1>1, TodoIs DEF InSets
<1>3. Set.name \in STRING \ {NoLabel} /\ Set.key \in Keys \union {NoKey}
  BY <1>2, FilesOfSet
<1>4. lookup \in [DOMAIN lookup -> STRING \ {NoLabel}]
  BY DEF StoresOK
<1>5. CASE /\ NameAllowed /\ Set.key # NoKey
           /\ at' = "certs"
           /\ IF Set.key \in DOMAIN lookup
              THEN previous' = lookup[Set.key] /\ UNCHANGED lookup
              ELSE /\ previous' = NoLabel
                   /\ lookup' = [k \in DOMAIN lookup \union {Set.key} |->
                                   IF k = Set.key THEN Set.name ELSE lookup[k]]
           /\ UNCHANGED error
  <2>1. Set.key \in Keys
    BY <1>3, <1>5
  <2>2. CASE Set.key \in DOMAIN lookup
    <3>1. previous' = lookup[Set.key] /\ lookup' = lookup
      BY <1>5, <2>2
    <3>2. DOMAIN lookup \union {Set.key} = DOMAIN lookup
      BY <2>2
    <3>. QED  BY <1>1, <1>4, <1>5, <2>1, <2>2, <3>1, <3>2, Zenon DEF KeyFound
  <2>3. CASE Set.key \notin DOMAIN lookup
    <3>. DEFINE D == DOMAIN lookup \union {Set.key}
    <3>1. previous' = NoLabel /\ lookup' = [k \in D |-> IF k = Set.key THEN Set.name ELSE lookup[k]]
      BY <1>5, <2>3
    <3>2. /\ DOMAIN lookup' = D /\ lookup'[Set.key] = Set.name
          /\ \A k \in DOMAIN lookup : lookup'[k] = lookup[k]
      BY <2>3, <3>1
    <3>3. lookup' \in [D -> STRING \ {NoLabel}]
      BY <1>3, <1>4, <3>1
    <3>. QED  BY <1>1, <1>5, <2>1, <2>3, <3>1, <3>2, <3>3, Zenon DEF KeyFound
  <2>. QED  BY <2>2, <2>3
<1>6. CASE ~NameAllowed /\ Fail("name") /\ UNCHANGED <<previous, lookup>>
  BY <1>1, <1>6 DEF Fail
<1>7. CASE NameAllowed /\ Set.key = NoKey /\ Fail("no key") /\ UNCHANGED <<previous, lookup>>
  BY <1>1, <1>7 DEF Fail
<1>. QED  BY <1>5, <1>6, <1>7, Zenon DEF ProcessPrivateKey

(* The certificates are read: the key set is skipped, or goes on.          *)
Collected ==
    /\ known' = known \union AllCertificates(Set)
    /\ p12Trusted' = IF input.truststore THEN p12Trusted \union CACertificates(Set)
                     ELSE p12Trusted

Skipped == Collected /\ Duplicate /\ SetLabel(previous) /\ NextSet /\ UNCHANGED error

ToBeStored ==
    /\ Collected
    /\ at' = "store" /\ PublicCertificate(Set) \in Certs
    /\ UNCHANGED <<n, labels, error>>

LEMMA CertEffect ==
    ASSUME TypeOK, StoresOK, ProcessCertificates
    PROVE  /\ at = "certs"
           /\ UNCHANGED <<input, cms, p12, lookup, cmsTrusted, previous, mqsc, web, ini>>
           /\ \/ Decoded(Set) /\ Skipped
              \/ Decoded(Set) /\ ToBeStored
              \/ /\ at' = "failed" /\ error' \in {"decode", "no certificate", "subject"}
                 /\ UNCHANGED <<n, labels>>
                 /\ \/ Decoded(Set) /\ Collected
                    \/ UNCHANGED <<known, p12Trusted>>
<1>1. /\ at = "certs"
      /\ UNCHANGED <<input, cms, p12, lookup, cmsTrusted, previous, mqsc, web, ini>>
  BY DEF ProcessCertificates, storeVars, configVars
<1>2. Set \in KeySet
  BY <1>1, TodoIs DEF InSets
<1>3. CASE Fail("decode") /\ UNCHANGED <<n, known, p12Trusted, labels>>
  BY <1>1, <1>3 DEF Fail
<1>4. CASE /\ Decoded(Set) /\ Collected
           /\ Duplicate /\ SetLabel(previous) /\ NextSet /\ UNCHANGED error
  BY <1>1, <1>4, Zenon DEF Skipped
<1>5. CASE /\ Decoded(Set) /\ Collected
           /\ IF PublicCertificate(Set) = NoCert THEN Fail("no certificate")
              ELSE IF Validate /\ PublicCertificate(Set) \in CACertificates(Set)
              THEN Fail("subject")
              ELSE at' = "store" /\ UNCHANGED error
           /\ UNCHANGED <<n, labels>>
  <2>1. CASE at' = "store" /\ UNCHANGED error /\ PublicCertificate(Set) # NoCert
    <3>1. PublicCertificate(Set) \in Certs
      BY <1>2, <1>5, <2>1, PublicTyped
    <3>2. ToBeStored
      BY <1>5, <2>1, <3>1 DEF ToBeStored
    <3>. QED  BY <1>1, <1>5, <3>2, Zenon
  <2>2. CASE Fail("no certificate") \/ Fail("subject")
    BY <1>1, <1>5, <2>2, Zenon DEF Fail
  <2>. QED  BY <1>5, <2>1, <2>2, Zenon
<1>. QED  BY <1>3, <1>4, <1>5, Zenon DEF ProcessCertificates, Decoded, Collected

(* The key set is stored under its name, which no other key has.           *)
Filed ==
    /\ DOMAIN p12' = DOMAIN p12 \union {Set.name}
    /\ p12' \in [DOMAIN p12' -> P12File]
    /\ p12'[Set.name].key = Set.key
    /\ \A f \in DOMAIN p12 : f # Set.name => p12'[f] = p12[f]

Entry == [label |-> Set.name, key |-> Set.key, cert |-> PublicCertificate(Set)]

Stored ==
    /\ cms' = [cms EXCEPT !.personal = @ \union {Entry},
                          !.others = @ \union CACertificates(Set)]
    /\ \A e \in cms.personal : e.label # Set.name
    /\ SetLabel(Set.name) /\ NextSet /\ UNCHANGED error

LEMMA StoreEffect ==
    ASSUME TypeOK, StoresOK, SetInProgress, ReadyToStore, StoreKeySet
    PROVE  /\ at = "store"
           /\ UNCHANGED <<input, lookup, known, cmsTrusted, p12Trusted, previous,
                          mqsc, web, ini>>
           /\ Set \in KeySet /\ Set.key \in Keys /\ CACertificates(Set) \subseteq Certs
           /\ Filed
           /\ \/ Stored
              \/ /\ cms' = [cms EXCEPT !.others = @ \union CACertificates(Set)]
                 /\ at' = "failed" /\ error' = "relabel" /\ UNCHANGED <<n, labels>>
<1>1. /\ at = "store"
      /\ UNCHANGED <<input, lookup, known, cmsTrusted, p12Trusted, previous,
                     mqsc, web, ini>>
  BY DEF StoreKeySet, knownVars, configVars
<1>2. Set \in KeySet
  BY <1>1, TodoIs DEF InSets
<1>3. /\ Set.name \in STRING \ {NoLabel} /\ Set.key \in Keys
      /\ PublicCertificate(Set) \in Certs /\ CACertificates(Set) \subseteq Certs
  <2>1. Decoded(Set) /\ PublicCertificate(Set) \in Certs
    BY <1>1 DEF ReadyToStore, Decoded
  <2>2. Set.key \in Keys
    BY <1>1 DEF SetInProgress, InSet
  <2>. QED  BY <1>2, <2>1, <2>2, FilesOfSet, CertificatesTyped
<1>4. Filed
  <2>. DEFINE D == DOMAIN p12 \union {Set.name}
              file == [key |-> Set.key,
                       certs |-> {PublicCertificate(Set)} \union CACertificates(Set)]
  <2>1. p12' = [f \in D |-> IF f = Set.name THEN file ELSE p12[f]]
    BY DEF StoreKeySet
  <2>2. file \in P12File /\ file.key = Set.key
    BY <1>3 DEF P12File
  <2>3. p12 \in [DOMAIN p12 -> P12File]
    BY DEF StoresOK
  <2>. HIDE DEF file
  <2>4. p12' \in [D -> P12File] /\ p12'[Set.name] = file
    BY <2>1, <2>2, <2>3
  <2>5. \A f \in DOMAIN p12 : f # Set.name => p12'[f] = p12[f]
    BY <2>1
  <2>. QED  BY <2>2, <2>4, <2>5 DEF Filed
<1>5. CASE Relabelled
  <2>1. Imported # cms.personal /\ \A e \in cms.personal : e.label # Set.name
    BY <1>5 DEF Relabelled
  <2>2. Imported = cms.personal \union {Entry}
    BY <2>1 DEF Imported, Entry
  <2>3. cms' = [cms EXCEPT !.personal = Imported, !.others = @ \union CACertificates(Set)]
    BY <1>5 DEF StoreKeySet
  <2>4. cms' = [cms EXCEPT !.personal = @ \union {Entry},
                           !.others = @ \union CACertificates(Set)]
    BY <2>2, <2>3
  <2>5. SetLabel(Set.name) /\ NextSet /\ UNCHANGED error
    BY <1>5 DEF StoreKeySet
  <2>6. Stored
    BY <2>1, <2>4, <2>5 DEF Stored
  <2>. QED  BY <1>1, <1>2, <1>3, <1>4, <2>6, Zenon
<1>6. CASE ~Relabelled
  <2>1. /\ cms' = [cms EXCEPT !.others = @ \union CACertificates(Set)]
        /\ at' = "failed" /\ error' = "relabel" /\ UNCHANGED <<n, labels>>
    BY <1>6 DEF StoreKeySet, Fail
  <2>. QED  BY <1>1, <1>2, <1>3, <1>4, <2>1, Zenon
<1>. QED  BY <1>5, <1>6

(* A directory's label is set once.                                        *)
LEMMA LabelEffect ==
    ASSUME TypeOK, StoresOK, InSets, NEW label \in Label, SetLabel(label)
    PROVE  /\ labels' \in [DOMAIN input.keyDirs -> Label]
           /\ labels'[Dir] = IF labels[Dir] = NoLabel THEN label ELSE labels[Dir]
           /\ \A d \in DOMAIN input.keyDirs : d # Dir => labels'[d] = labels[d]
<1>1. labels \in [DOMAIN input.keyDirs -> Label] /\ Dir \in DOMAIN input.keyDirs
  BY TodoIs DEF StoresOK
<1>. QED  BY <1>1 DEF SetLabel

(* The types, apart.                                                       *)
CMS == [exists : BOOLEAN, personal : SUBSET Personal, others : SUBSET Certs]
MQSC == [keyRing : BOOLEAN, label : Label, fips : BOOLEAN, listed : BOOLEAN]
Web == [keystore : Label, truststoreRef : Label, password : BOOLEAN, fips : BOOLEAN]
Steps == {"generate", "key", "certs", "store", "trust", "truststore", "cms", "configure",
          "web keystore", "web", "native HA", "done", "failed"}

Placed == at \in Steps /\ n \in 0 .. Len(Todo) /\ (InSets => n < Len(Todo))
Known == known \subseteq Certs /\ cmsTrusted \subseteq Certs /\ p12Trusted \subseteq Certs
Labelled == /\ lookup \in [DOMAIN lookup -> STRING \ {NoLabel}]
            /\ labels \in [DOMAIN input.keyDirs -> Label]
Typed ==
    /\ IsInput(input) /\ Placed /\ Known /\ Labelled
    /\ cms \in CMS /\ p12 \in [DOMAIN p12 -> P12File]
    /\ mqsc \in MQSC /\ web \in Web

LEMMA TypesAre == TypeOK /\ StoresOK <=> Typed
<1>1. ASSUME cms \in CMS
      PROVE  /\ cms.exists \in BOOLEAN /\ cms.others \subseteq Certs
             /\ cms.personal \subseteq Personal
  BY <1>1 DEF CMS
<1>2. \A e \in Personal : e.key \in Keys /\ e.cert \in Certs
  BY DEF Personal
<1>3. ASSUME mqsc \in MQSC PROVE mqsc.keyRing \in BOOLEAN /\ mqsc.fips \in BOOLEAN
                                    /\ mqsc.listed \in BOOLEAN
  BY <1>3 DEF MQSC
<1>4. ASSUME Typed PROVE TypeOK
  BY <1>1, <1>2, <1>3, <1>4, Zenon DEF Typed, TypeOK, Placed, Steps, Known, InSets
<1>5. ASSUME Typed PROVE StoresOK
  BY <1>5, Zenon DEF Typed, StoresOK, Labelled, CMS, MQSC, Web
<1>6. ASSUME TypeOK, StoresOK PROVE Typed
  BY <1>6, Zenon
     DEF Typed, TypeOK, StoresOK, Labelled, CMS, MQSC, Web, Placed, Steps, Known, InSets
<1>. QED  BY <1>4, <1>5, <1>6

LEMMA OneAtLeast ==
    ASSUME TypeOK
    PROVE  1 \in DOMAIN input.keyDirs
<1>1. input.keyDirs \in Seq(Seq(KeySet)) /\ Len(input.keyDirs) \in {1, 2}
  BY DEF TypeOK, IsInput
<1>. QED  BY <1>1

LEMMA NamesTyped ==
    ASSUME StoresOK, SetInProgress, InSet
    PROVE  previous \in Label
<1>1. previous = NoLabel \/ NamesIn(cms.personal, previous, Set.key)
  BY DEF SetInProgress
<1>2. cms.personal \subseteq Personal
  BY DEF StoresOK
<1>3. \A e \in Personal : e.label \in Label
  BY DEF Personal, Label
<1>4. NoLabel \in Label
  BY DEF Label
<1>. QED  BY <1>1, <1>2, <1>3, <1>4, Zenon DEF NamesIn

(* Every step keeps the place in its type, and the certificates.           *)
LEMMA PlacedStep ==
    ASSUME TypeOK, StoresOK, OnTheWay, SetInProgress, ReadyToStore, [Next]_vars
    PROVE  Placed'
<1>. USE DEF Steps, InSets
<1>a. at \in Steps /\ n \in 0 .. Len(Todo) /\ (InSets => n < Len(Todo)) /\ Todo' = Todo
  BY TypesAre, InputStays DEF Typed, Placed
<1>. USE DEF Placed
<1>1. CASE GenerateAllKeystores
  <2>1. at = "generate" /\ at' \in {"key", "trust"} /\ (at' = "key" => Len(Todo) > 0) /\ n' = n
    BY <1>1 DEF GenerateAllKeystores
  <2>2. n = 0
    BY <2>1 DEF OnTheWay
  <2>. QED  BY <1>a, <2>1, <2>2
<1>2. CASE CommandFails
  BY <1>2, <1>a DEF CommandFails, Fail
<1>3. CASE ProcessPrivateKey
  <2>1. at = "key" /\ n' = n /\ at' \in {"certs", "failed"}
    BY <1>3, KeyEffect DEF KeyFound
  <2>. QED  BY <1>a, <2>1
<1>4. CASE ProcessCertificates
  <2>1. at = "certs"
    BY <1>4, CertEffect
  <2>2. (n' = n /\ at' \in {"store", "failed"}) \/ NextSet
    BY <1>4, CertEffect DEF Skipped, ToBeStored
  <2>3. CASE NextSet
    BY <1>a, <2>1, <2>3, NextSetGoes
  <2>. QED  BY <1>a, <2>1, <2>2, <2>3
<1>5. CASE StoreKeySet
  <2>1. at = "store"
    BY <1>5, StoreEffect
  <2>2. (n' = n /\ at' = "failed") \/ NextSet
    BY <1>5, StoreEffect DEF Stored
  <2>3. CASE NextSet
    BY <1>a, <2>1, <2>3, NextSetGoes
  <2>. QED  BY <1>a, <2>1, <2>2, <2>3
<1>6. CASE ReadTrust
  BY <1>6, <1>a DEF ReadTrust, AfterTLS
<1>7. CASE AddCertificatesToTruststore
  BY <1>7, <1>a DEF AddCertificatesToTruststore, AfterTLS
<1>8. CASE AddCertificatesToCMSKeystore
  BY <1>8, <1>a DEF AddCertificatesToCMSKeystore, AfterTLS
<1>9. CASE ConfigureTLS
  BY <1>9, <1>a DEF ConfigureTLS, AfterTLS
<1>10. CASE ConfigureWebKeystore
  BY <1>10, <1>a DEF ConfigureWebKeystore, Fail
<1>11. CASE ConfigureWebTLS
  BY <1>11, <1>a DEF ConfigureWebTLS, AfterTLS
<1>12. CASE ConfigureNativeHA
  BY <1>12, <1>a DEF ConfigureNativeHA, AfterTLS
<1>13. CASE UNCHANGED vars
  BY <1>13, <1>a DEF vars
<1>. QED
  BY <1>1, <1>2, <1>3, <1>4, <1>5, <1>6, <1>7,
     <1>8, <1>9, <1>10, <1>11, <1>12, <1>13
  DEF Next

(* Every step keeps the stores and the configurations in their types.      *)
LEMMA StoresTyped ==
    ASSUME TypeOK, StoresOK, OnTheWay, SetInProgress, ReadyToStore, [Next]_vars
    PROVE  Known' /\ Labelled' /\ cms' \in CMS /\ p12' \in [DOMAIN p12' -> P12File]
           /\ mqsc' \in MQSC /\ web' \in Web
<1>a. /\ Known /\ Labelled /\ cms \in CMS /\ p12 \in [DOMAIN p12 -> P12File]
      /\ mqsc \in MQSC /\ web \in Web
  BY TypesAre DEF Typed
<1>b. 1 \in DOMAIN input.keyDirs
  BY OneAtLeast
<1>1. CASE GenerateAllKeystores
  <2>1. UNCHANGED <<input, lookup, labels, known, cmsTrusted, p12Trusted, mqsc, web>>
    BY <1>1 DEF GenerateAllKeystores, knownVars, configVars
  <2>2. cms' \in CMS
    <3>1. cms' = [cms EXCEPT !.exists = HaveKeysAndCerts]
      BY <1>1 DEF GenerateAllKeystores
    <3>2. HaveKeysAndCerts \in BOOLEAN
      BY DEF HaveKeysAndCerts
    <3>. QED  BY <1>a, <3>1, <3>2 DEF CMS
  <2>3. p12' \in [DOMAIN p12' -> P12File]
    <3>1. p12' = [f \in {TruststoreName} |-> EmptyStore] \/ p12' = <<>>
      BY <1>1 DEF GenerateAllKeystores
    <3>2. EmptyStore \in P12File
      BY DEF EmptyStore, P12File
    <3>3. CASE p12' = [f \in {TruststoreName} |-> EmptyStore]
      <4>1. DOMAIN p12' = {TruststoreName}
        BY <3>3
      <4>. QED  BY <3>2, <3>3, <4>1
    <3>4. CASE p12' = <<>>
      BY <3>4
    <3>. QED  BY <3>1, <3>3, <3>4
  <2>. QED  BY <1>a, <2>1, <2>2, <2>3, Zenon DEF Known, Labelled
<1>2. CASE CommandFails
  <2>1. UNCHANGED <<input, cms, p12, lookup, labels, known, cmsTrusted, p12Trusted, mqsc, web>>
    BY <1>2 DEF CommandFails, storeVars, knownVars, configVars
  <2>. QED  BY <1>a, <2>1, Zenon DEF Known, Labelled
<1>3. CASE ProcessPrivateKey
  <2>1. UNCHANGED <<input, cms, p12, labels, known, cmsTrusted, p12Trusted, mqsc, web>>
    BY <1>3, KeyEffect
  <2>2. lookup' \in [DOMAIN lookup' -> STRING \ {NoLabel}]
    <3>1. KeyFound \/ lookup' = lookup
      BY <1>3, KeyEffect
    <3>. QED  BY <1>a, <3>1, Zenon DEF KeyFound, Labelled
  <2>. QED  BY <1>a, <2>1, <2>2, Zenon DEF Known, Labelled
<1>4. CASE ProcessCertificates
  <2>1. at = "certs" /\ UNCHANGED <<input, cms, p12, lookup, cmsTrusted, mqsc, web>>
    BY <1>4, CertEffect
  <2>2. Set \in KeySet
    BY <2>1, TodoIs DEF InSets
  <2>3. Known'
    <3>1. CASE Decoded(Set) /\ Collected
      <4>1. AllCertificates(Set) \subseteq Certs /\ CACertificates(Set) \subseteq Certs
        BY <2>2, <3>1, CertificatesTyped
      <4>. QED  BY <1>a, <2>1, <3>1, <4>1 DEF Known, Collected
    <3>2. CASE UNCHANGED <<known, p12Trusted>>
      BY <1>a, <2>1, <3>2 DEF Known
    <3>. QED  BY <1>4, <3>1, <3>2, CertEffect, Zenon DEF Skipped, ToBeStored
  <2>4. labels' \in [DOMAIN input.keyDirs -> Label]
    <3>1. CASE SetLabel(previous)
      <4>1. previous \in Label
        BY <2>1, NamesTyped DEF InSet
      <4>. QED  BY <2>1, <3>1, <4>1, LabelEffect DEF InSets
    <3>2. CASE UNCHANGED labels
      BY <1>a, <3>2, Zenon DEF Labelled
    <3>. QED  BY <1>4, <3>1, <3>2, CertEffect, Zenon DEF Skipped, ToBeStored
  <2>. QED  BY <1>a, <2>1, <2>3, <2>4, Zenon DEF Labelled
<1>5. CASE StoreKeySet
  <2>1. /\ at = "store" /\ Set \in KeySet /\ Set.key \in Keys
        /\ CACertificates(Set) \subseteq Certs
        /\ UNCHANGED <<input, lookup, known, cmsTrusted, p12Trusted, mqsc, web>>
    BY <1>5, StoreEffect
  <2>2. Set.name \in STRING \ {NoLabel}
    BY <2>1, FilesOfSet
  <2>3. p12' \in [DOMAIN p12' -> P12File]
    BY <1>5, StoreEffect DEF Filed
  <2>4. cms' \in CMS
    <3>1. Entry \in Personal
      BY <2>1, <2>2 DEF Entry, Personal, ReadyToStore
    <3>2. CASE cms' = [cms EXCEPT !.personal = @ \union {Entry},
                                  !.others = @ \union CACertificates(Set)]
      BY <1>a, <2>1, <3>1, <3>2 DEF CMS
    <3>3. CASE cms' = [cms EXCEPT !.others = @ \union CACertificates(Set)]
      BY <1>a, <2>1, <3>3 DEF CMS
    <3>. QED  BY <1>5, <3>2, <3>3, StoreEffect DEF Stored
  <2>5. labels' \in [DOMAIN input.keyDirs -> Label]
    <3>1. CASE SetLabel(Set.name)
      <4>1. Set.name \in Label
        BY <2>2 DEF Label
      <4>. QED  BY <2>1, <3>1, <4>1, LabelEffect DEF InSets
    <3>2. CASE UNCHANGED labels
      BY <1>a, <3>2, Zenon DEF Labelled
    <3>. QED  BY <1>5, <3>1, <3>2, StoreEffect, Zenon DEF Stored
  <2>. QED  BY <1>a, <2>1, <2>3, <2>4, <2>5, Zenon DEF Known, Labelled
<1>6. CASE ReadTrust
  <2>1. UNCHANGED <<input, cms, p12, lookup, labels, mqsc, web>>
    BY <1>6 DEF ReadTrust, storeVars, configVars
  <2>2. input.trust \subseteq Certs
    BY DEF TypeOK, IsInput
  <2>3. Known'
    BY <1>6, <1>a, <2>2 DEF ReadTrust, Known
  <2>. QED  BY <1>a, <2>1, <2>3, Zenon DEF Labelled
<1>7. CASE AddCertificatesToTruststore
  <2>1. UNCHANGED <<input, cms, lookup, labels, known, cmsTrusted, p12Trusted, mqsc, web>>
    BY <1>7 DEF AddCertificatesToTruststore, knownVars, configVars
  <2>2. p12' \in [DOMAIN p12' -> P12File]
    <3>1. CASE p12' = [p12 EXCEPT ![TruststoreName].certs = @ \union p12Trusted]
      <4>1. p12Trusted \subseteq Certs
        BY <1>a DEF Known
      <4>2. p12' = [p12 EXCEPT ![TruststoreName] =
                      [p12[TruststoreName] EXCEPT !.certs = @ \union p12Trusted]]
        BY <3>1
      <4>3. \A f \in P12File : [f EXCEPT !.certs = @ \union p12Trusted] \in P12File
        BY <4>1 DEF P12File
      <4>. QED  BY <1>a, <4>2, <4>3
    <3>2. CASE UNCHANGED p12
      BY <1>a, <3>2, Zenon
    <3>. QED  BY <1>7, <3>1, <3>2 DEF AddCertificatesToTruststore
  <2>. QED  BY <1>a, <2>1, <2>2, Zenon DEF Known, Labelled
<1>8. CASE AddCertificatesToCMSKeystore
  <2>1. UNCHANGED <<input, p12, lookup, labels, known, cmsTrusted, p12Trusted, mqsc, web>>
    BY <1>8 DEF AddCertificatesToCMSKeystore, knownVars, configVars
  <2>2. cms' \in CMS
    <3>1. cms' = [cms EXCEPT !.others = @ \union cmsTrusted]
      BY <1>8 DEF AddCertificatesToCMSKeystore
    <3>2. cmsTrusted \subseteq Certs
      BY <1>a DEF Known
    <3>. QED  BY <1>a, <3>1, <3>2 DEF CMS
  <2>. QED  BY <1>a, <2>1, <2>2, Zenon DEF Known, Labelled
<1>9. CASE ConfigureTLS
  <2>1. UNCHANGED <<input, cms, p12, lookup, labels, known, cmsTrusted, p12Trusted, web>>
    BY <1>9 DEF ConfigureTLS, storeVars, knownVars
  <2>2. labels[1] \in Label
    BY <1>a, <1>b, Zenon DEF Labelled
  <2>3. mqsc' \in MQSC
    <3>. DEFINE keys == cms.exists /\ labels[1] # NoLabel
    <3>1. PICK listed \in BOOLEAN :
            mqsc' = [keyRing |-> keys /\ listed /\ cms.personal \union cms.others # {},
                     label |-> labels[1], fips |-> keys /\ IsFIPSEnabled,
                     listed |-> listed]
      BY <1>9 DEF ConfigureTLS
    <3>2. /\ (keys /\ listed /\ cms.personal \union cms.others # {}) \in BOOLEAN
          /\ (keys /\ IsFIPSEnabled) \in BOOLEAN
      OBVIOUS
    <3>. HIDE DEF keys
    <3>. QED  BY <2>2, <3>1, <3>2, Zenon DEF MQSC
  <2>. QED  BY <1>a, <2>1, <2>3, Zenon DEF Known, Labelled
<1>10. CASE ConfigureWebKeystore
  <2>1. UNCHANGED <<input, cms, lookup, labels, known, cmsTrusted, p12Trusted, mqsc>>
    BY <1>10 DEF ConfigureWebKeystore, knownVars
  <2>2. labels[1] \in Label /\ DefaultKeystore \in Label
    <3>1. DefaultKeystore \in Label
      BY DEF Label
    <3>. QED  BY <1>a, <1>b, <3>1, Zenon DEF Labelled
  <2>3. web' \in Web
    <3>1. IsFIPSEnabled \in BOOLEAN
      BY DEF IsFIPSEnabled, TypeOK, IsInput, Env
    <3>2. \/ web' = [web EXCEPT !.fips = IsFIPSEnabled, !.keystore = labels[1]]
          \/ web' = [web EXCEPT !.fips = IsFIPSEnabled, !.keystore = DefaultKeystore]
          \/ web' = [web EXCEPT !.fips = IsFIPSEnabled]
          \/ web' = web
      BY <1>10 DEF ConfigureWebKeystore
    <3>. QED  BY <1>a, <2>2, <3>1, <3>2 DEF Web
  <2>4. p12' \in [DOMAIN p12' -> P12File]
    <3>1. \/ p12' = p12
          \/ p12' = [f \in DOMAIN p12 \union {DefaultKeystore} |->
                       IF f = DefaultKeystore THEN [key |-> SelfSigned, certs |-> {}]
                       ELSE p12[f]]
      BY <1>10 DEF ConfigureWebKeystore
    <3>2. [key |-> SelfSigned, certs |-> {}] \in P12File
      BY DEF P12File
    <3>. QED  BY <1>a, <3>1, <3>2
  <2>. QED  BY <1>a, <2>1, <2>3, <2>4, Zenon DEF Known, Labelled
<1>11. CASE ConfigureWebTLS
  <2>1. UNCHANGED <<input, cms, p12, lookup, labels, known, cmsTrusted, p12Trusted, mqsc>>
    BY <1>11 DEF ConfigureWebTLS, storeVars, knownVars
  <2>2. web.keystore \in Label /\ WebTruststoreRef \in Label
    <3>1. TruststoreName \in Label
      BY DEF Label
    <3>2. web.keystore \in Label
      BY <1>a, SMTT(60) DEF Web
    <3>. QED  BY <3>1, <3>2 DEF WebTruststoreRef
  <2>3. web' \in Web
    <3>1. CASE UNCHANGED web
      BY <1>a, <3>1, Zenon
    <3>2. ASSUME NEW encoded \in BOOLEAN,
                 web' = [web EXCEPT !.truststoreRef = WebTruststoreRef, !.password = encoded]
          PROVE  web' \in Web
      BY <1>a, <2>2, <3>2 DEF Web
    <3>. QED  BY <1>11, <3>1, <3>2 DEF ConfigureWebTLS
  <2>. QED  BY <1>a, <2>1, <2>3, Zenon DEF Known, Labelled
<1>12. CASE ConfigureNativeHA
  <2>1. UNCHANGED <<input, cms, p12, lookup, labels, known, cmsTrusted, p12Trusted, mqsc, web>>
    BY <1>12 DEF ConfigureNativeHA, storeVars, knownVars, configVars
  <2>. QED  BY <1>a, <2>1, Zenon DEF Known, Labelled
<1>13. CASE UNCHANGED vars
  <2>1. UNCHANGED <<input, cms, p12, lookup, labels, known, cmsTrusted, p12Trusted, mqsc, web>>
    BY <1>13 DEF vars, storeVars, knownVars, configVars
  <2>. QED  BY <1>a, <2>1, Zenon DEF Known, Labelled
<1>. QED
  BY <1>1, <1>2, <1>3, <1>4, <1>5, <1>6, <1>7,
     <1>8, <1>9, <1>10, <1>11, <1>12, <1>13
  DEF Next

LEMMA TypesStep ==
    ASSUME TypeOK, StoresOK, OnTheWay, SetInProgress, ReadyToStore, [Next]_vars
    PROVE  TypeOK' /\ StoresOK'
<1>1. IsInput(input)'
  BY InputStays DEF TypeOK, IsInput
<1>2. Typed'
  BY <1>1, PlacedStep, StoresTyped, Zenon DEF Typed
<1>. QED  BY <1>2, TypesAre, PTL

(* Every step goes on the way.                                             *)
LEMMA OnTheWayStep ==
    ASSUME TypeOK, StoresOK, OnTheWay, SetInProgress, ReadyToStore, [Next]_vars
    PROVE  OnTheWay'
<1>. USE DEF InSets, AfterSets
<1>a. UNCHANGED <<input, Todo, HaveKeysAndCerts>>
  BY InputStays
<1>b. cms \in CMS
  BY TypesAre DEF Typed
<1>1. CASE GenerateAllKeystores
  <2>1. /\ at = "generate" /\ at' \in {"key", "trust"} /\ n' = n
        /\ at' = "key" => HaveKeysAndCerts
        /\ at' = "trust" => Len(Todo) = 0 \/ ~HaveKeysAndCerts
    <3>1. Len(Todo) \in Nat
      BY TodoIs
    <3>. QED  BY <1>1, <3>1 DEF GenerateAllKeystores
  <2>2. cms'.exists <=> HaveKeysAndCerts
    <3>1. cms' = [cms EXCEPT !.exists = HaveKeysAndCerts]
      BY <1>1 DEF GenerateAllKeystores
    <3>2. cms'.exists = HaveKeysAndCerts
      BY <1>b, <3>1 DEF CMS
    <3>. QED  BY <3>2
  <2>. QED  BY <1>a, <2>1, <2>2 DEF OnTheWay
<1>2. CASE CommandFails
  <2>1. at' = "failed" /\ n' = n
    BY <1>2 DEF CommandFails, Fail
  <2>. QED  BY <1>a, <2>1 DEF OnTheWay
<1>3. CASE ProcessPrivateKey
  <2>1. at = "key" /\ at' \in {"certs", "failed"} /\ UNCHANGED <<n, cms, p12>>
    BY <1>3, KeyEffect DEF KeyFound
  <2>. QED  BY <1>a, <2>1 DEF OnTheWay
<1>4. CASE ProcessCertificates
  <2>1. at = "certs" /\ UNCHANGED <<cms, p12>>
    BY <1>4, CertEffect
  <2>2. \/ n' = n /\ at' \in {"store", "failed"}
        \/ NextSet
    BY <1>4, CertEffect DEF Skipped, ToBeStored
  <2>3. CASE NextSet
    <3>1. at' \in {"key", "trust"} /\ (at' = "trust" => n' = Len(Todo))
      BY <2>1, <2>3, NextSetGoes
    <3>. QED  BY <1>a, <2>1, <3>1 DEF OnTheWay
  <2>4. CASE n' = n /\ at' \in {"store", "failed"}
    BY <1>a, <2>1, <2>4 DEF OnTheWay
  <2>. QED  BY <2>2, <2>3, <2>4
<1>5. CASE StoreKeySet
  <2>1. at = "store"
    BY <1>5, StoreEffect
  <2>2. cms'.exists = cms.exists
    <3>1. \/ cms' = [cms EXCEPT !.personal = @ \union {Entry},
                               !.others = @ \union CACertificates(Set)]
          \/ cms' = [cms EXCEPT !.others = @ \union CACertificates(Set)]
      BY <1>5, StoreEffect DEF Stored
    <3>. QED  BY <1>b, <3>1 DEF CMS
  <2>3. \/ n' = n /\ at' = "failed"
        \/ NextSet
    BY <1>5, StoreEffect DEF Stored
  <2>4. CASE NextSet
    <3>1. at' \in {"key", "trust"} /\ (at' = "trust" => n' = Len(Todo))
      BY <2>1, <2>4, NextSetGoes
    <3>. QED  BY <1>a, <2>1, <2>2, <3>1 DEF OnTheWay
  <2>5. CASE n' = n /\ at' = "failed"
    BY <1>a, <2>1, <2>5 DEF OnTheWay
  <2>. QED  BY <2>3, <2>4, <2>5
<1>6. CASE ReadTrust
  <2>1. at = "trust" /\ at' = "truststore" /\ UNCHANGED <<n, cms, p12>>
    BY <1>6 DEF ReadTrust, storeVars
  <2>. QED  BY <1>a, <2>1 DEF OnTheWay
<1>7. CASE AddCertificatesToTruststore
  <2>1. at = "truststore" /\ at' = "cms" /\ UNCHANGED <<n, cms>>
    BY <1>7 DEF AddCertificatesToTruststore
  <2>. QED  BY <1>a, <2>1 DEF OnTheWay
<1>8. CASE AddCertificatesToCMSKeystore
  <2>1. /\ at = "cms" /\ n' = n
        /\ at' = IF input.truststore THEN "configure" ELSE "native HA"
    BY <1>8 DEF AddCertificatesToCMSKeystore
  <2>2. cms'.exists = cms.exists
    <3>1. cms' = [cms EXCEPT !.others = @ \union cmsTrusted]
      BY <1>8 DEF AddCertificatesToCMSKeystore
    <3>. QED  BY <1>b, <3>1
  <2>. QED  BY <1>a, <2>1, <2>2 DEF OnTheWay
<1>9. CASE ConfigureTLS
  <2>1. /\ at = "configure" /\ UNCHANGED <<n, cms, p12>>
        /\ at' = IF input.env.web THEN "web keystore" ELSE "done"
    BY <1>9 DEF ConfigureTLS, AfterTLS, storeVars
  <2>. QED  BY <1>a, <2>1 DEF OnTheWay
<1>10. CASE ConfigureWebKeystore
  <2>1. at = "web keystore" /\ at' \in {"web", "failed"} /\ UNCHANGED <<n, cms>>
    BY <1>10 DEF ConfigureWebKeystore, Fail
  <2>. QED  BY <1>a, <2>1 DEF OnTheWay
<1>11. CASE ConfigureWebTLS
  <2>1. at = "web" /\ at' = "done" /\ UNCHANGED <<n, cms, p12>>
    BY <1>11 DEF ConfigureWebTLS, storeVars
  <2>. QED  BY <1>a, <2>1 DEF OnTheWay
<1>12. CASE ConfigureNativeHA
  <2>1. at = "native HA" /\ at' = "done" /\ UNCHANGED <<n, cms, p12>>
    BY <1>12 DEF ConfigureNativeHA, storeVars
  <2>. QED  BY <1>a, <2>1 DEF OnTheWay
<1>13. CASE UNCHANGED vars
  <2>1. UNCHANGED <<at, n, cms, p12>>
    BY <1>13 DEF vars, storeVars
  <2>. QED  BY <1>a, <2>1 DEF OnTheWay
<1>. QED
  BY <1>1, <1>2, <1>3, <1>4, <1>5, <1>6, <1>7,
     <1>8, <1>9, <1>10, <1>11, <1>12, <1>13
  DEF Next

(* A key set goes on with a name that is allowed and a key that is known.  *)
LEMMA ProgressStep ==
    ASSUME TypeOK, StoresOK, OnTheWay, SetInProgress, ReadyToStore, LookupNames, [Next]_vars
    PROVE  SetInProgress' /\ ReadyToStore'
<1>. USE DEF SetInProgress, ReadyToStore, InSet
<1>a. UNCHANGED <<input, Todo>>
  BY InputStays
<1>1. CASE GenerateAllKeystores
  <2>1. at' \notin {"certs", "store"}
    BY <1>1 DEF GenerateAllKeystores
  <2>. QED  BY <2>1
<1>2. CASE CommandFails
  <2>1. at' \notin {"certs", "store"}
    BY <1>2 DEF CommandFails, Fail
  <2>. QED  BY <2>1
<1>3. CASE ProcessPrivateKey
  <2>1. at = "key" /\ UNCHANGED <<n, cms>>
    BY <1>3, KeyEffect
  <2>2. CASE KeyFound
    <3>1. at' = "certs" /\ Set.key \in Keys /\ NameAllowed /\ Set.key \in DOMAIN lookup'
      BY <2>2 DEF KeyFound
    <3>2. IF previous' = NoLabel THEN lookup'[Set.key] = Set.name
          ELSE NamesIn(cms.personal, previous', Set.key)
      <4>1. CASE Set.key \in DOMAIN lookup
        <5>1. previous' = lookup[Set.key] /\ NamesIn(cms.personal, lookup[Set.key], Set.key)
          BY <2>1, <2>2, <4>1 DEF KeyFound, LookupNames, Live
        <5>2. lookup[Set.key] # NoLabel
          BY <4>1 DEF StoresOK
        <5>. QED  BY <5>1, <5>2
      <4>2. CASE Set.key \notin DOMAIN lookup
        BY <2>2, <4>2 DEF KeyFound
      <4>. QED  BY <4>1, <4>2
    <3>3. UNCHANGED Set /\ NameAllowed'
      BY <1>a, <2>1, <3>1, InputStays DEF NameAllowed
    <3>. QED  BY <2>1, <3>1, <3>2, <3>3
  <2>3. CASE at' = "failed"
    BY <2>3
  <2>. QED  BY <1>3, <2>2, <2>3, KeyEffect
<1>4. CASE ProcessCertificates
  <2>1. at = "certs" /\ UNCHANGED <<cms, lookup, previous>>
    BY <1>4, CertEffect
  <2>2. CASE Decoded(Set) /\ ToBeStored
    <3>1. at' = "store" /\ PublicCertificate(Set) \in Certs /\ n' = n
      BY <2>2 DEF ToBeStored
    <3>2. UNCHANGED Set
      BY <3>1, InputStays
    <3>3. NameAllowed' /\ UNCHANGED <<PublicCertificate(Set), Prefixed(Set)>>
      BY <2>1, <3>2 DEF NameAllowed, PublicCertificate, Prefixed
    <3>4. ReadyToStore'
      BY <2>2, <3>1, <3>2, <3>3, Zenon DEF Decoded
    <3>5. SetInProgress'
      BY <2>1, <3>1, <3>2, <3>3
    <3>. QED  BY <3>4, <3>5
  <2>3. CASE NextSet
    <3>1. at' \in {"key", "trust"}
      BY <2>1, <2>3, NextSetGoes DEF InSets
    <3>. QED  BY <3>1
  <2>4. CASE at' = "failed"
    BY <2>4
  <2>. QED  BY <1>4, <2>2, <2>3, <2>4, CertEffect DEF Skipped
<1>5. CASE StoreKeySet
  <2>1. at = "store"
    BY <1>5, StoreEffect
  <2>2. CASE NextSet
    <3>1. at' \in {"key", "trust"}
      BY <2>1, <2>2, NextSetGoes DEF InSets
    <3>. QED  BY <3>1
  <2>3. CASE at' = "failed"
    BY <2>3
  <2>. QED  BY <1>5, <2>2, <2>3, StoreEffect DEF Stored
<1>6. CASE ReadTrust
  <2>1. at' \notin {"certs", "store"}
    BY <1>6 DEF ReadTrust
  <2>. QED  BY <2>1
<1>7. CASE AddCertificatesToTruststore
  <2>1. at' \notin {"certs", "store"}
    BY <1>7 DEF AddCertificatesToTruststore
  <2>. QED  BY <2>1
<1>8. CASE AddCertificatesToCMSKeystore
  <2>1. at' \notin {"certs", "store"}
    BY <1>8 DEF AddCertificatesToCMSKeystore
  <2>. QED  BY <2>1
<1>9. CASE ConfigureTLS
  <2>1. at' \notin {"certs", "store"}
    BY <1>9 DEF ConfigureTLS, AfterTLS
  <2>. QED  BY <2>1
<1>10. CASE ConfigureWebKeystore
  <2>1. at' \notin {"certs", "store"}
    BY <1>10 DEF ConfigureWebKeystore, Fail
  <2>. QED  BY <2>1
<1>11. CASE ConfigureWebTLS
  <2>1. at' \notin {"certs", "store"}
    BY <1>11 DEF ConfigureWebTLS
  <2>. QED  BY <2>1
<1>12. CASE ConfigureNativeHA
  <2>1. at' \notin {"certs", "store"}
    BY <1>12 DEF ConfigureNativeHA
  <2>. QED  BY <2>1
<1>13. CASE UNCHANGED vars
  <2>1. UNCHANGED <<at, n, cms, lookup, previous>>
    BY <1>13 DEF vars, storeVars, knownVars
  <2>2. UNCHANGED Set
    BY <2>1, InputStays
  <2>3. UNCHANGED <<PublicCertificate(Set), Prefixed(Set), NameAllowed>>
    BY <2>2 DEF PublicCertificate, Prefixed, NameAllowed
  <2>4. SetInProgress'
    BY <2>1, <2>2, <2>3
  <2>5. ReadyToStore'
    BY <2>1, <2>2, <2>3, ZenonT(60)
  <2>. QED  BY <2>4, <2>5
<1>. QED
  BY <1>1, <1>2, <1>3, <1>4, <1>5, <1>6, <1>7,
     <1>8, <1>9, <1>10, <1>11, <1>12, <1>13
  DEF Next

(* Entries of the CMS keystore stay, and only a stored key set adds one.   *)
LEMMA PersonalStays ==
    ASSUME TypeOK, StoresOK, OnTheWay, SetInProgress, ReadyToStore, [Next]_vars
    PROVE  \/ cms'.personal = cms.personal
           \/ StoreKeySet /\ Stored /\ cms'.personal = cms.personal \union {Entry}
<1>a. cms \in CMS
  BY TypesAre DEF Typed
<1>1. CASE GenerateAllKeystores
  <2>1. cms' = [cms EXCEPT !.exists = HaveKeysAndCerts]
    BY <1>1 DEF GenerateAllKeystores
  <2>. QED  BY <1>a, <2>1 DEF CMS
<1>2. CASE StoreKeySet
  <2>1. CASE Stored
    BY <1>2, <1>a, <2>1 DEF Stored, CMS
  <2>2. CASE cms' = [cms EXCEPT !.others = @ \union CACertificates(Set)]
    BY <1>a, <2>2 DEF CMS
  <2>. QED  BY <1>2, <2>1, <2>2, StoreEffect
<1>3. CASE AddCertificatesToCMSKeystore
  <2>1. cms' = [cms EXCEPT !.others = @ \union cmsTrusted]
    BY <1>3 DEF AddCertificatesToCMSKeystore
  <2>. QED  BY <1>a, <2>1 DEF CMS
<1>4. CASE cms' = cms
  BY <1>4
<1>. QED
  BY <1>1, <1>2, <1>3, <1>4
  DEF Next, vars, storeVars, CommandFails, ProcessPrivateKey, ProcessCertificates,
      ReadTrust, AddCertificatesToTruststore, ConfigureTLS, ConfigureWebKeystore,
      ConfigureWebTLS, ConfigureNativeHA

LEMMA NamesStay ==
    ASSUME TypeOK, StoresOK, OnTheWay, SetInProgress, ReadyToStore, [Next]_vars
    PROVE  \A l, k : NamesIn(cms.personal, l, k) => NamesIn(cms.personal', l, k)
BY PersonalStays DEF NamesIn

(* A key that is looked up is in the keystore, or about to be stored.      *)
LEMMA LookupStep ==
    ASSUME TypeOK, StoresOK, OnTheWay, SetInProgress, ReadyToStore, LookupNames, [Next]_vars
    PROVE  LookupNames'
<1>. USE DEF InSet, Live
<1>1. CASE GenerateAllKeystores
  <2>1. /\ UNCHANGED lookup
        /\ at \notin {"certs", "store", "failed"} \/ at' = "failed"
    BY <1>1 DEF GenerateAllKeystores, knownVars
  <2>. QED  BY <2>1, NamesStay DEF LookupNames
<1>2. CASE CommandFails
  <2>1. /\ UNCHANGED lookup
        /\ at \notin {"certs", "store", "failed"} \/ at' = "failed"
    BY <1>2 DEF CommandFails, Fail, knownVars
  <2>. QED  BY <2>1, NamesStay DEF LookupNames
<1>3. CASE ProcessPrivateKey
  <2>1. at = "key"
    BY <1>3, KeyEffect
  <2>2. CASE KeyFound
    <3>1. \A k \in DOMAIN lookup : NamesIn(cms.personal, lookup[k], k)
      BY <2>1 DEF LookupNames
    <3>2. \A k \in DOMAIN lookup : lookup'[k] = lookup[k] /\ NamesIn(cms'.personal, lookup[k], k)
      BY <2>2, <3>1, NamesStay DEF KeyFound
    <3>3. at' = "certs" /\ DOMAIN lookup' = DOMAIN lookup \union {Set.key} /\ UNCHANGED Set
      BY <1>3, <2>2, KeyEffect, InputStays DEF KeyFound
    <3>4. Set.key \notin DOMAIN lookup => previous' = NoLabel
      BY <2>2 DEF KeyFound
    <3>. QED  BY <3>2, <3>3, <3>4 DEF LookupNames
  <2>3. CASE at' = "failed"
    BY <2>3 DEF LookupNames
  <2>. QED  BY <1>3, <2>2, <2>3, KeyEffect
<1>4. CASE ProcessCertificates
  <2>1. at = "certs" /\ UNCHANGED <<lookup, previous>>
    BY <1>4, CertEffect
  <2>2. CASE ToBeStored
    <3>1. at' = "store" /\ UNCHANGED Set
      BY <2>2, InputStays DEF ToBeStored
    <3>. QED  BY <2>1, <3>1, NamesStay DEF LookupNames
  <2>3. CASE Skipped
    <3>1. previous # NoLabel
      BY <2>3 DEF Skipped, Duplicate
    <3>. QED  BY <2>1, <3>1, NamesStay DEF LookupNames
  <2>4. CASE at' = "failed"
    BY <2>4 DEF LookupNames
  <2>. QED  BY <1>4, <2>2, <2>3, <2>4, CertEffect
<1>5. CASE StoreKeySet
  <2>1. at = "store" /\ UNCHANGED <<lookup, previous>>
    BY <1>5, StoreEffect
  <2>2. CASE Stored
    <3>. SUFFICES ASSUME NEW k \in DOMAIN lookup, ~NamesIn(cms.personal, lookup[k], k)
                  PROVE  NamesIn(cms'.personal, lookup[k], k)
      BY <2>1, NamesStay DEF LookupNames
    <3>1. previous = NoLabel /\ k = Set.key
      BY <2>1 DEF LookupNames
    <3>2. lookup[k] = Set.name
      BY <2>1, <3>1 DEF SetInProgress
    <3>3. cms'.personal = cms.personal \union {Entry}
      <4>1. cms \in CMS
        BY TypesAre DEF Typed
      <4>. QED  BY <2>2, <4>1 DEF Stored, CMS
    <3>4. Entry.label = Set.name /\ Entry.key = Set.key
      BY DEF Entry
    <3>. QED  BY <3>1, <3>2, <3>3, <3>4 DEF NamesIn
  <2>3. CASE at' = "failed"
    BY <2>3 DEF LookupNames
  <2>. QED  BY <1>5, <2>2, <2>3, StoreEffect
<1>6. CASE ReadTrust
  <2>1. /\ UNCHANGED lookup
        /\ at \notin {"certs", "store", "failed"} \/ at' = "failed"
    BY <1>6 DEF ReadTrust, knownVars
  <2>. QED  BY <2>1, NamesStay DEF LookupNames
<1>7. CASE AddCertificatesToTruststore
  <2>1. /\ UNCHANGED lookup
        /\ at \notin {"certs", "store", "failed"} \/ at' = "failed"
    BY <1>7 DEF AddCertificatesToTruststore, knownVars
  <2>. QED  BY <2>1, NamesStay DEF LookupNames
<1>8. CASE AddCertificatesToCMSKeystore
  <2>1. /\ UNCHANGED lookup
        /\ at \notin {"certs", "store", "failed"} \/ at' = "failed"
    BY <1>8 DEF AddCertificatesToCMSKeystore, knownVars
  <2>. QED  BY <2>1, NamesStay DEF LookupNames
<1>9. CASE ConfigureTLS
  <2>1. /\ UNCHANGED lookup
        /\ at \notin {"certs", "store", "failed"} \/ at' = "failed"
    BY <1>9 DEF ConfigureTLS, knownVars
  <2>. QED  BY <2>1, NamesStay DEF LookupNames
<1>10. CASE ConfigureWebKeystore
  <2>1. /\ UNCHANGED lookup
        /\ at \notin {"certs", "store", "failed"} \/ at' = "failed"
    BY <1>10 DEF ConfigureWebKeystore, knownVars
  <2>. QED  BY <2>1, NamesStay DEF LookupNames
<1>11. CASE ConfigureWebTLS
  <2>1. /\ UNCHANGED lookup
        /\ at \notin {"certs", "store", "failed"} \/ at' = "failed"
    BY <1>11 DEF ConfigureWebTLS, knownVars
  <2>. QED  BY <2>1, NamesStay DEF LookupNames
<1>12. CASE ConfigureNativeHA
  <2>1. /\ UNCHANGED lookup
        /\ at \notin {"certs", "store", "failed"} \/ at' = "failed"
    BY <1>12 DEF ConfigureNativeHA, knownVars
  <2>. QED  BY <2>1, NamesStay DEF LookupNames
<1>13. CASE UNCHANGED vars
  <2>1. UNCHANGED <<at, lookup, previous, n>>
    BY <1>13 DEF vars, knownVars
  <2>2. UNCHANGED Set
    BY <2>1, InputStays
  <2>. QED  BY <2>1, <2>2, NamesStay DEF LookupNames
<1>. QED
  BY <1>1, <1>2, <1>3, <1>4, <1>5, <1>6, <1>7,
     <1>8, <1>9, <1>10, <1>11, <1>12, <1>13
  DEF Next

(* With one directory, no label means no key set.                          *)
LEMMA NoLabelNoSet ==
    ASSUME TypeOK, LabelsMatch, Live, input.truststore, labels[1] = NoLabel
    PROVE  n = 0
<1>1. input.keyDirs \in Seq(Seq(KeySet)) /\ Len(input.keyDirs) = 1
  BY DEF TypeOK, IsInput
<1>2. DOMAIN input.keyDirs = {1}
  BY <1>1
<1>3. \A i \in 1 .. n : Todo[i].dir = 1
  BY <1>2, TodoIs
<1>4. ~Begun(1)
  BY <1>2 DEF LabelsMatch
<1>5. n \in Nat
  <2>1. n \in 0 .. Len(Todo)
    BY DEF TypeOK
  <2>2. Len(Todo) \in Nat
    BY TodoIs
  <2>. QED  BY <2>1, <2>2
<1>. QED  BY <1>3, <1>4, <1>5 DEF Begun

(* An entry of the CMS keystore keeps its file.                            *)
LEMMA FilesStep ==
    ASSUME TypeOK, StoresOK, OnTheWay, SetInProgress, ReadyToStore, FilesMatch,
           LabelsMatch, TruststoreIsThere, [Next]_vars
    PROVE  FilesMatch'
<1>. USE DEF Live
<1>a. StoreKeySet => at = "store"
  BY DEF StoreKeySet
<1>1. CASE GenerateAllKeystores
  <2>1. at = "generate" /\ cms'.personal = cms.personal
    BY <1>1, PersonalStays, <1>a DEF GenerateAllKeystores
  <2>2. cms.personal = {}
    BY <2>1 DEF OnTheWay, LabelsMatch
  <2>. QED  BY <2>1, <2>2 DEF FilesMatch
<1>2. CASE CommandFails
  BY <1>2 DEF CommandFails, Fail, FilesMatch
<1>3. CASE ProcessPrivateKey
  <2>1. at = "key" /\ UNCHANGED <<p12, cms>>
    BY <1>3, KeyEffect
  <2>. QED  BY <2>1 DEF FilesMatch
<1>4. CASE ProcessCertificates
  <2>1. at = "certs" /\ UNCHANGED <<p12, cms>>
    BY <1>4, CertEffect
  <2>. QED  BY <2>1 DEF FilesMatch
<1>5. CASE StoreKeySet
  <2>1. at = "store" /\ Filed
    BY <1>5, StoreEffect
  <2>2. CASE Stored
    <3>1. cms'.personal = cms.personal \union {Entry}
      <4>1. cms \in CMS
        BY TypesAre DEF Typed
      <4>. QED  BY <2>2, <4>1 DEF Stored, CMS
    <3>2. Entry.label = Set.name /\ Entry.key = Set.key
      BY DEF Entry
    <3>3. \A e \in cms.personal : e.label \in DOMAIN p12' /\ p12'[e.label].key = e.key
      <4>. TAKE e \in cms.personal
      <4>1. e.label # Set.name /\ e.label \in DOMAIN p12 /\ p12[e.label].key = e.key
        BY <2>1, <2>2 DEF Stored, FilesMatch
      <4>2. p12'[e.label] = p12[e.label] /\ e.label \in DOMAIN p12'
        BY <2>1, <4>1 DEF Filed
      <4>. QED  BY <4>1, <4>2
    <3>4. Set.name \in DOMAIN p12' /\ p12'[Set.name].key = Set.key
      BY <2>1 DEF Filed
    <3>. QED  BY <3>1, <3>2, <3>3, <3>4 DEF FilesMatch
  <2>3. CASE at' = "failed"
    BY <2>3 DEF FilesMatch
  <2>. QED  BY <1>5, <2>2, <2>3, StoreEffect
<1>6. CASE ReadTrust
  <2>1. UNCHANGED p12 /\ cms'.personal = cms.personal
    BY <1>6, PersonalStays, <1>a DEF ReadTrust, storeVars
  <2>2. at # "failed"
    BY <1>6 DEF ReadTrust
  <2>. QED  BY <2>1, <2>2 DEF FilesMatch
<1>7. CASE AddCertificatesToTruststore
  <2>1. at = "truststore" /\ UNCHANGED cms
    BY <1>7 DEF AddCertificatesToTruststore
  <2>2. DOMAIN p12' = DOMAIN p12 /\ \A f \in DOMAIN p12 : p12'[f].key = p12[f].key
    <3>1. p12 \in [DOMAIN p12 -> P12File]
      BY TypesAre DEF Typed
    <3>2. \A f \in P12File : [f EXCEPT !.certs = @ \union p12Trusted].key = f.key
      BY DEF P12File
    <3>3. CASE p12' = [p12 EXCEPT ![TruststoreName].certs = @ \union p12Trusted]
      <4>1. p12' = [p12 EXCEPT ![TruststoreName] =
                      [p12[TruststoreName] EXCEPT !.certs = @ \union p12Trusted]]
        BY <3>3
      <4>. QED  BY <3>1, <3>2, <4>1
    <3>4. CASE UNCHANGED p12
      BY <3>4
    <3>. QED  BY <1>7, <3>3, <3>4 DEF AddCertificatesToTruststore
  <2>. QED  BY <2>1, <2>2 DEF FilesMatch
<1>8. CASE AddCertificatesToCMSKeystore
  <2>1. UNCHANGED p12 /\ cms'.personal = cms.personal
    BY <1>8, PersonalStays, <1>a DEF AddCertificatesToCMSKeystore, storeVars
  <2>2. at # "failed"
    BY <1>8 DEF AddCertificatesToCMSKeystore
  <2>. QED  BY <2>1, <2>2 DEF FilesMatch
<1>9. CASE ConfigureTLS
  <2>1. UNCHANGED p12 /\ cms'.personal = cms.personal
    BY <1>9, PersonalStays, <1>a DEF ConfigureTLS, storeVars
  <2>2. at # "failed"
    BY <1>9 DEF ConfigureTLS
  <2>. QED  BY <2>1, <2>2 DEF FilesMatch
<1>10. CASE ConfigureWebKeystore
  <2>1. at = "web keystore" /\ UNCHANGED cms
    BY <1>10 DEF ConfigureWebKeystore
  <2>2. CASE UNCHANGED p12
    BY <2>1, <2>2 DEF FilesMatch
  <2>3. CASE labels[1] = NoLabel
    <3>1. n = 0
      BY <2>1, <2>3, NoLabelNoSet DEF OnTheWay, Live
    <3>2. cms.personal = {}
      BY <2>1, <3>1 DEF LabelsMatch
    <3>. QED  BY <2>1, <3>2 DEF FilesMatch
  <2>. QED  BY <1>10, <2>2, <2>3 DEF ConfigureWebKeystore
<1>11. CASE ConfigureWebTLS
  <2>1. UNCHANGED p12 /\ cms'.personal = cms.personal
    BY <1>11, PersonalStays, <1>a DEF ConfigureWebTLS, storeVars
  <2>2. at # "failed"
    BY <1>11 DEF ConfigureWebTLS
  <2>. QED  BY <2>1, <2>2 DEF FilesMatch
<1>12. CASE ConfigureNativeHA
  <2>1. UNCHANGED p12 /\ cms'.personal = cms.personal
    BY <1>12, PersonalStays, <1>a DEF ConfigureNativeHA, storeVars
  <2>2. at # "failed"
    BY <1>12 DEF ConfigureNativeHA
  <2>. QED  BY <2>1, <2>2 DEF FilesMatch
<1>13. CASE UNCHANGED vars
  <2>1. UNCHANGED <<at, p12, cms>>
    BY <1>13 DEF vars, storeVars
  <2>. QED  BY <2>1 DEF FilesMatch
<1>. QED
  BY <1>1, <1>2, <1>3, <1>4, <1>5, <1>6, <1>7,
     <1>8, <1>9, <1>10, <1>11, <1>12, <1>13
  DEF Next

(* Until a directory has a label, its first key set is the next one.       *)
LEMMA FirstSet ==
    ASSUME TypeOK, InSets, ~Begun(Dir)
    PROVE  FirstKey(Dir) = Set.key
<1>1. InTurn(input.keyDirs, Todo)
  BY TodoInTurn DEF TypeOK
<1>2. n + 1 \in DOMAIN Todo /\ DOMAIN Todo = 1 .. Len(Todo) /\ Len(Todo) \in Nat
  BY TodoIs
<1>3. n \in Nat
  <2>1. n \in 0 .. Len(Todo)
    BY DEF TypeOK
  <2>. QED  BY <1>2, <2>1
<1>4. \A j \in 1 .. (n + 1) - 1 : Todo[j].dir # Todo[n + 1].dir
  <2>1. (n + 1) - 1 = n
    BY <1>3
  <2>. QED  BY <2>1 DEF Begun, Dir
<1>5. input.keyDirs[Dir] # <<>> /\ Set = input.keyDirs[Dir][1]
  BY <1>1, <1>2, <1>4 DEF InTurn, Dir, Set
<1>. QED  BY <1>5 DEF FirstKey

LEMMA BegunNext ==
    ASSUME TypeOK, InSets, NextSet, UNCHANGED Todo
    PROVE  \A d : Begun(d)' <=> Begun(d) \/ d = Dir
<1>1. n \in Nat /\ n' = n + 1
  <2>1. n \in 0 .. Len(Todo)
    BY DEF TypeOK
  <2>2. Len(Todo) \in Nat
    BY TodoIs
  <2>. QED  BY <2>1, <2>2 DEF NextSet
<1>2. \A i : i \in 1 .. n' <=> i \in 1 .. n \/ i = n + 1
  BY <1>1
<1>. QED  BY <1>2 DEF Begun, Dir

LEMMA LabelGrows ==
    ASSUME TypeOK, StoresOK, LabelsMatch, InSets, Live, Set.key \in Keys, [Next]_vars,
           NEW label \in Label, label # NoLabel, SetLabel(label), NextSet,
           NamesIn(cms.personal', label, Set.key),
           \A l, k : NamesIn(cms.personal, l, k) => NamesIn(cms.personal', l, k)
    PROVE  LabelsMatch'
<1>1. /\ \A d \in DOMAIN input.keyDirs : d # Dir => labels'[d] = labels[d]
      /\ labels'[Dir] = IF labels[Dir] = NoLabel THEN label ELSE labels[Dir]
  BY LabelEffect
<1>2. UNCHANGED <<input, Todo>> /\ \A d : UNCHANGED FirstKey(d)
  BY InputStays
<1>3. \A d : Begun(d)' <=> Begun(d) \/ d = Dir
  BY <1>2, BegunNext
<1>4. n' # 0
  <2>1. n \in 0 .. Len(Todo) /\ Len(Todo) \in Nat
    BY TodoIs DEF TypeOK
  <2>. QED  BY <2>1 DEF NextSet
<1>5. Dir \in DOMAIN input.keyDirs
  BY TodoIs
<1>6. ASSUME NEW d \in DOMAIN input.keyDirs, Begun(d) \/ d = Dir
      PROVE  /\ labels'[d] # NoLabel /\ FirstKey(d) \in Keys
             /\ NamesIn(cms.personal', labels'[d], FirstKey(d))
  <2>1. CASE Begun(d)
    <3>1. /\ labels[d] # NoLabel /\ FirstKey(d) \in Keys
          /\ NamesIn(cms.personal, labels[d], FirstKey(d))
      BY <2>1 DEF LabelsMatch
    <3>2. labels'[d] = labels[d]
      BY <1>1, <3>1
    <3>. QED  BY <3>1, <3>2
  <2>2. CASE ~Begun(d)
    <3>1. d = Dir /\ labels[d] = NoLabel
      BY <1>6, <2>2 DEF LabelsMatch
    <3>2. FirstKey(d) = Set.key
      BY <2>2, <3>1, FirstSet
    <3>3. labels'[d] = label
      BY <1>1, <3>1
    <3>. QED  BY <3>2, <3>3
  <2>. QED  BY <2>1, <2>2
<1>7. ASSUME NEW d \in DOMAIN input.keyDirs, ~Begun(d), d # Dir
      PROVE  labels'[d] = NoLabel
  BY <1>1, <1>7 DEF LabelsMatch
<1>. QED  BY <1>2, <1>3, <1>4, <1>6, <1>7 DEF LabelsMatch

LEMMA LabelsStay ==
    ASSUME LabelsMatch, Live, [Next]_vars, UNCHANGED <<n, labels>>,
           cms'.personal = cms.personal
    PROVE  LabelsMatch'
<1>1. UNCHANGED <<input, Todo>> /\ \A d : UNCHANGED FirstKey(d)
  BY InputStays
<1>2. \A d : Begun(d)' <=> Begun(d)
  BY <1>1 DEF Begun
<1>. QED  BY <1>1, <1>2 DEF LabelsMatch

(* The label of a directory is that of its first key set, or of that set's *)
(* key.                                                                    *)
LEMMA LabelsStep ==
    ASSUME TypeOK, StoresOK, OnTheWay, SetInProgress, ReadyToStore, LabelsMatch, [Next]_vars
    PROVE  LabelsMatch'
<1>. USE DEF Live
<1>a. StoreKeySet => at = "store"
  BY DEF StoreKeySet
<1>1. CASE GenerateAllKeystores
  <2>1. at \notin {"store", "failed"} /\ UNCHANGED <<n, labels>>
    BY <1>1 DEF GenerateAllKeystores
  <2>2. cms'.personal = cms.personal
    BY <2>1, <1>a, PersonalStays
  <2>. QED  BY <2>1, <2>2, LabelsStay
<1>2. CASE CommandFails
  BY <1>2 DEF CommandFails, Fail, LabelsMatch
<1>3. CASE ProcessPrivateKey
  <2>1. at = "key" /\ UNCHANGED <<n, labels, cms>>
    BY <1>3, KeyEffect
  <2>. QED  BY <2>1, LabelsStay
<1>4. CASE ProcessCertificates
  <2>1. at = "certs" /\ UNCHANGED cms
    BY <1>4, CertEffect
  <2>2. CASE Skipped
    <3>1. previous # NoLabel /\ SetLabel(previous) /\ NextSet
      BY <2>2 DEF Skipped, Duplicate
    <3>2. previous \in Label
      BY <2>1, NamesTyped DEF InSet
    <3>3. Set.key \in Keys /\ NamesIn(cms.personal', previous, Set.key)
      BY <2>1, <3>1 DEF SetInProgress, InSet
    <3>. QED  BY <2>1, <3>1, <3>2, <3>3, NamesStay, LabelGrows DEF InSets
  <2>3. CASE ToBeStored
    BY <2>1, <2>3, LabelsStay DEF ToBeStored
  <2>4. CASE at' = "failed"
    BY <2>4 DEF LabelsMatch
  <2>. QED  BY <1>4, <2>2, <2>3, <2>4, CertEffect
<1>5. CASE StoreKeySet
  <2>1. at = "store" /\ Set \in KeySet /\ Set.key \in Keys
    BY <1>5, StoreEffect
  <2>2. CASE Stored
    <3>1. SetLabel(Set.name) /\ NextSet
      BY <2>2 DEF Stored
    <3>2. Set.name \in Label /\ Set.name # NoLabel
      BY <2>1, FilesOfSet DEF Label
    <3>3. cms.personal' = cms.personal \union {Entry}
      <4>1. cms \in CMS
        BY TypesAre DEF Typed
      <4>. QED  BY <2>2, <4>1 DEF Stored, CMS
    <3>4. NamesIn(cms.personal', Set.name, Set.key)
      <4>1. Entry.label = Set.name /\ Entry.key = Set.key
        BY DEF Entry
      <4>. QED  BY <3>3, <4>1 DEF NamesIn
    <3>. QED  BY <2>1, <3>1, <3>2, <3>4, NamesStay, LabelGrows DEF InSets
  <2>3. CASE at' = "failed"
    BY <2>3 DEF LabelsMatch
  <2>. QED  BY <1>5, <2>2, <2>3, StoreEffect
<1>6. CASE ReadTrust
  <2>1. at \notin {"store", "failed"} /\ UNCHANGED <<n, labels>>
    BY <1>6 DEF ReadTrust
  <2>2. cms'.personal = cms.personal
    BY <2>1, <1>a, PersonalStays
  <2>. QED  BY <2>1, <2>2, LabelsStay
<1>7. CASE AddCertificatesToTruststore
  <2>1. at \notin {"store", "failed"} /\ UNCHANGED <<n, labels>>
    BY <1>7 DEF AddCertificatesToTruststore
  <2>2. cms'.personal = cms.personal
    BY <2>1, <1>a, PersonalStays
  <2>. QED  BY <2>1, <2>2, LabelsStay
<1>8. CASE AddCertificatesToCMSKeystore
  <2>1. at \notin {"store", "failed"} /\ UNCHANGED <<n, labels>>
    BY <1>8 DEF AddCertificatesToCMSKeystore
  <2>2. cms'.personal = cms.personal
    BY <2>1, <1>a, PersonalStays
  <2>. QED  BY <2>1, <2>2, LabelsStay
<1>9. CASE ConfigureTLS
  <2>1. at \notin {"store", "failed"} /\ UNCHANGED <<n, labels>>
    BY <1>9 DEF ConfigureTLS
  <2>2. cms'.personal = cms.personal
    BY <2>1, <1>a, PersonalStays
  <2>. QED  BY <2>1, <2>2, LabelsStay
<1>10. CASE ConfigureWebKeystore
  <2>1. at \notin {"store", "failed"} /\ UNCHANGED <<n, labels>>
    BY <1>10 DEF ConfigureWebKeystore
  <2>2. cms'.personal = cms.personal
    BY <2>1, <1>a, PersonalStays
  <2>. QED  BY <2>1, <2>2, LabelsStay
<1>11. CASE ConfigureWebTLS
  <2>1. at \notin {"store", "failed"} /\ UNCHANGED <<n, labels>>
    BY <1>11 DEF ConfigureWebTLS
  <2>2. cms'.personal = cms.personal
    BY <2>1, <1>a, PersonalStays
  <2>. QED  BY <2>1, <2>2, LabelsStay
<1>12. CASE ConfigureNativeHA
  <2>1. at \notin {"store", "failed"} /\ UNCHANGED <<n, labels>>
    BY <1>12 DEF ConfigureNativeHA
  <2>2. cms'.personal = cms.personal
    BY <2>1, <1>a, PersonalStays
  <2>. QED  BY <2>1, <2>2, LabelsStay
<1>13. CASE UNCHANGED vars
  <2>1. UNCHANGED <<at, n, labels, cms>>
    BY <1>13 DEF vars, storeVars
  <2>2. CASE at = "failed"
    BY <2>1, <2>2 DEF LabelsMatch
  <2>. QED  BY <2>1, <2>2, LabelsStay
<1>. QED
  BY <1>1, <1>2, <1>3, <1>4, <1>5, <1>6, <1>7,
     <1>8, <1>9, <1>10, <1>11, <1>12, <1>13
  DEF Next

(* What is held stays held.                                                *)
LEMMA HeldStays ==
    ASSUME TypeOK, StoresOK, OnTheWay, SetInProgress, ReadyToStore, [Next]_vars
    PROVE  Held \subseteq Held'
<1>a. cms \in CMS /\ UNCHANGED Todo
  BY TypesAre, InputStays DEF Typed
<1>1. cms.personal \subseteq cms'.personal
  BY PersonalStays, SMTT(60)
<1>2. cms.others \subseteq cms'.others
  <2>1. CASE GenerateAllKeystores
    <3>1. cms' = [cms EXCEPT !.exists = HaveKeysAndCerts]
      BY <2>1 DEF GenerateAllKeystores
    <3>. QED  BY <1>a, <3>1 DEF CMS
  <2>2. CASE StoreKeySet
    <3>1. \/ cms' = [cms EXCEPT !.personal = @ \union {Entry},
                               !.others = @ \union CACertificates(Set)]
          \/ cms' = [cms EXCEPT !.others = @ \union CACertificates(Set)]
      BY <2>2, StoreEffect DEF Stored
    <3>. QED  BY <1>a, <3>1 DEF CMS
  <2>3. CASE AddCertificatesToCMSKeystore
    <3>1. cms' = [cms EXCEPT !.others = @ \union cmsTrusted]
      BY <2>3 DEF AddCertificatesToCMSKeystore
    <3>. QED  BY <1>a, <3>1 DEF CMS
  <2>4. CASE cms' = cms
    BY <2>4
  <2>. QED
    BY <2>1, <2>2, <2>3, <2>4
    DEF Next, vars, storeVars, CommandFails, ProcessPrivateKey, ProcessCertificates,
        ReadTrust, AddCertificatesToTruststore, ConfigureTLS, ConfigureWebKeystore,
        ConfigureWebTLS, ConfigureNativeHA
<1>. QED  BY <1>a, <1>1, <1>2 DEF Held

(* With a key set, all its certificates are held.                          *)
LEMMA SetIsHeld ==
    ASSUME TypeOK, StoresOK, SetInProgress, ReadyToStore, StoreKeySet, Stored, [Next]_vars
    PROVE  AllCertificates(Set) \subseteq Held'
<1>1. at = "store" /\ Set \in KeySet /\ Decoded(Set)
  BY StoreEffect DEF ReadyToStore, Decoded
<1>2. AllCertificates(Set)
        \subseteq CACertificates(Set) \union {PublicCertificate(Set)} \union Overridden(Set)
  BY <1>1, CertificatesGo
<1>3. cms'.personal = cms.personal \union {Entry} /\ CACertificates(Set) \subseteq cms'.others
  <2>1. cms \in CMS
    BY TypesAre DEF Typed
  <2>. QED  BY <2>1 DEF Stored, CMS
<1>4. Entry.cert = PublicCertificate(Set)
  BY DEF Entry
<1>5. Overridden(Set) \subseteq UNION {Overridden(Todo[i].set) : i \in DOMAIN Todo}
  <2>1. n + 1 \in DOMAIN Todo
    BY <1>1, TodoIs DEF InSets
  <2>. QED  BY <2>1 DEF Set
<1>6. UNCHANGED Todo
  BY InputStays
<1>. QED  BY <1>2, <1>3, <1>4, <1>5, <1>6 DEF Held

(* What is known is in the keystore, or comes with the key set in progress.*)
LEMMA KnownStep ==
    ASSUME TypeOK, StoresOK, OnTheWay, SetInProgress, ReadyToStore, KnownIsHeld, [Next]_vars
    PROVE  KnownIsHeld'
<1>a. Held \subseteq Held' /\ UNCHANGED input
  BY HeldStays, InputStays
<1>1. CASE GenerateAllKeystores
  <2>1. at = "generate" /\ at' \in {"key", "trust"} /\ UNCHANGED known
    BY <1>1 DEF GenerateAllKeystores, knownVars
  <2>. QED  BY <1>a, <2>1 DEF KnownIsHeld
<1>2. CASE CommandFails
  BY <1>2 DEF CommandFails, Fail, KnownIsHeld
<1>3. CASE ProcessPrivateKey
  <2>1. at = "key" /\ at' \in {"certs", "failed"} /\ UNCHANGED known
    BY <1>3, KeyEffect DEF KeyFound
  <2>. QED  BY <1>a, <2>1 DEF KnownIsHeld
<1>4. CASE ProcessCertificates
  <2>1. at = "certs" /\ known \subseteq Held
    BY <1>4, CertEffect DEF KnownIsHeld
  <2>2. CASE Skipped
    <3>1. known' = known
      BY <2>2 DEF Skipped, Collected, Duplicate
    <3>2. at' \in {"key", "trust"}
      BY <2>1, <2>2, NextSetGoes DEF Skipped, InSets
    <3>. QED  BY <1>a, <2>1, <3>1, <3>2 DEF KnownIsHeld
  <2>3. CASE ToBeStored
    <3>1. at' = "store" /\ known' = known \union AllCertificates(Set) /\ UNCHANGED Set
      BY <2>3, InputStays DEF ToBeStored, Collected
    <3>2. UNCHANGED AllCertificates(Set)
      BY <3>1 DEF AllCertificates
    <3>. QED  BY <1>a, <2>1, <3>1, <3>2 DEF KnownIsHeld
  <2>4. CASE at' = "failed"
    BY <2>4 DEF KnownIsHeld
  <2>. QED  BY <1>4, <2>2, <2>3, <2>4, CertEffect
<1>5. CASE StoreKeySet
  <2>1. at = "store" /\ UNCHANGED known
    BY <1>5, StoreEffect
  <2>2. CASE Stored
    <3>1. AllCertificates(Set) \subseteq Held'
      BY <1>5, <2>2, SetIsHeld
    <3>2. at' \in {"key", "trust"}
      BY <2>1, <2>2, NextSetGoes DEF Stored, InSets
    <3>. QED  BY <1>a, <2>1, <3>1, <3>2 DEF KnownIsHeld
  <2>3. CASE at' = "failed"
    BY <2>3 DEF KnownIsHeld
  <2>. QED  BY <1>5, <2>2, <2>3, StoreEffect
<1>6. CASE ReadTrust
  <2>1. /\ at = "trust" /\ at' = "truststore"
        /\ cmsTrusted' = input.trust \ known /\ UNCHANGED input
    BY <1>6 DEF ReadTrust
  <2>. QED  BY <1>a, <2>1 DEF KnownIsHeld
<1>7. CASE AddCertificatesToTruststore
  <2>1. at = "truststore" /\ at' = "cms" /\ UNCHANGED cmsTrusted
    BY <1>7 DEF AddCertificatesToTruststore, knownVars
  <2>. QED  BY <1>a, <2>1 DEF KnownIsHeld
<1>8. CASE AddCertificatesToCMSKeystore
  <2>1. at = "cms" /\ at' \in {"configure", "native HA"}
    BY <1>8 DEF AddCertificatesToCMSKeystore
  <2>2. cmsTrusted \subseteq Held'
    <3>1. cms' = [cms EXCEPT !.others = @ \union cmsTrusted]
      BY <1>8 DEF AddCertificatesToCMSKeystore
    <3>2. cms \in CMS
      BY TypesAre DEF Typed
    <3>3. cmsTrusted \subseteq cms'.others
      BY <3>1, <3>2 DEF CMS
    <3>. QED  BY <3>3 DEF Held
  <2>. QED  BY <1>a, <2>1, <2>2 DEF KnownIsHeld
<1>9. CASE ConfigureTLS
  <2>1. at = "configure" /\ at' \in {"web keystore", "done"}
    BY <1>9 DEF ConfigureTLS, AfterTLS, knownVars
  <2>. QED  BY <1>a, <2>1 DEF KnownIsHeld
<1>10. CASE ConfigureWebKeystore
  <2>1. at = "web keystore" /\ at' \in {"web", "failed"}
    BY <1>10 DEF ConfigureWebKeystore, Fail, knownVars
  <2>. QED  BY <1>a, <2>1 DEF KnownIsHeld
<1>11. CASE ConfigureWebTLS
  <2>1. at = "web" /\ at' \in {"done"}
    BY <1>11 DEF ConfigureWebTLS, knownVars
  <2>. QED  BY <1>a, <2>1 DEF KnownIsHeld
<1>12. CASE ConfigureNativeHA
  <2>1. at = "native HA" /\ at' \in {"done"}
    BY <1>12 DEF ConfigureNativeHA, knownVars
  <2>. QED  BY <1>a, <2>1 DEF KnownIsHeld
<1>13. CASE UNCHANGED vars
  <2>1. UNCHANGED <<at, n, known, cmsTrusted>>
    BY <1>13 DEF vars, knownVars
  <2>2. UNCHANGED Set
    BY <2>1, InputStays
  <2>3. UNCHANGED AllCertificates(Set)
    BY <2>2, SMTT(60) DEF AllCertificates
  <2>. QED  BY <1>a, <2>1, <2>3 DEF KnownIsHeld
<1>. QED
  BY <1>1, <1>2, <1>3, <1>4, <1>5, <1>6, <1>7,
     <1>8, <1>9, <1>10, <1>11, <1>12, <1>13
  DEF Next

(* The truststore, once there, keeps its lack of a key and its             *)
(* certificates.                                                           *)
LEMMA TruststoreStays ==
    ASSUME TypeOK, StoresOK, OnTheWay, SetInProgress, ReadyToStore, [Next]_vars,
           TruststoreName \in DOMAIN p12
    PROVE  /\ TruststoreName \in DOMAIN p12'
           /\ p12'[TruststoreName].key = p12[TruststoreName].key
           /\ p12[TruststoreName].certs \subseteq p12'[TruststoreName].certs
<1>1. CASE GenerateAllKeystores
  <2>1. p12 = <<>>
    BY <1>1 DEF GenerateAllKeystores, OnTheWay
  <2>. QED  BY <2>1
<1>2. CASE StoreKeySet
  <2>1. Filed /\ at = "store"
    BY <1>2, StoreEffect
  <2>2. Set.name # TruststoreName
    BY <2>1 DEF SetInProgress, NameAllowed, InSet
  <2>. QED  BY <2>1, <2>2 DEF Filed
<1>3. CASE AddCertificatesToTruststore
  <2>1. p12 \in [DOMAIN p12 -> P12File]
    BY TypesAre DEF Typed
  <2>2. \A f \in P12File : LET g == [f EXCEPT !.certs = @ \union p12Trusted]
                           IN  g.key = f.key /\ f.certs \subseteq g.certs
    BY DEF P12File
  <2>3. CASE p12' = [p12 EXCEPT ![TruststoreName].certs = @ \union p12Trusted]
    <3>1. p12' = [p12 EXCEPT ![TruststoreName] =
                    [p12[TruststoreName] EXCEPT !.certs = @ \union p12Trusted]]
      BY <2>3
    <3>. QED  BY <2>1, <2>2, <3>1
  <2>4. CASE UNCHANGED p12
    BY <2>4
  <2>. QED  BY <1>3, <2>3, <2>4 DEF AddCertificatesToTruststore
<1>4. CASE ConfigureWebKeystore
  <2>1. CASE UNCHANGED p12
    BY <2>1
  <2>2. CASE p12' = [f \in DOMAIN p12 \union {DefaultKeystore} |->
                       IF f = DefaultKeystore THEN [key |-> SelfSigned, certs |-> {}]
                       ELSE p12[f]]
    <3>1. TruststoreName # DefaultKeystore
      BY DEF TruststoreName, DefaultKeystore
    <3>. QED  BY <2>2, <3>1
  <2>. QED  BY <1>4, <2>1, <2>2 DEF ConfigureWebKeystore
<1>5. CASE UNCHANGED p12
  BY <1>5
<1>. QED
  BY <1>1, <1>2, <1>3, <1>4, <1>5
  DEF Next, vars, storeVars, CommandFails, ProcessPrivateKey, ProcessCertificates,
      ReadTrust, AddCertificatesToCMSKeystore, ConfigureTLS, ConfigureWebTLS,
      ConfigureNativeHA

(* There is a truststore from the first step on, and no key in it.         *)
LEMMA TruststoreStep ==
    ASSUME TypeOK, StoresOK, OnTheWay, SetInProgress, ReadyToStore, TruststoreIsThere,
           NoKeyInTruststore, [Next]_vars
    PROVE  TruststoreIsThere' /\ NoKeyInTruststore'
<1>. SUFFICES ASSUME input'.truststore
              PROVE  TruststoreIsThere' /\ NoKeyInTruststore'
  BY DEF TruststoreIsThere, NoKeyInTruststore
<1>a. input.truststore /\ UNCHANGED input
  BY InputStays
<1>1. CASE TruststoreName \in DOMAIN p12
  <2>1. p12 # <<>>
    BY <1>1, SMTT(60)
  <2>. QED  BY <1>a, <1>1, <2>1, TruststoreStays DEF TruststoreIsThere, NoKeyInTruststore
<1>2. CASE TruststoreName \notin DOMAIN p12
  <2>1. p12 = <<>> /\ ~InSets /\ ~AfterSets
    BY <1>a, <1>2 DEF TruststoreIsThere
  <2>2. at \in {"generate", "failed"}
    BY <2>1 DEF TypeOK, InSets, AfterSets
  <2>3. CASE GenerateAllKeystores
    <3>1. p12' = [f \in {TruststoreName} |-> EmptyStore]
      BY <1>a, <2>3 DEF GenerateAllKeystores
    <3>. QED  BY <3>1 DEF TruststoreIsThere, NoKeyInTruststore, EmptyStore
  <2>4. CASE CommandFails
    <3>1. at' = "failed" /\ p12' = <<>>
      BY <2>1, <2>4 DEF CommandFails, Fail, storeVars
    <3>. QED  BY <3>1 DEF TruststoreIsThere, NoKeyInTruststore, InSets, AfterSets
  <2>5. CASE UNCHANGED vars
    <3>1. UNCHANGED <<at, p12>>
      BY <2>5 DEF vars, storeVars
    <3>. QED  BY <2>1, <3>1 DEF TruststoreIsThere, NoKeyInTruststore, InSets, AfterSets
  <2>. QED
    BY <2>2, <2>3, <2>4, <2>5
    DEF Next, ProcessPrivateKey, ProcessCertificates, StoreKeySet, ReadTrust,
        AddCertificatesToTruststore, AddCertificatesToCMSKeystore, ConfigureTLS,
        ConfigureWebKeystore, ConfigureWebTLS, ConfigureNativeHA
<1>. QED  BY <1>1, <1>2

(* At the trust directory, the authorities of all the key sets have been   *)
(* collected.                                                              *)
LEMMA AllCollected ==
    ASSUME TypeOK, OnTheWay, TrustIsCollected, input.truststore, at = "trust"
    PROVE  Authorities \subseteq p12Trusted \union input.trust
<1>1. SUFFICES ASSUME NEW i \in DOMAIN Todo
               PROVE  OtherCertificates(Todo[i].set) \subseteq p12Trusted
  BY AuthoritiesAre
<1>2. CASE n = Len(Todo)
  <2>1. i \in 1 .. n
    BY <1>2, TodoIs
  <2>. QED  BY <2>1 DEF TrustIsCollected
<1>3. CASE ~HaveKeysAndCerts
  <2>1. Todo[i].set.files = <<>>
    BY <1>3 DEF HaveKeysAndCerts
  <2>. QED  BY <2>1, NoFilesNoAuthority
<1>. QED  BY <1>2, <1>3 DEF OnTheWay, AfterSets

(* A key set's authorities are collected before the next one.              *)
LEMMA OneMoreCollected ==
    ASSUME TypeOK, OnTheWay, TrustIsCollected, input.truststore, InSets, NextSet,
           [Next]_vars,
           p12Trusted \subseteq p12Trusted', OtherCertificates(Set) \subseteq p12Trusted'
    PROVE  TrustIsCollected'
<1>1. n' = n + 1 /\ at' \in {"key", "trust"}
  BY NextSetGoes
<1>2. n \in Nat
  <2>1. n \in 0 .. Len(Todo)
    BY DEF TypeOK
  <2>2. Len(Todo) \in Nat
    BY TodoIs
  <2>. QED  BY <2>1, <2>2
<1>3. \A i \in 1 .. n' : i \in 1 .. n \/ i = n + 1
  BY <1>1, <1>2
<1>4. \A i \in 1 .. n : OtherCertificates(Todo[i].set) \subseteq p12Trusted
  BY DEF TrustIsCollected
<1>5. \A i \in 1 .. n' : OtherCertificates(Todo[i].set) \subseteq p12Trusted'
  BY <1>3, <1>4 DEF Set
<1>6. UNCHANGED Todo
  BY InputStays
<1>7. \A i \in 1 .. n' : OtherCertificates(Todo'[i].set) \subseteq p12Trusted'
  BY <1>5, <1>6
<1>. QED  BY <1>1, <1>7 DEF TrustIsCollected, InSets, AfterSets, OtherCertificates

(* What the truststore must hold is collected, and stored in the end.      *)
LEMMA TrustStep ==
    ASSUME TypeOK, StoresOK, OnTheWay, SetInProgress, ReadyToStore,
           TrustIsCollected, TruststoreIsThere, [Next]_vars
    PROVE  TrustIsCollected'
<1>a. UNCHANGED <<input, Todo, Authorities>>
  BY InputStays
<1>. SUFFICES ASSUME input.truststore
              PROVE  TrustIsCollected'
  BY <1>a DEF TrustIsCollected
<1>1. CASE GenerateAllKeystores
  <2>1. at = "generate" /\ at' \in {"key", "trust"} /\ UNCHANGED <<n, p12Trusted>>
    BY <1>1 DEF GenerateAllKeystores, knownVars
  <2>2. n = 0
    BY <2>1 DEF OnTheWay
  <2>3. \A i \in 1 .. n : FALSE
    BY <2>2
  <2>4. \A i \in 1 .. n' : FALSE
    BY <2>1, <2>2
  <2>. QED  BY <2>1, <2>4 DEF TrustIsCollected, InSets, AfterSets
<1>2. CASE CommandFails
  BY <1>2 DEF CommandFails, Fail, TrustIsCollected, InSets, AfterSets
<1>3. CASE ProcessPrivateKey
  <2>1. at = "key" /\ at' \in {"certs", "failed"} /\ UNCHANGED <<n, p12Trusted>>
    BY <1>3, KeyEffect DEF KeyFound
  <2>2. \A i \in 1 .. n : OtherCertificates(Todo[i].set) \subseteq p12Trusted
    BY <2>1 DEF TrustIsCollected, InSets
  <2>3. \A i \in 1 .. n' : OtherCertificates(Todo'[i].set) \subseteq p12Trusted'
    BY <1>a, <2>1, <2>2
  <2>. QED  BY <2>1, <2>3 DEF TrustIsCollected, InSets, AfterSets, OtherCertificates
<1>4. CASE ProcessCertificates
  <2>1. at = "certs"
    BY <1>4, CertEffect
  <2>2. Set \in KeySet
    BY <2>1, TodoIs DEF InSets
  <2>3. ASSUME Decoded(Set), Collected
        PROVE  p12Trusted \subseteq p12Trusted' /\ OtherCertificates(Set) \subseteq p12Trusted'
    BY <2>2, <2>3, CertificatesTyped DEF Collected
  <2>4. CASE Decoded(Set) /\ Skipped
    <3>1. Collected /\ NextSet
      BY <2>4 DEF Skipped
    <3>. QED  BY <2>1, <2>3, <2>4, <3>1, OneMoreCollected DEF InSets
  <2>5. CASE Decoded(Set) /\ ToBeStored
    <3>1. at' = "store" /\ UNCHANGED n /\ Collected
      BY <2>5 DEF ToBeStored
    <3>2. \A i \in 1 .. n : OtherCertificates(Todo[i].set) \subseteq p12Trusted
      BY <2>1 DEF TrustIsCollected, InSets
    <3>3. p12Trusted \subseteq p12Trusted' /\ OtherCertificates(Set) \subseteq p12Trusted'
      BY <2>3, <2>5, <3>1
    <3>4. UNCHANGED Set
      BY <3>1, InputStays
    <3>5. OtherCertificates(Set') \subseteq p12Trusted'
      BY <3>3, <3>4
    <3>6. \A i \in 1 .. n' : OtherCertificates(Todo'[i].set) \subseteq p12Trusted'
      BY <1>a, <3>1, <3>2, <3>3
    <3>. QED  BY <3>1, <3>5, <3>6 DEF TrustIsCollected, InSets, AfterSets, OtherCertificates
  <2>6. CASE at' = "failed"
    BY <2>6 DEF TrustIsCollected, InSets, AfterSets
  <2>. QED  BY <1>4, <2>4, <2>5, <2>6, CertEffect
<1>5. CASE StoreKeySet
  <2>1. at = "store" /\ UNCHANGED p12Trusted
    BY <1>5, StoreEffect
  <2>2. CASE Stored
    <3>1. NextSet
      BY <2>2 DEF Stored
    <3>2. OtherCertificates(Set) \subseteq p12Trusted
      BY <2>1 DEF TrustIsCollected
    <3>. QED  BY <2>1, <3>1, <3>2, OneMoreCollected DEF InSets
  <2>3. CASE at' = "failed"
    BY <2>3 DEF TrustIsCollected, InSets, AfterSets
  <2>. QED  BY <1>5, <2>2, <2>3, StoreEffect
<1>6. CASE ReadTrust
  <2>1. at = "trust" /\ at' = "truststore" /\ p12Trusted' = p12Trusted \union input.trust
    BY <1>6 DEF ReadTrust
  <2>2. Authorities \subseteq p12Trusted \union input.trust
    BY <2>1, AllCollected
  <2>. QED  BY <1>a, <2>1, <2>2 DEF TrustIsCollected, InSets, AfterSets
<1>7. CASE AddCertificatesToTruststore
  <2>1. at = "truststore" /\ at' = "cms" /\ UNCHANGED p12Trusted
    BY <1>7 DEF AddCertificatesToTruststore, knownVars
  <2>2. p12Trusted \subseteq p12'[TruststoreName].certs
    <3>1. CASE p12Trusted = {}
      BY <3>1
    <3>2. CASE p12Trusted # {}
      <4>1. TruststoreName \in DOMAIN p12
        BY <2>1 DEF TruststoreIsThere, AfterSets
      <4>2. p12 \in [DOMAIN p12 -> P12File]
        BY TypesAre DEF Typed
      <4>3. \A f \in P12File : p12Trusted \subseteq [f EXCEPT !.certs = @ \union p12Trusted].certs
        BY DEF P12File
      <4>4. p12' = [p12 EXCEPT ![TruststoreName] =
                      [p12[TruststoreName] EXCEPT !.certs = @ \union p12Trusted]]
        BY <1>7, <3>2 DEF AddCertificatesToTruststore
      <4>. QED  BY <4>1, <4>2, <4>3, <4>4
    <3>. QED  BY <3>1, <3>2
  <2>. QED  BY <1>a, <2>1, <2>2 DEF TrustIsCollected, InSets, AfterSets
<1>8. CASE AddCertificatesToCMSKeystore
  <2>1. /\ at \in {"cms", "configure", "web keystore", "web", "native HA"}
        /\ at' \in {"configure", "native HA", "web keystore", "web", "done", "failed"}
        /\ UNCHANGED p12Trusted
    BY <1>8 DEF AddCertificatesToCMSKeystore, knownVars
  <2>2. TruststoreName \in DOMAIN p12
    BY <2>1 DEF TruststoreIsThere, AfterSets
  <2>3. p12[TruststoreName].certs \subseteq p12'[TruststoreName].certs
    BY <2>2, TruststoreStays
  <2>. QED  BY <1>a, <2>1, <2>3 DEF TrustIsCollected, InSets, AfterSets
<1>9. CASE ConfigureTLS
  <2>1. /\ at \in {"cms", "configure", "web keystore", "web", "native HA"}
        /\ at' \in {"configure", "native HA", "web keystore", "web", "done", "failed"}
        /\ UNCHANGED p12Trusted
    BY <1>9 DEF ConfigureTLS, knownVars, AfterTLS
  <2>2. TruststoreName \in DOMAIN p12
    BY <2>1 DEF TruststoreIsThere, AfterSets
  <2>3. p12[TruststoreName].certs \subseteq p12'[TruststoreName].certs
    BY <2>2, TruststoreStays
  <2>. QED  BY <1>a, <2>1, <2>3 DEF TrustIsCollected, InSets, AfterSets
<1>10. CASE ConfigureWebKeystore
  <2>1. /\ at \in {"cms", "configure", "web keystore", "web", "native HA"}
        /\ at' \in {"configure", "native HA", "web keystore", "web", "done", "failed"}
        /\ UNCHANGED p12Trusted
    BY <1>10 DEF ConfigureWebKeystore, knownVars, Fail
  <2>2. TruststoreName \in DOMAIN p12
    BY <2>1 DEF TruststoreIsThere, AfterSets
  <2>3. p12[TruststoreName].certs \subseteq p12'[TruststoreName].certs
    BY <2>2, TruststoreStays
  <2>. QED  BY <1>a, <2>1, <2>3 DEF TrustIsCollected, InSets, AfterSets
<1>11. CASE ConfigureWebTLS
  <2>1. /\ at \in {"cms", "configure", "web keystore", "web", "native HA"}
        /\ at' \in {"configure", "native HA", "web keystore", "web", "done", "failed"}
        /\ UNCHANGED p12Trusted
    BY <1>11 DEF ConfigureWebTLS, knownVars
  <2>2. TruststoreName \in DOMAIN p12
    BY <2>1 DEF TruststoreIsThere, AfterSets
  <2>3. p12[TruststoreName].certs \subseteq p12'[TruststoreName].certs
    BY <2>2, TruststoreStays
  <2>. QED  BY <1>a, <2>1, <2>3 DEF TrustIsCollected, InSets, AfterSets
<1>12. CASE ConfigureNativeHA
  <2>1. /\ at \in {"cms", "configure", "web keystore", "web", "native HA"}
        /\ at' \in {"configure", "native HA", "web keystore", "web", "done", "failed"}
        /\ UNCHANGED p12Trusted
    BY <1>12 DEF ConfigureNativeHA, knownVars
  <2>2. TruststoreName \in DOMAIN p12
    BY <2>1 DEF TruststoreIsThere, AfterSets
  <2>3. p12[TruststoreName].certs \subseteq p12'[TruststoreName].certs
    BY <2>2, TruststoreStays
  <2>. QED  BY <1>a, <2>1, <2>3 DEF TrustIsCollected, InSets, AfterSets
<1>13. CASE UNCHANGED vars
  <2>1. UNCHANGED <<at, n, p12, p12Trusted>>
    BY <1>13 DEF vars, storeVars, knownVars
  <2>2. UNCHANGED Set
    BY <2>1, InputStays
  <2>3. OtherCertificates(Set') = OtherCertificates(Set)
    BY <2>2
  <2>4. \A i : OtherCertificates(Todo'[i].set) = OtherCertificates(Todo[i].set)
    BY <1>a
  <2>. QED  BY <1>a, <2>1, <2>3, <2>4 DEF TrustIsCollected, InSets, AfterSets, OtherCertificates
<1>. QED
  BY <1>1, <1>2, <1>3, <1>4, <1>5, <1>6, <1>7,
     <1>8, <1>9, <1>10, <1>11, <1>12, <1>13
  DEF Next

----------------------------------------------------------------------------
(* The configurations.                                                     *)

(* Behind the key sets, a directory has a label exactly if its first key   *)
(* set has a key, and that label names it.                                 *)
LEMMA LabelsThen ==
    ASSUME TypeOK, OnTheWay, LabelsMatch, AfterSets, NEW d \in DOMAIN input.keyDirs
    PROVE  /\ labels[d] # NoLabel <=> FirstKey(d) # NoKey
           /\ FirstKey(d) # NoKey =>
                HaveKeysAndCerts /\ NamesIn(cms.personal, labels[d], FirstKey(d))
<1>1. /\ Begun(d) => /\ labels[d] # NoLabel /\ FirstKey(d) \in Keys
                     /\ NamesIn(cms.personal, labels[d], FirstKey(d))
      /\ ~Begun(d) => labels[d] = NoLabel
  <2>1. Live
    BY DEF AfterSets, Live
  <2>. QED  BY <2>1 DEF LabelsMatch
<1>2. ASSUME FirstKey(d) # NoKey
      PROVE  HaveKeysAndCerts /\ Begun(d)
  <2>1. input.keyDirs[d] # <<>> /\ input.keyDirs[d][1].key # NoKey
    BY <1>2 DEF FirstKey
  <2>2. InTurn(input.keyDirs, Todo)
    BY TodoInTurn DEF TypeOK
  <2>3. PICK i \in 1 .. Len(Todo) : Todo[i].dir = d /\ Todo[i].set = input.keyDirs[d][1]
    BY <2>1, <2>2 DEF InTurn
  <2>4. i \in DOMAIN Todo
    BY <2>3, TodoIs
  <2>5. HaveKeysAndCerts
    BY <2>1, <2>3, <2>4 DEF HaveKeysAndCerts
  <2>6. n = Len(Todo)
    BY <2>5 DEF OnTheWay
  <2>. QED  BY <2>3, <2>5, <2>6 DEF Begun
<1>3. FirstKey(d) \in Keys => FirstKey(d) # NoKey
  BY NoneAssumption
<1>. QED  BY <1>1, <1>2, <1>3

LEMMA FIPSTyped ==
    ASSUME TypeOK
    PROVE  IsFIPSEnabled \in BOOLEAN
<1>1. input.env \in Env
  BY DEF TypeOK, IsInput
<1>. QED  BY <1>1 DEF Env, IsFIPSEnabled

(* The steps before the configurations.                                    *)
Before == {"generate", "key", "certs", "store", "trust", "truststore", "cms"}

NothingConfigured ==
    /\ UNCHANGED <<mqsc, web, ini>>
    /\ error' # error => error' # "web keystore"
    /\ \/ at' = "failed"
       \/ at \in Before /\ at' \in Before \union {"configure", "native HA"}

LEMMA ConfigsLast ==
    ASSUME TypeOK, StoresOK, SetInProgress, ReadyToStore, [Next]_vars
    PROVE  \/ ConfigureTLS \/ ConfigureWebKeystore \/ ConfigureWebTLS \/ ConfigureNativeHA
           \/ UNCHANGED vars
           \/ NothingConfigured
<1>1. CASE GenerateAllKeystores
  BY <1>1 DEF GenerateAllKeystores, NothingConfigured, Before, configVars
<1>2. CASE CommandFails
  BY <1>2 DEF CommandFails, Fail, NothingConfigured, configVars
<1>3. CASE ProcessPrivateKey
  BY <1>3, KeyEffect DEF KeyFound, NothingConfigured, Before
<1>4. CASE ProcessCertificates
  <2>1. at = "certs" /\ UNCHANGED <<mqsc, web, ini>>
    BY <1>4, CertEffect
  <2>2. CASE Skipped
    <3>1. at' \in {"key", "trust"} /\ UNCHANGED error
      BY <2>1, <2>2, NextSetGoes DEF Skipped, InSets
    <3>. QED  BY <2>1, <3>1 DEF NothingConfigured, Before
  <2>3. CASE ToBeStored
    BY <2>1, <2>3 DEF ToBeStored, NothingConfigured, Before
  <2>4. CASE at' = "failed" /\ error' \in {"decode", "no certificate", "subject"}
    BY <2>1, <2>4 DEF NothingConfigured
  <2>. QED  BY <1>4, <2>2, <2>3, <2>4, CertEffect
<1>5. CASE StoreKeySet
  <2>1. at = "store" /\ UNCHANGED <<mqsc, web, ini>>
    BY <1>5, StoreEffect
  <2>2. CASE Stored
    <3>1. at' \in {"key", "trust"} /\ UNCHANGED error
      BY <2>1, <2>2, NextSetGoes DEF Stored, InSets
    <3>. QED  BY <2>1, <3>1 DEF NothingConfigured, Before
  <2>3. CASE at' = "failed" /\ error' = "relabel"
    BY <2>1, <2>3 DEF NothingConfigured
  <2>. QED  BY <1>5, <2>2, <2>3, StoreEffect
<1>6. CASE ReadTrust
  BY <1>6 DEF ReadTrust, NothingConfigured, Before, configVars
<1>7. CASE AddCertificatesToTruststore
  BY <1>7 DEF AddCertificatesToTruststore, NothingConfigured, Before, configVars
<1>8. CASE AddCertificatesToCMSKeystore
  BY <1>8 DEF AddCertificatesToCMSKeystore, NothingConfigured, Before, configVars
<1>. QED
  BY <1>1, <1>2, <1>3, <1>4, <1>5, <1>6, <1>7, <1>8 DEF Next

(* The MQSC has a key ring exactly if there is a key and the keystore      *)
(* could be listed.                                                        *)
LEMMA MQSCStep ==
    ASSUME TypeOK, StoresOK, OnTheWay, SetInProgress, ReadyToStore, LabelsMatch, MQSCFits,
           [Next]_vars
    PROVE  MQSCFits'
<1>a. UNCHANGED <<input, IsFIPSEnabled, FirstKey(1)>>
  BY InputStays
<1>1. CASE ConfigureTLS
  <2>. DEFINE keys == cms.exists /\ labels[1] # NoLabel
              stored == cms.personal \union cms.others # {}
  <2>0. at = "configure" /\ UNCHANGED labels
    BY <1>1 DEF ConfigureTLS
  <2>1. PICK listed \in BOOLEAN :
          mqsc' = [keyRing |-> keys /\ listed /\ stored, label |-> labels[1],
                   fips |-> keys /\ IsFIPSEnabled, listed |-> listed]
    BY <1>1 DEF ConfigureTLS
  <2>2. AfterSets /\ 1 \in DOMAIN input.keyDirs
    BY <2>0, OneAtLeast DEF AfterSets
  <2>3. cms.exists <=> HaveKeysAndCerts
    BY <2>2 DEF OnTheWay
  <2>4. /\ labels[1] # NoLabel <=> FirstKey(1) # NoKey
        /\ FirstKey(1) # NoKey =>
             HaveKeysAndCerts /\ NamesIn(cms.personal, labels[1], FirstKey(1))
    BY <2>2, LabelsThen
  <2>5. FirstKey(1) # NoKey => stored
    BY <2>4 DEF NamesIn
  <2>6. keys /\ stored <=> FirstKey(1) # NoKey
    BY <2>3, <2>4, <2>5
  <2>7. /\ mqsc'.keyRing = (keys /\ listed /\ stored)
        /\ mqsc'.fips = (keys /\ IsFIPSEnabled)
        /\ mqsc'.label = labels[1] /\ mqsc'.listed = listed
    BY <2>1
  <2>8. mqsc'.label = labels'[1] /\ (mqsc'.keyRing <=> FirstKey(1) # NoKey /\ mqsc'.listed)
    BY <2>0, <2>6, <2>7
  <2>9. mqsc'.keyRing => (mqsc'.fips <=> IsFIPSEnabled)
    BY <2>7, FIPSTyped
  <2>. QED  BY <1>a, <2>8, <2>9 DEF MQSCFits
<1>2. CASE ConfigureWebKeystore
  <2>1. at = "web keystore" /\ UNCHANGED <<mqsc, labels>>
    BY <1>2 DEF ConfigureWebKeystore
  <2>. QED  BY <1>a, <2>1 DEF MQSCFits
<1>3. CASE ConfigureWebTLS
  <2>1. at = "web" /\ UNCHANGED <<mqsc, labels>>
    BY <1>3 DEF ConfigureWebTLS
  <2>. QED  BY <1>a, <2>1 DEF MQSCFits
<1>4. CASE ConfigureNativeHA
  <2>1. ~input.truststore
    BY <1>4 DEF ConfigureNativeHA, OnTheWay
  <2>. QED  BY <1>a, <2>1 DEF MQSCFits
<1>5. CASE UNCHANGED vars
  <2>1. UNCHANGED <<at, mqsc, labels>>
    BY <1>5 DEF vars, configVars
  <2>. QED  BY <1>a, <2>1 DEF MQSCFits
<1>6. CASE NothingConfigured
  <2>1. at' \notin {"web keystore", "web", "done"}
    BY <1>6 DEF NothingConfigured, Before
  <2>. QED  BY <2>1 DEF MQSCFits
<1>. QED  BY <1>1, <1>2, <1>3, <1>4, <1>5, <1>6, ConfigsLast

(* The label of the queue manager's key names a file: ConfigureWebKeystore *)
(* does not look for one in vain.                                          *)
LEMMA LabelIsAFile ==
    ASSUME TypeOK, OnTheWay, LabelsMatch, FilesMatch, AfterSets,
           NEW d \in DOMAIN input.keyDirs, FirstKey(d) # NoKey
    PROVE  labels[d] \in DOMAIN p12 /\ p12[labels[d]].key = FirstKey(d)
<1>1. NamesIn(cms.personal, labels[d], FirstKey(d))
  BY LabelsThen
<1>2. Live
  BY DEF AfterSets, Live
<1>. QED  BY <1>1, <1>2 DEF NamesIn, FilesMatch

(* The web server's configuration follows the label, the environment and   *)
(* the truststore.                                                         *)
LEMMA WebStep ==
    ASSUME TypeOK, StoresOK, OnTheWay, SetInProgress, ReadyToStore, FilesMatch, LabelsMatch,
           WebFits, [Next]_vars
    PROVE  WebFits'
<1>a. UNCHANGED <<input, IsFIPSEnabled>>
  BY InputStays
<1>b. web \in Web /\ error # "web keystore"
  BY TypesAre DEF Typed, WebFits
<1>1. CASE ConfigureTLS
  <2>1. /\ at = "configure" /\ UNCHANGED <<web, error>>
        /\ at' = IF input.env.web THEN "web keystore" ELSE "done"
    BY <1>1 DEF ConfigureTLS, AfterTLS
  <2>. QED  BY <1>a, <1>b, <2>1 DEF WebFits
<1>2. CASE ConfigureWebKeystore
  <2>1. at = "web keystore" /\ UNCHANGED <<labels, input>>
    BY <1>2 DEF ConfigureWebKeystore
  <2>2. web = DefaultWeb
    BY <2>1 DEF WebFits
  <2>3. UNCHANGED WebKeystore
    BY <2>1 DEF WebKeystore
  <2>4. labels[1] # NoLabel => labels[1] \in DOMAIN p12
    <3>1. AfterSets /\ 1 \in DOMAIN input.keyDirs
      BY <2>1, OneAtLeast DEF AfterSets
    <3>. QED  BY <3>1, LabelsThen, LabelIsAFile
  <2>5. at' = "web" /\ UNCHANGED error
    BY <1>2, <2>4 DEF ConfigureWebKeystore
  <2>6. web'.keystore = WebKeystore
    <3>1. CASE labels[1] # NoLabel
      <4>1. web' = [web EXCEPT !.fips = IsFIPSEnabled, !.keystore = labels[1]]
        BY <1>2, <2>4, <3>1 DEF ConfigureWebKeystore
      <4>. QED  BY <1>b, <3>1, <4>1 DEF Web, WebKeystore
    <3>2. CASE labels[1] = NoLabel /\ input.env.hostname
      <4>1. web' = [web EXCEPT !.fips = IsFIPSEnabled, !.keystore = DefaultKeystore]
        BY <1>2, <3>2 DEF ConfigureWebKeystore
      <4>. QED  BY <1>b, <3>2, <4>1 DEF Web, WebKeystore
    <3>3. CASE labels[1] = NoLabel /\ ~input.env.hostname
      <4>1. web' = [web EXCEPT !.fips = IsFIPSEnabled]
        BY <1>2, <3>3 DEF ConfigureWebKeystore
      <4>. QED  BY <2>2, <3>3, <4>1 DEF DefaultWeb, WebKeystore
    <3>. QED  BY <3>1, <3>2, <3>3
  <2>7. web'.fips = IsFIPSEnabled /\ web'.truststoreRef = NoLabel
    <3>1. \/ web' = [web EXCEPT !.fips = IsFIPSEnabled, !.keystore = labels[1]]
          \/ web' = [web EXCEPT !.fips = IsFIPSEnabled, !.keystore = DefaultKeystore]
          \/ web' = [web EXCEPT !.fips = IsFIPSEnabled]
      BY <1>2, <2>4 DEF ConfigureWebKeystore
    <3>. QED  BY <2>2, <3>1 DEF DefaultWeb
  <2>8. labels[1] = NoLabel /\ input.env.hostname =>
          DefaultKeystore \in DOMAIN p12' /\ p12'[DefaultKeystore].key = SelfSigned
    <3>1. SUFFICES ASSUME labels[1] = NoLabel, input.env.hostname
                   PROVE  DefaultKeystore \in DOMAIN p12'
                          /\ p12'[DefaultKeystore].key = SelfSigned
      OBVIOUS
    <3>2. p12' = [f \in DOMAIN p12 \union {DefaultKeystore} |->
                    IF f = DefaultKeystore THEN [key |-> SelfSigned, certs |-> {}]
                    ELSE p12[f]]
      BY <1>2, <3>1 DEF ConfigureWebKeystore
    <3>. QED  BY <3>2
  <2>9. web'.fips <=> IsFIPSEnabled
    BY <2>7
  <2>. QED  BY <1>a, <1>b, <2>1, <2>3, <2>5, <2>6, <2>7, <2>8, <2>9 DEF WebFits
<1>3. CASE ConfigureWebTLS
  <2>1. /\ at = "web" /\ at' = "done"
        /\ UNCHANGED <<labels, input, p12, p12Trusted, error>>
    BY <1>3 DEF ConfigureWebTLS, storeVars, knownVars
  <2>2. input.truststore /\ input.env.web
    BY <2>1 DEF OnTheWay
  <2>3. /\ web.keystore = WebKeystore /\ web.truststoreRef = NoLabel
        /\ web.fips <=> IsFIPSEnabled
        /\ labels[1] = NoLabel /\ input.env.hostname =>
             DefaultKeystore \in DOMAIN p12 /\ p12[DefaultKeystore].key = SelfSigned
    BY <2>1, <2>2 DEF WebFits
  <2>4. UNCHANGED WebKeystore
    BY <2>1 DEF WebKeystore
  <2>5. WebKeystore = NoLabel <=> labels[1] = NoLabel /\ ~input.env.hostname
    <3>1. DefaultKeystore # NoLabel
      BY DEF DefaultKeystore, NoLabel
    <3>. QED  BY <3>1 DEF WebKeystore
  <2>6. CASE WebKeystore = NoLabel
    <3>1. UNCHANGED web
      BY <1>3, <2>5, <2>6 DEF ConfigureWebTLS
    <3>. QED  BY <1>a, <1>b, <2>1, <2>3, <2>4, <2>6, <3>1 DEF WebFits
  <2>7. CASE WebKeystore # NoLabel
    <3>1. PICK encoded \in BOOLEAN :
            web' = [web EXCEPT !.truststoreRef = WebTruststoreRef, !.password = encoded]
      BY <1>3, <2>5, <2>7 DEF ConfigureWebTLS
    <3>2. /\ web'.keystore = web.keystore /\ web'.fips = web.fips
          /\ web'.truststoreRef = WebTruststoreRef
      BY <1>b, <3>1 DEF Web
    <3>3. UNCHANGED WebTruststoreRef
      BY <2>1, <3>2 DEF WebTruststoreRef
    <3>. QED  BY <1>a, <1>b, <2>1, <2>3, <2>4, <2>7, <3>2, <3>3 DEF WebFits
  <2>. QED  BY <2>6, <2>7
<1>4. CASE ConfigureNativeHA
  <2>1. ~input.truststore /\ at' = "done" /\ UNCHANGED error
    BY <1>4 DEF ConfigureNativeHA, OnTheWay
  <2>. QED  BY <1>a, <1>b, <2>1 DEF WebFits
<1>5. CASE UNCHANGED vars
  <2>1. UNCHANGED <<at, input, p12, p12Trusted, labels, web, error>>
    BY <1>5 DEF vars, storeVars, knownVars, configVars
  <2>2. UNCHANGED <<WebKeystore, WebTruststoreRef>>
    BY <2>1 DEF WebKeystore, WebTruststoreRef
  <2>. QED  BY <1>a, <2>1, <2>2 DEF WebFits
<1>6. CASE NothingConfigured
  <2>1. UNCHANGED web /\ error' # "web keystore" /\ at' \notin {"web", "done"}
    BY <1>b, <1>6 DEF NothingConfigured, Before
  <2>2. at' # "failed" => web = DefaultWeb
    BY <1>6 DEF NothingConfigured, Before, WebFits
  <2>. QED  BY <2>1, <2>2 DEF WebFits
<1>. QED  BY <1>1, <1>2, <1>3, <1>4, <1>5, <1>6, ConfigsLast

(* The Native HA files are written last, from the labels.                  *)
LEMMA NativeHAStep ==
    ASSUME TypeOK, StoresOK, OnTheWay, SetInProgress, ReadyToStore, LabelsMatch,
           NativeHAIdentity, [Next]_vars
    PROVE  NativeHAIdentity'
<1>a. UNCHANGED <<input, FirstKey(1), FirstKey(2)>>
  BY InputStays
<1>1. CASE ConfigureNativeHA
  <2>. DEFINE pair == [CertificateLabel |-> labels[1], GroupCertificateLabel |-> labels[2]]
              native == [CipherSpec |-> ShouldConfigureTLS,
                         GroupName |-> ShouldConfigureTLS /\ input.env.group]
  <2>1. /\ at = "native HA" /\ UNCHANGED cms
        /\ ini' = [instance |-> [SSLFipsRequired |-> IsFIPSEnabled],
                   keystore |-> IF HATLSEnabled THEN pair ELSE <<>>,
                   nativeHA |-> IF input.env.instances THEN native ELSE <<>>]
    BY <1>1 DEF ConfigureNativeHA, storeVars
  <2>2. AfterSets /\ ~input.truststore
    BY <2>1 DEF OnTheWay, AfterSets
  <2>3. 1 \in DOMAIN input.keyDirs /\ 2 \in DOMAIN input.keyDirs
    <3>1. IsInput(input)
      BY DEF TypeOK
    <3>2. input.keyDirs \in Seq(Seq(KeySet)) /\ Len(input.keyDirs) = 2
      BY <2>2, <3>1 DEF IsInput
    <3>. QED  BY <3>2
  <2>4. \A d \in {1, 2} :
          /\ labels[d] # NoLabel <=> FirstKey(d) # NoKey
          /\ FirstKey(d) # NoKey => NamesIn(cms.personal, labels[d], FirstKey(d))
    BY <2>2, <2>3, LabelsThen
  <2>5. HATLSEnabled <=> \E d \in {1, 2} : FirstKey(d) # NoKey
    BY <2>4 DEF HATLSEnabled
  <2>6. pair # <<>> /\ native # <<>>
    OBVIOUS
  <2>7. /\ ini'.keystore = IF HATLSEnabled THEN pair ELSE <<>>
        /\ ini'.nativeHA = IF input.env.instances THEN native ELSE <<>>
    BY <2>1
  <2>8. pair.CertificateLabel = labels[1] /\ pair.GroupCertificateLabel = labels[2]
    OBVIOUS
  <2>9. HATLSEnabled => native.CipherSpec
    BY DEF ShouldConfigureTLS
  <2>. HIDE DEF pair, native
  <2>10. ini'.keystore # <<>> <=> \E d \in {1, 2} : FirstKey(d) # NoKey
    BY <2>5, <2>6, <2>7
  <2>11. FirstKey(1) # NoKey =>
           NamesIn(cms.personal', ini'.keystore.CertificateLabel, FirstKey(1))
    BY <2>1, <2>4, <2>5, <2>7, <2>8
  <2>12. FirstKey(2) # NoKey =>
           NamesIn(cms.personal', ini'.keystore.GroupCertificateLabel, FirstKey(2))
    BY <2>1, <2>4, <2>5, <2>7, <2>8
  <2>13. ini'.keystore # <<>> /\ ini'.nativeHA # <<>> => ini'.nativeHA.CipherSpec
    BY <2>6, <2>7, <2>9
  <2>14. (\E d \in {1, 2} : FirstKey(d)' # NoKey) <=> \E d \in {1, 2} : FirstKey(d) # NoKey
    BY <1>a
  <2>. QED  BY <1>a, <2>10, <2>11, <2>12, <2>13, <2>14 DEF NativeHAIdentity, Names, NamesIn
<1>2. CASE UNCHANGED vars
  <2>1. UNCHANGED <<at, input, cms, ini>>
    BY <1>2 DEF vars, storeVars, configVars
  <2>. QED  BY <1>a, <2>1 DEF NativeHAIdentity, Names
<1>3. CASE ConfigureTLS
  <2>1. input.truststore
    BY <1>3 DEF ConfigureTLS, OnTheWay
  <2>. QED  BY <1>a, <2>1 DEF NativeHAIdentity
<1>4. CASE ConfigureWebKeystore
  <2>1. input.truststore
    BY <1>4 DEF ConfigureWebKeystore, OnTheWay
  <2>. QED  BY <1>a, <2>1 DEF NativeHAIdentity
<1>5. CASE ConfigureWebTLS
  <2>1. input.truststore
    BY <1>5 DEF ConfigureWebTLS, OnTheWay
  <2>. QED  BY <1>a, <2>1 DEF NativeHAIdentity
<1>6. CASE NothingConfigured
  <2>1. at' # "done"
    BY <1>6 DEF NothingConfigured, Before
  <2>. QED  BY <2>1 DEF NativeHAIdentity
<1>. QED  BY <1>1, <1>2, <1>3, <1>4, <1>5, <1>6, ConfigsLast

----------------------------------------------------------------------------
(* The invariant.                                                          *)

LEMMA KeysInit == Init => KeysInv
<1>. SUFFICES ASSUME Init PROVE KeysInv
  OBVIOUS
<1>1. IsInput(input) /\ at = "generate" /\ n = 0 /\ previous = NoLabel /\ error = "none"
  BY InputsAssumption DEF Init
<1>2. /\ cms = [exists |-> FALSE, personal |-> {}, others |-> {}]
      /\ p12 = <<>> /\ lookup = <<>> /\ known = {} /\ cmsTrusted = {} /\ p12Trusted = {}
  BY DEF Init
<1>3. /\ labels = [d \in DOMAIN input.keyDirs |-> NoLabel]
      /\ mqsc = [keyRing |-> FALSE, label |-> NoLabel, fips |-> FALSE, listed |-> FALSE]
      /\ web = DefaultWeb
  BY DEF Init
<1>4. n \in 0 .. Len(Todo)
  <2>1. InTurn(input.keyDirs, Todo)
    BY <1>1, TodoInTurn
  <2>2. Len(Todo) \in Nat
    BY <2>1 DEF InTurn
  <2>. QED  BY <1>1, <2>2
<1>5. TypeOK
  BY <1>1, <1>2, <1>3, <1>4 DEF TypeOK
<1>6. StoresOK
  <2>1. cms \in [exists : BOOLEAN, personal : SUBSET Personal, others : SUBSET Certs]
    BY <1>2
  <2>2. p12 \in [DOMAIN p12 -> P12File] /\ lookup \in [DOMAIN lookup -> STRING \ {NoLabel}]
    BY <1>2
  <2>3. NoLabel \in Label
    BY DEF Label
  <2>. QED  BY <1>3, <2>1, <2>2, <2>3 DEF StoresOK, DefaultWeb
<1>7. OnTheWay /\ SetInProgress /\ ReadyToStore
  BY <1>1, <1>2 DEF OnTheWay, SetInProgress, ReadyToStore, InSets, InSet, AfterSets
<1>8. LookupNames /\ FilesMatch
  BY <1>2 DEF LookupNames, FilesMatch
<1>9. LabelsMatch
  <2>1. \A i \in 1 .. n : FALSE
    BY <1>1
  <2>. QED  BY <1>2, <1>3, <2>1 DEF LabelsMatch, Begun
<1>10. KnownIsHeld /\ TrustIsCollected /\ TruststoreIsThere /\ NoKeyInTruststore
  <2>1. \A i \in 1 .. n : FALSE
    BY <1>1
  <2>. QED
    BY <1>1, <1>2, <2>1
    DEF KnownIsHeld, TrustIsCollected, TruststoreIsThere, NoKeyInTruststore, InSets, AfterSets
<1>11. MQSCFits /\ WebFits /\ NativeHAIdentity
  BY <1>1, <1>3 DEF MQSCFits, WebFits, NativeHAIdentity
<1>. QED  BY <1>5, <1>6, <1>7, <1>8, <1>9, <1>10, <1>11 DEF KeysInv

LEMMA KeysStep == KeysInv /\ [Next]_vars => KeysInv'
<1>. SUFFICES ASSUME KeysInv, [Next]_vars PROVE KeysInv'
  OBVIOUS
<1>1. TypeOK /\ StoresOK /\ OnTheWay /\ SetInProgress /\ ReadyToStore
  BY DEF KeysInv
<1>2. TypeOK' /\ StoresOK' /\ OnTheWay'
  BY <1>1, TypesStep, OnTheWayStep
<1>3. SetInProgress' /\ ReadyToStore' /\ LookupNames'
  BY <1>1, ProgressStep, LookupStep DEF KeysInv
<1>4. FilesMatch' /\ LabelsMatch'
  BY <1>1, FilesStep, LabelsStep DEF KeysInv
<1>5. KnownIsHeld' /\ TrustIsCollected' /\ TruststoreIsThere' /\ NoKeyInTruststore'
  BY <1>1, KnownStep, TrustStep, TruststoreStep DEF KeysInv
<1>6. MQSCFits' /\ WebFits' /\ NativeHAIdentity'
  BY <1>1, MQSCStep, WebStep, NativeHAStep DEF KeysInv
<1>. QED  BY <1>2, <1>3, <1>4, <1>5, <1>6 DEF KeysInv

(* The invariant of processKeys and of what is made of its results holds   *)
(* in every reachable state.                                               *)
THEOREM KeysInvariant == Spec => []KeysInv
<1>. QED  BY KeysInit, KeysStep, PTL DEF Spec

(* For any directories: the label that processKeys returns for a directory *)
(* names the key of its first key set, in the CMS keystore and in the      *)
(* PKCS#12 file, it is the queue manager's label, and the MQSC has a key   *)
(* ring exactly if there is a key and the keystore could be listed.        *)
THEOREM LabelsNameKeys == Spec => []LabelNamesFirstKey
<1>1. KeysInv => LabelNamesFirstKey
  <2>. SUFFICES ASSUME KeysInv PROVE LabelNamesFirstKey
    OBVIOUS
  <2>1. TypeOK /\ OnTheWay /\ LabelsMatch /\ FilesMatch /\ MQSCFits
    BY DEF KeysInv
  <2>2. ASSUME at = "done", NEW d \in DOMAIN input.keyDirs, FirstKey(d) # NoKey
        PROVE  Names(labels[d], FirstKey(d)) /\ p12[labels[d]].key = FirstKey(d)
    <3>1. AfterSets
      BY <2>2 DEF AfterSets
    <3>2. NamesIn(cms.personal, labels[d], FirstKey(d))
      BY <2>1, <2>2, <3>1, LabelsThen
    <3>. QED  BY <2>1, <2>2, <3>1, <3>2, LabelIsAFile DEF Names, NamesIn
  <2>3. at = "done" /\ input.truststore =>
          /\ mqsc.label = labels[1]
          /\ mqsc.keyRing <=> FirstKey(1) # NoKey /\ mqsc.listed
    BY <2>1 DEF MQSCFits
  <2>. QED  BY <2>1, <2>2, <2>3 DEF LabelNamesFirstKey
<1>. QED  BY <1>1, KeysInvariant, PTL

(* For any directories: no certificate of the trust directory, nor of an   *)
(* authority in a key set, is lost on the way through KnownFingerPrints    *)
(* and TrustedCerts.                                                       *)
THEOREM NoTrustIsLost == Spec => []TrustKept
<1>1. KeysInv => TrustKept
  <2>. SUFFICES ASSUME KeysInv, at = "done" PROVE
         /\ input.trust # {} => cms.exists
         /\ input.trust \subseteq
              cms.others \union {e.cert : e \in cms.personal}
                \union UNION {Overridden(Todo[i].set) : i \in DOMAIN Todo}
         /\ input.truststore => Authorities \subseteq p12[TruststoreName].certs
    BY DEF TrustKept
  <2>1. AfterSets /\ OnTheWay /\ KnownIsHeld /\ TrustIsCollected
    BY DEF KeysInv, AfterSets
  <2>2. input.trust # {} => cms.exists
    BY <2>1 DEF OnTheWay, HaveKeysAndCerts
  <2>3. input.trust \subseteq Held
    BY <2>1 DEF KnownIsHeld
  <2>4. input.truststore => Authorities \subseteq p12[TruststoreName].certs
    BY <2>1 DEF TrustIsCollected
  <2>. QED  BY <2>2, <2>3, <2>4 DEF Held
<1>. QED  BY <1>1, KeysInvariant, PTL

(* For any directories, whatever their key sets are called: no private key *)
(* gets into the truststore.                                               *)
THEOREM TruststoreHasNoKey == Spec => []NoKeyInTruststore
<1>1. KeysInv => NoKeyInTruststore
  BY DEF KeysInv
<1>. QED  BY <1>1, KeysInvariant, PTL

(* For any directories and environment: the web server's configuration     *)
(* names a file that is there, with the queue manager's key or one of its  *)
(* own, and a truststore with every authority.                             *)
THEOREM WebServerHasItsKey == Spec => []WebServerIdentity
<1>1. KeysInv => WebServerIdentity
  <2>. SUFFICES ASSUME KeysInv PROVE WebServerIdentity
    OBVIOUS
  <2>1. TypeOK /\ OnTheWay /\ LabelsMatch /\ FilesMatch /\ MQSCFits /\ WebFits
        /\ TrustIsCollected
    BY DEF KeysInv
  <2>2. SUFFICES ASSUME at = "done", input.truststore, input.env.web
                 PROVE  /\ IF WebKey = NoKey
                           THEN web.keystore = NoLabel /\ web.truststoreRef = NoLabel
                           ELSE /\ p12[web.keystore].key = WebKey
                                /\ Authorities \subseteq p12[web.truststoreRef].certs
                        /\ mqsc.keyRing => (mqsc.fips <=> web.fips)
    BY <2>1 DEF WebFits, WebServerIdentity
  <2>3. /\ web.keystore = WebKeystore /\ (web.fips <=> IsFIPSEnabled)
        /\ labels[1] = NoLabel /\ input.env.hostname =>
             p12[DefaultKeystore].key = SelfSigned
        /\ web.truststoreRef = IF WebKeystore = NoLabel THEN NoLabel ELSE WebTruststoreRef
    BY <2>1, <2>2 DEF WebFits
  <2>4. mqsc.keyRing => (mqsc.fips <=> web.fips)
    BY <2>1, <2>2, <2>3 DEF MQSCFits
  <2>5. AfterSets /\ 1 \in DOMAIN input.keyDirs
    BY <2>1, <2>2, OneAtLeast DEF AfterSets
  <2>6. /\ labels[1] # NoLabel <=> FirstKey(1) # NoKey
        /\ FirstKey(1) # NoKey => p12[labels[1]].key = FirstKey(1)
    BY <2>1, <2>5, LabelsThen, LabelIsAFile
  <2>7. WebKeystore # NoLabel => Authorities \subseteq p12[web.truststoreRef].certs
    BY <2>1, <2>2, <2>3, <2>5 DEF TrustIsCollected, WebTruststoreRef
  <2>8. CASE FirstKey(1) # NoKey
    BY <2>3, <2>4, <2>6, <2>7, <2>8 DEF WebKey, WebKeystore
  <2>9. CASE FirstKey(1) = NoKey /\ input.env.hostname
    <3>1. WebKey = SelfSigned /\ SelfSigned # NoKey
      BY <2>9, SelfSignedAssumption DEF WebKey
    <3>2. WebKeystore = DefaultKeystore /\ DefaultKeystore # NoLabel
      BY <2>6, <2>9 DEF WebKeystore, DefaultKeystore, NoLabel
    <3>. QED  BY <2>3, <2>4, <2>6, <2>7, <2>9, <3>1, <3>2
  <2>10. CASE FirstKey(1) = NoKey /\ ~input.env.hostname
    <3>1. WebKey = NoKey /\ WebKeystore = NoLabel
      BY <2>6, <2>10 DEF WebKey, WebKeystore
    <3>. QED  BY <2>3, <2>4, <3>1
  <2>. QED  BY <2>8, <2>9, <2>10
<1>. QED  BY <1>1, KeysInvariant, PTL

(* For any two directories and environment: the Native HA files name a key *)
(* repository exactly if there is a key, each label names its own key, and *)
(* the ciphers are there with it.                                          *)
THEOREM NativeHAFilesFit == Spec => []NativeHAIdentity
<1>1. KeysInv => NativeHAIdentity
  BY DEF KeysInv
<1>. QED  BY <1>1, KeysInvariant, PTL
============================================================================
