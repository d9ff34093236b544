------------------------------ MODULE Keystores ------------------------------
(***************************************************************************)
(* internal/tls: the key databases that runmqserver builds at startup out  *)
(* of the directories of keys and certificates it is given, and the        *)
(* configurations it then makes of them: the MQSC of the queue manager,    *)
(* the web server's (tls_web.go) and that of Native HA (internal/ha), each *)
(* with the FIPS setting of internal/fips.                                 *)
(*                                                                         *)
(* Each key directory holds key sets (a private key and certificates), the *)
(* trust directory holds certificates.  Keys go into one CMS keystore and, *)
(* each, into a PKCS#12 file of its own; certificates of authorities go    *)
(* into the CMS keystore and the PKCS#12 truststore.  The default          *)
(* configuration has one key directory and a truststore, the Native HA one *)
(* two key directories and none.  The key databases themselves (runmqakm)  *)
(* are external: sets of entries.  Templates are records of what they are  *)
(* filled with.                                                            *)
(***************************************************************************)
EXTENDS Naturals, Sequences, SequencesExt

CONSTANTS
    Keys,     \* private keys
    Certs,    \* certificates, one per subject
    Inputs,   \* the directories: see IsInput
    NoKey, NoCert,
    SelfSigned,  \* the key of a certificate made for the web server
    Validate  \* MQ_ENABLE_CERT_VALIDATION is not "false"

TruststoreName == "trust"
NoLabel == ""

(* A key set: the name of its directory, its key, and its .crt files: of   *)
(* each, whether its name begins with that of the .key file, and the       *)
(* certificates in it.                                                     *)
CrtFile == [prefixed : BOOLEAN, certs : Seq(Certs)]
KeySet == [name : STRING \ {NoLabel}, key : Keys \union {NoKey}, files : Seq(CrtFile)]

(* The environment: FIPS in the kernel, MQ_ENABLE_FIPS, the embedded web   *)
(* server, MQ_GENERATE_CERTIFICATE_HOSTNAME, the variables that            *)
(* envConfigPresent looks for, and MQ_NATIVE_HA_GROUP_LOCAL_NAME.          *)
Env == [platform : BOOLEAN, MQ_ENABLE_FIPS : {"unset", "true", "false", "auto"},
        web : BOOLEAN, hostname : BOOLEAN, instances : BOOLEAN, group : BOOLEAN]

(* The directories are what os.ReadDir returns of them: a directory that   *)
(* cannot be listed counts as empty, its error being ignored, and lists    *)
(* the same each time it is read.                                          *)
IsInput(in) ==
    /\ in \in [env : Env, keyDirs : Seq(Seq(KeySet)), trust : SUBSET Certs,
               truststore : BOOLEAN]
    /\ Len(in.keyDirs) = IF in.truststore THEN 1 ELSE 2

ASSUME InputsAssumption == \A in \in Inputs : IsInput(in)
ASSUME NoneAssumption == NoKey \notin Keys /\ NoCert \notin Certs
ASSUME SelfSignedAssumption == SelfSigned \notin Keys \union {NoKey}

VARIABLES
    input,       \* the directories
    at,          \* the step that comes next
    n,           \* how many key sets have been processed
    cms,         \* the CMS keystore: whether it exists, its personal
                 \* certificates (label, key, cert), the others
    p12,         \* the PKCS#12 files by name: a key and certificates
    lookup,      \* keyLabelLookup: the key set each private key was first in
    known,       \* KnownFingerPrints of the CMS keystore
    cmsTrusted,  \* TrustedCerts of the CMS keystore
    p12Trusted,  \* TrustedCerts (and KnownFingerPrints) of the truststore
    previous,    \* previousLabel of the current key set
    labels,      \* the labels returned for the key directories
    mqsc,        \* 15-tls.mqsc: whether SSLKEYR is set, CERTLABL, SSLFIPS, and
                 \* whether the keystore could be listed for it (a history)
    web,         \* the web server's: tls.xml and jvm.options
    ini,         \* the Native HA files, as far as they are written
    error        \* why it has failed

storeVars == <<cms, p12>>
knownVars == <<lookup, known, cmsTrusted, p12Trusted>>
configVars == <<mqsc, web, ini>>
vars == <<input, at, n, storeVars, knownVars, previous, labels, configVars, error>>

(* The key sets in the order in which they are processed.                  *)
Todo ==
    FlattenSeq([d \in DOMAIN input.keyDirs |->
        [i \in DOMAIN input.keyDirs[d] |->
            [dir |-> d, set |-> input.keyDirs[d][i]]]])

Set == Todo[n + 1].set
Dir == Todo[n + 1].dir

EmptyStore == [key |-> NoKey, certs |-> {}]

TypeOK ==
    /\ IsInput(input)
    /\ at \in {"generate", "key", "certs", "store", "trust", "truststore",
               "cms", "configure", "web keystore", "web", "native HA", "done",
               "failed"}
    /\ n \in 0 .. Len(Todo)
    /\ at \in {"key", "certs", "store"} => n < Len(Todo)
    /\ cms.exists \in BOOLEAN
    /\ cms.others \subseteq Certs
    /\ \A e \in cms.personal : e.key \in Keys /\ e.cert \in Certs
    /\ known \subseteq Certs /\ cmsTrusted \subseteq Certs
    /\ p12Trusted \subseteq Certs
    /\ mqsc.keyRing \in BOOLEAN /\ mqsc.fips \in BOOLEAN /\ mqsc.listed \in BOOLEAN

(* The default tls.xml and jvm.options.                                    *)
DefaultWeb == [keystore |-> NoLabel, truststoreRef |-> NoLabel, password |-> FALSE,
               fips |-> FALSE]

Init ==
    /\ input \in Inputs
    /\ at = "generate"
    /\ n = 0
    /\ cms = [exists |-> FALSE, personal |-> {}, others |-> {}]
    /\ p12 = <<>>
    /\ lookup = <<>>
    /\ known = {} /\ cmsTrusted = {} /\ p12Trusted = {}
    /\ previous = NoLabel
    /\ labels = [d \in DOMAIN input.keyDirs |-> NoLabel]
    /\ mqsc = [keyRing |-> FALSE, label |-> NoLabel, fips |-> FALSE, listed |-> FALSE]
    /\ web = DefaultWeb
    /\ ini = <<>>
    /\ error = "none"

Fail(why) ==
    /\ at' = "failed"
    /\ error' = why

----------------------------------------------------------------------------
(* haveKeysAndCerts of some directory.                                     *)
HaveKeysAndCerts ==
    \/ \E i \in DOMAIN Todo : Todo[i].set.key # NoKey \/ Todo[i].set.files # <<>>
    \/ input.trust # {}

(* generateAllKeystores, and the way on from there: without a keystore no  *)
(* keys are processed.                                                     *)
GenerateAllKeystores ==
    /\ at = "generate"
    /\ cms' = [cms EXCEPT !.exists = HaveKeysAndCerts]
    /\ p12' = IF input.truststore
              THEN [f \in {TruststoreName} |-> EmptyStore] ELSE <<>>
    /\ at' = IF HaveKeysAndCerts /\ Len(Todo) > 0 THEN "key" ELSE "trust"
    /\ UNCHANGED <<input, n, knownVars, previous, labels, configVars, error>>

(* A command on a keystore, or the read of a file, fails; so does the      *)
(* configuration.  Two errors do not end it: that of listing a directory   *)
(* (see IsInput) and that of listing the keystore (see ConfigureTLS).      *)
CommandFails ==
    /\ at \notin {"done", "failed"}
    /\ Fail("command")
    /\ UNCHANGED <<input, n, storeVars, knownVars, previous, labels, configVars>>

Bug_AnyName == TRUE

(* A key set must not have the truststore's name.                          *)
NameAllowed == Set.name # TruststoreName

(* processPrivateKey: look the key up, or remember it.  A key set without  *)
(* a key is an error, not skipped: nil is no comparable key.               *)
ProcessPrivateKey ==
    /\ at = "key"
    /\ \/ /\ NameAllowed /\ Set.key # NoKey
          /\ at' = "certs"
          /\ IF Set.key \in DOMAIN lookup
             THEN previous' = lookup[Set.key] /\ UNCHANGED lookup
             ELSE /\ previous' = NoLabel
                  /\ lookup' = [k \in DOMAIN lookup \union {Set.key} |->
                                  IF k = Set.key THEN Set.name ELSE lookup[k]]
          /\ UNCHANGED error
       \/ /\ ~NameAllowed
          /\ Fail("name")
          /\ UNCHANGED <<previous, lookup>>
       \/ /\ NameAllowed /\ Set.key = NoKey
          /\ Fail("no key")
          /\ UNCHANGED <<previous, lookup>>
    /\ UNCHANGED <<input, n, storeVars, known, cmsTrusted, p12Trusted, labels,
                   configVars>>

(* The files of a key set that are named after its key; the first          *)
(* certificate of the last one, ...                                        *)
Prefixed(s) == {i \in DOMAIN s.files : s.files[i].prefixed}
PublicCertificate(s) ==
    IF Prefixed(s) = {} THEN NoCert ELSE Head(s.files[Max(Prefixed(s))].certs)

(* ...and all the certificates but the first of each such file.            *)
CACertificates(s) ==
    UNION {ToSet(IF f.prefixed THEN Tail(f.certs) ELSE f.certs) : f \in ToSet(s.files)}

AllCertificates(s) == UNION {ToSet(f.certs) : f \in ToSet(s.files)}

NextSet ==
    /\ n' = n + 1
    /\ at' = IF n' < Len(Todo) THEN "key" ELSE "trust"

Bug_LabelOfLastSet(label) == labels' = [labels EXCEPT ![Dir] = label]

(* The first label of a key directory is the one that is returned.         *)
SetLabel(label) ==
    labels' = IF labels[Dir] = NoLabel THEN [labels EXCEPT ![Dir] = label]
              ELSE labels

Bug_SkipKnownKey == previous # NoLabel

(* There is nothing new in this key set.                                   *)
Duplicate == previous # NoLabel /\ AllCertificates(Set) \subseteq known

(* processCertificates, and what processKeys checks of its results.        *)
ProcessCertificates ==
    /\ at = "certs"
    /\ \/ /\ \E i \in Prefixed(Set) : Set.files[i].certs = <<>>
          /\ Fail("decode")
          /\ UNCHANGED <<n, known, p12Trusted, labels>>
       \/ /\ \A i \in Prefixed(Set) : Set.files[i].certs # <<>>
          /\ known' = known \union AllCertificates(Set)
          /\ p12Trusted' = IF input.truststore
                           THEN p12Trusted \union CACertificates(Set) ELSE p12Trusted
          /\ \/ Duplicate /\ SetLabel(previous) /\ NextSet /\ UNCHANGED error
             \/ /\ ~Duplicate
                /\ IF PublicCertificate(Set) = NoCert THEN Fail("no certificate")
                   ELSE IF Validate /\ PublicCertificate(Set) \in CACertificates(Set)
                   THEN Fail("subject")
                   ELSE at' = "store" /\ UNCHANGED error
                /\ UNCHANGED <<n, labels>>
    /\ UNCHANGED <<input, storeVars, lookup, cmsTrusted, previous, configVars>>

(* runmqakm -cert -import, and -rename of the entry without a label: a     *)
(* certificate that is there already makes no new entry, and a label that  *)
(* is taken is refused (external).                                         *)
Imported ==
    IF \E e \in cms.personal : e.cert = PublicCertificate(Set)
    THEN cms.personal
    ELSE cms.personal \union {[label |-> Set.name, key |-> Set.key,
                               cert |-> PublicCertificate(Set)]}

Relabelled ==
    /\ Imported # cms.personal
    /\ \A e \in cms.personal : e.label # Set.name

(* The rest of processKeys: the PKCS#12 file, the import and               *)
(* relabelCertificate.                                                     *)
StoreKeySet ==
    /\ at = "store"
    /\ p12' = [f \in DOMAIN p12 \union {Set.name} |->
                 IF f = Set.name
                 THEN [key |-> Set.key,
                       certs |-> {PublicCertificate(Set)} \union CACertificates(Set)]
                 ELSE p12[f]]
    /\ IF Relabelled
       THEN /\ cms' = [cms EXCEPT !.personal = Imported,
                                  !.others = @ \union CACertificates(Set)]
            /\ SetLabel(Set.name)
            /\ NextSet
            /\ UNCHANGED error
       ELSE /\ cms' = [cms EXCEPT !.others = @ \union CACertificates(Set)]
            /\ Fail("relabel")
            /\ UNCHANGED <<n, labels>>
    /\ UNCHANGED <<input, knownVars, previous, configVars>>

----------------------------------------------------------------------------
(* processTrustCertificates: collect what is not known...                  *)
ReadTrust ==
    /\ at = "trust"
    /\ known' = known \union input.trust
    /\ cmsTrusted' = input.trust \ known
    /\ p12Trusted' = IF input.truststore THEN p12Trusted \union input.trust
                     ELSE p12Trusted
    /\ at' = "truststore"
    /\ UNCHANGED <<input, n, storeVars, lookup, previous, labels, configVars, error>>

(* ...addCertificatesToTruststore...                                       *)
AddCertificatesToTruststore ==
    /\ at = "truststore"
    /\ p12' = IF input.truststore /\ p12Trusted # {}
              THEN [p12 EXCEPT ![TruststoreName].certs = @ \union p12Trusted]
              ELSE p12
    /\ at' = "cms"
    /\ UNCHANGED <<input, n, cms, knownVars, previous, labels, configVars, error>>

(* ...and addCertificatesToCMSKeystore.                                    *)
AddCertificatesToCMSKeystore ==
    /\ at = "cms"
    /\ cms' = [cms EXCEPT !.others = @ \union cmsTrusted]
    /\ at' = IF input.truststore THEN "configure" ELSE "native HA"
    /\ UNCHANGED <<input, n, p12, knownVars, previous, labels, configVars, error>>

----------------------------------------------------------------------------
(* The configurations.                                                     *)

(* ProcessFIPSType and IsFIPSEnabled: the variable overrides the kernel,   *)
(* and what it does not recognise changes nothing.                         *)
IsFIPSEnabled ==
    CASE input.env.MQ_ENABLE_FIPS = "false" -> FALSE
      [] input.env.MQ_ENABLE_FIPS = "true" -> TRUE
      [] OTHER -> input.env.platform

AfterTLS == IF input.env.web THEN "web keystore" ELSE "done"

(* ConfigureTLS, for the default configuration: the key ring, the label    *)
(* and FIPS go into the MQSC, if there is a label.  The error of           *)
(* ListAllCertificates is discarded: a keystore that cannot be listed      *)
(* counts as empty, and only the key ring is left out.                     *)
ConfigureTLS ==
    /\ at = "configure"
    /\ \E listed \in BOOLEAN :
         LET keys == cms.exists /\ labels[1] # NoLabel
         IN  mqsc' = [keyRing |-> keys /\ listed /\ cms.personal \union cms.others # {},
                      label |-> labels[1], fips |-> keys /\ IsFIPSEnabled,
                      listed |-> listed]
    /\ at' = AfterTLS
    /\ UNCHANGED <<input, n, storeVars, knownVars, previous, labels, web, ini, error>>

(* postInit up to configureWebServer, with configureFIPSWebServer and      *)
(* ConfigureWebKeystore: the key set's file, or a new one with a           *)
(* certificate of its own.                                                 *)
DefaultKeystore == "default"

ConfigureWebKeystore ==
    /\ at = "web keystore"
    /\ \/ /\ labels[1] # NoLabel /\ labels[1] \in DOMAIN p12
          /\ web' = [web EXCEPT !.fips = IsFIPSEnabled, !.keystore = labels[1]]
          /\ at' = "web"
          /\ UNCHANGED <<p12, error>>
       \/ /\ labels[1] # NoLabel /\ labels[1] \notin DOMAIN p12
          /\ Fail("web keystore")
          /\ UNCHANGED <<p12, web>>
       \/ /\ labels[1] = NoLabel /\ input.env.hostname
          /\ web' = [web EXCEPT !.fips = IsFIPSEnabled, !.keystore = DefaultKeystore]
          /\ p12' = [f \in DOMAIN p12 \union {DefaultKeystore} |->
                       IF f = DefaultKeystore THEN [key |-> SelfSigned, certs |-> {}]
                       ELSE p12[f]]
          /\ at' = "web"
          /\ UNCHANGED error
       \/ /\ labels[1] = NoLabel /\ ~input.env.hostname
          /\ web' = [web EXCEPT !.fips = IsFIPSEnabled]
          /\ at' = "web"
          /\ UNCHANGED <<p12, error>>
    /\ UNCHANGED <<input, n, cms, knownVars, previous, labels, mqsc, ini>>

Bug_AlwaysKeystore == web.keystore

(* Where the web server looks for certificates it trusts.                  *)
WebTruststoreRef == IF p12Trusted = {} THEN web.keystore ELSE TruststoreName

(* ConfigureWebTLS: the password of the stores is encoded, or, if that     *)
(* fails, left empty.                                                      *)
ConfigureWebTLS ==
    /\ at = "web"
    /\ \/ /\ labels[1] = NoLabel /\ ~input.env.hostname
          /\ UNCHANGED web
       \/ /\ labels[1] # NoLabel \/ input.env.hostname
          /\ \E encoded \in BOOLEAN :
               web' = [web EXCEPT !.truststoreRef = WebTruststoreRef, !.password = encoded]
    /\ at' = "done"
    /\ UNCHANGED <<input, n, storeVars, knownVars, previous, labels, mqsc, ini, error>>

Bug_OnlyOwnLabel == labels[1] # NoLabel

(* updateTLS: one label is enough.                                         *)
HATLSEnabled == labels[1] # NoLabel \/ labels[2] # NoLabel

(* ShouldConfigureTLS.                                                     *)
ShouldConfigureTLS == HATLSEnabled \/ input.env.group

(* ConfigureNativeHA: up to three files, which the queue manager merges.   *)
(* What describes the groups is in the third, which is written only if one *)
(* of the variables for instances is set.                                  *)
ConfigureNativeHA ==
    /\ at = "native HA"
    /\ ini' = [instance |-> [SSLFipsRequired |-> IsFIPSEnabled],
               keystore |-> IF HATLSEnabled
                            THEN [CertificateLabel |-> labels[1],
                                  GroupCertificateLabel |-> labels[2]]
                            ELSE <<>>,
               nativeHA |-> IF input.env.instances
                            THEN [CipherSpec |-> ShouldConfigureTLS,
                                  GroupName |-> ShouldConfigureTLS /\ input.env.group]
                            ELSE <<>>]
    /\ at' = "done"
    /\ UNCHANGED <<input, n, storeVars, knownVars, previous, labels, mqsc, web, error>>

Next ==
    \/ GenerateAllKeystores \/ CommandFails
    \/ ProcessPrivateKey \/ ProcessCertificates \/ StoreKeySet
    \/ ReadTrust \/ AddCertificatesToTruststore \/ AddCertificatesToCMSKeystore
    \/ ConfigureTLS \/ ConfigureWebKeystore \/ ConfigureWebTLS \/ ConfigureNativeHA

Spec == Init /\ [][Next]_vars

----------------------------------------------------------------------------
(* Properties.                                                             *)

FirstKey(d) == IF input.keyDirs[d] = <<>> THEN NoKey ELSE input.keyDirs[d][1].key

(* The label returned for a key directory names the key of its first key   *)
(* set, in the CMS keystore and in the PKCS#12 file the web server is      *)
(* given, even if that key set was skipped because its key had been loaded *)
(* from elsewhere; that label is the queue manager's; and a key ring is    *)
(* configured exactly if there is a key and the keystore could be listed   *)
(* (tls.go:170 goes on without a key ring if it could not).                *)
Names(label, key) == \E e \in cms.personal : e.label = label /\ e.key = key

LabelNamesFirstKey ==
    /\ TypeOK
    /\ at = "done" =>
         /\ \A d \in DOMAIN input.keyDirs :
              FirstKey(d) # NoKey =>
                /\ Names(labels[d], FirstKey(d))
                /\ p12[labels[d]].key = FirstKey(d)
         /\ input.truststore =>
              /\ mqsc.label = labels[1]
              /\ mqsc.keyRing <=> FirstKey(1) # NoKey /\ mqsc.listed

(* Every certificate of the trust directory ends up in the CMS keystore:   *)
(* one that is known already has got there with a key.  The exception is a *)
(* certificate that also comes first in a file named after the key but not *)
(* the last such file: it is remembered as known and stored nowhere.       *)
(* And every certificate of an authority, from the trust directory or from *)
(* a key set that was not even loaded, ends up in the truststore.          *)
Overridden(s) ==
    {Head(s.files[i].certs) : i \in {j \in Prefixed(s) : j # Max(Prefixed(s))}}

Authorities ==
    input.trust \union
    UNION {ToSet(f.certs) : f \in {g \in UNION {ToSet(Todo[i].set.files) : i \in DOMAIN Todo} :
                                    ~g.prefixed}}

TrustKept ==
    at = "done" =>
        /\ input.trust # {} => cms.exists
        /\ input.trust \subseteq
             cms.others \union {e.cert : e \in cms.personal}
               \union UNION {Overridden(Todo[i].set) : i \in DOMAIN Todo}
        /\ input.truststore => Authorities \subseteq p12[TruststoreName].certs

(* A private key never gets into the truststore, which shares its          *)
(* directory and its format with the key sets' files.                      *)
NoKeyInTruststore ==
    input.truststore /\ p12 # <<>> => p12[TruststoreName].key = NoKey

(* The web server is given the queue manager's key, or one of its own, and *)
(* a truststore with every certificate of an authority; the file it needs  *)
(* is there; and it uses FIPS exactly if a queue manager with keys does.   *)
WebKey ==
    CASE FirstKey(1) # NoKey -> FirstKey(1)
      [] FirstKey(1) = NoKey /\ input.env.hostname -> SelfSigned
      [] OTHER -> NoKey

WebServerIdentity ==
    /\ error # "web keystore"
    /\ at = "done" /\ input.truststore /\ input.env.web =>
         /\ IF WebKey = NoKey
            THEN web.keystore = NoLabel /\ web.truststoreRef = NoLabel
            ELSE /\ p12[web.keystore].key = WebKey
                 /\ Authorities \subseteq p12[web.truststoreRef].certs
         /\ mqsc.keyRing => (mqsc.fips <=> web.fips)

(* The Native HA files fit together: a key repository is named exactly if  *)
(* one of the two directories has a key, its own label and the group's     *)
(* name their own keys, and with a key the ciphers are not left out.       *)
NativeHAIdentity ==
    at = "done" /\ ~input.truststore =>
        /\ ini.keystore # <<>> <=> \E d \in {1, 2} : FirstKey(d) # NoKey
        /\ FirstKey(1) # NoKey => Names(ini.keystore.CertificateLabel, FirstKey(1))
        /\ FirstKey(2) # NoKey => Names(ini.keystore.GroupCertificateLabel, FirstKey(2))
        /\ ini.keystore # <<>> /\ ini.nativeHA # <<>> => ini.nativeHA.CipherSpec
============================================================================
