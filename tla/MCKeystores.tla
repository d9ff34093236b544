---------------------------- MODULE MCKeystores ----------------------------
(* Instances of Keystores for TLC: the default configuration with up to    *)
(* two key sets in its directory, the Native HA one with up to one in each *)
(* of its two, and trust directories with any of three certificates; and,  *)
(* with fewer files, every environment.                                    *)
EXTENDS Keystores, TLC

CONSTANTS k1, k2, c1, c2, ca1, ca2

Own(certs) == [prefixed |-> TRUE, certs |-> certs]     \* tls.crt
Other(certs) == [prefixed |-> FALSE, certs |-> certs]  \* ca.crt

(* The files of a key set, in the order of their names.                    *)
FileLists ==
    {<<>>, <<Own(<<>>)>>, <<Other(<<ca1>>)>>, <<Own(<<c1>>)>>, <<Own(<<c2>>)>>,
     <<Own(<<c1, ca2>>)>>, <<Other(<<ca1>>), Own(<<c1>>)>>,
     <<Other(<<ca1, ca2>>), Own(<<c2>>)>>, <<Other(<<c1>>), Own(<<c1>>)>>,
     <<Own(<<ca1>>), Own(<<c1>>)>>}   \* tls-ca.crt and tls.crt

KeySets(names, keys, files) == [name : names, key : keys, files : files]

OneSet(names, keys, files) ==
    {<<>>} \union {<<s>> : s \in KeySets(names, keys, files)}

PlainEnv ==
    [platform |-> FALSE, MQ_ENABLE_FIPS |-> "unset", web |-> TRUE, hostname |-> FALSE,
     instances |-> TRUE, group |-> FALSE]

Default(keys, files, envs) ==
    [env : envs,
     keyDirs : {<<dir>> : dir \in
                  OneSet({"a", "trust"}, keys, files) \union
                  {<<s, t>> : s \in KeySets({"a"}, keys, files),
                              t \in KeySets({"b", "trust"}, keys, files)}},
     trust : SUBSET {c1, ca1, ca2},
     truststore : {TRUE}]

NativeHA(keys, files, envs) ==
    [env : envs,
     keyDirs : {<<d1, d2>> : d1 \in OneSet({"a"}, keys, files),
                             d2 \in OneSet({"a", "b"}, keys, files)},
     trust : SUBSET {c1, ca1, ca2},
     truststore : {FALSE}]

MCKeys == {k1, k2}
MCCerts == {c1, c2, ca1, ca2}

FewFiles == {<<Own(<<c1>>)>>, <<Other(<<ca1>>), Own(<<c1>>)>>}

WebEnvs == {e \in Env : ~e.instances /\ ~e.group}
HAEnvs == {e \in Env : ~e.web /\ ~e.hostname}

KeyedInputs ==
    Default(MCKeys \union {NoKey}, FileLists, {PlainEnv}) \union
    NativeHA(MCKeys \union {NoKey}, FileLists, {PlainEnv}) \union
    Default({k1}, FewFiles, WebEnvs) \union
    NativeHA({k1}, FewFiles, HAEnvs)
============================================================================
