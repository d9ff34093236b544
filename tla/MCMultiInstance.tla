--------------------------- MODULE MCMultiInstance --------------------------
(* Instances of MultiInstance for TLC: a name that is a directory's name,  *)
(* and one that is not.                                                    *)
EXTENDS MultiInstance

PlainName == <<"Q", "M", "1">>
DottedName == <<"Q", "M", ".", "1">>
============================================================================
