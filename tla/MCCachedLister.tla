---------------------------- MODULE MCCachedLister ----------------------------
(***************************************************************************)
(* A small instance of CachedLister for TLC: two objects in two            *)
(* namespaces, two container names.                                        *)
(***************************************************************************)
EXTENDS CachedLister

App == [ns |-> "n1", name |-> "app"]
TwoKeys == {App, [ns |-> "n2", name |-> "b"]}
TwoNamespaces == <<"n1", "n2">>
TwoContainers == {"manager", "proxy"}
OneOrTwo == {{"manager"}, {"manager", "proxy"}}
TwoLabels == <<"manager", "proxy">>
TheObjects == [key : TwoKeys, rv : 1..MaxWrites, containers : SUBSET TwoContainers]

TheValues ==
    {<<"namespace", "n1">>, <<"namespace", "n2">>}
    \cup {<<"field", ns, c>> : ns \in {"n1", "n2", AllNS}, c \in TwoContainers}

TheIndexFunc == [obj \in TheObjects |-> IndexedAs(obj)]
===============================================================================
