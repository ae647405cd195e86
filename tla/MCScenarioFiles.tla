-------------------------- MODULE MCScenarioFiles ---------------------------
(* Instances of ScenarioFiles for TLC.                                     *)
EXTENDS ScenarioFiles, FiniteSets, TLC

\* A value as it is given: not a default
GivenVal(t)     == [type |-> t, given |-> TRUE]
Type(n)         == [type |-> "string", name |-> n]
GivenFields(S, t) == [k \in S |-> GivenVal(t)]

OneFile   == <<"vault">> :> "c1"
TwoStages == <<"setup-network", "submit-transactions">>
AllStages  == {TwoStages, <<>>, <<"setup-network">>, <<"submit-transactions">>,
               <<"setup-network", "setup-network">>, Append(TwoStages, "submit-transactions")}

\* Accounts with the least there must be, and with an application from a file
Bare == GivenFields({"address"}, "string") @@ GivenFields({"amount"}, "int")
App(a, c) == GivenFields({"id"}, "int")
  @@ [k \in {"global-state-schema", "local-state-schema"} |-> FullSchema]
  @@ ("approval-program" :> a) @@ ("clear-state-program" :> c)
SomeAccounts == {
  Bare,
  ("auth-addr" :> Null) @@ GivenFields({"assets"}, "list") @@ Bare,
  ("created-apps" :> <<App(File(<<"vault">>), Code("c2"))>>) @@ Bare}

Header == GivenFields({"fv", "lv", "fee"}, "int") @@ GivenFields({"gen", "grp"}, "string")
Txn(n) == [type |-> Type(n), snd |-> GivenVal("string")]
Call   == Txn("appl") @@ Header
Programs == {Null, Code("c1"), Code("c2"), File(<<"vault">>), File(<<"none">>)}

\* Application calls that give any two of their keys
Optional == GivenFields({"apaa", "apat", "apfa", "apas", "apbx"}, "list")
  @@ GivenFields({"apid", "apan", "apep"}, "int") @@ [k \in {"apgs", "apls"} |-> FullSchema]
SomeCalls ==
  {[k \in S |-> Optional[k]] @@ Call : S \in {T \in SUBSET DOMAIN Optional : Cardinality(T) <= 2}}
  \cup {[apap |-> a, apsu |-> c] @@ Call : a \in Programs, c \in Programs}
  \cup {[apan |-> Null, apgs |-> Keys(S)] @@ Call : S \in SUBSET {"nbs", "nui"}}
OtherTxns == {
  [amt |-> GivenVal("int"), rcv |-> GivenVal("string")] @@ Txn("pay"),
  [arcv |-> GivenVal("string"), aamt |-> GivenVal("int")] @@ Txn("axfer") @@ Header,
  [afrz |-> GivenVal("bool"), fadd |-> GivenVal("string"), faid |-> GivenVal("int")] @@ Txn("afrz"),
  [apar |-> Keys({"an", "au", "c", "dc", "f", "r", "t", "un"})] @@ Txn("acfg"),
  [apar |-> Keys({"an", "au", "dc", "f", "r", "t", "un"})] @@ Txn("acfg"),
  [caid |-> GivenVal("int")] @@ Txn("acfg")}
AllTxns == SomeCalls \cup OtherTxns
=============================================================================
