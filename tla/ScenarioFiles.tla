--------------------------- MODULE ScenarioFiles ----------------------------
(***************************************************************************)
(* Scenarios: what KAVMScenario.from_json (scenario.py) makes of a JSON    *)
(* scenario, what run_avm_json writes to disk for it, and what of it the K *)
(* rules can read (algod-models.md).  A session processes scenarios one    *)
(* after the other; as the client does, the accounts a run leaves are the  *)
(* accounts of the next scenario, and their programs are by then names of  *)
(* files.                                                                  *)
(*                                                                         *)
(* A JSON object is a function from the keys it has to values; a value is  *)
(* kept as far as a rule or a default looks at it: by its type, and by its *)
(* keys or its program.                                                    *)
(***************************************************************************)
EXTENDS Naturals, Sequences, Functions

CONSTANTS
  SourceFiles,    \* name of a .teal file there is at the start |-> the code in it
  Accounts,       \* account objects of a first scenario
  Transactions,   \* transaction objects
  StageLists,     \* sequences of stage types
  MaxScenarios    \* bound: scenarios in a session

ASSUME ScenarioAssumption == MaxScenarios \in Nat

\* Both objects in one; the value of f, where both have a key.
f ++ g == [k \in DOMAIN f \cup DOMAIN g |-> IF k \in DOMAIN f THEN f[k] ELSE g[k]]

Val(t)     == [type |-> t]
Keys(S)    == [type |-> "object", keys |-> S]
Code(c)    == [type |-> "program", code |-> c]
File(n)    == [type |-> "program", file |-> n]
Null       == Val("null")
IsString(v) == v.type \in {"string", "program"}
IsFile(v)   == "file" \in DOMAIN v

\* Faulty: every program gets the same name.
HashOfNothing(c) == <<"sha512", "">>

\* The name from_json gives to a program that is not a file: a hash of its source
HashName(c) == <<"sha512", c>>

VARIABLES
  files,      \* .teal files in the directory of programs: name |-> code
  tracked,    \* accounts of the next scenario
  stages,     \* stage types of the scenario being read
  accts,      \* accounts of its first stage
  txns,       \* transactions of its second stage
  given,      \* the transactions as they were given
  programs,   \* _teal_programs: name |-> code
  pc, outcome, scenarios

vars == <<files, tracked, stages, accts, txns, given, programs, pc, outcome, scenarios>>

Init ==
  /\ files = SourceFiles /\ tracked \in {<<a>> : a \in Accounts}
  /\ stages = <<>> /\ accts = <<>> /\ txns = <<>> /\ given = <<>>
  /\ programs = [x \in {} |-> 0]
  /\ pc = "idle" /\ outcome = "none" /\ scenarios = 0

-----------------------------------------------------------------------------
(* Sanitisation: the keys that are missing are added.                      *)
Missing(d, k) == k \notin DOMAIN d
Falsy(d, k)   == Missing(d, k) \/ d[k] = Null

\* sanitize_apps: only the global state has a default.
SanitizeApp(app) == [k \in {"global-state"} |->
                       IF Falsy(app, k) THEN Val("list") ELSE app[k]] ++ app

\* sanitize_accounts: KAVMAccount gives null to the keys that are missing.
SanitizeAccount(acc) ==
  [k \in {"auth-addr", "created-assets", "apps-local-state", "assets"} |->
     IF Falsy(acc, k) THEN Val(IF k = "auth-addr" THEN "string" ELSE "list") ELSE acc[k]]
  ++ [k \in {"created-apps"} |->
        IF Missing(acc, k) THEN <<>> ELSE [i \in DOMAIN acc[k] |-> SanitizeApp(acc[k][i])]] ++ acc

HeaderDefaults ==
  [fv |-> Val("int"), lv |-> Val("int"), gen |-> Val("string"), gh |-> Val("string"),
   fee |-> Val("int"), grp |-> Val("string"), note |-> Val("string"), rekey |-> Val("string")]
FullSchema == Keys({"nbs", "nui"})
TypeDefaults(type) ==
  CASE type = "appl"  -> [k \in {"apaa", "apat", "apfa", "apas", "apbx"} |-> Val("list")]
                         ++ [k \in {"apid", "apan", "apep"} |-> Val("int")]
                         ++ [k \in {"apgs", "apls"} |-> FullSchema]
                         ++ [k \in {"apap", "apsu"} |-> Null]
    [] type = "acfg"  -> [caid |-> Val("int")]
    [] type = "axfer" -> [xaid |-> Val("int"), aamt |-> Val("int"), asnd |-> Null,
                          arcv |-> Null, aclose |-> Null]
    [] OTHER          -> [x \in {} |-> 0]

\* Faulty: a null action is left to the rules.
CompletedWithoutNull(d) == d ++ TypeDefaults(d["type"].name) ++ HeaderDefaults

\* Values that are there are kept, except that the action may be null, and that
\* a global schema may lack a key (a local schema may not).  The asset
\* parameters get a hash, a flag, and the clawback address as manager.
Completed(d) ==
  [k \in DOMAIN d |->
     CASE k = "apan" /\ d[k] = Null -> Val("int")
       [] k = "apgs"                -> FullSchema
       [] k = "apar"                -> Keys(d[k].keys \cup {"am", "df", "m"})
       [] OTHER                     -> d[k]]
  ++ TypeDefaults(d["type"].name) ++ HeaderDefaults

\* Without a manager there must be a clawback address to look up.
CanComplete(d) ==
  d["type"].name = "acfg" => ~Missing(d, "apar") /\ d["apar"].keys \cap {"m", "c"} # {}

-----------------------------------------------------------------------------
(* The programs of the accounts and of the transactions.                   *)
ProgramKeys(d) == {k \in {"approval-program", "clear-state-program", "apap", "apsu"} \cap DOMAIN d :
                     d[k].type = "program"}
NameOf(v)      == IF IsFile(v) THEN v.file ELSE HashName(v.code)
SourceOf(v)    == IF IsFile(v) THEN files[v.file] ELSE v.code
Named(d)       == [k \in ProgramKeys(d) |-> File(NameOf(d[k]))] ++ d
ProgramsIn(S)  == UNION {{d[k] : k \in ProgramKeys(d)} : d \in S}

\* A file that is named is there to be read.
Readable(S) == \A v \in ProgramsIn(S) : IsFile(v) => v.file \in DOMAIN files

\* The programs with those of the objects in S: name |-> source
Extracted(S) ==
  [n \in {NameOf(v) : v \in ProgramsIn(S)} |->
     SourceOf(CHOOSE v \in ProgramsIn(S) : NameOf(v) = n)] ++ programs

AppsIn(as) == UNION {Range(a["created-apps"]) : a \in {b \in Range(as) : ~Missing(b, "created-apps")}}

-----------------------------------------------------------------------------
(* from_json, check by check.                                              *)
Raise(error) == pc' = "idle" /\ outcome' = error

\* A scenario is given; its accounts are those tracked.
GiveScenario == \E ss \in StageLists, t \in Transactions :
  /\ pc = "idle" /\ scenarios < MaxScenarios
  /\ scenarios' = scenarios + 1
  /\ stages' = ss /\ accts' = tracked /\ txns' = <<t>> /\ given' = <<t>>
  /\ programs' = [x \in {} |-> 0]
  /\ pc' = "first stage" /\ outcome' = "none"
  /\ UNCHANGED <<files, tracked>>

\* stages[0] of an empty list is an IndexError, which no clause turns into a
\* ValueError.
ReadFirstStage ==
  /\ pc = "first stage"
  /\ CASE stages = <<>> -> Raise("IndexError") /\ UNCHANGED <<accts, programs>>
       [] stages # <<>> /\ stages[1] # "setup-network" ->
            Raise("ValueError") /\ UNCHANGED <<accts, programs>>
       [] OTHER -> LET as == [i \in DOMAIN accts |-> SanitizeAccount(accts[i])] IN
            IF Readable(AppsIn(as))
            THEN /\ pc' = "second stage" /\ UNCHANGED outcome
                 /\ programs' = Extracted(AppsIn(as))
                 /\ accts' = [i \in DOMAIN as |->
                      [k \in {"created-apps"} |-> [j \in DOMAIN as[i][k] |-> Named(as[i][k][j])]]
                      ++ as[i]]
            ELSE Raise("FileNotFoundError") /\ UNCHANGED <<accts, programs>>
  /\ UNCHANGED <<files, tracked, stages, txns, given, scenarios>>

ReadSecondStage ==
  /\ pc = "second stage"
  /\ CASE Len(stages) < 2 -> Raise("IndexError") /\ UNCHANGED <<txns, programs>>
       [] Len(stages) >= 2 /\ stages[2] # "submit-transactions" ->
            Raise("ValueError") /\ UNCHANGED <<txns, programs>>
       [] Len(stages) >= 2 /\ stages[2] = "submit-transactions" /\ ~CanComplete(txns[1]) ->
            Raise("KeyError") /\ UNCHANGED <<txns, programs>>
       [] OTHER ->
            IF Readable(Range(txns))
            THEN /\ pc' = "length" /\ UNCHANGED outcome
                 /\ programs' = Extracted(Range(txns))
                 /\ txns' = [i \in DOMAIN txns |-> Named(Completed(txns[i]))]
            ELSE Raise("FileNotFoundError") /\ UNCHANGED <<txns, programs>>
  /\ UNCHANGED <<files, tracked, stages, accts, given, scenarios>>

CheckLength ==
  /\ pc = "length"
  /\ IF Len(stages) > 2 THEN Raise("ValueError") ELSE pc' = "run" /\ outcome' = "read"
  /\ UNCHANGED <<files, tracked, stages, accts, txns, given, programs, scenarios>>

-----------------------------------------------------------------------------
(* run_avm_json.                                                           *)

\* Faulty: the programs go to a temporary directory.
WriteNothing ==
  /\ pc = "run" /\ pc' = "running"
  /\ UNCHANGED <<files, tracked, stages, accts, txns, given, programs, outcome, scenarios>>

\* The programs are written to the directory, which is where the next scenario
\* looks for them, before anything can fail.
WritePrograms ==
  /\ pc = "run" /\ pc' = "running"
  /\ files' = programs ++ files
  /\ UNCHANGED <<tracked, stages, accts, txns, given, programs, outcome, scenarios>>

\* The run fails: the tracked accounts stay.
RunFails ==
  /\ pc = "running" /\ pc' = "idle" /\ outcome' = "failed"
  /\ UNCHANGED <<files, tracked, stages, accts, txns, given, programs, scenarios>>

\* It succeeds, and the dump has the accounts with the names of their programs;
\* a transaction without application id has created an application.
Created(t) == [k \in {"approval-program", "clear-state-program"} |->
                 t[IF k = "approval-program" THEN "apap" ELSE "apsu"]]
              ++ [k \in {"global-state-schema", "local-state-schema"} |-> FullSchema]
              ++ [id |-> Val("int")]
RunSucceeds ==
  /\ pc = "running" /\ pc' = "idle" /\ outcome' = "ran"
  /\ LET t == txns[1]
         new == IF t["type"].name = "appl" /\ Missing(given[1], "apid")
                   /\ {t.apap, t.apsu} \cap {Null} = {}
                THEN <<Created(t)>> ELSE <<>>
     IN tracked' = [i \in DOMAIN accts |->
          [k \in {"created-apps"} |-> accts[i][k] \o IF i = 1 THEN new ELSE <<>>]
          ++ [k \in {"auth-addr", "apps-local-state"} |-> Null] ++ accts[i]]
  /\ UNCHANGED <<files, stages, accts, txns, given, programs, scenarios>>

Next == \/ GiveScenario \/ ReadFirstStage \/ ReadSecondStage \/ CheckLength
        \/ WritePrograms \/ RunFails \/ RunSucceeds

Spec == Init /\ [][Next]_vars

-----------------------------------------------------------------------------
(* What #addTxnJSON and #addAccountJSON match: objects with exactly these  *)
(* keys, of these types.                                                   *)
AnyType == {"int", "string", "list", "null", "object", "program", "bool"}
Strings == {"string"}
HeaderPattern ==
  [k \in {"fee", "fv", "lv"} |-> {"int"}] ++ [k \in {"gen", "grp", "note", "rekey", "snd", "type"} |-> Strings]
  ++ [gh |-> AnyType]
TxnPattern(type) ==
  CASE type = "pay"   -> [amt |-> {"int"}, rcv |-> Strings]
    [] type = "axfer" -> [aamt |-> {"int"}, aclose |-> AnyType, arcv |-> Strings, asnd |-> AnyType, xaid |-> {"int"}]
    [] type = "afrz"  -> [afrz |-> {"bool"}, fadd |-> Strings, faid |-> {"int"}]
    [] type = "acfg"  -> [caid |-> {"int"}, apar |-> {"object"}]
    [] type = "appl"  -> [k \in {"apan", "apep", "apid"} |-> {"int"}] ++ [k \in {"apgs", "apls"} |-> {"object"}]
                         ++ [k \in {"apaa", "apap", "apas", "apat", "apbx", "apfa", "apsu"} |-> AnyType]
ObjectKeys(k) == IF k = "apar" THEN {"am", "an", "au", "c", "dc", "df", "f", "m", "r", "t", "un"}
                 ELSE {"nbs", "nui"}
AccountPattern == [k \in {"apps-local-state", "assets", "created-assets"} |-> {"list"}]
                  ++ [k \in {"address", "auth-addr"} |-> Strings] ++ [amount |-> {"int"}]
AppPattern == [k \in {"approval-program", "clear-state-program"} |-> {"program"}]
              ++ [k \in {"global-state-schema", "local-state-schema"} |-> {"object"}]
              ++ [k \in {"global-state"} |-> {"list"}] ++ [id |-> {"int"}]

Matches(d, pattern) ==
  /\ DOMAIN d = DOMAIN pattern
  /\ \A k \in DOMAIN d : /\ d[k].type \in pattern[k]
                         /\ d[k].type = "object" => d[k].keys = ObjectKeys(k)

-----------------------------------------------------------------------------
(* Properties.                                                             *)

\* What from_json returns can be read by the K rules, whatever optional keys its
\* input lacks: every key that a rule asks for is given a default of the right
\* type, in transactions, accounts and applications (sanitize_*).
KCanRead == pc = "run" =>
  /\ \A i \in DOMAIN txns : Matches(txns[i], TxnPattern(txns[i]["type"].name) ++ HeaderPattern)
  /\ \A a \in Range(accts) : Matches([k \in DOMAIN a \ {"created-apps"} |-> a[k]], AccountPattern)
  /\ \A app \in AppsIn(accts) : Matches(app, AppPattern)

\* Whatever runs failed in between, the programs of the tracked accounts can be
\* read when the next scenario is built: a dump has names only, and the files
\* behind them were written by an earlier run.
TrackedProgramsReadable == pc = "idle" => Readable(AppsIn(tracked))

\* A name stands for one program for as long as the directory lives: no scenario
\* changes the program of an application that an earlier one created.
NamesKeepTheirProgram == [][\A n \in DOMAIN files : files'[n] = files[n]]_vars

=============================================================================
