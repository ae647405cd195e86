-------------------------- MODULE ScenarioFilesProofs --------------------------
(***************************************************************************)
(* What is true of a session however many files, accounts, transactions    *)
(* and scenarios there are: a name keeps its program, every program that   *)
(* is only a name can be read, and what from_json returns has the keys and *)
(* types that the K rules match.                                           *)
(***************************************************************************)
EXTENDS ScenarioFiles, TLAPS

-----------------------------------------------------------------------------
(* Objects and their programs.                                             *)

\* The keys and values of two objects put together.
LEMMA Merge ==
  ASSUME NEW f, NEW g
  PROVE  /\ DOMAIN (f ++ g) = DOMAIN f \cup DOMAIN g
         /\ \A k \in DOMAIN f : (f ++ g)[k] = f[k]
         /\ \A k \in DOMAIN g \ DOMAIN f : (f ++ g)[k] = g[k]
  BY DEF ++

\* A hash tells programs apart.
LEMMA HashNameTells ==
  ASSUME NEW c, NEW d, HashName(c) = HashName(d)
  PROVE  c = d
  BY DEF HashName

-----------------------------------------------------------------------------
(* A name keeps its program.                                               *)

\* A file with the name of a program holds the program.
Honest(fs) == \A c : HashName(c) \in DOMAIN fs => fs[HashName(c)] = c
Agree(f, g) == \A n \in DOMAIN f \cap DOMAIN g : f[n] = g[n]

NamesInv == Honest(files) /\ Honest(programs) /\ Agree(programs, files)

\* What is extracted from programs that can be read.
LEMMA ExtractedKeeps ==
  ASSUME NEW S, Readable(S), NamesInv
  PROVE  Honest(Extracted(S)) /\ Agree(Extracted(S), files)
<1> DEFINE P == ProgramsIn(S)
           N == {NameOf(v) : v \in P}
           new == [n \in N |-> SourceOf(CHOOSE v \in P : NameOf(v) = n)]
<1>1. Extracted(S) = new ++ programs
  BY DEF Extracted
<1>2. ASSUME NEW n \in N
      PROVE  /\ n \in DOMAIN files => new[n] = files[n]
             /\ \A c : n = HashName(c) => new[n] = c
  <2> DEFINE v == CHOOSE w \in P : NameOf(w) = n
  <2>1. v \in P /\ NameOf(v) = n /\ new[n] = SourceOf(v)
    OBVIOUS
  <2> HIDE DEF v, new
  <2>2. CASE IsFile(v)
    <3>1. n \in DOMAIN files /\ new[n] = files[n]
      BY <2>1, <2>2 DEF NameOf, SourceOf, Readable
    <3> QED  BY <3>1 DEF NamesInv, Honest
  <2>3. CASE ~IsFile(v)
    <3>1. n = HashName(v.code) /\ new[n] = v.code
      BY <2>1, <2>3 DEF NameOf, SourceOf
    <3> QED  BY <3>1, HashNameTells DEF NamesInv, Honest
  <2> QED  BY <2>2, <2>3
<1>3. DOMAIN new = N
  OBVIOUS
<1> DEFINE all == new ++ programs
<1> HIDE DEF new, N
<1>4. DOMAIN all = N \cup DOMAIN programs
  BY <1>3, Merge
<1>5. \A n \in DOMAIN all : all[n] = IF n \in N THEN new[n] ELSE programs[n]
  <2>1. /\ \A n \in DOMAIN new : all[n] = new[n]
        /\ \A n \in DOMAIN programs \ DOMAIN new : all[n] = programs[n]
    BY Merge
  <2> HIDE DEF all
  <2> QED BY <1>3, <1>4, <2>1
<1> HIDE DEF all
<1>6. Honest(all)
  BY <1>2, <1>4, <1>5 DEF NamesInv, Honest
<1>7. Agree(all, files)
  BY <1>2, <1>4, <1>5 DEF NamesInv, Agree
<1> QED  BY <1>1, <1>6, <1>7 DEF all

\* Writing programs that agree with the files changes none of them.
LEMMA WrittenKeeps ==
  ASSUME NEW f, NEW g, Honest(f), Honest(g), Agree(f, g)
  PROVE  Honest(f ++ g) /\ Agree(f, f ++ g) /\ \A n \in DOMAIN g : (f ++ g)[n] = g[n]
<1> DEFINE all == f ++ g
<1>1. DOMAIN all = DOMAIN f \cup DOMAIN g
  BY Merge
<1>2. \A n \in DOMAIN all : all[n] = IF n \in DOMAIN f THEN f[n] ELSE g[n]
  BY DEF ++
<1> HIDE DEF all
<1>3. Honest(all)
  BY <1>1, <1>2 DEF Honest
<1>4. Agree(f, all) /\ \A n \in DOMAIN g : all[n] = g[n]
  BY <1>1, <1>2 DEF Agree
<1> QED  BY <1>3, <1>4 DEF all

LEMMA NamesNext ==
  ASSUME NamesInv, [Next]_vars
  PROVE  NamesInv' /\ \A n \in DOMAIN files : files'[n] = files[n]
<1>1. CASE GiveScenario
  BY <1>1 DEF GiveScenario, NamesInv, Honest, Agree
<1>2. CASE ReadFirstStage
  BY <1>2, ExtractedKeeps DEF ReadFirstStage, Raise, NamesInv
<1>3. CASE ReadSecondStage
  BY <1>3, ExtractedKeeps DEF ReadSecondStage, Raise, NamesInv
<1>4. CASE CheckLength
  BY <1>4 DEF CheckLength, Raise, NamesInv
<1>5. CASE WritePrograms
  BY <1>5, WrittenKeeps DEF WritePrograms, NamesInv
<1>6. CASE RunFails
  BY <1>6 DEF RunFails, NamesInv
<1>7. CASE RunSucceeds
  BY <1>7 DEF RunSucceeds, NamesInv
<1>8. CASE UNCHANGED vars
  BY <1>8 DEF vars, NamesInv
<1> QED  BY <1>1, <1>2, <1>3, <1>4, <1>5, <1>6, <1>7, <1>8 DEF Next

\* No run changes the program behind a name, if the files there are at the start are
\* not named like programs they do not hold.
THEOREM NamesKeepTheirPrograms ==
  ASSUME Honest(SourceFiles)
  PROVE  Spec => NamesKeepTheirProgram
<1>1. Init => NamesInv
  BY DEF Init, NamesInv, Honest, Agree
<1>2. NamesInv /\ [Next]_vars => NamesInv'
  BY NamesNext
<1>3. NamesInv /\ [Next]_vars => [\A n \in DOMAIN files : files'[n] = files[n]]_vars
  BY NamesNext
<1> QED  BY <1>1, <1>2, <1>3, PTL DEF Spec, NamesKeepTheirProgram

-----------------------------------------------------------------------------
(* The programs of the tracked accounts can be read.                       *)
Progs(d) == {d[k] : k \in ProgramKeys(d)}
Resolved(S, names) == \A d \in S : \A v \in Progs(d) : IsFile(v) => v.file \in names

IsSeq(s) == \E n \in Nat : /\ DOMAIN s = 1..n
                           /\ s = [j \in 1..n |-> s[j]]
Listed(as) == \A i \in DOMAIN as : "created-apps" \in DOMAIN as[i] => IsSeq(as[i]["created-apps"])

LEMMA ReadableResolved ==
  ASSUME NEW S
  PROVE  Readable(S) <=> Resolved(S, DOMAIN files)
  BY DEF Readable, Resolved, ProgramsIn, Progs

LEMMA AppsMember ==
  ASSUME NEW as, NEW app
  PROVE  app \in AppsIn(as) <=>
           \E i \in DOMAIN as : /\ "created-apps" \in DOMAIN as[i]
                              /\ \E j \in DOMAIN as[i]["created-apps"] :
                                   app = as[i]["created-apps"][j]
<1> DEFINE With == {b \in Range(as) : ~Missing(b, "created-apps")}
<1>1. \A a : a \in With <=> \E i \in DOMAIN as : a = as[i] /\ "created-apps" \in DOMAIN as[i]
  BY DEF Range, Missing
<1>2. app \in AppsIn(as) <=> \E a \in With : app \in Range(a["created-apps"])
  BY DEF AppsIn
<1>3. \A a : app \in Range(a["created-apps"]) <=>
               \E j \in DOMAIN a["created-apps"] : app = a["created-apps"][j]
  BY DEF Range
<1> HIDE DEF With
<1>4. ASSUME NEW i \in DOMAIN as, "created-apps" \in DOMAIN as[i],
             NEW j \in DOMAIN as[i]["created-apps"], app = as[i]["created-apps"][j]
      PROVE  app \in AppsIn(as)
  <2>1. PICK a : a = as[i]
    OBVIOUS
  <2> QED  BY <2>1, <1>1, <1>2, <1>3, <1>4
<1>5. ASSUME app \in AppsIn(as)
      PROVE  \E i \in DOMAIN as : /\ "created-apps" \in DOMAIN as[i]
                                /\ \E j \in DOMAIN as[i]["created-apps"] :
                                     app = as[i]["created-apps"][j]
  <2>1. PICK a \in With : app \in Range(a["created-apps"])
    BY <1>2, <1>5
  <2>2. PICK i \in DOMAIN as : a = as[i] /\ "created-apps" \in DOMAIN as[i]
    BY <1>1, <2>1
  <2>3. PICK j \in DOMAIN a["created-apps"] : app = a["created-apps"][j]
    BY <1>3, <2>1
  <2> QED  BY <2>2, <2>3
<1> QED  BY <1>4, <1>5

\* The programs of an object once its programs are names.
LEMMA NamedProgs ==
  ASSUME NEW d, NEW v \in Progs(Named(d))
  PROVE  \E u \in Progs(d) : v = File(NameOf(u))
<1> DEFINE f == [k \in ProgramKeys(d) |-> File(NameOf(d[k]))]
<1>1. /\ DOMAIN Named(d) = ProgramKeys(d) \cup DOMAIN d
      /\ \A k \in DOMAIN Named(d) : Named(d)[k] = IF k \in ProgramKeys(d) THEN f[k] ELSE d[k]
  BY DEF Named, ++
<1>2. PICK k \in ProgramKeys(Named(d)) : v = Named(d)[k]
  BY DEF Progs
<1>3. k \in ProgramKeys(d)
  BY <1>1, <1>2 DEF ProgramKeys
<1> QED  BY <1>1, <1>2, <1>3 DEF Progs, ProgramKeys

\* They are among the programs extracted from it.
LEMMA ExtractedNames ==
  ASSUME NEW S, NEW d \in S, NEW v \in Progs(d)
  PROVE  NameOf(v) \in DOMAIN Extracted(S)
<1>1. DOMAIN Extracted(S) = {NameOf(u) : u \in ProgramsIn(S)} \cup DOMAIN programs
  BY DEF Extracted, ++
<1> QED  BY <1>1 DEF ProgramsIn, Progs

LEMMA NamedResolved ==
  ASSUME NEW d, NEW names, \A u \in Progs(d) : NameOf(u) \in names
  PROVE  Resolved({Named(d)}, names)
<1>1. \A n : File(n).file = n
  BY DEF File
<1> QED  BY <1>1, NamedProgs DEF Resolved

\* A scenario: its transaction as given, and as from_json leaves it.
Given(ts) == \E t \in Transactions : ts = <<t>>
Ready(ts) ==
  /\ ts = <<ts[1]>> /\ Resolved({ts[1]}, DOMAIN programs)
  /\ ts[1]["type"].name = "appl" => {"apap", "apsu"} \subseteq DOMAIN ts[1]

FilesInv ==
  /\ Listed(tracked) /\ Resolved(AppsIn(tracked), DOMAIN files)
  /\ pc # "idle" => Listed(accts)
  /\ pc \in {"first stage", "second stage"} => Given(txns)
  /\ pc \in {"second stage", "length", "run", "running"} =>
       /\ \A i \in DOMAIN accts : "created-apps" \in DOMAIN accts[i]
       /\ Resolved(AppsIn(accts), DOMAIN programs)
  /\ pc \in {"length", "run", "running"} => Ready(txns)
  /\ pc = "running" => DOMAIN programs \subseteq DOMAIN files

\* Every account has a list of applications once it is sanitised.
LEMMA SanitizedListed ==
  ASSUME NEW as, Listed(as)
  PROVE  LET ss == [i \in DOMAIN as |-> SanitizeAccount(as[i])]
         IN  Listed(ss) /\ \A i \in DOMAIN ss : "created-apps" \in DOMAIN ss[i]
<1> SUFFICES ASSUME NEW i \in DOMAIN as
             PROVE  /\ "created-apps" \in DOMAIN SanitizeAccount(as[i])
                    /\ IsSeq(SanitizeAccount(as[i])["created-apps"])
  BY DEF Listed
<1> DEFINE acc == as[i]
           apps == IF Missing(acc, "created-apps") THEN <<>>
                   ELSE [j \in DOMAIN acc["created-apps"] |-> SanitizeApp(acc["created-apps"][j])]
<1>1. /\ "created-apps" \in DOMAIN SanitizeAccount(acc)
      /\ SanitizeAccount(acc)["created-apps"] = apps
  BY DEF SanitizeAccount, ++
<1>2. IsSeq(apps)
  <2>1. CASE Missing(acc, "created-apps")
    <3>1. apps = [j \in 1..0 |-> apps[j]] /\ DOMAIN apps = 1..0
      BY <2>1
    <3> QED  BY <3>1 DEF IsSeq
  <2>2. CASE ~Missing(acc, "created-apps")
    BY <2>2 DEF IsSeq, Listed, Missing
  <2> QED  BY <2>1, <2>2
<1> QED  BY <1>1, <1>2

\* The accounts whose programs are names.
NamedAccounts(as) ==
  [i \in DOMAIN as |-> [k \in {"created-apps"} |-> [j \in DOMAIN as[i][k] |-> Named(as[i][k][j])]]
                       ++ as[i]]

LEMMA NamedAccountsResolved ==
  ASSUME NEW as, Listed(as), \A i \in DOMAIN as : "created-apps" \in DOMAIN as[i]
  PROVE  LET ns == NamedAccounts(as)
         IN  /\ Listed(ns) /\ \A i \in DOMAIN ns : "created-apps" \in DOMAIN ns[i]
             /\ Resolved(AppsIn(ns), DOMAIN Extracted(AppsIn(as)))
<1> DEFINE ns == NamedAccounts(as)
           Apps(i) == [j \in DOMAIN as[i]["created-apps"] |-> Named(as[i]["created-apps"][j])]
<1>1. DOMAIN ns = DOMAIN as
  BY DEF NamedAccounts
<1>2. ASSUME NEW i \in DOMAIN as
      PROVE  "created-apps" \in DOMAIN ns[i] /\ ns[i]["created-apps"] = Apps(i)
  BY DEF NamedAccounts, ++
<1>3. ASSUME NEW i \in DOMAIN as
      PROVE  IsSeq(Apps(i))
  BY DEF IsSeq, Listed
<1> HIDE DEF ns
<1>4. Listed(ns) /\ \A i \in DOMAIN ns : "created-apps" \in DOMAIN ns[i]
  BY <1>1, <1>2, <1>3 DEF Listed
<1>5. ASSUME NEW app \in AppsIn(ns)
      PROVE  Resolved({app}, DOMAIN Extracted(AppsIn(as)))
  <2>1. PICK i \in DOMAIN ns : \E j \in DOMAIN ns[i]["created-apps"] :
                                 app = ns[i]["created-apps"][j]
    BY AppsMember
  <2>2. PICK j \in DOMAIN as[i]["created-apps"] : app = Named(as[i]["created-apps"][j])
    BY <2>1, <1>1, <1>2
  <2>3. PICK d : d = as[i]["created-apps"][j]
    OBVIOUS
  <2>4. d \in AppsIn(as)
    BY <1>1, <2>3, AppsMember
  <2> QED  BY <2>2, <2>3, <2>4, ExtractedNames, NamedResolved
<1>6. Resolved(AppsIn(ns), DOMAIN Extracted(AppsIn(as)))
  BY <1>5 DEF Resolved
<1> QED  BY <1>4, <1>6 DEF ns

\* No default is a program.
LEMMA CompletedProgs ==
  ASSUME NEW d, NEW v \in Progs(Completed(d))
  PROVE  v \in Progs(d)
<1> DEFINE four == {"approval-program", "clear-state-program", "apap", "apsu"}
           keep == [k \in DOMAIN d |->
                      CASE k = "apan" /\ d[k] = Null -> Val("int")
                        [] k = "apgs"                -> FullSchema
                        [] k = "apar"                -> Keys(d[k].keys \cup {"am", "df", "m"})
                        [] OTHER                     -> d[k]]
           c == Completed(d)
           defaults == TypeDefaults(d["type"].name)
<1>1. c = keep ++ defaults ++ HeaderDefaults
  BY DEF Completed
<1>2. DOMAIN keep = DOMAIN d /\ \A k \in four \cap DOMAIN d : keep[k] = d[k]
  OBVIOUS
<1>3. \A k \in four \cap DOMAIN defaults : defaults[k].type # "program"
  BY DEF TypeDefaults, ++, Null, Val
<1>4. four \cap DOMAIN HeaderDefaults = {}
  BY DEF HeaderDefaults
<1> HIDE DEF keep, c, defaults
<1>5. PICK k \in four \cap DOMAIN c : v = c[k] /\ c[k].type = "program"
  BY DEF Progs, ProgramKeys, c
<1>6. k \in DOMAIN d /\ c[k] = d[k]
  BY <1>1, <1>2, <1>3, <1>4, <1>5 DEF ++
<1> QED  BY <1>5, <1>6 DEF Progs, ProgramKeys

\* from_json keeps the type of a transaction, and gives an application call both of
\* its programs.
LEMMA CompletedReady ==
  ASSUME NEW d, "type" \in DOMAIN d
  PROVE  LET t == Named(Completed(d))
         IN  /\ t["type"].name = d["type"].name
             /\ t["type"].name = "appl" => {"apap", "apsu"} \subseteq DOMAIN t
<1> DEFINE keep == [k \in DOMAIN d |->
                      CASE k = "apan" /\ d[k] = Null -> Val("int")
                        [] k = "apgs"                -> FullSchema
                        [] k = "apar"                -> Keys(d[k].keys \cup {"am", "df", "m"})
                        [] OTHER                     -> d[k]]
           c == Completed(d)
<1>1. c = keep ++ TypeDefaults(d["type"].name) ++ HeaderDefaults
  BY DEF Completed
<1>2. keep["type"] = d["type"] /\ "type" \in DOMAIN keep
  OBVIOUS
<1> HIDE DEF keep
<1>3. c["type"] = d["type"]
  BY <1>1, <1>2 DEF ++
<1>4. DOMAIN TypeDefaults(d["type"].name) \subseteq DOMAIN c
  BY <1>1 DEF ++
<1>5. d["type"].name = "appl" => {"apap", "apsu"} \subseteq DOMAIN TypeDefaults(d["type"].name)
  BY DEF TypeDefaults, ++
<1> HIDE DEF c
<1>6. "type" \in DOMAIN c
  BY <1>1, <1>2 DEF c, ++
<1>7. DOMAIN c \subseteq DOMAIN Named(c) /\ Named(c)["type"] = c["type"]
  BY <1>6 DEF Named, ++, ProgramKeys
<1> QED  BY <1>3, <1>4, <1>5, <1>7 DEF c

LEMMA ResolvedGrows ==
  ASSUME NEW S, NEW M, NEW N, Resolved(S, M), M \subseteq N
  PROVE  Resolved(S, N)
  BY DEF Resolved

\* An application a transaction has created names the programs of the transaction.
LEMMA CreatedResolved ==
  ASSUME NEW t, NEW names, Resolved({t}, names), {"apap", "apsu"} \subseteq DOMAIN t
  PROVE  Resolved({Created(t)}, names)
<1> DEFINE app == Created(t)
<1>1. /\ app["approval-program"] = t["apap"] /\ app["clear-state-program"] = t["apsu"]
      /\ {"apap", "apsu"} \cap DOMAIN app = {}
  BY DEF Created, ++
<1> HIDE DEF app
<1>2. ASSUME NEW v \in Progs(app)
      PROVE  v \in Progs(t)
  <2>1. PICK k \in ProgramKeys(app) : v = app[k]
    BY DEF Progs
  <2>2. k \in {"approval-program", "clear-state-program"} /\ v.type = "program"
    BY <1>1, <2>1 DEF ProgramKeys
  <2>3. PICK l \in {"apap", "apsu"} : v = t[l]
    BY <1>1, <2>1, <2>2
  <2>4. l \in ProgramKeys(t)
    BY <2>2, <2>3 DEF ProgramKeys
  <2> QED  BY <2>3, <2>4 DEF Progs
<1> QED  BY <1>2 DEF Resolved, app

\* The accounts of a run, with the application it has created in the first one.
Dumped(as, new) ==
  [i \in DOMAIN as |->
     [k \in {"created-apps"} |-> as[i][k] \o IF i = 1 THEN new ELSE <<>>]
     ++ [k \in {"auth-addr", "apps-local-state"} |-> Null] ++ as[i]]

LEMMA DumpedResolved ==
  ASSUME NEW as, NEW new, NEW names, Listed(as), Resolved(AppsIn(as), names),
         \A i \in DOMAIN as : "created-apps" \in DOMAIN as[i],
         new = <<>> \/ \E app : new = <<app>> /\ Resolved({app}, names)
  PROVE  Listed(Dumped(as, new)) /\ Resolved(AppsIn(Dumped(as, new)), names)
<1> DEFINE ts == Dumped(as, new)
           More(i) == IF i = 1 THEN new ELSE <<>>
           Apps(i) == as[i]["created-apps"] \o More(i)
<1>1. ASSUME NEW i \in DOMAIN as
      PROVE  "created-apps" \in DOMAIN ts[i] /\ ts[i]["created-apps"] = Apps(i)
  BY DEF Dumped, ++
<1>2. ASSUME NEW i \in DOMAIN as
      PROVE  /\ IsSeq(Apps(i))
             /\ \A j \in DOMAIN Apps(i) : Resolved({Apps(i)[j]}, names)
  <2>1. PICK s : s = as[i]["created-apps"]
    OBVIOUS
  <2>2. \A j \in DOMAIN s : Resolved({s[j]}, names)
    <3>1. \A j \in DOMAIN s : s[j] \in AppsIn(as)
      BY <2>1, AppsMember
    <3> QED  BY <3>1 DEF Resolved
  <2>3. PICK n \in Nat : DOMAIN s = 1..n /\ s = [j \in 1..n |-> s[j]]
    BY <2>1 DEF Listed, IsSeq
  <2>4. s \in Seq(Range(s)) /\ Len(s) = n
    BY <2>3 DEF Range
  <2>5. PICK m : m = More(i)
    OBVIOUS
  <2>6. m = <<>> \/ \E app : m = <<app>> /\ Resolved({app}, names)
    BY <2>5
  <2>7. IsSeq(s \o m) /\ \A j \in DOMAIN (s \o m) : Resolved({(s \o m)[j]}, names)
    <3>1. CASE m = <<>>
      <4>1. s \o m = s
        BY <2>4, <3>1
      <4> QED  BY <2>2, <2>3, <4>1 DEF IsSeq
    <3>2. CASE m # <<>>
      <4>1. PICK app : m = <<app>> /\ Resolved({app}, names)
        BY <2>6, <3>2
      <4>2. PICK r : r = s \o m
        OBVIOUS
      <4>3. s \in Seq(Range(s) \cup {app}) /\ m \in Seq(Range(s) \cup {app}) /\ Len(m) = 1
        BY <2>3, <4>1 DEF Range
      <4>4. /\ r \in Seq(Range(s) \cup {app}) /\ Len(r) = n + 1
            /\ \A j \in 1..(n + 1) : r[j] = IF j <= n THEN s[j] ELSE app
        BY <2>4, <4>1, <4>2, <4>3
      <4>5. DOMAIN r = 1..(n + 1) /\ r = [j \in 1..(n + 1) |-> r[j]] /\ n + 1 \in Nat
        BY <4>4
      <4>6. \A j \in DOMAIN r : Resolved({r[j]}, names)
        <5>1. ASSUME NEW j \in 1..(n + 1)
              PROVE  (j \in DOMAIN s /\ r[j] = s[j]) \/ r[j] = app
          BY <2>3, <4>4
        <5> QED  BY <2>2, <4>1, <4>5, <5>1
      <4> QED  BY <4>2, <4>5, <4>6 DEF IsSeq
    <3> QED  BY <3>1, <3>2
  <2> QED  BY <2>1, <2>5, <2>7
<1>3. DOMAIN ts = DOMAIN as
  BY DEF Dumped
<1> HIDE DEF Apps, ts
<1>4. Listed(ts)
  BY <1>1, <1>2, <1>3 DEF Listed
<1>5. ASSUME NEW app \in AppsIn(ts)
      PROVE  Resolved({app}, names)
  <2>1. PICK i \in DOMAIN ts : \E j \in DOMAIN ts[i]["created-apps"] :
                                 app = ts[i]["created-apps"][j]
    BY AppsMember
  <2> QED  BY <2>1, <1>1, <1>2, <1>3
<1> QED  BY <1>4, <1>5 DEF Resolved, ts

\* The accounts and transactions a session starts from: lists where lists belong,
\* programs that are there, and transactions that have a type.
SessionCanStart ==
  /\ \A a \in Accounts : Listed(<<a>>) /\ Resolved(AppsIn(<<a>>), DOMAIN SourceFiles)
  /\ \A t \in Transactions : "type" \in DOMAIN t

LEMMA FilesInit ==
  ASSUME SessionCanStart, Init
  PROVE  FilesInv
  BY DEF SessionCanStart, Init, FilesInv

LEMMA FirstStageNext ==
  ASSUME FilesInv, ReadFirstStage
  PROVE  FilesInv'
<1>1. CASE accts' = accts /\ pc' = "idle"
  BY <1>1 DEF ReadFirstStage, FilesInv
<1>2. CASE ~(accts' = accts /\ pc' = "idle")
  <2>1. PICK as : as = [i \in DOMAIN accts |-> SanitizeAccount(accts[i])]
    OBVIOUS
  <2>2. /\ pc = "first stage" /\ pc' = "second stage" /\ programs' = Extracted(AppsIn(as))
        /\ accts' = NamedAccounts(as)
    BY <1>2, <2>1 DEF ReadFirstStage, Raise, NamedAccounts
  <2>3. Listed(as) /\ \A i \in DOMAIN as : "created-apps" \in DOMAIN as[i]
    BY <2>1, <2>2, SanitizedListed DEF FilesInv
  <2>4. /\ Listed(accts') /\ \A i \in DOMAIN accts' : "created-apps" \in DOMAIN accts'[i]
        /\ Resolved(AppsIn(accts'), DOMAIN programs')
    BY <2>2, <2>3, NamedAccountsResolved
  <2> QED  BY <2>2, <2>4 DEF ReadFirstStage, FilesInv
<1> QED  BY <1>1, <1>2

LEMMA SecondStageNext ==
  ASSUME SessionCanStart, FilesInv, ReadSecondStage
  PROVE  FilesInv'
<1>1. CASE pc' = "idle"
  BY <1>1 DEF ReadSecondStage, FilesInv
<1>2. CASE pc' # "idle"
  <2>1. /\ pc = "second stage" /\ pc' = "length" /\ programs' = Extracted(Range(txns))
        /\ txns' = [i \in DOMAIN txns |-> Named(Completed(txns[i]))]
    BY <1>2 DEF ReadSecondStage, Raise
  <2>2. PICK g \in Transactions : txns = <<g>>
    BY <2>1 DEF FilesInv, Given
  <2>3. PICK t : t = Named(Completed(g))
    OBVIOUS
  <2>4. txns' = <<t>>
    <3>1. DOMAIN txns = {1} /\ txns[1] = g
      BY <2>2
    <3>2. txns' = [i \in {1} |-> t]
      BY <2>1, <2>3, <3>1
    <3>3. <<t>> = [i \in {1} |-> t]
      OBVIOUS
    <3> QED  BY <3>2, <3>3
  <2>5. t["type"].name = "appl" => {"apap", "apsu"} \subseteq DOMAIN t
    BY <2>3, CompletedReady DEF SessionCanStart
  <2>6. Resolved({t}, DOMAIN programs')
    <3>1. g \in Range(txns)
      BY <2>2 DEF Range
    <3>2. \A u \in Progs(Completed(g)) : NameOf(u) \in DOMAIN programs'
      BY <2>1, <3>1, CompletedProgs, ExtractedNames
    <3> QED  BY <2>3, <3>2, NamedResolved
  <2>7. Ready(txns)'
    BY <2>4, <2>5, <2>6 DEF Ready
  <2>8. DOMAIN programs \subseteq DOMAIN programs'
    BY <2>1 DEF Extracted, ++
  <2>9. Resolved(AppsIn(accts), DOMAIN programs')
    BY <2>1, <2>8, ResolvedGrows DEF FilesInv
  <2> QED  BY <2>1, <2>7, <2>9 DEF ReadSecondStage, FilesInv
<1> QED  BY <1>1, <1>2

LEMMA RunSucceedsNext ==
  ASSUME FilesInv, RunSucceeds
  PROVE  FilesInv'
<1> DEFINE t == txns[1]
           new == IF t["type"].name = "appl" /\ Missing(given[1], "apid")
                     /\ {t.apap, t.apsu} \cap {Null} = {}
                  THEN <<Created(t)>> ELSE <<>>
<1>1. tracked' = Dumped(accts, new)
  BY DEF RunSucceeds, Dumped
<1>2. new = <<>> \/ \E app : new = <<app>> /\ Resolved({app}, DOMAIN files)
  <2>1. CASE t["type"].name = "appl"
    <3>1. Resolved({t}, DOMAIN files)
      BY ResolvedGrows DEF RunSucceeds, FilesInv, Ready
    <3>2. {"apap", "apsu"} \subseteq DOMAIN t
      BY <2>1 DEF RunSucceeds, FilesInv, Ready
    <3>3. Resolved({Created(t)}, DOMAIN files)
      BY <3>1, <3>2, CreatedResolved
    <3> QED  BY <3>3
  <2>2. CASE t["type"].name # "appl"
    BY <2>2
  <2> QED  BY <2>1, <2>2
<1>3. Listed(accts) /\ Resolved(AppsIn(accts), DOMAIN files)
  BY ResolvedGrows DEF RunSucceeds, FilesInv
<1> HIDE DEF new
<1>4. Listed(tracked') /\ Resolved(AppsIn(tracked'), DOMAIN files)
  BY <1>1, <1>2, <1>3, DumpedResolved DEF RunSucceeds, FilesInv
<1> QED  BY <1>4 DEF RunSucceeds, FilesInv

LEMMA FilesNext ==
  ASSUME SessionCanStart, FilesInv, [Next]_vars
  PROVE  FilesInv'
<1>1. CASE GiveScenario
  BY <1>1 DEF GiveScenario, FilesInv, Given
<1>2. CASE ReadFirstStage
  BY <1>2, FirstStageNext
<1>3. CASE ReadSecondStage
  BY <1>3, SecondStageNext
<1>4. CASE CheckLength
  BY <1>4 DEF CheckLength, Raise, FilesInv, Ready
<1>5. CASE WritePrograms
  <2>1. DOMAIN files' = DOMAIN programs \cup DOMAIN files
    BY <1>5 DEF WritePrograms, ++
  <2>2. Resolved(AppsIn(tracked), DOMAIN files')
    BY <2>1, ResolvedGrows DEF FilesInv
  <2> QED  BY <1>5, <2>1, <2>2 DEF WritePrograms, FilesInv, Ready
<1>6. CASE RunFails
  BY <1>6 DEF RunFails, FilesInv
<1>7. CASE RunSucceeds
  BY <1>7, RunSucceedsNext
<1>8. CASE UNCHANGED vars
  BY <1>8 DEF vars, FilesInv, Ready, Given
<1> QED  BY <1>1, <1>2, <1>3, <1>4, <1>5, <1>6, <1>7, <1>8 DEF Next

\* Whatever was read, written and lost in between, every program that a tracked
\* account names can be read when the next scenario is made of it.
THEOREM TrackedProgramsAreReadable ==
  ASSUME SessionCanStart
  PROVE  Spec => []TrackedProgramsReadable
<1>1. Init => FilesInv
  BY FilesInit
<1>2. FilesInv /\ [Next]_vars => FilesInv'
  BY FilesNext
<1>3. FilesInv => TrackedProgramsReadable
  BY ReadableResolved DEF FilesInv, TrackedProgramsReadable
<1> QED  BY <1>1, <1>2, <1>3, PTL DEF Spec

-----------------------------------------------------------------------------
(* What from_json returns can be read.                                     *)
Fits(v, k, pattern) == v.type \in pattern[k] /\ (v.type = "object" => v.keys = ObjectKeys(k))

LEMMA MatchesFits ==
  ASSUME NEW d, NEW pattern
  PROVE  Matches(d, pattern) <=> DOMAIN d = DOMAIN pattern /\ \A k \in DOMAIN d : Fits(d[k], k, pattern)
BY DEF Matches, Fits

\* The keys that a transaction must have: for the others there is a default.
TxnTypes == {"pay", "axfer", "afrz", "acfg", "appl"}
Mandatory(n) ==
  {"snd", "type"} \cup CASE n = "pay"   -> {"amt", "rcv"}
                         [] n = "axfer" -> {"arcv"}
                         [] n = "afrz"  -> {"afrz", "fadd", "faid"}
                         [] n = "acfg"  -> {"apar"}
                         [] OTHER       -> {}
Pattern(n) == TxnPattern(n) ++ HeaderPattern

\* The defaults of each type are of the types that its rule asks for, and there is one
\* for each key that is not mandatory.
LEMMA TypeDefaultsFit ==
  ASSUME NEW n \in TxnTypes
  PROVE  /\ DOMAIN TxnPattern(n) \subseteq Mandatory(n) \cup DOMAIN TypeDefaults(n)
         /\ DOMAIN TypeDefaults(n) \subseteq DOMAIN TxnPattern(n)
         /\ \A k \in DOMAIN TypeDefaults(n) \ Mandatory(n) : Fits(TypeDefaults(n)[k], k, TxnPattern(n))
<1>1. CASE n = "pay"
  BY <1>1 DEF TypeDefaults, TxnPattern, Mandatory
<1>2. CASE n = "axfer"
  BY <1>2 DEF TypeDefaults, TxnPattern, Mandatory, Fits, AnyType, Strings, Val, Null
<1>3. CASE n = "afrz"
  BY <1>3 DEF TypeDefaults, TxnPattern, Mandatory
<1>4. CASE n = "acfg"
  BY <1>4 DEF TypeDefaults, TxnPattern, Mandatory, Fits, Val
<1>5. CASE n = "appl"
  BY <1>5 DEF TypeDefaults, TxnPattern, Mandatory, Fits, AnyType, Val, Null, FullSchema, Keys, ObjectKeys, ++
<1> QED BY <1>1, <1>2, <1>3, <1>4, <1>5 DEF TxnTypes

LEMMA HeaderDefaultsFit ==
  /\ DOMAIN HeaderPattern = DOMAIN HeaderDefaults \cup {"snd", "type"}
  /\ \A k \in DOMAIN HeaderDefaults : Fits(HeaderDefaults[k], k, HeaderPattern)
BY DEF HeaderPattern, HeaderDefaults, Fits, Val, AnyType, Strings, ++

LEMMA PatternValue ==
  ASSUME NEW n \in TxnTypes
  PROVE  /\ DOMAIN Pattern(n) = DOMAIN TxnPattern(n) \cup DOMAIN HeaderPattern
         /\ DOMAIN TxnPattern(n) \cap DOMAIN HeaderPattern = {}
         /\ \A k \in DOMAIN TxnPattern(n) : Pattern(n)[k] = TxnPattern(n)[k]
         /\ \A k \in DOMAIN HeaderPattern : Pattern(n)[k] = HeaderPattern[k]
<1>1. DOMAIN HeaderPattern = {"fee", "fv", "lv", "gen", "grp", "note", "rekey", "snd", "type", "gh"}
  BY DEF HeaderPattern, ++
<1>2. DOMAIN TxnPattern(n) \subseteq
        {"amt", "rcv", "aamt", "aclose", "arcv", "asnd", "xaid", "afrz", "fadd", "faid", "caid", "apar",
         "apan", "apep", "apid", "apgs", "apls", "apaa", "apap", "apas", "apat", "apbx", "apfa", "apsu"}
  BY DEF TxnTypes, TxnPattern, ++
<1>3. DOMAIN TxnPattern(n) \cap DOMAIN HeaderPattern = {}
  BY <1>1, <1>2
<1>4. Pattern(n) = TxnPattern(n) ++ HeaderPattern
  BY DEF Pattern
<1> DEFINE f == TxnPattern(n)
<1> HIDE DEF f
<1>5. /\ DOMAIN (f ++ HeaderPattern) = DOMAIN f \cup DOMAIN HeaderPattern
      /\ \A k \in DOMAIN f : (f ++ HeaderPattern)[k] = f[k]
      /\ \A k \in DOMAIN HeaderPattern \ DOMAIN f : (f ++ HeaderPattern)[k] = HeaderPattern[k]
  BY Merge
<1> QED BY <1>3, <1>4, <1>5 DEF f

\* The keys with values that from_json repairs, or replaces by names
Special == {"apan", "apap", "apsu", "apgs", "apar"}

\* A transaction as it is given: the mandatory keys, no unknown ones, and values of the
\* types that the rules ask for, but for what from_json repairs.
WellGiven(t) ==
  /\ "type" \in DOMAIN t /\ t["type"].name \in TxnTypes
  /\ LET P == Pattern(t["type"].name) IN
       /\ Mandatory(t["type"].name) \subseteq DOMAIN t /\ DOMAIN t \subseteq DOMAIN P
       /\ \A k \in DOMAIN t \ Special : Fits(t[k], k, P)
       /\ \A k \in {"apap", "apsu"} \cap DOMAIN t : t[k] = Null \/ t[k].type = "program"
       /\ "apan" \in DOMAIN t => t["apan"] = Null \/ t["apan"].type = "int"
       /\ "apar" \in DOMAIN t => t["apar"].keys \cup {"am", "df", "m"} = ObjectKeys("apar")

\* A transaction that its rule can read, whose programs are programs
CanRead(t) ==
  /\ Matches(t, Pattern(t["type"].name))
  /\ \A k \in {"apap", "apsu"} \cap DOMAIN t : t[k] = Null \/ t[k].type = "program"

LEMMA SpecialKeys ==
  ASSUME NEW n \in TxnTypes
  PROVE  /\ "apan" \in DOMAIN Pattern(n) => Pattern(n)["apan"] = {"int"}
         /\ "apgs" \in DOMAIN Pattern(n) => Pattern(n)["apgs"] = {"object"}
         /\ "apar" \in DOMAIN Pattern(n) => Pattern(n)["apar"] = {"object"}
         /\ \A k \in {"apap", "apsu"} : k \in DOMAIN Pattern(n) => Pattern(n)[k] = AnyType
<1>1. Special \cap DOMAIN HeaderPattern = {}
  BY DEF Special, HeaderPattern, ++
<1>2. \A k \in Special \cap DOMAIN Pattern(n) : k \in DOMAIN TxnPattern(n) /\ Pattern(n)[k] = TxnPattern(n)[k]
  BY <1>1, PatternValue
<1>3. /\ "apan" \in DOMAIN TxnPattern(n) => TxnPattern(n)["apan"] = {"int"}
      /\ "apgs" \in DOMAIN TxnPattern(n) => TxnPattern(n)["apgs"] = {"object"}
      /\ "apar" \in DOMAIN TxnPattern(n) => TxnPattern(n)["apar"] = {"object"}
      /\ \A k \in {"apap", "apsu"} : k \in DOMAIN TxnPattern(n) => TxnPattern(n)[k] = AnyType
  BY DEF TxnPattern, TxnTypes, ++
<1> QED BY <1>2, <1>3 DEF Special

\* Whatever optional keys a transaction lacks, once it is completed its rule can read it.
LEMMA CompletedReads ==
  ASSUME NEW t, WellGiven(t)
  PROVE  CanRead(Completed(t)) /\ Completed(t)["type"] = t["type"]
<1> DEFINE n == t["type"].name
           P == Pattern(n)
           keep == [k \in DOMAIN t |->
                      CASE k = "apan" /\ t[k] = Null -> Val("int")
                        [] k = "apgs"                -> FullSchema
                        [] k = "apar"                -> Keys(t[k].keys \cup {"am", "df", "m"})
                        [] OTHER                     -> t[k]]
           D == TypeDefaults(n)
           c == Completed(t)
<1>1. n \in TxnTypes
  BY DEF WellGiven
<1>2. c = keep ++ D ++ HeaderDefaults
  BY DEF Completed
<1>3. DOMAIN keep = DOMAIN t /\ \A k \in DOMAIN t : k \notin {"apan", "apgs", "apar"} => keep[k] = t[k]
  OBVIOUS
<1>4. ASSUME NEW k \in DOMAIN t
      PROVE  /\ Fits(keep[k], k, P)
             /\ k \in {"apap", "apsu"} => keep[k] = Null \/ keep[k].type = "program"
  <2>0. k \in DOMAIN P
    BY DEF WellGiven
  <2> HIDE DEF n, P
  <2>1. CASE k = "apan"
    <3>1. P["apan"] = {"int"}
      BY <1>1, <2>0, <2>1, SpecialKeys DEF P
    <3>2. t["apan"] = Null \/ t["apan"].type = "int"
      BY <2>1 DEF WellGiven
    <3>3. keep[k].type = "int"
      BY <2>1, <3>2 DEF Val
    <3> QED BY <2>1, <3>1, <3>3 DEF Fits
  <2>2. CASE k = "apgs"
    <3>1. P["apgs"] = {"object"}
      BY <1>1, <2>0, <2>2, SpecialKeys DEF P
    <3>2. keep[k].type = "object" /\ keep[k].keys = ObjectKeys(k)
      BY <2>2 DEF FullSchema, Keys, ObjectKeys
    <3> QED BY <2>2, <3>1, <3>2 DEF Fits
  <2>3. CASE k = "apar"
    <3>1. P["apar"] = {"object"}
      BY <1>1, <2>0, <2>3, SpecialKeys DEF P
    <3>2. keep[k].type = "object" /\ keep[k].keys = t["apar"].keys \cup {"am", "df", "m"}
      BY <2>3 DEF Keys
    <3>3. t["apar"].keys \cup {"am", "df", "m"} = ObjectKeys("apar")
      BY <2>3 DEF WellGiven
    <3> QED BY <2>3, <3>1, <3>2, <3>3 DEF Fits
  <2>4. CASE k \in {"apap", "apsu"}
    <3>1. P[k] = AnyType
      BY <1>1, <2>0, <2>4, SpecialKeys DEF P
    <3>2. t[k] = Null \/ t[k].type = "program"
      BY <2>4 DEF WellGiven
    <3>3. keep[k] = t[k]
      BY <1>3, <2>4
    <3>4. t[k].type \in {"null", "program"}
      BY <3>2 DEF Null, Val
    <3> QED BY <2>4, <3>1, <3>2, <3>3, <3>4 DEF Fits, AnyType
  <2>5. CASE k \notin Special
    <3>1. Fits(t[k], k, P)
      BY <2>5 DEF WellGiven, Special, P, n
    <3>2. keep[k] = t[k]
      BY <1>3, <2>5 DEF Special
    <3> QED BY <2>5, <3>1, <3>2 DEF Special
  <2> QED BY <2>1, <2>2, <2>3, <2>4, <2>5 DEF Special
<1>5. DOMAIN t \subseteq DOMAIN P /\ Mandatory(n) \subseteq DOMAIN t /\ {"snd", "type"} \subseteq Mandatory(n)
  BY DEF WellGiven, Mandatory
<1>6. /\ DOMAIN P = DOMAIN TxnPattern(n) \cup DOMAIN HeaderPattern
      /\ DOMAIN TxnPattern(n) \cap DOMAIN HeaderPattern = {}
      /\ \A k \in DOMAIN TxnPattern(n) : P[k] = TxnPattern(n)[k]
      /\ \A k \in DOMAIN HeaderPattern : P[k] = HeaderPattern[k]
  BY <1>1, PatternValue
<1>7. /\ DOMAIN TxnPattern(n) \subseteq Mandatory(n) \cup DOMAIN D
      /\ DOMAIN D \subseteq DOMAIN TxnPattern(n)
      /\ \A k \in DOMAIN D \ Mandatory(n) : Fits(D[k], k, TxnPattern(n))
  BY <1>1, TypeDefaultsFit
<1>8. \A k \in {"apap", "apsu"} \cap DOMAIN D : D[k] = Null
  BY <1>1 DEF TypeDefaults, TxnTypes, ++
<1>9. "type" \in DOMAIN keep /\ keep["type"] = t["type"]
  BY <1>3, <1>5
<1> HIDE DEF n, P, keep, D, c
<1>10. /\ DOMAIN c = DOMAIN t \cup DOMAIN D \cup DOMAIN HeaderDefaults
       /\ \A k \in DOMAIN t : c[k] = keep[k]
       /\ \A k \in DOMAIN D \ DOMAIN t : c[k] = D[k]
       /\ \A k \in (DOMAIN HeaderDefaults \ DOMAIN t) \ DOMAIN D : c[k] = HeaderDefaults[k]
  BY <1>2, <1>3 DEF ++
<1>11. DOMAIN c = DOMAIN P
  BY <1>5, <1>6, <1>7, <1>10, HeaderDefaultsFit
<1>12. ASSUME NEW k \in DOMAIN c
       PROVE  /\ Fits(c[k], k, P)
              /\ k \in {"apap", "apsu"} => c[k] = Null \/ c[k].type = "program"
  <2>1. CASE k \in DOMAIN t
    BY <1>4, <1>10, <2>1
  <2>2. CASE k \in DOMAIN D \ DOMAIN t
    <3>1. Fits(D[k], k, TxnPattern(n))
      BY <1>5, <1>7, <2>2
    <3>2. Fits(D[k], k, P)
      BY <1>6, <1>7, <2>2, <3>1 DEF Fits
    <3> QED BY <1>8, <1>10, <2>2, <3>2
  <2>3. CASE k \in (DOMAIN HeaderDefaults \ DOMAIN t) \ DOMAIN D
    <3>1. Fits(HeaderDefaults[k], k, HeaderPattern) /\ k \in DOMAIN HeaderPattern
      BY <2>3, HeaderDefaultsFit
    <3>2. Fits(HeaderDefaults[k], k, P)
      BY <1>6, <3>1 DEF Fits
    <3>3. k \notin {"apap", "apsu"}
      BY <2>3 DEF HeaderDefaults
    <3> QED BY <1>10, <2>3, <3>2, <3>3
  <2> QED BY <1>10, <2>1, <2>2, <2>3
<1>13. c["type"] = t["type"]
  BY <1>3, <1>9, <1>10
<1>14. Matches(c, P)
  BY <1>11, <1>12, MatchesFits
<1>15. c["type"].name = n
  BY <1>13 DEF n
<1>16. CanRead(c)
  BY <1>12, <1>14, <1>15 DEF CanRead, P
<1> QED BY <1>13, <1>16 DEF c

\* Names of programs fit where programs do.
LEMMA NamedFits ==
  ASSUME NEW d
  PROVE  /\ DOMAIN Named(d) = DOMAIN d
         /\ \A k \in DOMAIN d \ ProgramKeys(d) : Named(d)[k] = d[k]
         /\ \A k \in ProgramKeys(d) : Named(d)[k].type = "program" /\ d[k].type = "program"
<1>1. /\ DOMAIN Named(d) = ProgramKeys(d) \cup DOMAIN d
      /\ \A k \in DOMAIN Named(d) :
           Named(d)[k] = IF k \in ProgramKeys(d) THEN File(NameOf(d[k])) ELSE d[k]
  BY DEF Named, ++
<1>2. ProgramKeys(d) \subseteq DOMAIN d /\ \A k \in ProgramKeys(d) : d[k].type = "program"
  BY DEF ProgramKeys
<1>3. \A m : File(m).type = "program"
  BY DEF File
<1> QED BY <1>1, <1>2, <1>3

LEMMA NamedMatches ==
  ASSUME NEW d, NEW pattern, Matches(d, pattern)
  PROVE  Matches(Named(d), pattern)
<1>1. ASSUME NEW k \in DOMAIN d
      PROVE  Fits(Named(d)[k], k, pattern)
  BY NamedFits, MatchesFits DEF Fits
<1> QED BY <1>1, NamedFits, MatchesFits

LEMMA NamedReads ==
  ASSUME NEW t, CanRead(t), "type" \in DOMAIN t
  PROVE  CanRead(Named(t)) /\ Named(t)["type"] = t["type"]
<1>1. Named(t)["type"] = t["type"]
  BY NamedFits DEF ProgramKeys
<1>2. Matches(Named(t), Pattern(Named(t)["type"].name))
  BY <1>1, NamedMatches DEF CanRead
<1>3. \A k \in {"apap", "apsu"} \cap DOMAIN Named(t) : Named(t)[k] = Null \/ Named(t)[k].type = "program"
  BY NamedFits DEF CanRead
<1> QED BY <1>1, <1>2, <1>3 DEF CanRead

-----------------------------------------------------------------------------
\* An application as a dump or a user gives it: at most the global state is missing.
GoodApp(app) ==
  /\ DOMAIN app \cup {"global-state"} = DOMAIN AppPattern
  /\ \A k \in DOMAIN app : Fits(app[k], k, AppPattern) \/ (k = "global-state" /\ app[k] = Null)

\* An account: there are the address and the amount, and null stands for what is
\* missing, or was not dumped.
Nullable == {"auth-addr", "created-assets", "apps-local-state", "assets"}
Plain(a) == DOMAIN a \ {"created-apps"}
GoodAccount(a) ==
  /\ {"address", "amount"} \subseteq DOMAIN a /\ Plain(a) \subseteq DOMAIN AccountPattern
  /\ \A k \in Plain(a) : Fits(a[k], k, AccountPattern) \/ (k \in Nullable /\ a[k] = Null)
  /\ "created-apps" \in DOMAIN a =>
       \A j \in DOMAIN a["created-apps"] : GoodApp(a["created-apps"][j])

\* An account that its rule can read
ReadAccount(a) ==
  /\ "created-apps" \in DOMAIN a /\ Plain(a) = DOMAIN AccountPattern
  /\ \A k \in Plain(a) : Fits(a[k], k, AccountPattern)
  /\ \A j \in DOMAIN a["created-apps"] : Matches(a["created-apps"][j], AppPattern)

LEMMA SanitizedApp ==
  ASSUME NEW app, GoodApp(app)
  PROVE  Matches(SanitizeApp(app), AppPattern)
<1> DEFINE s == SanitizeApp(app)
           d == [k \in {"global-state"} |-> IF Falsy(app, k) THEN Val("list") ELSE app[k]]
<1>1. s = d ++ app /\ DOMAIN d = {"global-state"}
  BY DEF SanitizeApp
<1>2. AppPattern["global-state"] = {"list"} /\ "global-state" \in DOMAIN AppPattern
  BY DEF AppPattern, ++
<1>3. Fits(d["global-state"], "global-state", AppPattern)
  <2>1. CASE Falsy(app, "global-state")
    <3>1. d["global-state"] = Val("list")
      BY <2>1
    <3> QED BY <1>2, <3>1 DEF Fits, Val
  <2>2. CASE ~Falsy(app, "global-state")
    <3>1. d["global-state"] = app["global-state"]
      BY <2>2
    <3> QED BY <2>2, <3>1 DEF Falsy, Missing, GoodApp
  <2> QED BY <2>1, <2>2
<1> HIDE DEF d, s
<1>4. /\ DOMAIN s = {"global-state"} \cup DOMAIN app
      /\ s["global-state"] = d["global-state"]
      /\ \A k \in DOMAIN app : k # "global-state" => s[k] = app[k]
  BY <1>1 DEF ++
<1>5. \A k \in DOMAIN s : Fits(s[k], k, AppPattern)
  BY <1>3, <1>4 DEF GoodApp
<1> QED BY <1>4, <1>5, MatchesFits DEF GoodApp, s

\* Every key the rule asks for is given a default of the right type.
LEMMA SanitizedReads ==
  ASSUME NEW acc, GoodAccount(acc)
  PROVE  ReadAccount(SanitizeAccount(acc))
<1> DEFINE s == SanitizeAccount(acc)
           d == [k \in Nullable |->
                   IF Falsy(acc, k) THEN Val(IF k = "auth-addr" THEN "string" ELSE "list") ELSE acc[k]]
           apps == IF Missing(acc, "created-apps") THEN <<>>
                   ELSE [i \in DOMAIN acc["created-apps"] |-> SanitizeApp(acc["created-apps"][i])]
           e == [k \in {"created-apps"} |-> apps]
<1>1. s = d ++ e ++ acc
  <2>1. e = [k \in {"created-apps"} |->
               IF Missing(acc, k) THEN <<>> ELSE [i \in DOMAIN acc[k] |-> SanitizeApp(acc[k][i])]]
    OBVIOUS
  <2> HIDE DEF e
  <2> QED BY <2>1 DEF SanitizeAccount, Nullable
<1>2. /\ DOMAIN AccountPattern = Nullable \cup {"address", "amount"}
      /\ \A k \in Nullable : AccountPattern[k] = IF k = "auth-addr" THEN {"string"} ELSE {"list"}
  BY DEF AccountPattern, Nullable, Strings, ++
<1>3. ASSUME NEW k \in Nullable PROVE Fits(d[k], k, AccountPattern)
  <2>1. CASE Falsy(acc, k)
    <3>1. d[k] = Val(IF k = "auth-addr" THEN "string" ELSE "list")
      BY <2>1
    <3> QED BY <1>2, <3>1 DEF Fits, Val
  <2>2. CASE ~Falsy(acc, k)
    <3>1. d[k] = acc[k] /\ k \in DOMAIN acc /\ acc[k] # Null
      BY <2>2 DEF Falsy, Missing
    <3>2. k \in Plain(acc)
      BY <3>1 DEF Plain, Nullable
    <3> QED BY <3>1, <3>2 DEF GoodAccount
  <2> QED BY <2>1, <2>2
<1>4. \A j \in DOMAIN apps : Matches(apps[j], AppPattern)
  <2>1. CASE Missing(acc, "created-apps")
    BY <2>1
  <2>2. CASE ~Missing(acc, "created-apps")
    <3>1. apps = [i \in DOMAIN acc["created-apps"] |-> SanitizeApp(acc["created-apps"][i])]
      BY <2>2
    <3>2. \A i \in DOMAIN acc["created-apps"] : GoodApp(acc["created-apps"][i])
      BY <2>2 DEF Missing, GoodAccount
    <3> HIDE DEF apps
    <3> QED BY <3>1, <3>2, SanitizedApp
  <2> QED BY <2>1, <2>2
<1>5. DOMAIN d = Nullable /\ DOMAIN e = {"created-apps"} /\ e["created-apps"] = apps
  OBVIOUS
<1>6. "created-apps" \notin Nullable \cup DOMAIN AccountPattern
  BY <1>2 DEF Nullable
<1> HIDE DEF s, d, e, apps
<1>7. /\ DOMAIN s = Nullable \cup {"created-apps"} \cup DOMAIN acc
      /\ \A k \in Nullable : s[k] = d[k]
      /\ s["created-apps"] = apps
      /\ \A k \in DOMAIN acc : k \notin Nullable /\ k # "created-apps" => s[k] = acc[k]
  BY <1>1, <1>5, <1>6 DEF ++
<1>8. "created-apps" \in DOMAIN s /\ Plain(s) = DOMAIN AccountPattern
  BY <1>2, <1>6, <1>7 DEF Plain, GoodAccount
<1>9. ASSUME NEW k \in Plain(s) PROVE Fits(s[k], k, AccountPattern)
  <2>1. CASE k \in Nullable
    BY <1>3, <1>7, <2>1
  <2>2. CASE k \notin Nullable
    <3>1. k \in Plain(acc) /\ s[k] = acc[k]
      BY <1>7, <2>2 DEF Plain
    <3> QED BY <2>2, <3>1 DEF GoodAccount
  <2> QED BY <2>1, <2>2
<1> QED BY <1>4, <1>7, <1>8, <1>9 DEF ReadAccount, s

\* An account that is read stays readable when its programs become names.
LEMMA NamedAccountReads ==
  ASSUME NEW as, \A i \in DOMAIN as : ReadAccount(as[i])
  PROVE  \A i \in DOMAIN NamedAccounts(as) : ReadAccount(NamedAccounts(as)[i])
<1> SUFFICES ASSUME NEW i \in DOMAIN as PROVE ReadAccount(NamedAccounts(as)[i])
  BY DEF NamedAccounts
<1> DEFINE a == as[i]
           apps == [j \in DOMAIN a["created-apps"] |-> Named(a["created-apps"][j])]
           r == NamedAccounts(as)[i]
<1>1. r = [k \in {"created-apps"} |-> apps] ++ a
  BY DEF NamedAccounts
<1>2. /\ DOMAIN r = {"created-apps"} \cup DOMAIN a /\ r["created-apps"] = apps
      /\ \A k \in Plain(a) : r[k] = a[k]
  BY <1>1 DEF ++, Plain
<1>3. ReadAccount(a)
  OBVIOUS
<1>4. \A j \in DOMAIN apps : Matches(apps[j], AppPattern)
  BY <1>3, NamedMatches DEF ReadAccount
<1> HIDE DEF a, apps, r
<1>5. Plain(r) = Plain(a) /\ "created-apps" \in DOMAIN r
  BY <1>2 DEF Plain
<1> QED BY <1>2, <1>3, <1>4, <1>5 DEF ReadAccount, r

\* The dump of readable accounts can be given again.
LEMMA DumpedGood ==
  ASSUME NEW as, NEW new, Listed(as), \A i \in DOMAIN as : ReadAccount(as[i]),
         new = <<>> \/ \E app : new = <<app>> /\ GoodApp(app)
  PROVE  \A i \in DOMAIN Dumped(as, new) : GoodAccount(Dumped(as, new)[i])
<1> SUFFICES ASSUME NEW i \in DOMAIN as PROVE GoodAccount(Dumped(as, new)[i])
  BY DEF Dumped
<1> DEFINE a == as[i]
           m == IF i = 1 THEN new ELSE <<>>
           e == [k \in {"created-apps"} |-> a[k] \o m]
           d == [k \in {"auth-addr", "apps-local-state"} |-> Null]
           r == Dumped(as, new)[i]
<1>1. r = e ++ d ++ a
  BY DEF Dumped
<1>2. DOMAIN e = {"created-apps"} /\ e["created-apps"] = a["created-apps"] \o m
  OBVIOUS
<1>3. /\ DOMAIN d = {"auth-addr", "apps-local-state"}
      /\ \A k \in DOMAIN d : d[k] = Null
  OBVIOUS
<1>4. ReadAccount(a) /\ IsSeq(a["created-apps"])
  BY DEF ReadAccount, Listed
<1>5. m = <<>> \/ \E app : m = <<app>> /\ GoodApp(app)
  OBVIOUS
<1> HIDE DEF a, m, e, d, r
<1>6. /\ DOMAIN r = DOMAIN e \cup DOMAIN d \cup DOMAIN a
      /\ r["created-apps"] = a["created-apps"] \o m
      /\ \A k \in DOMAIN d : r[k] = Null
      /\ \A k \in Plain(a) \ DOMAIN d : r[k] = a[k]
  BY <1>1, <1>2, <1>3 DEF ++, Plain
<1>7. /\ DOMAIN AccountPattern = Nullable \cup {"address", "amount"}
      /\ DOMAIN d \subseteq Nullable /\ "created-apps" \notin DOMAIN AccountPattern
  BY <1>3 DEF AccountPattern, Nullable, ++
<1>8. Plain(r) = DOMAIN AccountPattern
  BY <1>2, <1>4, <1>6, <1>7 DEF Plain, ReadAccount
<1>9. \A k \in Plain(r) : Fits(r[k], k, AccountPattern) \/ (k \in Nullable /\ r[k] = Null)
  BY <1>4, <1>6, <1>7, <1>8 DEF ReadAccount
<1>10. \A app : Matches(app, AppPattern) => GoodApp(app)
  <2>1. "global-state" \in DOMAIN AppPattern
    BY DEF AppPattern, ++
  <2> QED BY <2>1, MatchesFits DEF GoodApp
<1>11. \A j \in DOMAIN (a["created-apps"] \o m) : GoodApp((a["created-apps"] \o m)[j])
  <2>1. PICK s : s = a["created-apps"]
    OBVIOUS
  <2>2. PICK n \in Nat : DOMAIN s = 1..n /\ s = [j \in 1..n |-> s[j]]
    BY <1>4, <2>1 DEF IsSeq
  <2>3. s \in Seq(Range(s)) /\ Len(s) = n
    BY <2>2 DEF Range
  <2>4. \A j \in 1..n : GoodApp(s[j])
    BY <1>4, <1>10, <2>1, <2>2 DEF ReadAccount
  <2>5. CASE m = <<>>
    <3>1. s \o m = s
      BY <2>3, <2>5
    <3> QED BY <2>1, <2>2, <2>4, <3>1
  <2>6. CASE m # <<>>
    <3>1. PICK app : m = <<app>> /\ GoodApp(app)
      BY <1>5, <2>6
    <3>2. s \in Seq(Range(s) \cup {app}) /\ m \in Seq(Range(s) \cup {app}) /\ Len(m) = 1
      BY <2>2, <3>1 DEF Range
    <3>3. PICK z : z = s \o m
      OBVIOUS
    <3>4. /\ z \in Seq(Range(s) \cup {app}) /\ Len(z) = n + 1
          /\ \A j \in 1..(n + 1) : z[j] = IF j <= n THEN s[j] ELSE app
      BY <2>3, <3>1, <3>2, <3>3
    <3>5. ASSUME NEW j \in DOMAIN z PROVE GoodApp(z[j])
      <4>1. j \in 1..(n + 1)
        BY <3>4
      <4>2. (j \in 1..n /\ z[j] = s[j]) \/ z[j] = app
        BY <3>4, <4>1
      <4> QED BY <2>4, <3>1, <4>2
    <3> QED BY <2>1, <3>3, <3>5
  <2> QED BY <2>5, <2>6
<1>12. "created-apps" \in DOMAIN r
  BY <1>2, <1>6
<1>13. \A j \in DOMAIN r["created-apps"] : GoodApp(r["created-apps"][j])
  BY <1>6, <1>11
<1>14. {"address", "amount"} \subseteq DOMAIN r
  BY <1>7, <1>8 DEF Plain
<1>15. GoodAccount(r)
  BY <1>8, <1>9, <1>13, <1>14 DEF GoodAccount
<1> QED BY <1>15 DEF r

\* An application that a readable transaction has created
LEMMA CreatedGood ==
  ASSUME NEW t, CanRead(t), {"apap", "apsu"} \subseteq DOMAIN t, {t.apap, t.apsu} \cap {Null} = {}
  PROVE  GoodApp(Created(t))
<1> DEFINE app == Created(t)
<1>1. t["apap"].type = "program" /\ t["apsu"].type = "program"
  BY DEF CanRead
<1>2. /\ DOMAIN app = {"approval-program", "clear-state-program", "global-state-schema",
                       "local-state-schema", "id"}
      /\ app["approval-program"] = t["apap"] /\ app["clear-state-program"] = t["apsu"]
      /\ app["global-state-schema"] = FullSchema /\ app["local-state-schema"] = FullSchema
      /\ app["id"] = Val("int")
  BY DEF Created, ++
<1>3. /\ DOMAIN AppPattern = {"approval-program", "clear-state-program", "global-state-schema",
                              "local-state-schema", "global-state", "id"}
      /\ AppPattern["approval-program"] = {"program"} /\ AppPattern["clear-state-program"] = {"program"}
      /\ AppPattern["global-state-schema"] = {"object"} /\ AppPattern["local-state-schema"] = {"object"}
      /\ AppPattern["id"] = {"int"}
  BY DEF AppPattern, ++
<1> HIDE DEF app
<1>4. ASSUME NEW k \in DOMAIN app PROVE Fits(app[k], k, AppPattern)
  <2>1. CASE k \in {"approval-program", "clear-state-program"}
    BY <1>1, <1>2, <1>3, <2>1 DEF Fits
  <2>2. CASE k \in {"global-state-schema", "local-state-schema"}
    BY <1>2, <1>3, <2>2 DEF Fits, FullSchema, Keys, ObjectKeys
  <2>3. CASE k = "id"
    BY <1>2, <1>3, <2>3 DEF Fits, Val
  <2> QED BY <1>2, <2>1, <2>2, <2>3
<1> QED BY <1>2, <1>3, <1>4 DEF GoodApp, app

\* Accounts and transactions of a session have the keys without a default, no unknown
\* ones, and values of the right types.
SessionReads ==
  /\ \A a \in Accounts : GoodAccount(a)
  /\ \A t \in Transactions : CanComplete(t) => WellGiven(t)
  /\ StageLists \subseteq Seq(STRING)

\* A transaction as from_json leaves it
Read(ts) == ts = <<ts[1]>> /\ CanRead(ts[1])

ReadInv ==
  /\ stages \in Seq(STRING)
  /\ \A i \in DOMAIN tracked : GoodAccount(tracked[i])
  /\ pc = "first stage" => \A i \in DOMAIN accts : GoodAccount(accts[i])
  /\ pc \in {"second stage", "length", "run", "running"} => \A i \in DOMAIN accts : ReadAccount(accts[i])
  /\ pc \in {"length", "run", "running"} => Read(txns)

LEMMA ReadInit ==
  ASSUME SessionReads, Init
  PROVE  ReadInv
  BY DEF SessionReads, Init, ReadInv

LEMMA FirstStageReads ==
  ASSUME ReadInv, ReadFirstStage
  PROVE  ReadInv'
<1>1. CASE accts' = accts /\ pc' = "idle"
  BY <1>1 DEF ReadFirstStage, ReadInv
<1>2. CASE ~(accts' = accts /\ pc' = "idle")
  <2>1. PICK as : as = [i \in DOMAIN accts |-> SanitizeAccount(accts[i])]
    OBVIOUS
  <2>2. /\ pc = "first stage" /\ pc' = "second stage" /\ accts' = NamedAccounts(as)
    BY <1>2, <2>1 DEF ReadFirstStage, Raise, NamedAccounts
  <2>3. \A i \in DOMAIN as : ReadAccount(as[i])
    BY <2>1, <2>2, SanitizedReads DEF ReadInv
  <2>4. \A i \in DOMAIN accts' : ReadAccount(accts'[i])
    BY <2>2, <2>3, NamedAccountReads
  <2> QED BY <2>2, <2>4 DEF ReadFirstStage, ReadInv
<1> QED BY <1>1, <1>2

LEMMA SecondStageReads ==
  ASSUME SessionReads, FilesInv, ReadInv, ReadSecondStage
  PROVE  ReadInv'
<1>1. CASE pc' = "idle"
  BY <1>1 DEF ReadSecondStage, ReadInv
<1>2. CASE pc' # "idle"
  <2>0. /\ pc = "second stage" /\ pc' = "length"
        /\ txns' = [i \in DOMAIN txns |-> Named(Completed(txns[i]))]
    BY <1>2 DEF ReadSecondStage, Raise
  <2>1. CanComplete(txns[1])
    <3>1. stages \in Seq(STRING)
      BY DEF ReadInv
    <3>2. Len(stages) \in Nat
      BY <3>1
    <3>3. Len(stages) < 2 \/ Len(stages) >= 2
      BY <3>2
    <3>4. ~(Len(stages) < 2) /\ stages[2] = "submit-transactions"
      BY <1>2, <3>3 DEF ReadSecondStage, Raise
    <3> QED BY <1>2, <3>3, <3>4 DEF ReadSecondStage, Raise
  <2>2. PICK g \in Transactions : txns = <<g>>
    BY <2>0 DEF FilesInv, Given
  <2>3. PICK c : c = Completed(g)
    OBVIOUS
  <2>4. PICK t : t = Named(c)
    OBVIOUS
  <2>5. txns' = <<t>>
    <3>1. DOMAIN txns = {1} /\ txns[1] = g
      BY <2>2
    <3>2. txns' = [i \in {1} |-> t]
      BY <2>0, <2>3, <2>4, <3>1
    <3>3. <<t>> = [i \in {1} |-> t]
      OBVIOUS
    <3> QED BY <3>2, <3>3
  <2>6. WellGiven(g)
    BY <2>1, <2>2 DEF SessionReads
  <2>7. CanRead(c) /\ c["type"].name = g["type"].name
    BY <2>3, <2>6, CompletedReads
  <2>8. "type" \in DOMAIN c
    <3>1. DOMAIN g \subseteq DOMAIN c
      BY <2>3 DEF Completed, ++
    <3> QED BY <2>6, <3>1 DEF WellGiven
  <2>9. CanRead(t)
    BY <2>4, <2>7, <2>8, NamedReads
  <2>10. Read(txns)'
    BY <2>5, <2>9 DEF Read
  <2> QED BY <2>0, <2>10 DEF ReadSecondStage, ReadInv
<1> QED BY <1>1, <1>2

LEMMA RunSucceedsReads ==
  ASSUME FilesInv, ReadInv, RunSucceeds
  PROVE  ReadInv'
<1> DEFINE t == txns[1]
           new == IF t["type"].name = "appl" /\ Missing(given[1], "apid")
                     /\ {t.apap, t.apsu} \cap {Null} = {}
                  THEN <<Created(t)>> ELSE <<>>
<1>1. tracked' = Dumped(accts, new)
  BY DEF RunSucceeds, Dumped
<1>2. new = <<>> \/ \E app : new = <<app>> /\ GoodApp(app)
  <2>1. CASE t["type"].name = "appl" /\ {t.apap, t.apsu} \cap {Null} = {}
    <3>1. CanRead(t) /\ {"apap", "apsu"} \subseteq DOMAIN t
      BY <2>1 DEF RunSucceeds, FilesInv, Ready, ReadInv, Read
    <3>2. GoodApp(Created(t))
      BY <2>1, <3>1, CreatedGood
    <3> QED BY <3>2
  <2>2. CASE ~(t["type"].name = "appl" /\ {t.apap, t.apsu} \cap {Null} = {})
    BY <2>2
  <2> QED BY <2>1, <2>2
<1>3. Listed(accts) /\ \A i \in DOMAIN accts : ReadAccount(accts[i])
  BY DEF RunSucceeds, FilesInv, ReadInv
<1> HIDE DEF new
<1>4. \A i \in DOMAIN tracked' : GoodAccount(tracked'[i])
  BY <1>1, <1>2, <1>3, DumpedGood
<1> QED BY <1>4 DEF RunSucceeds, ReadInv

LEMMA ReadNext ==
  ASSUME SessionReads, FilesInv, ReadInv, [Next]_vars
  PROVE  ReadInv'
<1>1. CASE GiveScenario
  BY <1>1 DEF GiveScenario, SessionReads, ReadInv
<1>2. CASE ReadFirstStage
  BY <1>2, FirstStageReads
<1>3. CASE ReadSecondStage
  BY <1>3, SecondStageReads
<1>4. CASE CheckLength
  BY <1>4 DEF CheckLength, Raise, ReadInv, Read
<1>5. CASE WritePrograms
  BY <1>5 DEF WritePrograms, ReadInv, Read
<1>6. CASE RunFails
  BY <1>6 DEF RunFails, ReadInv
<1>7. CASE RunSucceeds
  BY <1>7, RunSucceedsReads
<1>8. CASE UNCHANGED vars
  BY <1>8 DEF vars, ReadInv, Read
<1> QED BY <1>1, <1>2, <1>3, <1>4, <1>5, <1>6, <1>7, <1>8 DEF Next

\* What from_json hands to the run can be read by the K rules (KCanRead), whatever
\* optional keys transactions, accounts and applications lack, in the first scenario
\* and in those made of the accounts that earlier runs dumped.
THEOREM ScenariosAreReadable ==
  ASSUME SessionCanStart, SessionReads
  PROVE  Spec => []KCanRead
<1>1. Init => FilesInv /\ ReadInv
  BY FilesInit, ReadInit
<1>2. FilesInv /\ ReadInv /\ [Next]_vars => FilesInv' /\ ReadInv'
  BY FilesNext, ReadNext
<1>3. ReadInv => KCanRead
  <2> SUFFICES ASSUME ReadInv, pc = "run"
               PROVE  /\ \A i \in DOMAIN txns :
                           Matches(txns[i], TxnPattern(txns[i]["type"].name) ++ HeaderPattern)
                      /\ \A a \in Range(accts) :
                           Matches([k \in DOMAIN a \ {"created-apps"} |-> a[k]], AccountPattern)
                      /\ \A app \in AppsIn(accts) : Matches(app, AppPattern)
    BY DEF KCanRead
  <2>1. Read(txns) /\ \A i \in DOMAIN accts : ReadAccount(accts[i])
    BY DEF ReadInv
  <2>2. ASSUME NEW i \in DOMAIN txns
        PROVE  Matches(txns[i], TxnPattern(txns[i]["type"].name) ++ HeaderPattern)
    <3>1. i = 1
      BY <2>1 DEF Read
    <3> QED BY <2>1, <3>1 DEF Read, CanRead, Pattern
  <2>3. ASSUME NEW a \in Range(accts)
        PROVE  Matches([k \in DOMAIN a \ {"created-apps"} |-> a[k]], AccountPattern)
    <3>1. ReadAccount(a)
      BY <2>1 DEF Range
    <3> DEFINE p == [k \in DOMAIN a \ {"created-apps"} |-> a[k]]
    <3>2. DOMAIN p = Plain(a) /\ \A k \in DOMAIN p : p[k] = a[k]
      BY DEF Plain
    <3> HIDE DEF p
    <3>3. Matches(p, AccountPattern)
      BY <3>1, <3>2, MatchesFits DEF ReadAccount
    <3> QED BY <3>3 DEF p
  <2>4. ASSUME NEW app \in AppsIn(accts)
        PROVE  Matches(app, AppPattern)
    <3>1. PICK i \in DOMAIN accts : \E j \in DOMAIN accts[i]["created-apps"] :
                                      app = accts[i]["created-apps"][j]
      BY AppsMember
    <3> QED BY <2>1, <3>1 DEF ReadAccount
  <2> QED BY <2>2, <2>3, <2>4
<1> QED BY <1>1, <1>2, <1>3, PTL DEF Spec
=============================================================================
