-------------------------- MODULE KAVMClientProofs --------------------------
(***************************************************************************)
(* Proofs about KAVMClient: the invariant of a submission in progress, a   *)
(* composer's group takes effect once, and the client implements the       *)
(* node it stands in for.  So far what a run computes is left open.  Then  *)
(* what a run keeps: it confirms the whole group, and applications have    *)
(* one creator each.  From this, the client serves the applications that   *)
(* exist, and a composer gets the results of its own transactions.         *)
(***************************************************************************)
EXTENDS KAVMClient, SumTheorems, TLAPS

\* Taking over one more of the dumped accounts leaves a part of the dump.
LEMMA PutRestricts ==
  ASSUME NEW f, NEW S, S \subseteq DOMAIN f, NEW x \in DOMAIN f
  PROVE  LET g == Put(Restrict(f, S), x, f[x]) IN
         g = Restrict(f, DOMAIN g) /\ DOMAIN g \subseteq DOMAIN f
BY DEF Put, Restrict

\* The invariant holds at the start.
LEMMA SubmissionInvInit == Init => SubmissionInv
<1> SUFFICES ASSUME Init PROVE SubmissionInv
  OBVIOUS
<1>1. TypeOK
  <2>1. 0 \in 0 .. MaxSubmissions
    BY ClientAssumption
  <2>2. status \in [Composers -> {"SIGNED", "SUBMITTED", "COMMITTED"}]
    BY DEF Init
  <2> QED BY <2>1, <2>2 DEF Init, TypeOK
<1>2. StatusInv /\ MergeInv
  BY DEF Init, StatusInv, MergeInv
<1> QED BY <1>1, <1>2 DEF SubmissionInv

\* A submission starts from "idle", with a caller that may submit.
LEMMA SubmitInv ==
  ASSUME SubmissionInv, NEW c \in Composers \cup {Direct}, NEW g \in Groups, Submit(c, g),
         c \in Composers => status[c] \in {"SIGNED", "SUBMITTED"}
  PROVE  SubmissionInv'
<1>1. c \in Composers => status[c] = "SIGNED"
  BY DEF Submit, SubmissionInv, StatusInv
<1>2. TypeOK'
  BY ClientAssumption DEF Submit, SubmissionInv, TypeOK, composerVars
<1>3. StatusInv'
  BY <1>1 DEF Submit, SubmissionInv, StatusInv, TypeOK, composerVars
<1>4. MergeInv'
  BY DEF Submit, MergeInv
<1> QED BY <1>2, <1>3, <1>4 DEF SubmissionInv

\* Every step keeps the invariant.
LEMMA SubmissionInvNext == SubmissionInv /\ [Next]_vars => SubmissionInv'
<1> SUFFICES ASSUME SubmissionInv, [Next]_vars PROVE SubmissionInv'
  OBVIOUS
<1> USE DEF SubmissionInv
<1>1. CASE SendTransactions
  BY <1>1, SubmitInv, ClientAssumption DEF SendTransactions
<1>2. ASSUME NEW c \in Composers, Execute(c) PROVE SubmissionInv'
  BY <1>2, SubmitInv, ClientAssumption DEF Execute
<1>3. CASE RunFails
  BY <1>3 DEF RunFails, TypeOK, StatusInv, MergeInv, runVars, composerVars
<1>4. CASE RunReturns
  <2>1. TypeOK' /\ StatusInv'
    BY <1>4 DEF RunReturns, TypeOK, StatusInv, composerVars
  <2>2. DOMAIN accounts' = {} /\ accounts' = Restrict(dump', DOMAIN accounts')
    BY <1>4 DEF RunReturns, Nothing, Restrict
  <2>3. dump' = Restrict(dump', DOMAIN dump')
    BY <1>4 DEF RunReturns, DumpAccounts, Restrict
  <2> QED BY <2>1, <2>2, <2>3, <1>4 DEF RunReturns, MergeInv
<1>5. CASE MergeAccount
  <2>1. TypeOK' /\ StatusInv'
    BY <1>5 DEF MergeAccount, TypeOK, StatusInv, runVars, composerVars
  <2>2. MergeInv'
    BY <1>5, PutRestricts DEF MergeAccount, MergeInv, runVars
  <2> QED BY <2>1, <2>2
<1>6. CASE MergeTransactions
  <2>1. CASE caller \in Composers
    BY <1>6, <2>1 DEF MergeTransactions, TypeOK, StatusInv, MergeInv, runVars
  <2>2. CASE caller \notin Composers
    BY <1>6, <2>2 DEF MergeTransactions, TypeOK, StatusInv, MergeInv, runVars
  <2> QED BY <2>1, <2>2
<1>7. CASE WaitForConfirmation
  BY <1>7 DEF WaitForConfirmation, TypeOK, StatusInv, MergeInv, runVars
<1>8. CASE CollectResults
  <2>1. TypeOK'
    BY <1>8 DEF CollectResults, TypeOK, runVars
  <2>2. StatusInv' /\ MergeInv'
    BY <1>8 DEF CollectResults, StatusInv, MergeInv, TypeOK, runVars
  <2> QED BY <2>1, <2>2
<1>9. CASE UNCHANGED vars
  BY <1>9 DEF vars, runVars, composerVars, TypeOK, StatusInv, MergeInv
<1> QED BY <1>1, <1>2, <1>3, <1>4, <1>5, <1>6, <1>7, <1>8, <1>9 DEF Next, Handle

\* At every place of a submission the client's variables fit together: a composer
\* is SUBMITTED only until it is confirmed, and while the accounts are replaced
\* they are a part of the dump (_eval_transactions, execute).
THEOREM ClientInvariant == Spec => []SubmissionInv
BY SubmissionInvInit, SubmissionInvNext, PTL DEF Spec

\* The group of a composer takes effect once (execute).
THEOREM GroupCommittedOnce == Spec => CommittedOnce
<1>1. SubmissionInv /\ [Next]_vars
      => [pc = "running" /\ pc' = "merging" /\ caller \in Composers => status[caller] = "SIGNED"]_vars
  BY DEF SubmissionInv, StatusInv
<1> QED BY <1>1, ClientInvariant, PTL DEF Spec, CommittedOnce

-----------------------------------------------------------------------------
(* The refinement.                                                         *)

\* Mentioned addresses are addresses.
LEMMA MentionedType == ASSUME NEW g \in Groups PROVE Mentioned(g) \subseteq Addresses
BY ClientAssumption DEF Mentioned

\* A submission makes addresses known, and does nothing else to the ledger.
LEMMA SubmitAnnounces ==
  ASSUME NEW c, NEW g \in Groups, Submit(c, g)
  PROVE  Node!Announce
<1>1. NodeLedger = accounts /\ NodeLedger' = accounts'
  BY DEF Submit, NodeLedger
<1>2. accounts' = [a \in DOMAIN accounts \cup Mentioned(g) |->
                     IF a \in DOMAIN accounts THEN accounts[a] ELSE EmptyAccount]
  BY DEF Submit, Acquaint, AccountInfo
<1> QED BY <1>1, <1>2, MentionedType DEF Node!Announce

\* Every step is a step of the node, or leaves its ledger alone.
LEMMA StepSimulation == SubmissionInv /\ [Next]_vars => [Node!Next]_NodeLedger
<1> SUFFICES ASSUME SubmissionInv, [Next]_vars PROVE Node!Next \/ NodeLedger' = NodeLedger
  OBVIOUS
<1>1. CASE SendTransactions
  BY <1>1, SubmitAnnounces DEF SendTransactions, Node!Next
<1>2. ASSUME NEW c \in Composers, Execute(c) PROVE Node!Next
  BY <1>2, SubmitAnnounces, ClientAssumption DEF Execute, Node!Next
<1>3. CASE RunReturns
  <2>1. NodeLedger = accounts /\ NodeLedger' = dump' /\ group \in Groups
    BY <1>3 DEF RunReturns, NodeLedger, SubmissionInv, MergeInv
  <2>2. dump' \in Outcomes(accounts, group)
    BY <1>3 DEF RunReturns, Outcomes
  <2> QED BY <2>1, <2>2 DEF Node!Next, Node!Commit
<1>4. CASE RunFails \/ MergeAccount \/ WaitForConfirmation \/ CollectResults \/ UNCHANGED vars
  BY <1>4 DEF RunFails, MergeAccount, WaitForConfirmation, CollectResults, vars, runVars, NodeLedger
<1>5. CASE MergeTransactions
  <2>1. NodeLedger = dump
    BY <1>5 DEF MergeTransactions, NodeLedger
  <2>2. accounts = Restrict(dump, DOMAIN dump) /\ dump = Restrict(dump, DOMAIN dump)
    BY <1>5 DEF MergeTransactions, SubmissionInv, MergeInv
  <2>3. NodeLedger' = accounts
    BY <1>5 DEF MergeTransactions, NodeLedger
  <2> QED BY <2>1, <2>2, <2>3
<1> QED BY <1>1, <1>2, <1>3, <1>4, <1>5 DEF Next, Handle

\* The client behaves as a node whose ledger changes by whole groups: a
\* submission that raises changes nothing but which addresses are known, and
\* the turns of the loop that refills the accounts show as one step.
THEOREM ClientImplementsNode == Spec => ImplementsNode
<1>1. Init => Node!Init
  BY DEF Init, Node!Init, NodeLedger
<1> QED BY <1>1, StepSimulation, ClientInvariant, PTL DEF Spec, ImplementsNode, Node!Spec

-----------------------------------------------------------------------------
(* A run is a fold over the group.                                         *)

\* The states after t, from those in Q
After(Q, t) == UNION {EvalTx(x, t) : x \in Q}

\* The places before the last
Earlier(s) == s \ {Max(s)}

\* R[s] are the states after the transactions whose places are in s.
Evaluates(B, g, S, R) ==
  R = [s \in SUBSET S |->
         IF s = {} THEN B ELSE After(R[Earlier(s)], g[Max(s)])]

\* Places in a group
Places(S) == S \in SUBSET Int /\ IsFiniteSet(S)

LEMMA EvaluatesValue ==
  ASSUME NEW B, NEW g, NEW S, NEW R, Evaluates(B, g, S, R), NEW s \in SUBSET S
  PROVE  /\ R[s] = IF s = {} THEN B ELSE After(R[Earlier(s)], g[Max(s)])
         /\ s = {} => R[s] = B
         /\ s # {} => R[s] = After(R[Earlier(s)], g[Max(s)])
<1> DEFINE h == [u \in SUBSET S |->
                   IF u = {} THEN B ELSE After(R[Earlier(u)], g[Max(u)])]
<1>1. R = h
  BY DEF Evaluates
<1>2. h[s] = IF s = {} THEN B ELSE After(R[Earlier(s)], g[Max(s)])
  OBVIOUS
<1> HIDE DEF h
<1>3. R[s] = IF s = {} THEN B ELSE After(R[Earlier(s)], g[Max(s)])
  BY <1>1, <1>2
<1> QED BY <1>3

LEMMA EvaluatesNothing ==
  ASSUME NEW B, NEW g, NEW S, NEW R, Evaluates(B, g, S, R)
  PROVE  R[{}] = B
<1>1. {} \in SUBSET S
  OBVIOUS
<1> QED BY <1>1, EvaluatesValue

\* In a set of places,
LEMMA PlacesIn ==
  ASSUME NEW S, Places(S)
  PROVE  IsFiniteSet(S) /\ \A s \in SUBSET S : Places(s) /\ (s # {} => Max(s) \in s)
<1>1. \A s \in SUBSET S : Places(s)
  BY FS_Subset DEF Places
<1>2. \A s : Places(s) /\ s # {} => Max(s) \in s
  BY MaxIsMember DEF Places
<1> QED BY <1>1, <1>2 DEF Places

LEMMA EvaluatesAgree ==
  ASSUME NEW B, NEW g, NEW S, Places(S), NEW T,
         NEW R, Evaluates(B, g, S, R), NEW Q, Evaluates(B, g, T, Q),
         NEW u \in SUBSET S, u \in SUBSET T
  PROVE  R[u] = Q[u]
<1> DEFINE Bad == {s \in SUBSET S : s \in SUBSET T /\ R[s] # Q[s]}
<1> SUFFICES ASSUME Bad # {} PROVE FALSE
  OBVIOUS
<1>1. PICK s \in Bad : \A t \in SUBSET s : t # s => t \notin Bad
  <2>1. Bad \in SUBSET (SUBSET S)
    OBVIOUS
  <2> HIDE DEF Bad
  <2> QED BY <2>1, PlacesIn, SmallestSet
<1>2. s \in SUBSET S /\ s \in SUBSET T /\ R[s] # Q[s]
  OBVIOUS
<1>3. CASE s = {}
  <2>1. R[{}] = B
    BY EvaluatesValue
  <2>2. Q[{}] = B
    BY EvaluatesValue
  <2> QED BY <1>2, <1>3, <2>1, <2>2
<1>4. CASE s # {}
  <2> DEFINE p == Max(s)  t == Earlier(s)
  <2>1. p \in s
    BY <1>2, <1>4, PlacesIn
  <2>2. t \in SUBSET s /\ t # s
    BY <2>1 DEF Earlier
  <2>3. t \in SUBSET S /\ t \in SUBSET T
    BY <1>2, <2>2
  <2>4. R[t] = Q[t]
    BY <1>1, <2>2, <2>3
  <2>5. R[s] = After(R[t], g[p])
    <3>1. R[s] = After(R[Earlier(s)], g[Max(s)])
      BY <1>2, <1>4, EvaluatesValue
    <3> QED BY <3>1
  <2>6. Q[s] = After(Q[t], g[p])
    <3>1. Q[s] = After(Q[Earlier(s)], g[Max(s)])
      BY <1>2, <1>4, EvaluatesValue
    <3> QED BY <3>1
  <2> QED BY <1>2, <2>4, <2>5, <2>6
<1> QED BY <1>3, <1>4

LEMMA EvaluatesExists ==
  ASSUME NEW B, NEW g, NEW S, Places(S)
  PROVE  \E R : Evaluates(B, g, S, R)
<1> DEFINE Bad == {s \in SUBSET S : ~ \E R : Evaluates(B, g, s, R)}
<1>1. SUFFICES ASSUME Bad # {} PROVE FALSE
  BY DEF Bad
<1>2. PICK s \in Bad : \A t \in SUBSET s : t # s => t \notin Bad
  <2>1. Bad \in SUBSET (SUBSET S)
    OBVIOUS
  <2> HIDE DEF Bad
  <2> QED BY <1>1, <2>1, PlacesIn, SmallestSet
<1>3. s \in SUBSET S /\ ~ \E R : Evaluates(B, g, s, R)
  OBVIOUS
<1>4. \A t \in SUBSET s : t # s => \E R : Evaluates(B, g, t, R)
  BY <1>2, <1>3
<1> DEFINE A(t) == CHOOSE R : Evaluates(B, g, t, R)
           h == [u \in SUBSET s |-> IF u = {} THEN B
                    ELSE After(A(Earlier(u))[Earlier(u)], g[Max(u)])]
<1>5. \A t \in SUBSET s : t # s => Evaluates(B, g, t, A(t))
  BY <1>4
<1>6. \A t \in SUBSET s : Places(t)
  BY <1>3, PlacesIn
<1>7. \A u \in SUBSET s : u # {} => Max(u) \in u
  BY <1>3, PlacesIn
<1> HIDE DEF A
<1>8. \A u \in SUBSET s : u # s => h[u] = A(u)[u]
  <2> SUFFICES ASSUME NEW u \in SUBSET s, u # s PROVE h[u] = A(u)[u]
    OBVIOUS
  <2>1. A(u)[u] = IF u = {} THEN B ELSE After(A(u)[Earlier(u)], g[Max(u)])
    <3> DEFINE F == A(u)
    <3>1. Evaluates(B, g, u, F) /\ u \in SUBSET u
      BY <1>5
    <3> HIDE DEF F
    <3>2. F[u] = IF u = {} THEN B ELSE After(F[Earlier(u)], g[Max(u)])
      BY <3>1, EvaluatesValue
    <3> QED BY <3>2 DEF F
  <2>2. CASE u = {}
    BY <2>1, <2>2
  <2>3. CASE u # {}
    <3> DEFINE t == Earlier(u)
    <3>1. Max(u) \in u
      BY <2>3, <1>7
    <3>2. t \in SUBSET s /\ t # s /\ t \in SUBSET u
      BY <3>1 DEF Earlier
    <3>3. Evaluates(B, g, t, A(t)) /\ Evaluates(B, g, u, A(u))
      BY <1>5, <3>2
    <3>4. A(t)[t] = A(u)[t]
      <4> HIDE DEF t
      <4> QED BY <3>2, <3>3, <1>6, EvaluatesAgree
    <3>5. h[u] = After(A(t)[t], g[Max(u)])
      BY <2>3
    <3> QED BY <2>1, <2>3, <3>4, <3>5
  <2> QED BY <2>2, <2>3
<1>9. h = [u \in SUBSET s |-> IF u = {} THEN B
                               ELSE After(h[Earlier(u)], g[Max(u)])]
  <2>1. \A u \in SUBSET s : u # {} => A(Earlier(u))[Earlier(u)] = h[Earlier(u)]
    <3> SUFFICES ASSUME NEW u \in SUBSET s, u # {}
                 PROVE  A(Earlier(u))[Earlier(u)] = h[Earlier(u)]
      OBVIOUS
    <3>1. Max(u) \in u
      BY <1>7
    <3>2. Earlier(u) \in SUBSET s /\ Earlier(u) # s
      BY <3>1 DEF Earlier
    <3> HIDE DEF h
    <3> QED BY <3>2, <1>8
  <2> QED BY <2>1
<1>10. Evaluates(B, g, s, h)
  <2> HIDE DEF h
  <2> QED BY <1>9 DEF Evaluates
<1> QED BY <1>3, <1>10

\* A run evaluates its transactions in order.
LEMMA RunEvaluates ==
  ASSUME NEW z, NEW g, Places(DOMAIN g)
  PROVE  \E R : /\ Evaluates({z}, g, DOMAIN g, R)
                /\ RunFrom(z, g) = {r \in R[DOMAIN g] : Sufficient(r)}
<1> DEFINE R == CHOOSE Q : Evaluates({z}, g, DOMAIN g, Q)
<1>1. Evaluates({z}, g, DOMAIN g, R)
  BY EvaluatesExists
<1>2. RunFrom(z, g) = {r \in R[DOMAIN g] : Sufficient(r)}
  BY DEF RunFrom, FoldLeft, MapThenFoldSet, Evaluates, After, Earlier
<1> QED BY <1>1, <1>2

-----------------------------------------------------------------------------
(* What a run keeps.                                                       *)
RunFields     == {"accts", "nextApp", "confirmed", "pending", "nextTxn", "groupSize", "touched"}
AccountFields == {"balance", "minBalance", "optedIn", "apps"}

\* Every application has one creator.
OneCreator(accts) ==
  \A a, b \in DOMAIN accts : \A id \in DOMAIN accts[a].apps :
    id \in DOMAIN accts[b].apps => a = b

\* A state of a run: application ids come from the counter.
Sound(s) ==
  /\ DOMAIN s = RunFields
  /\ \A a \in DOMAIN s.accts :
       /\ a \in Addresses /\ DOMAIN s.accts[a] = AccountFields
       /\ \A id \in DOMAIN s.accts[a].apps :
            id \in AppIds /\ id < s.nextApp /\ "pages" \in DOMAIN s.accts[a].apps[id]
  /\ OneCreator(s.accts)

\* Applications that were loaded stay with their creator, for they cannot be deleted.
Keeps(before, after) ==
  /\ DOMAIN before \subseteq DOMAIN after
  /\ \A a \in DOMAIN before : \A id \in DOMAIN before[a].apps : ~before[a].apps[id].pages =>
       id \in DOMAIN after[a].apps /\ ~after[a].apps[id].pages

\* r comes after s in the evaluation of one transaction.
Follows(s, r) ==
  /\ Sound(r) /\ r.pending = s.pending
  /\ Keeps(s.accts, r.accts) /\ DOMAIN s.confirmed \subseteq DOMAIN r.confirmed

LEMMA FollowsTransitively ==
  ASSUME NEW s, NEW r, NEW q, Follows(s, r), Follows(r, q)
  PROVE  Follows(s, q)
BY DEF Follows, Keeps

\* One field of one account changes.
LEMMA WithValue ==
  ASSUME NEW s, DOMAIN s = RunFields, NEW a \in DOMAIN s.accts,
         DOMAIN s.accts[a] = AccountFields, NEW f \in AccountFields, NEW v
  PROVE  LET r == With(s, a, f, v) IN
         /\ DOMAIN r = RunFields /\ \A g \in RunFields \ {"accts"} : r[g] = s[g]
         /\ DOMAIN r.accts = DOMAIN s.accts
         /\ \A b \in DOMAIN s.accts : b # a => r.accts[b] = s.accts[b]
         /\ DOMAIN r.accts[a] = AccountFields /\ r.accts[a][f] = v
         /\ \A g \in AccountFields \ {f} : r.accts[a][g] = s.accts[a][g]
BY DEF With, RunFields

\* No field but apps matters.
LEMMA WithFollows ==
  ASSUME NEW s, Sound(s), NEW a \in DOMAIN s.accts, NEW f \in AccountFields \ {"apps"}, NEW v
  PROVE  Follows(s, With(s, a, f, v))
<1> DEFINE r == With(s, a, f, v)
<1>1. /\ DOMAIN r = RunFields /\ \A g \in RunFields \ {"accts"} : r[g] = s[g]
      /\ DOMAIN r.accts = DOMAIN s.accts
      /\ \A b \in DOMAIN s.accts : b # a => r.accts[b] = s.accts[b]
      /\ DOMAIN r.accts[a] = AccountFields
      /\ \A g \in AccountFields \ {f} : r.accts[a][g] = s.accts[a][g]
  BY WithValue DEF Sound
<1>2. r.pending = s.pending /\ r.nextApp = s.nextApp /\ r.confirmed = s.confirmed
  BY <1>1 DEF RunFields
<1>3. r.accts[a].apps = s.accts[a].apps
  BY <1>1 DEF AccountFields
<1> HIDE DEF r
<1>4. \A b \in DOMAIN s.accts : /\ r.accts[b].apps = s.accts[b].apps
                                /\ DOMAIN r.accts[b] = AccountFields
  BY <1>1, <1>3 DEF Sound
<1>5. Sound(r)
  BY <1>1, <1>2, <1>4 DEF Sound, OneCreator
<1>6. Keeps(s.accts, r.accts)
  BY <1>1, <1>4 DEF Keeps
<1>7. Follows(s, r)
  BY <1>2, <1>5, <1>6 DEF Follows
<1> QED BY <1>7 DEF r

\* The applications of an account change, none of them is another's, and those that
\* were loaded are among them.
LEMMA WithAppsFollows ==
  ASSUME NEW s, Sound(s), NEW a \in DOMAIN s.accts, NEW v,
         \A id \in DOMAIN v :
           /\ id \in AppIds /\ id < s.nextApp /\ "pages" \in DOMAIN v[id]
           /\ \A b \in DOMAIN s.accts : b # a => id \notin DOMAIN s.accts[b].apps,
         \A id \in DOMAIN s.accts[a].apps : ~s.accts[a].apps[id].pages =>
           id \in DOMAIN v /\ ~v[id].pages
  PROVE  Follows(s, With(s, a, "apps", v))
<1> DEFINE r == With(s, a, "apps", v)
<1>1. /\ DOMAIN r = RunFields /\ \A g \in RunFields \ {"accts"} : r[g] = s[g]
      /\ DOMAIN r.accts = DOMAIN s.accts
      /\ \A b \in DOMAIN s.accts : b # a => r.accts[b] = s.accts[b]
      /\ DOMAIN r.accts[a] = AccountFields /\ r.accts[a].apps = v
  BY WithValue DEF Sound, AccountFields
<1>2. r.pending = s.pending /\ r.nextApp = s.nextApp /\ r.confirmed = s.confirmed
  BY <1>1 DEF RunFields
<1> HIDE DEF r
<1>3. \A b \in DOMAIN r.accts :
        /\ b \in Addresses /\ DOMAIN r.accts[b] = AccountFields
        /\ \A id \in DOMAIN r.accts[b].apps :
             id \in AppIds /\ id < r.nextApp /\ "pages" \in DOMAIN r.accts[b].apps[id]
  BY <1>1, <1>2 DEF Sound
<1>4. OneCreator(r.accts)
  BY <1>1 DEF Sound, OneCreator
<1>5. Keeps(s.accts, r.accts)
  BY <1>1 DEF Keeps
<1>6. Follows(s, r)
  BY <1>1, <1>2, <1>3, <1>4, <1>5 DEF Follows, Sound
<1> QED BY <1>6 DEF r

\* Fields of the state other than these four do not matter.
LEMMA CellsFollow ==
  ASSUME NEW s, Sound(s), NEW r, DOMAIN r = RunFields, r.accts = s.accts,
         r.nextApp = s.nextApp, r.pending = s.pending, DOMAIN s.confirmed \subseteq DOMAIN r.confirmed
  PROVE  Follows(s, r)
BY DEF Follows, Sound, Keeps

LEMMA GiveFollows ==
  ASSUME NEW s, Sound(s), NEW a, NEW n, NEW r \in Give(s, a, n)
  PROVE  Follows(s, r)
<1>1. a \in DOMAIN s.accts /\ r = With(s, a, "balance", s.accts[a].balance + n)
  BY DEF Give, Exists
<1> QED BY <1>1, WithFollows DEF AccountFields

LEMMA PayFollows ==
  ASSUME NEW s, Sound(s), NEW t, NEW q \in Pay(s, t)
  PROVE  Follows(s, q)
<1>1. PICK r \in Give(s, t.snd, -t.amt) :
        q \in Give([r EXCEPT !.touched = @ \cup {t.snd, t.rcv}], t.rcv, t.amt)
  BY DEF Pay
<1> DEFINE r1 == [r EXCEPT !.touched = @ \cup {t.snd, t.rcv}]
<1>2. Follows(s, r) /\ Sound(r)
  BY GiveFollows DEF Follows
<1>3. Follows(r, r1)
  <2>1. /\ DOMAIN r1 = RunFields /\ r1.accts = r.accts /\ r1.nextApp = r.nextApp
        /\ r1.pending = r.pending /\ r1.confirmed = r.confirmed
    BY <1>2 DEF Sound, RunFields
  <2> HIDE DEF r1
  <2> QED BY <1>2, <2>1, CellsFollow
<1> HIDE DEF r1
<1>4. Follows(r1, q)
  BY <1>1, <1>3, GiveFollows DEF Follows, r1
<1> QED BY <1>2, <1>3, <1>4, FollowsTransitively

LEMMA CostFollows ==
  ASSUME NEW s, Sound(s), NEW a \in DOMAIN s.accts, NEW n
  PROVE  Follows(s, AddCost(s, a, n))
BY WithFollows DEF AddCost, AccountFields

LEMMA CreateAppFollows ==
  ASSUME NEW s, Sound(s), NEW t, t.snd \in DOMAIN s.accts, NEW r \in CreateApp(s, t)
  PROVE  Follows(s, r)
<1> DEFINE id == s.nextApp
           s1 == [s EXCEPT !.accts = Put(@, AppAddress[id], NewAccount), !.nextApp = @ + 1]
           new == [name |-> t.pgm, src |-> t.pgm, pages |-> TRUE]
           v  == Put(s1.accts[t.snd].apps, id, new)
           s2 == With(s1, t.snd, "apps", v)
<1>1. id \in AppIds /\ AppAddress[id] \notin DOMAIN s.accts /\ r = AddCost(s2, t.snd, AppCost)
  BY DEF CreateApp, If, Exists
<1>2. id \in Nat /\ AppAddress[id] \in Addresses
  BY <1>1, AppAssumption
<1>3. /\ DOMAIN s1 = RunFields /\ s1.accts = Put(s.accts, AppAddress[id], NewAccount)
      /\ s1.nextApp = id + 1 /\ s1.pending = s.pending /\ s1.confirmed = s.confirmed
  BY DEF Sound, RunFields
<1>4. DOMAIN NewAccount = AccountFields /\ DOMAIN NewAccount.apps = {}
  BY DEF NewAccount, LoadAccount, Nothing, AccountFields
<1> HIDE DEF s1
<1>5. /\ DOMAIN s1.accts = DOMAIN s.accts \cup {AppAddress[id]}
      /\ \A a \in DOMAIN s.accts : s1.accts[a] = s.accts[a]
      /\ s1.accts[AppAddress[id]] = NewAccount
  BY <1>1, <1>3 DEF Put
<1>6. \A j \in AppIds : j < id => j < id + 1
  BY <1>2, AppAssumption
<1>7. Follows(s, s1)
  <2>1. \A a \in DOMAIN s1.accts :
          /\ a \in Addresses /\ DOMAIN s1.accts[a] = AccountFields
          /\ \A j \in DOMAIN s1.accts[a].apps :
               j \in AppIds /\ j < s1.nextApp /\ "pages" \in DOMAIN s1.accts[a].apps[j]
    BY <1>2, <1>3, <1>4, <1>5, <1>6 DEF Sound
  <2>2. OneCreator(s1.accts)
    BY <1>4, <1>5 DEF Sound, OneCreator
  <2>3. Keeps(s.accts, s1.accts)
    BY <1>5 DEF Keeps
  <2> QED BY <1>3, <2>1, <2>2, <2>3 DEF Follows, Sound
<1>8. \A j \in DOMAIN v :
        /\ j \in AppIds /\ j < s1.nextApp /\ "pages" \in DOMAIN v[j]
        /\ \A b \in DOMAIN s1.accts : b # t.snd => j \notin DOMAIN s1.accts[b].apps
  <2> SUFFICES ASSUME NEW j \in DOMAIN v
               PROVE  /\ j \in AppIds /\ j < s1.nextApp /\ "pages" \in DOMAIN v[j]
                      /\ \A b \in DOMAIN s1.accts : b # t.snd => j \notin DOMAIN s1.accts[b].apps
    OBVIOUS
  <2>1. j \in DOMAIN s1.accts[t.snd].apps \/ j = id
    BY DEF Put
  <2>4. v[j] = IF j = id THEN new ELSE s1.accts[t.snd].apps[j]
    BY DEF Put
  <2> HIDE DEF v
  <2>2. CASE j = id
    <3>1. \A a \in DOMAIN s.accts : id \notin DOMAIN s.accts[a].apps
      BY <1>2 DEF Sound
    <3> QED BY <1>1, <1>2, <1>3, <1>4, <1>5, <2>2, <2>4, <3>1
  <2>3. CASE j \in DOMAIN s1.accts[t.snd].apps /\ j # id
    BY <1>5, <1>7, <2>3, <2>4 DEF Follows, Sound, OneCreator
  <2> QED BY <2>1, <2>2, <2>3
<1>11. \A j \in DOMAIN s1.accts[t.snd].apps : j \in DOMAIN v /\ v[j] = s1.accts[t.snd].apps[j]
  <2>1. id \notin DOMAIN s1.accts[t.snd].apps
    BY <1>2, <1>5 DEF Sound
  <2> QED BY <2>1 DEF Put
<1> HIDE DEF v
<1>9. Follows(s1, s2)
  BY <1>5, <1>7, <1>8, <1>11, WithAppsFollows DEF Follows
<1>10. Follows(s2, r)
  <2>1. t.snd \in DOMAIN s2.accts
    BY <1>5, <1>9 DEF Follows, Keeps
  <2> HIDE DEF s2
  <2> QED BY <1>1, <1>9, <2>1, CostFollows DEF Follows
<1> HIDE DEF s2
<1> QED BY <1>7, <1>9, <1>10, FollowsTransitively

\* The creator of an application is an account that has it.
LEMMA CreatorHas ==
  ASSUME NEW accts, NEW id \in AppsOf(accts)
  PROVE  CreatorOf(accts, id) \in DOMAIN accts /\ id \in DOMAIN accts[CreatorOf(accts, id)].apps
<1>1. \E a \in DOMAIN accts : id \in DOMAIN accts[a].apps
  BY DEF AppsOf
<1> QED BY <1>1 DEF CreatorOf

LEMMA UpdateAppFollows ==
  ASSUME NEW s, Sound(s), NEW t, NEW r \in UpdateApp(s, t)
  PROVE  Follows(s, r)
<1> DEFINE c == CreatorOf(s.accts, t.app)
           new == [s.accts[c].apps[t.app] EXCEPT !.src = t.pgm]
           v == Put(s.accts[c].apps, t.app, new)
<1>1. t.app \in AppsOf(s.accts) /\ r = With(s, c, "apps", v)
  BY DEF UpdateApp, If, HasApp
<1>2. c \in DOMAIN s.accts /\ t.app \in DOMAIN s.accts[c].apps
  BY <1>1, CreatorHas
<1>3. /\ DOMAIN v = DOMAIN s.accts[c].apps
      /\ \A id \in DOMAIN v : v[id] = IF id = t.app THEN new ELSE s.accts[c].apps[id]
  BY <1>2 DEF Put
<1>5. "pages" \in DOMAIN new /\ new.pages = s.accts[c].apps[t.app].pages
  <2>1. "pages" \in DOMAIN s.accts[c].apps[t.app]
    BY <1>2 DEF Sound
  <2> QED BY <2>1
<1> HIDE DEF v, c, new
<1>4. \A id \in DOMAIN v :
        /\ id \in AppIds /\ id < s.nextApp /\ "pages" \in DOMAIN v[id]
        /\ \A b \in DOMAIN s.accts : b # c => id \notin DOMAIN s.accts[b].apps
  BY <1>2, <1>3, <1>5 DEF Sound, OneCreator
<1>6. \A id \in DOMAIN s.accts[c].apps : ~s.accts[c].apps[id].pages =>
        id \in DOMAIN v /\ ~v[id].pages
  BY <1>3, <1>5
<1> QED BY <1>1, <1>2, <1>4, <1>6, WithAppsFollows

LEMMA DeleteAppFollows ==
  ASSUME NEW s, Sound(s), NEW t, NEW r \in DeleteApp(s, t)
  PROVE  Follows(s, r)
<1> DEFINE c == CreatorOf(s.accts, t.app)
           v == Drop(s.accts[c].apps, t.app)
           s1 == With(s, c, "apps", v)
<1>1. t.app \in AppsOf(s.accts) /\ s.accts[c].apps[t.app].pages /\ r = AddCost(s1, c, -AppCost)
  BY DEF DeleteApp, If, HasApp
<1>2. c \in DOMAIN s.accts
  BY <1>1, CreatorHas
<1>3. /\ DOMAIN v = DOMAIN s.accts[c].apps \ {t.app}
      /\ \A id \in DOMAIN v : v[id] = s.accts[c].apps[id]
  BY DEF Drop, Restrict
<1> HIDE DEF v, c
<1>4. \A id \in DOMAIN v :
        /\ id \in AppIds /\ id < s.nextApp /\ "pages" \in DOMAIN v[id]
        /\ \A b \in DOMAIN s.accts : b # c => id \notin DOMAIN s.accts[b].apps
  BY <1>2, <1>3 DEF Sound, OneCreator
<1>7. \A id \in DOMAIN s.accts[c].apps : ~s.accts[c].apps[id].pages =>
        id \in DOMAIN v /\ ~v[id].pages
  BY <1>1, <1>3
<1>5. Follows(s, s1)
  BY <1>2, <1>4, <1>7, WithAppsFollows
<1> HIDE DEF s1
<1>6. Follows(s1, r)
  BY <1>1, <1>2, <1>5, CostFollows DEF Follows, Keeps
<1> QED BY <1>5, <1>6, FollowsTransitively

LEMMA OptInAppFollows ==
  ASSUME NEW s, Sound(s), NEW t, t.snd \in DOMAIN s.accts, NEW r \in OptInApp(s, t)
  PROVE  Follows(s, r)
<1> DEFINE s1 == With(s, t.snd, "optedIn", s.accts[t.snd].optedIn \cup {t.app})
<1>1. r = AddCost(s1, t.snd, AppCost)
  BY DEF OptInApp, If
<1>2. Follows(s, s1)
  BY WithFollows DEF AccountFields
<1> HIDE DEF s1
<1>3. Follows(s1, r)
  BY <1>1, <1>2, CostFollows DEF Follows, Keeps
<1> QED BY <1>2, <1>3, FollowsTransitively

LEMMA CallAppFollows ==
  ASSUME NEW s, Sound(s), NEW t, NEW r \in CallApp(s, t)
  PROVE  Follows(s, r)
<1> DEFINE s1 == [s EXCEPT !.confirmed = Put(@, s.nextTxn, [app |-> 0, log |-> FALSE]), !.nextTxn = @ + 1]
<1>1. r \in Pay(s1, [t EXCEPT !.snd = AppAddress[t.app]])
  BY DEF CallApp
<1>2. /\ DOMAIN s1 = RunFields /\ s1.accts = s.accts /\ s1.nextApp = s.nextApp
      /\ s1.pending = s.pending /\ s1.confirmed = Put(s.confirmed, s.nextTxn, [app |-> 0, log |-> FALSE])
  BY DEF Sound, RunFields
<1> HIDE DEF s1
<1>3. Follows(s, s1)
  <2>1. DOMAIN s.confirmed \subseteq DOMAIN s1.confirmed
    BY <1>2 DEF Put
  <2> QED BY <1>2, <2>1, CellsFollow
<1>4. Follows(s1, r)
  BY <1>1, <1>3, PayFollows DEF Follows
<1> QED BY <1>3, <1>4, FollowsTransitively

\* Every transaction that succeeds keeps what the run relies on.
LEMMA ExecuteTxnFollows ==
  ASSUME NEW s, Sound(s), NEW t, t.snd \in DOMAIN s.accts, NEW r \in ExecuteTxn(s, t)
  PROVE  Follows(s, r)
<1>1. \/ r \in Pay(s, t) \/ r \in CreateApp(s, t) \/ r \in UpdateApp(s, t)
      \/ r \in DeleteApp(s, t) \/ r \in OptInApp(s, t) \/ r \in CallApp(s, t)
  <2>1. t.type \in {"pay", "create", "update", "delete", "optin", "call"} \/ ExecuteTxn(s, t) = {}
    BY DEF ExecuteTxn
  <2> QED BY <2>1 DEF ExecuteTxn
<1> QED BY <1>1, PayFollows, CreateAppFollows, UpdateAppFollows, DeleteAppFollows,
           OptInAppFollows, CallAppFollows

\* From accounts A, n transactions of the group have been evaluated, and confirmed
\* under the first n ids.
Reached(A, s, n) ==
  /\ Sound(s) /\ Keeps(A, s.accts)
  /\ s.pending = n /\ \A i \in Nat : i < n => i \in DOMAIN s.confirmed

LEMMA EvalTxReaches ==
  ASSUME NEW A, NEW s, NEW n \in Nat, Reached(A, s, n), NEW t, NEW q \in EvalTx(s, t)
  PROVE  Reached(A, q, n + 1)
<1> DEFINE c == [app |-> IF t.type = "create" THEN s.nextApp ELSE 0, log |-> t.log]
<1>1. PICK r \in (IF Exists(s, t.snd) THEN ExecuteTxn(s, t) ELSE {}) :
        q = [r EXCEPT !.touched = @ \cup {t.snd}, !.pending = @ + 1,
                      !.confirmed = Put(@, s.pending, c)]
  BY DEF EvalTx
<1>2. Follows(s, r)
  BY <1>1, ExecuteTxnFollows DEF Exists, Reached
<1> HIDE DEF c
<1>3. /\ DOMAIN q = RunFields /\ q.accts = r.accts /\ q.nextApp = r.nextApp
      /\ q.pending = r.pending + 1 /\ q.confirmed = Put(r.confirmed, s.pending, c)
  BY <1>1, <1>2 DEF Follows, Sound, RunFields
<1>4. DOMAIN q.confirmed = DOMAIN r.confirmed \cup {n}
  BY <1>3 DEF Put, Reached
<1>5. \A i \in Nat : i < n + 1 => i \in DOMAIN q.confirmed
  <2>1. \A i \in Nat : i < n + 1 => i < n \/ i = n
    OBVIOUS
  <2> QED BY <1>2, <1>4, <2>1 DEF Follows, Reached
<1>6. Sound(q)
  BY <1>2, <1>3 DEF Follows, Sound
<1>7. Keeps(A, q.accts)
  BY <1>2, <1>3 DEF Follows, Reached, Keeps
<1> QED BY <1>2, <1>3, <1>5, <1>6, <1>7 DEF Follows, Reached

\* The numbers up to m: the last one, and those before it
LEMMA LastPlace ==
  ASSUME NEW m \in Nat
  PROVE  /\ Places(1 .. m)
         /\ m > 0 => Max(1 .. m) = m /\ Earlier(1 .. m) = 1 .. m - 1
<1>1. Places(1 .. m)
  BY FS_Interval DEF Places
<1>2. ASSUME m > 0 PROVE Max(1 .. m) = m /\ Earlier(1 .. m) = 1 .. m - 1
  <2>1. Max(1 .. m) \in 1 .. m /\ \A y \in 1 .. m : Max(1 .. m) >= y
    <3>1. 1 .. m \in SUBSET Int /\ IsFiniteSet(1 .. m) /\ 1 .. m # {}
      BY <1>1, <1>2 DEF Places
    <3> QED BY <3>1, MaxIsMember
  <2>2. Max(1 .. m) = m
    BY <1>2, <2>1
  <2> QED BY <1>2, <2>2 DEF Earlier
<1> QED BY <1>1, <1>2

\* A run that succeeds has evaluated and confirmed the whole group.
LEMMA RunReaches ==
  ASSUME NEW A, NEW z, Reached(A, z, 0), NEW g, NEW n \in Nat, DOMAIN g = 1 .. n,
         NEW r \in RunFrom(z, g)
  PROVE  Reached(A, r, n)
<1>1. Places(DOMAIN g)
  BY LastPlace
<1>2. PICK R : /\ Evaluates({z}, g, DOMAIN g, R)
               /\ RunFrom(z, g) = {q \in R[DOMAIN g] : Sufficient(q)}
  BY <1>1, RunEvaluates
<1> DEFINE Bad == {m \in 0 .. n : \E q \in R[1 .. m] : ~ Reached(A, q, m)}
<1>3. Bad = {}
  <2> SUFFICES ASSUME Bad # {} PROVE FALSE
    OBVIOUS
  <2>1. PICK m \in Bad : \A k \in Bad : m <= k
    <3>1. Bad \in SUBSET Nat
      OBVIOUS
    <3> HIDE DEF Bad
    <3> QED BY <3>1, LeastNumber
  <2>2. m \in 0 .. n
    OBVIOUS
  <2>3. PICK q \in R[1 .. m] : ~ Reached(A, q, m)
    OBVIOUS
  <2>4. 1 .. m \in SUBSET DOMAIN g
    BY <2>2
  <2>5. m # 0
    <3> SUFFICES ASSUME m = 0 PROVE FALSE
      OBVIOUS
    <3>1. 1 .. m = {}
      OBVIOUS
    <3>2. R[1 .. m] = {z}
      <4>1. R[{}] = {z}
        BY <1>2, EvaluatesNothing
      <4> QED BY <3>1, <4>1
    <3> QED BY <2>3, <3>2
  <2> DEFINE k == m - 1
  <2>6. k \in Nat /\ k \in 0 .. n /\ k < m /\ m = k + 1
    BY <2>2, <2>5
  <2>7. R[1 .. m] = After(R[1 .. k], g[m])
    <3> DEFINE B == {z}  s == 1 .. m
    <3>1. Evaluates(B, g, DOMAIN g, R)
      BY <1>2
    <3>2. s # {} /\ s \in SUBSET DOMAIN g
      <4>1. m \in s
        BY <2>6
      <4> QED BY <2>4, <4>1
    <3>3. Max(s) = m /\ Earlier(s) = 1 .. k
      BY <2>6, LastPlace
    <3> HIDE DEF B, s
    <3>4. R[s] = After(R[Earlier(s)], g[Max(s)])
      BY <3>1, <3>2, EvaluatesValue
    <3> QED BY <3>3, <3>4 DEF s
  <2>8. \A p \in R[1 .. k] : Reached(A, p, k)
    BY <2>1, <2>6
  <2>9. PICK p \in R[1 .. k] : q \in EvalTx(p, g[m])
    BY <2>3, <2>7 DEF After
  <2> HIDE DEF k
  <2>10. Reached(A, q, k + 1)
    BY <2>6, <2>8, <2>9, EvalTxReaches
  <2> QED BY <2>3, <2>6, <2>10
<1>4. \A q \in R[1 .. n] : Reached(A, q, n)
  BY <1>3
<1>5. r \in R[1 .. n]
  BY <1>2
<1> QED BY <1>4, <1>5

-----------------------------------------------------------------------------
(* What goes into a run, and what comes out.                               *)

\* Accounts of the client: applications that may exist, of one creator each
Tracked(accs) ==
  /\ \A a \in DOMAIN accs : a \in Addresses /\ DOMAIN accs[a].apps \subseteq AppIds
  /\ OneCreator(accs)

\* The ids start behind those that are loaded.
LEMMA LoadReaches ==
  ASSUME NEW accs, Tracked(accs), NEW n
  PROVE  Reached(Load(accs, n).accts, Load(accs, n), 0)
<1> DEFINE accts == [a \in DOMAIN accs |-> LoadAccount(accs[a])]
           ids == {0} \cup AppsOf(accts)
           s == Load(accs, n)
<1>1. /\ DOMAIN s = RunFields /\ s.accts = accts /\ s.nextApp = 1 + Max(ids)
      /\ s.pending = 0
  BY DEF Load, RunFields
<1>2. \A a \in DOMAIN accs : /\ DOMAIN accts[a] = AccountFields
                             /\ DOMAIN accts[a].apps = DOMAIN accs[a].apps
                             /\ \A id \in DOMAIN accs[a].apps : "pages" \in DOMAIN accts[a].apps[id]
  BY DEF LoadAccount, AccountFields
<1>3. DOMAIN accts = DOMAIN accs
  OBVIOUS
<1> HIDE DEF accts, s
<1>4. AppsOf(accts) \subseteq AppIds
  BY <1>2, <1>3 DEF AppsOf, Tracked
<1>5. ids \in SUBSET Int /\ IsFiniteSet(ids) /\ ids # {}
  <2>1. IsFiniteSet(AppsOf(accts))
    BY <1>4, AppAssumption, FS_Subset
  <2>2. IsFiniteSet(AppsOf(accts) \cup {0})
    BY <2>1, FS_AddElement
  <2>3. ids = AppsOf(accts) \cup {0}
    OBVIOUS
  <2>4. AppsOf(accts) \subseteq Int
    <3>1. AppIds \subseteq Int
      BY AppAssumption
    <3> QED BY <1>4, <3>1
  <2> QED BY <2>2, <2>3, <2>4
<1>6. Max(ids) \in ids /\ \A y \in ids : Max(ids) >= y
  BY <1>5, MaxIsMember
<1>7. \A id \in AppsOf(accts) : id \in AppIds /\ id < s.nextApp
  <2> DEFINE top == Max(ids)
  <2> SUFFICES ASSUME NEW id \in AppsOf(accts) PROVE id \in AppIds /\ id < 1 + top
    BY <1>1
  <2>1. top \in Int /\ id \in Int /\ top >= id
    BY <1>5, <1>6
  <2> HIDE DEF top
  <2> QED BY <1>4, <2>1
<1>8. \A a \in DOMAIN accts : \A id \in DOMAIN accts[a].apps : id \in AppsOf(accts)
  BY DEF AppsOf
<1>9. OneCreator(accts)
  BY <1>2, <1>3 DEF Tracked, OneCreator
<1>10. Sound(s)
  BY <1>1, <1>2, <1>3, <1>7, <1>8, <1>9 DEF Sound, Tracked
<1>11. Keeps(s.accts, s.accts)
  BY DEF Keeps
<1> QED BY <1>1, <1>10, <1>11 DEF Reached, s

LEMMA DumpIsTracked ==
  ASSUME NEW s, Sound(s)
  PROVE  Tracked(DumpAccounts(s))
<1> DEFINE d == DumpAccounts(s)
<1>1. DOMAIN d = DOMAIN s.accts /\ \A a \in DOMAIN d : DOMAIN d[a].apps = DOMAIN s.accts[a].apps
  BY DEF DumpAccounts, DumpAccount
<1> HIDE DEF d
<1>2. Tracked(d)
  BY <1>1 DEF Sound, OneCreator, Tracked
<1> QED BY <1>2 DEF d

\* The outcome of a run of the client: every transaction of the group is confirmed
\* under its number, the accounts are as they have to be for the next run, and
\* every application is still there.
LEMMA RunGroupOutcome ==
  ASSUME NEW accs, Tracked(accs), NEW g, NEW n \in Nat, DOMAIN g = 1 .. n,
         NEW r \in RunGroup(accs, g)
  PROVE  /\ Tracked(DumpAccounts(r)) /\ \A i \in Nat : i < n => i \in DOMAIN r.confirmed
         /\ DOMAIN accs \subseteq DOMAIN DumpAccounts(r)
         /\ \A a \in DOMAIN accs : DOMAIN accs[a].apps \subseteq DOMAIN DumpAccounts(r)[a].apps
<1> DEFINE z == Load(accs, Len(g))  d == DumpAccounts(r)
<1>1. r \in RunFrom(z, g)
  BY DEF RunGroup
<1>2. Reached(z.accts, r, n)
  <2>1. Reached(z.accts, z, 0)
    BY LoadReaches
  <2> HIDE DEF z
  <2> QED BY <1>1, <2>1, RunReaches
<1>3. z.accts = [a \in DOMAIN accs |-> LoadAccount(accs[a])]
  BY DEF Load
<1>4. \A a \in DOMAIN accs : LoadAccount(accs[a]).apps
         = [id \in DOMAIN accs[a].apps |->
              [name |-> accs[a].apps[id], src |-> accs[a].apps[id], pages |-> FALSE]]
  BY DEF LoadAccount
<1>5. DOMAIN d = DOMAIN r.accts /\ \A a \in DOMAIN d : DOMAIN d[a].apps = DOMAIN r.accts[a].apps
  BY DEF DumpAccounts, DumpAccount
<1> HIDE DEF z, d
<1>6. \A a \in DOMAIN accs : \A id \in DOMAIN accs[a].apps :
        id \in DOMAIN z.accts[a].apps /\ ~z.accts[a].apps[id].pages
  <2> SUFFICES ASSUME NEW a \in DOMAIN accs, NEW id \in DOMAIN accs[a].apps
               PROVE  id \in DOMAIN z.accts[a].apps /\ ~z.accts[a].apps[id].pages
    OBVIOUS
  <2> DEFINE apps == LoadAccount(accs[a]).apps
  <2>1. z.accts[a] = LoadAccount(accs[a])
    BY <1>3
  <2>2. id \in DOMAIN apps /\ apps[id].pages = FALSE
    <3> DEFINE app == [name |-> accs[a].apps[id], src |-> accs[a].apps[id], pages |-> FALSE]
    <3>1. id \in DOMAIN apps /\ apps[id] = app
      BY <1>4
    <3>2. app.pages = FALSE
      OBVIOUS
    <3> QED BY <3>1, <3>2
  <2>3. z.accts[a].apps = apps
    BY <2>1
  <2> HIDE DEF apps
  <2> QED BY <2>2, <2>3
<1>7. /\ DOMAIN accs \subseteq DOMAIN d
      /\ \A a \in DOMAIN accs : DOMAIN accs[a].apps \subseteq DOMAIN d[a].apps
  BY <1>2, <1>3, <1>5, <1>6 DEF Reached, Keeps
<1>8. Tracked(d) /\ \A i \in Nat : i < n => i \in DOMAIN r.confirmed
  BY <1>2, DumpIsTracked DEF Reached, d
<1> QED BY <1>7, <1>8 DEF d

-----------------------------------------------------------------------------
(* What the client serves.                                                 *)

\* Every application in the accounts is remembered as its creator's.
Remembered == \A a \in DOMAIN accounts : \A id \in DOMAIN accounts[a].apps :
  id \in DOMAIN appCreators /\ appCreators[id] = a

\* And no other is remembered.
NoneGone == \A id \in DOMAIN appCreators :
  appCreators[id] \in DOMAIN NodeLedger /\ id \in DOMAIN NodeLedger[appCreators[id]].apps

\* A run that has returned has confirmed the whole group, and what the composer
\* reads comes from that run.
AllConfirmed == \A i \in Nat : i < Len(group) => i \in DOMAIN final.confirmed
OwnResponses == \A i \in Nat : i < Len(group) =>
  i \in DOMAIN committed /\ committed[i].of = <<submissions, i>>

Serving ==
  /\ Tracked(accounts) /\ Remembered /\ NoneGone /\ DOMAIN results = Composers
  /\ pc = "merging" => Tracked(dump) /\ AllConfirmed
  /\ pc \in {"confirming", "collecting"} => OwnResponses

LEMMA ServingInit == Init => Serving
<1> SUFFICES ASSUME Init PROVE Serving
  OBVIOUS
<1>1. accounts = [a \in {FaucetAddress} |-> FaucetAccount] /\ pc = "idle"
  BY DEF Init
<1>2. DOMAIN FaucetAccount.apps = {}
  BY DEF FaucetAccount, EmptyAccount, Nothing
<1>3. DOMAIN accounts = {FaucetAddress} /\ DOMAIN accounts[FaucetAddress].apps = {}
  BY <1>1, <1>2
<1>4. DOMAIN results = Composers
  BY DEF Init
<1>5. NoneGone
  BY DEF Init, NoneGone, Nothing
<1> QED BY <1>1, <1>3, <1>4, <1>5, ClientAssumption DEF Serving, Tracked, OneCreator, Remembered

\* New addresses have no applications.
LEMMA SubmitServes ==
  ASSUME Serving, NEW c, NEW g \in Groups, Submit(c, g)
  PROVE  Serving'
<1>1. accounts' = [a \in DOMAIN accounts \cup Mentioned(g) |-> AccountInfo(a)]
  BY DEF Submit, Acquaint
<1>2. DOMAIN EmptyAccount.apps = {}
  BY DEF EmptyAccount, Nothing
<1>3. DOMAIN accounts' = DOMAIN accounts \cup Mentioned(g)
  BY <1>1
<1>4. \A a \in DOMAIN accounts' :
        DOMAIN accounts'[a].apps = IF a \in DOMAIN accounts THEN DOMAIN accounts[a].apps ELSE {}
  BY <1>1, <1>2 DEF AccountInfo
<1>5. \A a \in DOMAIN accounts : accounts'[a] = accounts[a]
  BY <1>1 DEF AccountInfo
<1>6. Tracked(accounts')
  BY <1>3, <1>4, MentionedType DEF Serving, Tracked, OneCreator
<1>7. pc' \in {"running", "idle"} /\ appCreators' = appCreators
  BY DEF Submit
<1>8. Remembered'
  BY <1>3, <1>4, <1>7 DEF Serving, Remembered
<1>9. results' = results
  BY DEF Submit, composerVars
<1>10. NoneGone'
  <2>1. NodeLedger = accounts /\ NodeLedger' = accounts'
    BY DEF Submit, NodeLedger
  <2> QED BY <1>3, <1>5, <1>7, <2>1 DEF Serving, NoneGone
<1> QED BY <1>6, <1>7, <1>8, <1>9, <1>10 DEF Serving

\* A group is a sequence.
LEMMA GroupPlaces ==
  ASSUME NEW g \in Groups
  PROVE  Len(g) \in Nat /\ DOMAIN g = 1 .. Len(g)
<1>1. g \in Seq(Range(g))
  BY ClientAssumption
<1> HIDE DEF Range
<1> QED BY <1>1

LEMMA RunReturnsServes ==
  ASSUME SubmissionInv, Serving, RunReturns
  PROVE  Serving'
<1>1. /\ group \in Groups /\ group' = group /\ final' \in RunGroup(accounts, group)
      /\ dump' = DumpAccounts(final') /\ pc' = "merging" /\ accounts' = Nothing
      /\ results' = results /\ appCreators' = appCreators
      /\ NodeLedger = accounts /\ NodeLedger' = dump'
  BY DEF RunReturns, SubmissionInv, MergeInv, composerVars, NodeLedger
<1>2. Len(group) \in Nat /\ DOMAIN group = 1 .. Len(group)
  BY <1>1, GroupPlaces
<1>3. Tracked(accounts)
  BY DEF Serving
<1>4. /\ Tracked(dump') /\ \A i \in Nat : i < Len(group) => i \in DOMAIN final'.confirmed
      /\ DOMAIN accounts \subseteq DOMAIN dump'
      /\ \A a \in DOMAIN accounts : DOMAIN accounts[a].apps \subseteq DOMAIN dump'[a].apps
  BY <1>1, <1>2, <1>3, RunGroupOutcome
<1>6. NoneGone'
  BY <1>1, <1>4 DEF Serving, NoneGone
<1>5. DOMAIN accounts' = {}
  BY <1>1 DEF Nothing
<1> QED BY <1>1, <1>4, <1>5, <1>6 DEF Serving, AllConfirmed, Tracked, OneCreator, Remembered

\* One more account: its applications are remembered as its own, and those that
\* are remembered as another's are not in the accounts.
LEMMA MergeAccountServes ==
  ASSUME SubmissionInv, Serving, MergeAccount
  PROVE  Serving'
<1>1. PICK a \in DOMAIN dump \ DOMAIN accounts :
        /\ pc = "merging" /\ pc' = pc /\ accounts' = Put(accounts, a, dump[a])
        /\ appCreators' = CreatorsIn(accounts')
        /\ UNCHANGED <<group, final, dump, results>>
  BY DEF MergeAccount, runVars, composerVars
<1>2. /\ DOMAIN accounts' \subseteq DOMAIN dump
      /\ \A b \in DOMAIN accounts' : accounts'[b] = dump[b]
  BY <1>1 DEF SubmissionInv, MergeInv, Put, Restrict
<1>3. Tracked(dump) /\ AllConfirmed
  BY <1>1 DEF Serving
<1>4. Tracked(accounts')
  BY <1>2, <1>3 DEF Tracked, OneCreator
<1>5. Remembered'
  <2> DEFINE here == UNION {DOMAIN accounts'[b].apps : b \in DOMAIN accounts'}
             of == [id \in here |-> CHOOSE b \in DOMAIN accounts' : id \in DOMAIN accounts'[b].apps]
  <2>1. appCreators' = of ++ appCreators
    BY <1>1 DEF CreatorsIn
  <2> SUFFICES ASSUME NEW b \in DOMAIN accounts', NEW id \in DOMAIN accounts'[b].apps
               PROVE  id \in DOMAIN appCreators' /\ appCreators'[id] = b
    BY DEF Remembered
  <2>2. id \in here
    OBVIOUS
  <2>3. of[id] \in DOMAIN accounts' /\ id \in DOMAIN accounts'[of[id]].apps
    BY <2>2
  <2>4. of[id] = b
    <3> HIDE DEF of
    <3> QED BY <1>4, <2>3 DEF Tracked, OneCreator
  <2>5. id \in DOMAIN of
    BY <2>2
  <2> HIDE DEF of
  <2> QED BY <2>1, <2>4, <2>5 DEF ++
<1>6. AllConfirmed'
  BY <1>1, <1>3 DEF AllConfirmed
<1>7. NoneGone'
  <2> DEFINE here == UNION {DOMAIN accounts'[b].apps : b \in DOMAIN accounts'}
             of == [id \in here |-> CHOOSE b \in DOMAIN accounts' : id \in DOMAIN accounts'[b].apps]
  <2>1. appCreators' = of ++ appCreators /\ NodeLedger = dump /\ NodeLedger' = dump
    BY <1>1 DEF CreatorsIn, NodeLedger
  <2>2. \A id \in DOMAIN of : of[id] \in DOMAIN dump /\ id \in DOMAIN dump[of[id]].apps
    <3> SUFFICES ASSUME NEW id \in here
                 PROVE  of[id] \in DOMAIN dump /\ id \in DOMAIN dump[of[id]].apps
      OBVIOUS
    <3>1. of[id] \in DOMAIN accounts' /\ id \in DOMAIN accounts'[of[id]].apps
      OBVIOUS
    <3> HIDE DEF of
    <3> QED BY <1>2, <3>1
  <2> HIDE DEF of
  <2>3. \A id \in DOMAIN appCreators' :
          \/ id \in DOMAIN of /\ appCreators'[id] = of[id]
          \/ id \in DOMAIN appCreators /\ appCreators'[id] = appCreators[id]
    BY <2>1 DEF ++
  <2> QED BY <2>1, <2>2, <2>3 DEF Serving, NoneGone
<1> QED BY <1>1, <1>3, <1>4, <1>5, <1>6, <1>7 DEF Serving

\* The responses of this run replace those of earlier ones.
LEMMA MergeTransactionsServes ==
  ASSUME SubmissionInv, Serving, MergeTransactions
  PROVE  Serving'
<1>1. /\ pc = "merging" /\ pc' \in {"idle", "confirming"} /\ committed' = Confirmed ++ committed
      /\ UNCHANGED <<accounts, appCreators, group, final, submissions, results>>
  BY DEF MergeTransactions, runVars
<1>2. AllConfirmed
  BY <1>1 DEF Serving
<1>3. OwnResponses'
  <2> SUFFICES ASSUME NEW i \in Nat, i < Len(group)
               PROVE  i \in DOMAIN committed' /\ committed'[i].of = <<submissions, i>>
    BY <1>1 DEF OwnResponses
  <2>1. i \in DOMAIN final.confirmed
    BY <1>2 DEF AllConfirmed
  <2>2. DOMAIN Confirmed = DOMAIN final.confirmed
    BY DEF Confirmed
  <2>3. Confirmed[i] = [of |-> <<submissions, i>>] ++ final.confirmed[i]
    BY <2>1 DEF Confirmed
  <2>4. Confirmed[i].of = <<submissions, i>>
    BY <2>3 DEF ++
  <2>5. i \in DOMAIN (Confirmed ++ committed) /\ (Confirmed ++ committed)[i] = Confirmed[i]
    BY <2>1, <2>2 DEF ++
  <2> QED BY <1>1, <2>4, <2>5
<1>4. Tracked(accounts') /\ Remembered'
  BY <1>1 DEF Serving, Remembered
<1>5. NoneGone'
  <2>1. NodeLedger = dump /\ NodeLedger' = accounts
    BY <1>1 DEF NodeLedger
  <2>2. accounts = Restrict(dump, DOMAIN dump) /\ dump = Restrict(dump, DOMAIN dump)
    BY <1>1 DEF MergeTransactions, SubmissionInv, MergeInv
  <2> QED BY <1>1, <2>1, <2>2 DEF Serving, NoneGone
<1> QED BY <1>1, <1>3, <1>4, <1>5 DEF Serving

LEMMA ServingNext == SubmissionInv /\ Serving /\ [Next]_vars => Serving'
<1> SUFFICES ASSUME SubmissionInv, Serving, [Next]_vars PROVE Serving'
  OBVIOUS
<1>1. CASE SendTransactions
  BY <1>1, SubmitServes DEF SendTransactions
<1>2. ASSUME NEW c \in Composers, Execute(c) PROVE Serving'
  BY <1>2, SubmitServes, ClientAssumption DEF Execute
<1>3. CASE RunReturns
  BY <1>3, RunReturnsServes
<1>4. CASE MergeAccount
  BY <1>4, MergeAccountServes
<1>5. CASE MergeTransactions
  BY <1>5, MergeTransactionsServes
<1>6. CASE RunFails \/ WaitForConfirmation \/ CollectResults \/ UNCHANGED vars
  <2>1. UNCHANGED <<accounts, appCreators>>
    BY <1>6 DEF RunFails, WaitForConfirmation, CollectResults, vars
  <2>2. Tracked(accounts') /\ Remembered' /\ NoneGone'
    <3>1. NodeLedger' = NodeLedger
      BY <1>6 DEF RunFails, WaitForConfirmation, CollectResults, vars, runVars, NodeLedger
    <3> QED BY <2>1, <3>1 DEF Serving, Remembered, NoneGone
  <2>3. CASE RunFails
    BY <2>2, <2>3 DEF RunFails, Serving, composerVars
  <2>4. CASE WaitForConfirmation
    BY <2>2, <2>4 DEF WaitForConfirmation, Serving, OwnResponses, runVars
  <2>5. CASE CollectResults
    <3>1. DOMAIN results' = DOMAIN results /\ pc' = "idle"
      BY <2>5 DEF CollectResults
    <3> QED BY <2>2, <3>1 DEF Serving
  <2>6. CASE UNCHANGED vars
    BY <2>2, <2>6 DEF vars, runVars, composerVars, Serving, OwnResponses, AllConfirmed
  <2> QED BY <1>6, <2>3, <2>4, <2>5, <2>6
<1> QED BY <1>1, <1>2, <1>3, <1>4, <1>5, <1>6 DEF Next, Handle

LEMMA ServingInvariance == Spec => []Serving
BY ServingInit, ServingNext, ClientInvariant, PTL DEF Spec

\* Between submissions the client serves exactly the applications that exist, and
\* remembers no other (AppsServed), whatever was submitted: a run starts from an id
\* that is not in use, and cannot delete what it has loaded.
THEOREM ApplicationsAreServed == Spec => []AppsServed
<1>1. Serving => AppsServed
  <2> SUFFICES ASSUME Serving, pc = "idle" PROVE AppsServed
    BY DEF AppsServed
  <2>1. \A id \in DOMAIN appCreators :
          appCreators[id] \in DOMAIN accounts /\ id \in DOMAIN accounts[appCreators[id]].apps
    BY DEF Serving, NoneGone, NodeLedger
  <2>2. DOMAIN appCreators \subseteq AppsOf(accounts)
    BY <2>1 DEF AppsOf
  <2>3. ASSUME NEW id \in AppIds, NEW a \in DOMAIN accounts, id \in DOMAIN accounts[a].apps
        PROVE  ApplicationInfo(id) = [creator |-> a]
    <3>1. id \in DOMAIN appCreators /\ appCreators[id] = a
      BY <2>3 DEF Serving, Remembered
    <3> QED BY <2>3, <3>1 DEF ApplicationInfo, AccountInfo
  <2>4. ASSUME NEW id \in AppIds, NEW a \in DOMAIN accounts, ApplicationInfo(id) = [creator |-> a]
        PROVE  id \in DOMAIN accounts[a].apps
    <3>1. [error |-> "ValueError"] # [creator |-> a]
      <4>1. "error" \in DOMAIN [error |-> "ValueError"] /\ "error" \notin DOMAIN [creator |-> a]
        OBVIOUS
      <4> QED BY <4>1
    <3>2. id \in DOMAIN appCreators /\ [creator |-> appCreators[id]] = [creator |-> a]
      BY <2>4, <3>1 DEF ApplicationInfo
    <3>3. appCreators[id] = a
      <4>1. [creator |-> appCreators[id]].creator = [creator |-> a].creator
        BY <3>2
      <4> QED BY <4>1
    <3> QED BY <2>1, <3>2, <3>3
  <2> QED BY <2>2, <2>3, <2>4 DEF AppsServed
<1> QED BY <1>1, ServingInvariance, PTL

\* The results of a composer are the responses of its own transactions in this very
\* submission (ResultsAreOwn): a run confirms the whole group under 0, 1, ..., and
\* replaces the responses that earlier groups left under these ids.
THEOREM ResultsBelong == Spec => ResultsAreOwn
<1>1. SubmissionInv /\ Serving /\ [Next]_vars =>
        [\A c \in Composers : results'[c] # results[c] =>
           \A i \in DOMAIN results'[c] : results'[c][i].of = <<submissions, i>>]_vars
  <2> SUFFICES ASSUME SubmissionInv, Serving, Next, NEW c \in Composers, results'[c] # results[c],
                      NEW i \in DOMAIN results'[c]
               PROVE  results'[c][i].of = <<submissions, i>>
    BY DEF vars
  <2>1. CollectResults
    BY DEF Next, Handle, SendTransactions, Execute, Submit, RunReturns, RunFails, MergeAccount,
           MergeTransactions, WaitForConfirmation, composerVars
  <2> DEFINE calls == {j \in DOMAIN Methods[caller] : j < Len(group)}
  <2>2. /\ pc = "collecting" /\ caller \in Composers /\ submissions' = submissions
        /\ results' = [results EXCEPT ![caller] =
                         IF raised' THEN <<>> ELSE [j \in calls |-> PendingInfo(j)]]
    BY <2>1 DEF CollectResults, SubmissionInv, StatusInv, runVars
  <2>3. c = caller
    BY <2>2 DEF Serving
  <2>4. results'[c] = IF raised' THEN <<>> ELSE [j \in calls |-> PendingInfo(j)]
    BY <2>2, <2>3 DEF Serving
  <2>5. ~raised'
    <3> SUFFICES ASSUME raised' PROVE FALSE
      OBVIOUS
    <3>1. results'[c] = <<>>
      BY <2>4
    <3> QED BY <3>1
  <2>6. i \in calls /\ results'[c][i] = PendingInfo(i)
    BY <2>4, <2>5
  <2>7. i \in Nat /\ i < Len(group)
    BY <2>2, <2>6, ClientAssumption
  <2>8. i \in DOMAIN committed /\ committed[i].of = <<submissions, i>>
    BY <2>2, <2>7 DEF Serving, OwnResponses
  <2> QED BY <2>6, <2>8 DEF PendingInfo
<1> QED BY <1>1, ClientInvariant, ServingInvariance, PTL DEF Spec, ResultsAreOwn
=============================================================================
