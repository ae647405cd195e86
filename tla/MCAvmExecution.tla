--------------------------- MODULE MCAvmExecution ---------------------------
(* Instances of AvmExecution for TLC.                                      *)
EXTENDS AvmExecution

Account(addr, as, ls) == [addr |-> addr, apps |-> as, locals |-> ls, wellFormed |-> {TRUE}]

Pay           == [type |-> "pay", cell |-> "pay", app |-> 0, oc |-> "NoOp"]
Appl(app, oc) == [type |-> "appl", cell |-> "appl", app |-> app, oc |-> oc]

\* A user who created applications 1 to 3 and has opted into 2.
MCSetup == <<Account(1, {1, 2, 3}, {2}), Account(101, {}, {}),
             Account(102, {}, {}), Account(103, {}, {})>>

\* The user's application 3 has an account that may turn out malformed.
OpenSetup == [MCSetup EXCEPT ![4].wellFormed = BOOLEAN]

\* The "grp" of the submitted transactions.
OneGroup == <<-1, -1>>

\* What a submitted transaction may be.
Calls       == {Pay, Appl(1, "NoOp")}
Completions == {Pay, Appl(0, "NoOp"), Appl(2, "CloseOut")}
               \cup {Appl(1, oc) : oc \in OnCompletions}

TwoApps     == {Appl(1, "NoOp"), Appl(2, "NoOp")}

\* What itxn_field may make of a staged transaction.
InnerCalls  == {Pay, Appl(1, "NoOp"), Appl(2, "NoOp"), Appl(3, "NoOp")}
InnerCompletions == {[Pay EXCEPT !.cell = "mixed"], Appl(1, "NoOp"), Appl(2, "NoOp"),
                     Appl(2, "OptIn"), Appl(0, "DeleteApplication")}
=============================================================================
