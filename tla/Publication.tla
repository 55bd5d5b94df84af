---------------------------- MODULE Publication ----------------------------
(***************************************************************************)
(* What a workspace promises the readers of its results.  A material shows *)
(* at most one result.  It is made from the source and the dictionary the  *)
(* material has at that moment, is withdrawn in the step that changes one  *)
(* of them, and once withdrawn is never shown again.                       *)
(***************************************************************************)
EXTENDS Naturals

CONSTANTS Materials, Groups, Sources, None,
          GroupOf  \* [Materials -> Groups]

VARIABLES
  source, \* [Materials -> Sources \cup {None}]
  dict,   \* [Groups -> Nat]: revisions of the dictionaries
  made,   \* [Materials -> Nat]: the results made so far, numbered
  shown   \* [Materials -> sets of results]

vars == <<source, dict, made, shown>>

Init ==
  /\ source = [m \in Materials |-> None]
  /\ dict = [g \in Groups |-> 1]
  /\ made = [m \in Materials |-> 0]
  /\ shown = [m \in Materials |-> {}]

\* The results of the materials W are withdrawn; those of P, among them, get a new
\* one in the same step.
Turn(W, P) ==
  /\ made' = [m \in Materials |-> IF m \in P THEN made[m] + 1 ELSE made[m]]
  /\ shown' = [m \in Materials |->
                 IF m \in P
                 THEN {[id |-> made[m] + 1, src |-> source'[m], dict |-> dict'[GroupOf[m]]]}
                 ELSE IF m \in W THEN {} ELSE shown[m]]

SetSources(W) ==
  /\ \E s \in [W -> Sources] :
       source' = [m \in Materials |-> IF m \in W THEN s[m] ELSE source[m]]
  /\ dict' = dict
  /\ Turn(W, {})

Members(g) == {m \in Materials : GroupOf[m] = g}

\* A review that extends the dictionary shows the reviewed material at once.
SetDictionary(g) ==
  /\ source' = source
  /\ dict' = [dict EXCEPT ![g] = @ + 1]
  /\ \E P \in {{}} \cup {{m} : m \in Members(g)} : Turn(Members(g), P)

Publish(m) ==
  /\ source' = source /\ dict' = dict
  /\ Turn({m}, {m})

Withdraw(W) ==
  /\ source' = source /\ dict' = dict
  /\ Turn(W, {})

Next ==
  \/ \E W \in SUBSET Materials : SetSources(W) \/ Withdraw(W)
  \/ \E g \in Groups : SetDictionary(g)
  \/ \E m \in Materials : Publish(m)

Spec == Init /\ [][Next]_vars
=============================================================================
