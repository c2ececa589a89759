-------------------------- MODULE CommandRulesProofs --------------------------
(* Theorems of CommandRules for rules of any kind and sections of any length. *)
EXTENDS CommandRules, TLAPS

\* What the search has established: the sections before pc are undecided, and so
\* are the rules of the section before index.
SearchInv ==
  /\ pc = "start" => index = 1
  /\ pc \in SectionNames \cup {"default"} => wellFormed
  /\ pc \in SectionNames =>
       \A i \in 1..(index - 1) : i \in 1..Len(rules[pc]) => ~Decides(rules[pc][i])
  /\ pc \in SectionNames => index \in 1..(Len(rules[pc]) + 1)
  /\ pc \in {"deny", "allow", "default"} => Undecided(rules, "list")
  /\ pc \in {"allow", "default"} => Undecided(rules, "deny")
  /\ pc = "default" => Undecided(rules, "allow")

\* The inductive invariant.
Inv == TypeOK /\ SearchInv /\ ResultIsAnswer

\* The three sections are sequences of rules within the bound.
LEMMA SectionFacts ==
  ASSUME TypeOK, NEW s \in SectionNames
  PROVE  /\ Len(rules[s]) \in 0..MaxRules
         /\ rules[s] \in [1..Len(rules[s]) -> Rules]
<1>1. rules[s] \in Sections
  BY DEF TypeOK, SectionNames
<1>2. PICK n \in 0..MaxRules : rules[s] \in [1..n -> Rules]
  BY <1>1 DEF Sections
<1>3. n \in Nat /\ Len(rules[s]) = n
  BY <1>2, RulesAssumption
<1> QED
  BY <1>2, <1>3

\* The search starts with nothing passed over.
LEMMA InitInv == Init => Inv
<1> SUFFICES ASSUME Init PROVE Inv
  OBVIOUS
<1>1. TypeOK
  BY RulesAssumption DEF Init, TypeOK
<1>2. SearchInv
  BY DEF Init, SearchInv, SectionNames
<1>3. ResultIsAnswer
  BY DEF Init, ResultIsAnswer
<1> QED
  BY <1>1, <1>2, <1>3 DEF Inv

\* The rule that decides in the section pc is the first one to decide.
LEMMA DecidingRuleAnswers ==
  ASSUME Inv, TryRule, Decides(Rule)
  PROVE  Answers(rules, result)'
<1>1. pc \in SectionNames /\ index <= Len(rules[pc])
  BY DEF TryRule, SectionNames
<1>2. Len(rules[pc]) \in Nat /\ index \in 1..Len(rules[pc])
  BY <1>1, SectionFacts DEF Inv, SearchInv, TypeOK
<1>3. result' = Verdict(pc, Rule) /\ UNCHANGED <<rules, wellFormed, default>>
  BY DEF TryRule, inputs
<1>4. \A i \in 1..(index - 1) : ~Decides(rules[pc][i])
  BY <1>1, <1>2 DEF Inv, SearchInv
<1>5. FirstAnswers(rules, pc, result')
  BY <1>2, <1>3, <1>4 DEF FirstAnswers, Rule
<1>6. Answers(rules, result')
  <2>1. CASE pc = "list"
    BY <1>5, <2>1 DEF Answers, Inv, SearchInv, SectionNames
  <2>2. CASE pc = "deny"
    BY <1>5, <2>2 DEF Answers, Inv, SearchInv, SectionNames
  <2>3. CASE pc = "allow"
    BY <1>5, <2>3 DEF Answers, Inv, SearchInv, SectionNames
  <2> QED
    BY <1>1, <2>1, <2>2, <2>3 DEF SectionNames
<1> QED
  BY <1>3, <1>6 DEF Answers, FirstAnswers, Undecided

\* Entering the search or answering that there are no rules.
LEMMA EnterInv == ASSUME Inv, Enter PROVE Inv'
<1>1. /\ pc = "start" /\ index = 1
      /\ UNCHANGED <<rules, wellFormed, default, index>>
      /\ \/ wellFormed /\ pc' = "list" /\ UNCHANGED result
         \/ ~wellFormed /\ pc' = "done" /\ result' = -100
  BY DEF Enter, inputs, Inv, SearchInv
<1>2. TypeOK'
  BY <1>1 DEF Inv, TypeOK
<1>3. Len(rules["list"]) \in Nat
  BY SectionFacts, RulesAssumption DEF Inv, SectionNames
<1>4. SearchInv'
  BY <1>1, <1>3 DEF SearchInv, SectionNames
<1>5. ResultIsAnswer'
  BY <1>1 DEF ResultIsAnswer, Answers
<1> QED
  BY <1>2, <1>4, <1>5 DEF Inv

\* Trying one rule.
LEMMA TryRuleInv == ASSUME Inv, TryRule PROVE Inv'
<1>1. /\ pc \in SectionNames /\ index \in 1..Len(rules[pc])
      /\ Len(rules[pc]) \in 0..MaxRules /\ UNCHANGED <<rules, wellFormed, default>>
  BY SectionFacts, RulesAssumption
     DEF TryRule, SectionNames, Inv, SearchInv, TypeOK, inputs
<1>2. CASE Decides(Rule)
  <2>1. pc' = "done" /\ UNCHANGED index /\ result' \in {101, -101}
    BY <1>2 DEF TryRule, Verdict
  <2>2. TypeOK'
    BY <1>1, <2>1 DEF Inv, TypeOK
  <2>3. SearchInv'
    BY <2>1 DEF SearchInv, SectionNames
  <2>4. ResultIsAnswer'
    BY <1>2, DecidingRuleAnswers DEF ResultIsAnswer
  <2> QED
    BY <2>2, <2>3, <2>4 DEF Inv
<1>3. CASE ~Decides(Rule)
  <2>1. index' = index + 1 /\ UNCHANGED <<pc, result>>
    BY <1>3 DEF TryRule
  <2>2. TypeOK'
    BY <1>1, <2>1, RulesAssumption DEF Inv, TypeOK
  <2>3. \A i \in 1..(index' - 1) : i \in 1..Len(rules[pc]) => ~Decides(rules[pc][i])
    <3>1. \A i \in 1..(index' - 1) : i \in 1..(index - 1) \/ i = index
      BY <1>1, <2>1
    <3> QED
      BY <1>1, <1>3, <3>1 DEF Inv, SearchInv, Rule
  <2>4. index' \in 1..(Len(rules[pc]) + 1)
    BY <1>1, <2>1
  <2>5. SearchInv'
    BY <1>1, <2>1, <2>3, <2>4 DEF Inv, SearchInv, SectionNames, Undecided
  <2>6. ResultIsAnswer'
    BY <1>1, <2>1 DEF ResultIsAnswer, SectionNames
  <2> QED
    BY <2>2, <2>5, <2>6 DEF Inv
<1> QED
  BY <1>2, <1>3

\* Leaving a section of which no rule decided.
LEMMA LeaveSectionInv == ASSUME Inv, LeaveSection PROVE Inv'
<1>1. /\ pc \in SectionNames /\ index > Len(rules[pc]) /\ index \in Nat
      /\ Len(rules[pc]) \in Nat
      /\ UNCHANGED <<rules, wellFormed, default, result>>
      /\ pc' = NextSection(pc) /\ index' = 1
  BY SectionFacts, RulesAssumption
     DEF LeaveSection, SectionNames, Inv, TypeOK, inputs
<1>2. Undecided(rules, pc)
  <2> SUFFICES ASSUME NEW i \in 1..Len(rules[pc]) PROVE ~Decides(rules[pc][i])
    BY DEF Undecided
  <2>1. i \in 1..(index - 1)
    BY <1>1
  <2> QED
    BY <1>1, <2>1 DEF Inv, SearchInv
<1>3. pc' \in {"deny", "allow", "default"}
  BY <1>1 DEF NextSection, SectionNames
<1>4. TypeOK'
  BY <1>1, <1>3, RulesAssumption DEF Inv, TypeOK
<1>5. \A s \in SectionNames : Len(rules[s]) \in Nat
  BY SectionFacts, RulesAssumption DEF Inv
<1>6. SearchInv'
  <2>1. CASE pc = "list"
    BY <1>1, <1>2, <1>5, <2>1 DEF Inv, SearchInv, SectionNames, NextSection, Undecided
  <2>2. CASE pc = "deny"
    BY <1>1, <1>2, <1>5, <2>2 DEF Inv, SearchInv, SectionNames, NextSection, Undecided
  <2>3. CASE pc = "allow"
    BY <1>1, <1>2, <1>5, <2>3 DEF Inv, SearchInv, SectionNames, NextSection, Undecided
  <2> QED
    BY <1>1, <2>1, <2>2, <2>3 DEF SectionNames
<1>7. ResultIsAnswer'
  BY <1>3 DEF ResultIsAnswer
<1> QED
  BY <1>4, <1>6, <1>7 DEF Inv

\* Taking the default of the configuration.
LEMMA DefaultInv == ASSUME Inv, Default PROVE Inv'
<1>1. /\ pc = "default" /\ pc' = "done"
      /\ result' = (IF default = "allow" THEN 101 ELSE -101)
      /\ UNCHANGED <<rules, wellFormed, default, index>>
  BY DEF Default, inputs
<1>2. TypeOK'
  BY <1>1 DEF Inv, TypeOK
<1>3. SearchInv'
  BY <1>1 DEF SearchInv, SectionNames
<1>4. ResultIsAnswer'
  BY <1>1 DEF Inv, SearchInv, ResultIsAnswer, Answers, Undecided
<1> QED
  BY <1>2, <1>3, <1>4 DEF Inv

\* Every step of the search keeps what it has established.
LEMMA NextInv == ASSUME Inv, [Next]_vars PROVE Inv'
<1>1. CASE UNCHANGED vars
  BY <1>1 DEF Inv, TypeOK, SearchInv, ResultIsAnswer, Answers, FirstAnswers,
              Undecided, vars, inputs
<1> QED
  BY <1>1, EnterInv, TryRuleInv, LeaveSectionInv, DefaultInv DEF Next

\* The search keeps its loop invariant.
LEMMA InvHolds == Spec => []Inv
<1>1. QED
  BY InitInv, NextInv, PTL DEF Spec

\* The search ends with one of the three answers of the code and never leaves a
\* section's bounds.
THEOREM RulesTypeCorrect == Spec => []TypeOK
<1>1. Inv => TypeOK
  BY DEF Inv
<1>2. QED
  BY <1>1, InvHolds, PTL

\* For every list of rules the function computes the answer that the order of
\* the sections defines.
THEOREM FirstVerdictWins == Spec => []ResultIsAnswer
<1>1. Inv => ResultIsAnswer
  BY DEF Inv
<1>2. QED
  BY <1>1, InvHolds, PTL

\* A rule that is replaced behind the first deciding one does not matter.
LEMMA LaterRuleDoesNotCount ==
  ASSUME TypeOK, NEW s \in SectionNames, NEW i \in 1..Len(rules[s]), NEW r \in Rules,
         MatchValue(rules[s][i]) = -1, NEW t \in SectionNames
  PROVE  LET rs == [rules EXCEPT ![s][i] = r]
         IN  /\ Undecided(rules, t) => t # s /\ Undecided(rs, t)
             /\ FirstAnswers(rules, t, 101) => FirstAnswers(rs, t, 101)
<1> DEFINE rs == [rules EXCEPT ![s][i] = r]
<1>1. /\ rules \in [SectionNames -> Sections] /\ s \in DOMAIN rules
      /\ Len(rules[t]) \in Nat /\ rules[t] \in [1..Len(rules[t]) -> Rules]
      /\ Len(rules[s]) \in Nat /\ rules[s] \in [1..Len(rules[s]) -> Rules]
  BY SectionFacts, RulesAssumption DEF TypeOK, SectionNames
<1>2. /\ t # s => rs[t] = rules[t]
      /\ rs[s] \in [1..Len(rules[s]) -> Rules]
      /\ \A j \in 1..Len(rules[s]) : j # i => rs[s][j] = rules[s][j]
  BY <1>1
<1>3. Len(rs[s]) = Len(rules[s])
  <2> HIDE DEF rs
  <2> QED
    BY <1>1, <1>2
<1>4. Decides(rules[s][i])
  BY DEF Decides
<1>5. Undecided(rules, t) => t # s /\ Undecided(rs, t)
  BY <1>2, <1>4 DEF Undecided
<1>6. ASSUME FirstAnswers(rules, t, 101)
      PROVE  FirstAnswers(rs, t, 101)
  <2>1. PICK k \in 1..Len(rules[t]) :
          /\ Decides(rules[t][k])
          /\ \A j \in 1..(k - 1) : ~Decides(rules[t][j])
          /\ 101 = Verdict(t, rules[t][k])
    BY <1>6 DEF FirstAnswers
  <2>2. MatchValue(rules[t][k]) # -1
    BY <2>1 DEF Verdict
  <2>3. CASE t = s
    <3>1. k # i /\ ~(i \in 1..(k - 1))
      BY <1>4, <2>1, <2>2, <2>3
    <3>2. \A j \in 1..k : j \in 1..Len(rules[s]) /\ j # i
      BY <1>1, <2>1, <2>3, <3>1
    <3>3. k \in 1..k /\ \A j \in 1..(k - 1) : j \in 1..k
      BY <1>1, <2>1
    <3>4. rs[t][k] = rules[t][k] /\ \A j \in 1..(k - 1) : rs[t][j] = rules[t][j]
      BY <1>2, <2>3, <3>2, <3>3
    <3>5. k \in 1..Len(rs[t])
      BY <1>3, <2>1, <2>3
    <3> HIDE DEF rs
    <3> QED
      BY <2>1, <3>4, <3>5 DEF FirstAnswers
  <2>4. CASE t # s
    <3>1. rs[t] = rules[t]
      BY <1>2, <2>4
    <3> HIDE DEF rs
    <3> QED
      BY <2>1, <3>1 DEF FirstAnswers
  <2> QED
    BY <2>3, <2>4
<1> QED
  BY <1>5, <1>6

\* For every list of rules a command that is authorized beside a rule that throws
\* would be authorized whatever that rule had said.
THEOREM ErrorsNeverAuthorize == Spec => []ErrorsDoNotAuthorize
<1>1. ASSUME Inv PROVE ErrorsDoNotAuthorize
  <2> SUFFICES ASSUME pc = "done", result = 101,
                      NEW s \in SectionNames, NEW i \in 1..Len(rules[s]),
                      MatchValue(rules[s][i]) = -1, NEW r \in Rules
               PROVE  Answers([rules EXCEPT ![s][i] = r], 101)
    BY DEF ErrorsDoNotAuthorize
  <2> DEFINE rs == [rules EXCEPT ![s][i] = r]
  <2>1. TypeOK /\ Answers(rules, 101) /\ wellFormed
    BY <1>1 DEF Inv, ResultIsAnswer, Answers
  <2>2. \A t \in SectionNames :
          /\ Undecided(rules, t) => t # s /\ Undecided(rs, t)
          /\ FirstAnswers(rules, t, 101) => FirstAnswers(rs, t, 101)
    BY <2>1, LaterRuleDoesNotCount
  <2> HIDE DEF rs
  <2>3. ~(Undecided(rules, "list") /\ Undecided(rules, "deny") /\ Undecided(rules, "allow"))
    BY <2>2 DEF SectionNames
  <2>4. Answers(rs, 101)
    BY <2>1, <2>2, <2>3 DEF Answers, SectionNames
  <2> QED
    BY <2>4 DEF rs
<1>2. QED
  BY <1>1, InvHolds, PTL
=============================================================================
