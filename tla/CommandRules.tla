----------------------------- MODULE CommandRules -----------------------------
(***************************************************************************)
(* Security::check_command_to_store_is_authorizated: whether a command may *)
(* run on a store.  The rules of the store are tried section by section,   *)
(* list, deny, allow, each in its order, and the first rule that decides   *)
(* ends the search; the default of the configuration decides otherwise.    *)
(*                                                                         *)
(* A call is about one command and tries each rule at most once, so a rule *)
(* is what it says of this command: its expression matches, does not, or   *)
(* makes match_rule throw.                                                 *)
(***************************************************************************)
EXTENDS Integers, Sequences

\* "fetch" is kind fetch_command_authorized: matching is a 2xx answer of the
\* peer, throwing a request that cannot be formatted.
AllRules ==
  {r \in [enabled : BOOLEAN,
          kind : {"exact", "reg_exp", "fetch"},
          expression : {"empty", "any", "matches", "differs", "throws"},
          action : {"allow", "other"}] :
     r.kind = "exact" => r.expression # "throws"}

CONSTANTS
  Rules,    \* the rules of an instance
  MaxRules  \* bound of the length of a section

ASSUME RulesAssumption == Rules \subseteq AllRules /\ MaxRules \in Nat

Sections == UNION {[1..n -> Rules] : n \in 0..MaxRules}

VARIABLES
  rules,    \* rule_list: the sections list, deny and allow
  wellFormed, \* rule_list is an object whose deny and allow are arrays
  default,  \* config_json security.default
  pc,       \* the section that is being searched
  index,    \* the next rule of the section
  result    \* what the function answers

inputs == <<rules, wellFormed, default>>
vars == <<inputs, pc, index, result>>

Init ==
  /\ rules \in [list : Sections, deny : Sections, allow : Sections]
  /\ wellFormed \in BOOLEAN
  /\ default \in {"allow", "other", "absent"}
  /\ pc = "start"
  /\ index = 1
  /\ result = -1

-----------------------------------------------------------------------------
\* match_rule: 0 or negative when the rule has nothing to say, -1 when it throws.
MatchValue(r) ==
  CASE ~r.enabled \/ r.expression = "empty" -> 0
    [] r.enabled /\ r.expression = "any" -> 101
    [] r.enabled /\ r.expression = "throws" -> -1
    [] r.enabled /\ r.expression = "matches" ->
         (CASE r.kind = "exact" -> 102 [] r.kind = "fetch" -> 103 [] r.kind = "reg_exp" -> 104)
    [] r.enabled /\ r.expression = "differs" ->
         IF r.kind = "fetch" THEN -102 ELSE 0

\* Mutant: a rule that throws is skipped.
OnlyMatches(r) == MatchValue(r) >= 101

Decides(r) == MatchValue(r) = -1 \/ MatchValue(r) >= 101

\* Mutant: the value of match_rule is answered.
MatchAnswered(section, r) == MatchValue(r)

\* What the deciding rule of a section answers: in the list its action, in deny
\* no, in allow yes, and no in all of them when match_rule threw.
Verdict(section, r) ==
  IF \/ MatchValue(r) = -1
     \/ section = "deny"
     \/ section = "list" /\ r.action # "allow"
  THEN -101 ELSE 101

\* Mutant: the whitelist is tried before the blacklist.
AllowFirst(section) ==
  CASE section = "list" -> "allow"
    [] section = "allow" -> "deny"
    [] section = "deny" -> "default"

NextSection(section) ==
  CASE section = "list" -> "deny"
    [] section = "deny" -> "allow"
    [] section = "allow" -> "default"

\* Without a deny and an allow array the store counts as having no rules.
Enter ==
  /\ pc = "start"
  /\ IF wellFormed
     THEN pc' = "list" /\ UNCHANGED result
     ELSE pc' = "done" /\ result' = -100
  /\ UNCHANGED <<inputs, index>>

Rule == rules[pc][index]

TryRule ==
  /\ pc \in {"list", "deny", "allow"}
  /\ index <= Len(rules[pc])
  /\ IF Decides(Rule)
     THEN result' = Verdict(pc, Rule) /\ pc' = "done" /\ UNCHANGED index
     ELSE index' = index + 1 /\ UNCHANGED <<pc, result>>
  /\ UNCHANGED inputs

LeaveSection ==
  /\ pc \in {"list", "deny", "allow"}
  /\ index > Len(rules[pc])
  /\ pc' = NextSection(pc)
  /\ index' = 1
  /\ UNCHANGED <<inputs, result>>

\* A default that is missing or not "allow" denies.
Default ==
  /\ pc = "default"
  /\ result' = IF default = "allow" THEN 101 ELSE -101
  /\ pc' = "done"
  /\ UNCHANGED <<inputs, index>>

Next == Enter \/ TryRule \/ LeaveSection \/ Default

Spec == Init /\ [][Next]_vars

-----------------------------------------------------------------------------
(* Properties.                                                              *)

TypeOK ==
  /\ rules \in [list : Sections, deny : Sections, allow : Sections]
  /\ wellFormed \in BOOLEAN
  /\ default \in {"allow", "other", "absent"}
  /\ pc \in {"start", "list", "deny", "allow", "default", "done"}
  /\ index \in 1..(MaxRules + 1)
  /\ result \in {-1, 101, -101, -100}

\* No rule of a section of rs decides.
Undecided(rs, section) == \A i \in 1..Len(rs[section]) : ~Decides(rs[section][i])

\* The first deciding rule of a section answers r.
FirstAnswers(rs, section, r) ==
  \E i \in 1..Len(rs[section]) :
    /\ Decides(rs[section][i])
    /\ \A j \in 1..(i - 1) : ~Decides(rs[section][j])
    /\ r = Verdict(section, rs[section][i])

\* The answer to the rules rs as the order of the sections defines it, without a
\* search: list overrides deny, deny overrides allow, allow overrides the default.
Answers(rs, r) ==
  \/ ~wellFormed /\ r = -100
  \/ /\ wellFormed
     /\ \/ FirstAnswers(rs, "list", r)
        \/ Undecided(rs, "list") /\ FirstAnswers(rs, "deny", r)
        \/ /\ Undecided(rs, "list") /\ Undecided(rs, "deny")
           /\ FirstAnswers(rs, "allow", r)
        \/ /\ Undecided(rs, "list") /\ Undecided(rs, "deny") /\ Undecided(rs, "allow")
           /\ r = (IF default = "allow" THEN 101 ELSE -101)

\* The three loops with their breaks and the result tested between them compute
\* exactly that answer, whatever the rules.
ResultIsAnswer == pc = "done" => Answers(rules, result)

SectionNames == {"list", "deny", "allow"}

\* A rule that makes match_rule throw does not help a command: a command that is
\* authorized with such a rule in any section is one that would be authorized
\* whatever that rule had said, a refusal of the list or of deny included.
ErrorsDoNotAuthorize ==
  pc = "done" /\ result = 101 =>
    \A s \in SectionNames : \A i \in 1..Len(rules[s]) :
      MatchValue(rules[s][i]) = -1 =>
        \A r \in Rules : Answers([rules EXCEPT ![s][i] = r], 101)
=============================================================================
