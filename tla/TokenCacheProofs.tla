--------------------------- MODULE TokenCacheProofs ---------------------------
(* Theorems of TokenCache for any number of workers, tokens and clock       *)
(* readings.                                                                *)
EXTENDS TokenCache, TLAPS

\* Clients of the exclusive tokens keep their discipline.
OneRequestEach ==
  \A v, w \in Workers : auth[v] \in Exclusive /\ auth[v] = auth[w] => v = w

\* What each label says about the locals of the worker.
ControlInv ==
  \A w \in Workers :
    /\ pc[w] # "idle" => auth[w] \in Authorizations
    /\ pc[w] # "answer" => rules[w] = "none"
    /\ pc[w] \in {"idle", "check_expiry", "await", "stamp"} => response[w] = "none"
    /\ pc[w] = "apply" => response[w] # "none"
    /\ pc[w] = "check_expiry" => found[w]

\* What the check of an exclusive token knows about its entry at each label.
KnownEntry(w) ==
  /\ pc[w] \in {"await", "apply"} =>
       ~IsEntry(auth[w]) \/ (found[w] /\ tokens[auth[w]].kind = "stamped")
  /\ pc[w] \in {"find_section", "find_rules"} /\ IsEntry(auth[w]) => Current(w)
  /\ rules[w] = "own" => Current(w)

EntriesKnown ==
  config.fetch => \A w \in Workers : auth[w] \in Exclusive => KnownEntry(w)

\* The inductive invariant.
Inv == TypeOK /\ OneRequestEach /\ ControlInv /\ RulesStayAlive /\ EntriesKnown

\* An entry that needs no refresh is younger than its time to live.
LEMMA YoungIsCurrent ==
  ASSUME NEW at \in Times, NEW t \in Times, ~Expired(at, t)
  PROVE  t - at < Ttl * Minute
<1>1. at \in Int /\ t \in Int /\ Minute \in Nat \ {0} /\ Ttl \in Nat
  BY TokenAssumption
<1>2. CASE t >= at
  <2> DEFINE d == t - at
             q == d \div Minute
  <2>1. d \in Nat /\ q \in Int /\ q < Ttl
    BY <1>1, <1>2 DEF Expired, Age
  <2>2. d < Minute * (q + 1)
    BY <1>1, <2>1
  <2>3. Minute * (q + 1) <= Minute * Ttl
    BY <1>1, <2>1
  <2> QED
    BY <1>1, <2>1, <2>2, <2>3
<1>3. CASE ~(t >= at)
  <2>1. Ttl * Minute >= 0
    BY <1>1
  <2> QED
    BY <1>1, <1>3, <2>1
<1> QED
  BY <1>2, <1>3

Step(w) == CheckFound(w) \/ Continue(w) \/ Answered(w) \/ Unreachable(w)

\* No check is under way at first.
LEMMA InitInv == Init => Inv
<1> SUFFICES ASSUME Init PROVE Inv
  OBVIOUS
<1>1. Configured \subseteq Entries
  BY DEF Configured
<1>2. TypeOK
  BY <1>1, TokenAssumption DEF Init, TypeOK, Labels, Responses, Values
<1>3. OneRequestEach
  BY TokenAssumption DEF Init, OneRequestEach
<1>4. ControlInv /\ RulesStayAlive
  BY DEF Init, ControlInv, RulesStayAlive
<1>5. EntriesKnown
  BY DEF Init, EntriesKnown, KnownEntry
<1> QED
  BY <1>2, <1>3, <1>4, <1>5 DEF Inv

\* Entries made by a check are entries.
LEMMA EntryTypes ==
  ASSUME NEW t \in Times
  PROVE  /\ \A k \in {"absent", "junk", "plain", "unstamped"} : Unstamped(k) \in Entries
         /\ Entry("stamped", t) \in Entries
BY TokenAssumption DEF Unstamped, Entry, Entries

\* Ending a check and connecting to a peer keep the types.
LEMMA ControlTypes ==
  ASSUME TypeOK, NEW w \in Workers
  PROVE  /\ \A l \in Labels : Goto(w, l) => pc' \in [Workers -> Labels]
         /\ LeaveScope(w) => found' \in [Workers -> BOOLEAN]
         /\ Fetch(w) => /\ pc' \in [Workers -> Labels]
                        /\ peer' \in [Workers -> Workers \cup {Outside}]
         /\ EndCheck(w) => /\ pc' \in [Workers -> Labels]
                           /\ found' \in [Workers -> BOOLEAN]
                           /\ now' \in [Workers -> Times]
                           /\ response' \in [Workers -> Responses]
<1> USE DEF TypeOK, Labels
<1>1. \A l \in Labels : Goto(w, l) => pc' \in [Workers -> Labels]
  BY DEF Goto
<1>2. LeaveScope(w) => found' \in [Workers -> BOOLEAN]
  BY DEF LeaveScope
<1>3. Fetch(w) => peer' \in [Workers -> Workers \cup {Outside}]
  BY DEF Fetch
<1>4. EndCheck(w) => now' \in [Workers -> Times] /\ response' \in [Workers -> Responses]
  BY TokenAssumption DEF EndCheck, Responses
<1> QED
  BY <1>1, <1>2, <1>3, <1>4 DEF Fetch, EndCheck

\* What an operation on the tokens makes of them and of the pointers.
LEMMA AssignTypes ==
  ASSUME TypeOK, NEW a \in Authorizations, NEW e \in Entries, Assign(a, e)
  PROVE  /\ tokens' \in [Authorizations -> Entries]
         /\ rules' \in [Workers -> {"none", "own", "default", "dangling"}]
BY DEF TypeOK, Assign, Dangle

\* Every step keeps the types.
LEMMA TypeStep ==
  ASSUME Inv, NEW w \in Workers, Step(w)
  PROVE  TypeOK'
<1> USE ControlTypes, TokenAssumption DEF Inv
<1>1. TypeOK /\ (pc[w] # "idle" => auth[w] \in Authorizations)
  BY DEF ControlInv
<1>2. CASE CheckFound(w)
  <2>1. PICK a \in Authorizations :
          /\ auth' = [auth EXCEPT ![w] = a]
          /\ IF config.fetch /\ HasTokens
             THEN /\ found' = [found EXCEPT ![w] = IsEntry(a)]
                  /\ \E t \in Times : now' = [now EXCEPT ![w] = t]
                  /\ IF IsEntry(a)
                     THEN Goto(w, "check_expiry") /\ UNCHANGED peer
                     ELSE Fetch(w)
             ELSE Goto(w, "find_section") /\ UNCHANGED <<now, found, peer>>
    BY <1>2 DEF CheckFound
  <2>2. auth' \in [Workers -> Authorizations \cup {None}] /\ now' \in [Workers -> Times]
    BY <1>1, <2>1 DEF TypeOK
  <2>3. IsEntry(a) \in BOOLEAN
    BY DEF IsEntry
  <2>4. found' \in [Workers -> BOOLEAN]
    <3>1. CASE found' = [found EXCEPT ![w] = IsEntry(a)]
      BY <1>1, <2>3, <3>1, Zenon DEF TypeOK
    <3>2. CASE UNCHANGED found
      BY <1>1, <3>2 DEF TypeOK
    <3> QED
      BY <2>1, <3>1, <3>2, Zenon
  <2>5. pc' \in [Workers -> Labels] /\ peer' \in [Workers -> Workers \cup {Outside}]
    BY <1>1, <2>1 DEF TypeOK, Labels
  <2> QED
    BY <1>1, <1>2, <2>2, <2>4, <2>5 DEF CheckFound, TypeOK
<1>3. CASE CheckExpiry(w)
  <2>1. pc' \in [Workers -> Labels] /\ peer' \in [Workers -> Workers \cup {Outside}]
    BY <1>1, <1>3 DEF CheckExpiry, TypeOK, Labels
  <2>2. /\ now' \in [Workers -> Times] /\ found' \in [Workers -> BOOLEAN]
        /\ response' \in [Workers -> Responses]
    BY <1>1, <1>3 DEF CheckExpiry, TypeOK
  <2> QED
    BY <1>1, <1>3, <2>1, <2>2 DEF CheckExpiry, TypeOK
<1>4. CASE Answered(w) \/ Unreachable(w)
  BY <1>1, <1>4 DEF Answered, Unreachable, Receive, Goto, Responses, Success, TypeOK, Labels
<1>5. CASE Apply(w)
  <2>1. pc' \in [Workers -> Labels] /\ found' \in [Workers -> BOOLEAN]
    BY <1>1, <1>5 DEF Apply, ForgetOnFailure, StoreResponse, FailToParse, Labels
  <2>2. response' \in [Workers -> Responses] /\ now' \in [Workers -> Times]
    BY <1>1, <1>5
       DEF Apply, ForgetOnFailure, StoreResponse, FailToParse, Responses, TypeOK
  <2>3. auth[w] \in Authorizations
    BY <1>1, <1>5 DEF Apply
  <2>4. Erase(auth[w]) => /\ tokens' \in [Authorizations -> Entries]
                          /\ rules' \in [Workers -> {"none", "own", "default", "dangling"}]
    BY <1>1, <2>3, EntryTypes, AssignTypes DEF Erase
  <2>5. StoreResponse(w) => /\ tokens' \in [Authorizations -> Entries]
                            /\ rules' \in [Workers -> {"none", "own", "default", "dangling"}]
    <3>1. response[w] \in Success => Unstamped(StoredAs[response[w]]) \in Entries
      BY EntryTypes DEF Success, StoredAs
    <3> QED
      BY <1>1, <2>3, <3>1, AssignTypes DEF StoreResponse
  <2> QED
    BY <1>1, <1>5, <2>1, <2>2, <2>4, <2>5
       DEF Apply, ForgetOnFailure, FailToParse, TypeOK
<1>6. CASE Stamp(w)
  <2>1. tokens' \in [Authorizations -> Entries]
    <3>1. now[w] \in Times
      BY <1>1 DEF TypeOK
    <3>2. Entry("stamped", now[w]) \in Entries /\ Unstamped("junk") \in Entries
      BY <3>1, EntryTypes
    <3> QED
      BY <1>1, <1>6, <3>2 DEF Stamp, TypeOK
  <2>2. pc' \in [Workers -> Labels]
    BY <1>1, <1>6 DEF Stamp, Labels
  <2>3. /\ now' \in [Workers -> Times] /\ found' \in [Workers -> BOOLEAN]
        /\ response' \in [Workers -> Responses]
    BY <1>1, <1>6 DEF Stamp, TypeOK
  <2> QED
    BY <1>1, <1>6, <2>1, <2>2, <2>3 DEF Stamp, TypeOK
<1>7. CASE FindSection(w)
  <2>1. IsEntry(auth[w]) \in BOOLEAN
    BY DEF IsEntry
  <2>2. found' \in [Workers -> BOOLEAN]
    <3>1. CASE found' = [found EXCEPT ![w] = IsEntry(auth[w])]
      BY <1>1, <2>1, <3>1, Zenon DEF TypeOK
    <3>2. CASE EndCheck(w)
      BY <1>1, <3>2
    <3> QED
      BY <1>7, <3>1, <3>2, Zenon DEF FindSection
  <2>3. /\ pc' \in [Workers -> Labels] /\ now' \in [Workers -> Times]
        /\ response' \in [Workers -> Responses] /\ value' \in [Workers -> Values]
    BY <1>1, <1>7 DEF FindSection, TypeOK, Labels, Values
  <2> QED
    BY <1>1, <1>7, <2>2, <2>3 DEF FindSection, TypeOK
<1>8. CASE FindRules(w)
  <2>1. /\ pc' \in [Workers -> Labels] /\ now' \in [Workers -> Times]
        /\ found' \in [Workers -> BOOLEAN] /\ response' \in [Workers -> Responses]
    BY <1>1, <1>8 DEF FindRules, UseOwn, UseDefault, Reject, TypeOK, Labels
  <2>2. /\ value' \in [Workers -> Values]
        /\ rules' \in [Workers -> {"none", "own", "default", "dangling"}]
    BY <1>1, <1>8 DEF FindRules, UseOwn, UseDefault, Reject, TypeOK, Values
  <2> QED
    BY <1>1, <1>8, <2>1, <2>2 DEF FindRules, TypeOK
<1>9. CASE Answer(w)
  BY <1>1, <1>9 DEF Answer, LeaveScope, Goto, Responses, Values, TypeOK, Labels
<1> QED
  BY <1>2, <1>3, <1>4, <1>5, <1>6, <1>7, <1>8, <1>9 DEF Step, Continue

\* A step of w leaves the locals of the others alone, and the entry of an
\* exclusive token that another worker checks.
LEMMA OthersUntouched ==
  ASSUME Inv, NEW w \in Workers, Step(w), NEW v \in Workers, v # w
  PROVE  /\ config' = config
         /\ pc'[v] = pc[v] /\ auth'[v] = auth[v] /\ now'[v] = now[v]
         /\ found'[v] = found[v] /\ response'[v] = response[v]
         /\ rules'[v] # rules[v] => rules[v] = "own"
         /\ auth[v] \in Exclusive =>
              rules'[v] = rules[v] /\ tokens'[auth[v]] = tokens[auth[v]]
<1> USE DEF Inv, TypeOK
<1>1. auth[v] \in Exclusive => auth[v] # auth[w]
  BY DEF OneRequestEach
<1>2. CASE CheckFound(w)
  BY <1>2 DEF CheckFound, Fetch, Goto
<1>3. CASE CheckExpiry(w)
  BY <1>3 DEF CheckExpiry, Fetch, EndCheck, LeaveScope, Goto
<1>4. CASE Answered(w) \/ Unreachable(w)
  BY <1>4 DEF Answered, Unreachable, Receive, Goto
<1>5. CASE Apply(w)
  <2>1. \/ \E e : Assign(auth[w], e)
        \/ UNCHANGED <<tokens, rules>>
    BY <1>5 DEF Apply, ForgetOnFailure, StoreResponse, FailToParse, Erase
  <2>2. /\ rules'[v] # rules[v] => rules[v] = "own"
        /\ auth[v] \in Exclusive =>
             rules'[v] = rules[v] /\ tokens'[auth[v]] = tokens[auth[v]]
    BY <1>1, <2>1, TokenAssumption DEF Assign, Dangle
  <2>3. /\ config' = config /\ auth' = auth /\ now'[v] = now[v]
        /\ found'[v] = found[v]
    BY <1>5 DEF Apply, FailToParse, EndCheck, LeaveScope
  <2>4. pc'[v] = pc[v] /\ response'[v] = response[v]
    BY <1>5 DEF Apply, ForgetOnFailure, StoreResponse, FailToParse, EndCheck, Goto
  <2> QED
    BY <2>2, <2>3, <2>4
<1>6. CASE Stamp(w)
  BY <1>1, <1>6, TokenAssumption DEF Stamp, EndCheck, LeaveScope, Goto
<1>7. CASE FindSection(w)
  BY <1>7 DEF FindSection, EndCheck, LeaveScope, Goto
<1>8. CASE FindRules(w)
  BY <1>8 DEF FindRules, UseOwn, UseDefault, Reject, EndCheck, LeaveScope, Goto
<1>9. CASE Answer(w)
  BY <1>9 DEF Answer, LeaveScope, Goto
<1> QED
  BY <1>2, <1>3, <1>4, <1>5, <1>6, <1>7, <1>8, <1>9 DEF Step, Continue

\* An exclusive token keeps one request at a time.
LEMMA OneRequestStep ==
  ASSUME Inv, NEW w \in Workers, Step(w)
  PROVE  OneRequestEach'
<1>1. \A u, v \in Workers :
        u # w /\ v # w /\ auth'[u] \in Exclusive /\ auth'[u] = auth'[v] => u = v
  BY OthersUntouched DEF Inv, OneRequestEach
<1>2. \A v \in Workers : v # w /\ auth'[w] \in Exclusive => auth'[v] # auth'[w]
  <2>1. CASE CheckFound(w)
    BY <2>1, OthersUntouched DEF CheckFound, MayArrive, Inv, TypeOK
  <2>2. CASE Answer(w)
    BY <2>2, TokenAssumption DEF Answer, Inv, TypeOK
  <2>3. CASE ~CheckFound(w) /\ ~Answer(w)
    <3>1. auth' = auth
      BY <2>3 DEF Step, Continue, CheckExpiry, Apply, Stamp, FindSection, FindRules,
                  Answered, Unreachable, Receive
    <3> QED
      BY <3>1 DEF Inv, OneRequestEach
  <2> QED
    BY <2>1, <2>2, <2>3
<1> QED
  BY <1>1, <1>2 DEF OneRequestEach

\* Every step keeps what the labels say of the locals.
LEMMA ControlStep ==
  ASSUME Inv, NEW w \in Workers, Step(w)
  PROVE  ControlInv'
<1> DEFINE Control(v) ==
      /\ pc[v] # "idle" => auth[v] \in Authorizations
      /\ pc[v] # "answer" => rules[v] = "none"
      /\ pc[v] \in {"idle", "check_expiry", "await", "stamp"} => response[v] = "none"
      /\ pc[v] = "apply" => response[v] # "none"
      /\ pc[v] = "check_expiry" => found[v]
<1>1. TypeOK /\ \A v \in Workers : Control(v)
  BY DEF Inv, ControlInv
<1>2. \A v \in Workers : v # w => Control(v)'
  BY <1>1, OthersUntouched
<1>3. Control(w)'
  <2> USE DEF TypeOK
  <2>1. CASE CheckFound(w)
    BY <1>1, <2>1 DEF CheckFound, Fetch, Goto
  <2>2. CASE CheckExpiry(w)
    BY <1>1, <2>2 DEF CheckExpiry, Fetch, EndCheck, LeaveScope, Goto
  <2>3. CASE Answered(w) \/ Unreachable(w)
    BY <1>1, <2>3 DEF Answered, Unreachable, Receive, Goto, Success
  <2>4. CASE Apply(w)
    <3>1. (\E e : Assign(auth[w], e)) \/ UNCHANGED <<tokens, rules>>
      BY <2>4 DEF Apply, ForgetOnFailure, StoreResponse, FailToParse, Erase
    <3>2. rules'[w] = "none"
      BY <1>1, <2>4, <3>1 DEF Apply, Assign, Dangle
    <3>3. /\ \/ pc'[w] \in {"find_section", "answer"}
             \/ pc'[w] = "stamp" /\ response'[w] = "none"
          /\ auth' = auth
      BY <1>1, <2>4
         DEF Apply, ForgetOnFailure, StoreResponse, FailToParse, EndCheck, Goto
    <3> QED
      BY <1>1, <2>4, <3>2, <3>3 DEF Apply
  <2>5. CASE Stamp(w)
    BY <1>1, <2>5 DEF Stamp, EndCheck, LeaveScope, Goto
  <2>6. CASE FindSection(w)
    BY <1>1, <2>6 DEF FindSection, EndCheck, LeaveScope, Goto
  <2>7. CASE FindRules(w)
    BY <1>1, <2>7 DEF FindRules, UseOwn, UseDefault, Reject, EndCheck, LeaveScope, Goto
  <2>8. CASE Answer(w)
    BY <1>1, <2>8 DEF Answer, LeaveScope, Goto
  <2> QED
    BY <2>1, <2>2, <2>3, <2>4, <2>5, <2>6, <2>7, <2>8 DEF Step, Continue
<1> QED
  BY <1>2, <1>3 DEF ControlInv

\* Only an assignment makes a pointer dangle, and at that label w has none.
LEMMA AliveStep ==
  ASSUME Inv, NEW w \in Workers, Step(w)
  PROVE  RulesStayAlive'
<1>1. \A v \in Workers : v # w => (auth[v] \in Exclusive => rules[v] # "dangling")'
  BY OthersUntouched DEF Inv, RulesStayAlive
<1>2. rules'[w] # "dangling" \/ (rules'[w] = rules[w] /\ auth'[w] = auth[w])
  <2> USE DEF Inv, TypeOK
  <2>1. CASE Apply(w)
    <3>1. rules[w] = "none"
      BY <2>1 DEF ControlInv, Apply
    <3>2. (\E e : Assign(auth[w], e)) \/ UNCHANGED <<tokens, rules>>
      BY <2>1 DEF Apply, ForgetOnFailure, StoreResponse, FailToParse, Erase
    <3> QED
      BY <3>1, <3>2 DEF Assign, Dangle
  <2>2. CASE FindRules(w)
    BY <2>2 DEF FindRules, UseOwn, UseDefault, Reject
  <2>3. CASE Answer(w)
    BY <2>3 DEF Answer
  <2>4. CASE CheckFound(w)
    BY <2>4 DEF CheckFound, ControlInv
  <2>5. CASE ~(Apply(w) \/ FindRules(w) \/ Answer(w) \/ CheckFound(w))
    BY <2>5 DEF Step, Continue, CheckExpiry, Stamp, FindSection, Answered, Unreachable,
       Receive
  <2> QED
    BY <2>1, <2>2, <2>3, <2>4, <2>5
<1> QED
  BY <1>1, <1>2 DEF Inv, RulesStayAlive

\* What w knows about its own entry survives its own steps.
LEMMA OwnEntryStep ==
  ASSUME Inv, NEW w \in Workers, Step(w), config.fetch, auth'[w] \in Exclusive
  PROVE  KnownEntry(w)'
<1> USE DEF Inv, TypeOK
<1>1. ControlInv /\ ControlInv'
  BY ControlStep
<1>2. CASE CheckFound(w)
  <2>1. tokens' = tokens /\ rules'[w] = "none"
    BY <1>1, <1>2 DEF CheckFound, ControlInv
  <2>2. \/ pc'[w] = "check_expiry"
        \/ pc'[w] = "await" /\ ~IsEntry(auth'[w])
        \/ pc'[w] = "find_section" /\ ~HasTokens
    BY <1>2 DEF CheckFound, Fetch, Goto
  <2>3. auth'[w] \in Authorizations
    BY TokenAssumption
  <2>4. ~HasTokens => ~IsEntry(auth'[w])
    BY <2>3 DEF HasTokens, IsEntry
  <2> QED
    BY <2>1, <2>2, <2>4 DEF KnownEntry, IsEntry
<1>3. CASE ~CheckFound(w) /\ ~Answer(w)
  <2>1. auth' = auth /\ auth[w] \in Exclusive /\ auth[w] \in Authorizations
    BY <1>3, TokenAssumption DEF Step, Continue, CheckExpiry, Apply, Stamp, FindSection,
       FindRules, Answered, Unreachable, Receive
  <2>2. KnownEntry(w)
    BY <2>1 DEF EntriesKnown
  <2>3. CASE CheckExpiry(w)
    <3>1. tokens' = tokens /\ rules'[w] = "none" /\ response[w] = "none"
      BY <1>1, <2>3 DEF CheckExpiry, ControlInv
    <3>2. CASE pc'[w] = "answer"
      BY <3>1, <3>2 DEF KnownEntry
    <3>3. CASE pc'[w] = "await"
      BY <1>1, <2>1, <2>3, <3>1, <3>3
      DEF ControlInv, KnownEntry, CheckExpiry, MustRefresh, IsEntry, EndCheck, Goto
    <3>4. CASE pc'[w] = "find_section" /\ UNCHANGED <<now, response>>
      <4>1. tokens[auth[w]].kind # "unstamped" /\ ~MustRefresh(w)
        BY <2>3, <3>4 DEF CheckExpiry, EndCheck, Fetch, Goto
      <4>2. tokens[auth[w]].kind = "stamped" =>
              now[w] - tokens[auth[w]].at < Ttl * Minute
        <5>1. tokens[auth[w]].at \in Times /\ now[w] \in Times
          BY <2>1 DEF Entries
        <5> QED
          BY <4>1, <5>1, YoungIsCurrent DEF MustRefresh
      <4> QED
        BY <2>1, <3>1, <3>4, <4>1, <4>2 DEF KnownEntry, IsEntry, Current
    <3> QED
      BY <2>3, <3>2, <3>3, <3>4 DEF CheckExpiry, EndCheck, Fetch, Goto
  <2>4. CASE Answered(w) \/ Unreachable(w)
    BY <1>1, <2>1, <2>2, <2>4 DEF Answered, Unreachable, Receive, Goto, KnownEntry, IsEntry,
       ControlInv
  <2>5. CASE Apply(w)
    <3>1. rules'[w] = "none"
      BY <1>1, <2>5
         DEF ControlInv, Apply, ForgetOnFailure, StoreResponse, FailToParse, EndCheck, Goto
    <3>2. CASE StoreResponse(w)
      BY <3>1, <3>2 DEF StoreResponse, Goto, KnownEntry
    <3>3. CASE ForgetOnFailure(w) /\ Erase(auth[w])
      <4>1. tokens'[auth'[w]].kind = "absent"
        BY <2>1, <3>3 DEF Erase, Assign, Unstamped, Entry
      <4> QED
        BY <3>1, <3>3, <4>1 DEF ForgetOnFailure, Goto, KnownEntry, IsEntry
    <3>4. CASE /\ ForgetOnFailure(w) /\ UNCHANGED <<tokens, rules, now>>
               /\ ~(found[w] /\ (response[w] = "refused" \/ ~config.keep))
      BY <2>1, <2>2, <2>5, <3>1, <3>4
      DEF Apply, ForgetOnFailure, Goto, KnownEntry, IsEntry, Current
    <3>5. CASE FailToParse(w)
      BY <3>1, <3>5 DEF FailToParse, EndCheck, Goto, KnownEntry
    <3> QED
      BY <2>5, <3>2, <3>3, <3>4, <3>5 DEF Apply, ForgetOnFailure
  <2>6. CASE Stamp(w)
    <3>1. rules'[w] = "none" /\ response[w] = "none"
      BY <1>1, <2>6 DEF Stamp, ControlInv
    <3>2. CASE pc'[w] = "answer"
      BY <3>1, <3>2 DEF KnownEntry
    <3>3. CASE /\ tokens' = [tokens EXCEPT ![auth[w]] = Entry("stamped", now[w])]
               /\ pc'[w] = "find_section" /\ UNCHANGED <<now, response>>
      BY <2>1, <3>1, <3>3 DEF KnownEntry, IsEntry, Current, Entry
    <3> QED
      BY <2>6, <3>2, <3>3 DEF Stamp, EndCheck, Goto
  <2>7. CASE FindSection(w)
    <3>1. tokens' = tokens /\ rules'[w] = "none"
      BY <1>1, <2>7 DEF FindSection, ControlInv
    <3>2. CASE pc'[w] = "answer"
      BY <3>1, <3>2 DEF KnownEntry
    <3>3. CASE pc'[w] = "find_rules" /\ UNCHANGED <<now, response>>
      BY <2>1, <2>2, <2>7, <3>1, <3>3 DEF FindSection, KnownEntry, IsEntry, Current
    <3> QED
      BY <2>7, <3>2, <3>3 DEF FindSection, EndCheck, Goto
  <2>8. CASE FindRules(w)
    <3>1. tokens' = tokens /\ pc'[w] = "answer" /\ rules[w] = "none"
      BY <1>1, <2>8 DEF FindRules, UseOwn, UseDefault, Reject, EndCheck, Goto, ControlInv
    <3>2. rules'[w] = "own" => IsEntry(auth[w]) /\ UNCHANGED <<now, response>>
      BY <2>8, <3>1 DEF FindRules, UseOwn, UseDefault, Reject
    <3> QED
      BY <2>1, <2>2, <2>8, <3>1, <3>2 DEF FindRules, KnownEntry, Current
  <2> QED
    BY <1>3, <2>3, <2>4, <2>5, <2>6, <2>7, <2>8 DEF Step, Continue
<1>4. CASE Answer(w)
  BY <1>4 DEF Answer, Goto, KnownEntry
<1> QED
  BY <1>2, <1>3, <1>4

\* Every step keeps the invariant of the checks.
LEMMA NextInv == Inv /\ [Next]_vars => Inv'
<1> SUFFICES ASSUME Inv, [Next]_vars PROVE Inv'
  OBVIOUS
<1>1. CASE UNCHANGED vars
  BY <1>1 DEF vars, localVars, Inv, TypeOK, OneRequestEach, ControlInv, RulesStayAlive,
     EntriesKnown, KnownEntry, Current, IsEntry
<1>2. CASE Next
  <2>1. PICK w \in Workers : Step(w)
    BY <1>2 DEF Next, Step
  <2>2. TypeOK' /\ OneRequestEach' /\ ControlInv' /\ RulesStayAlive'
    BY <2>1, TypeStep, OneRequestStep, ControlStep, AliveStep
  <2>3. ASSUME config'.fetch, NEW v \in Workers, auth'[v] \in Exclusive
        PROVE  KnownEntry(v)'
    <3>1. config' = config
      BY <2>1 DEF Step, Continue, CheckFound, CheckExpiry, Apply, Stamp, FindSection,
                  FindRules, Answer, Answered, Unreachable, Receive
    <3>2. CASE v = w
      BY <2>1, <2>3, <3>1, <3>2, OwnEntryStep
    <3>3. CASE v # w
      <4>1. KnownEntry(v)
        BY <2>1, <2>3, <3>1, <3>3, OthersUntouched DEF Inv, EntriesKnown
      <4> QED
        BY <2>1, <2>3, <3>1, <3>3, <4>1, OthersUntouched DEF KnownEntry, IsEntry, Current
    <3> QED
      BY <3>2, <3>3
  <2> QED
    BY <2>2, <2>3 DEF Inv, EntriesKnown
<1> QED
  BY <1>1, <1>2

\* Inv is an invariant of the token cache.
THEOREM TokenInvariance == Spec => []Inv
<1> QED
  BY InitInv, NextInv, PTL DEF Spec

\* Types are correct, whatever the peer answers and however the clock is set.
THEOREM TokenTypeCorrect == Spec => []TypeOK
<1>1. Inv => TypeOK
  BY DEF Inv
<1> QED
  BY <1>1, TokenInvariance, PTL

\* The rules of a client with one request under way are never freed before its
\* handler has used them: refreshes and removals of check_autorization touch the
\* entry of their own token only.
THEOREM RulesAreAlive == Spec => []RulesStayAlive
<1>1. Inv => RulesStayAlive
  BY DEF Inv
<1> QED
  BY <1>1, TokenInvariance, PTL

\* Such a client is served from a current entry only.
THEOREM TokensAreCurrent == Spec => []ServesCurrentToken
<1>1. Inv => ServesCurrentToken
  BY DEF Inv, EntriesKnown, KnownEntry, ServesCurrentToken
<1> QED
  BY <1>1, TokenInvariance, PTL
=============================================================================
