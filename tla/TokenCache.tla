------------------------------ MODULE TokenCache ------------------------------
(* The tokens section of the global configuration, which                    *)
(* Security::check_autorization uses as a cache: an entry that is missing   *)
(* or too old is fetched from a peer, which may be this very server.  All   *)
(* workers share the section and nothing locks it.                          *)
EXTENDS Integers

CONSTANTS
  Workers,         \* threads of the http server
  Outside,         \* a peer that is not this server
  Authorizations,  \* tokens that clients send; "*", the default entry, is none
  Exclusive,       \* tokens of clients that have one request under way
  None,            \* no token
  Times,           \* readings of the local clock, in ticks
  Epoch,           \* stands for the time of an entry that has none
  Minute,          \* ticks of a minute
  Ttl              \* ttl_minutes of every entry

ASSUME TokenAssumption ==
  /\ Outside \notin Workers
  /\ Exclusive \subseteq Authorizations
  /\ None \notin Authorizations
  /\ Times \subseteq Int
  /\ Epoch \in Times
  /\ Minute \in Nat \ {0}
  /\ Ttl \in Nat

VARIABLES
  config,    \* fetch_tokens.enabled, on_fail_to_refresh, is there a "*" entry
  tokens,    \* the entry of each authorization
  pc,        \* where each worker is in check_autorization
  auth,      \* the authorization it checks
  now,       \* the time at which it began
  found,     \* token_found, later authorization_section_found
  response,  \* what the peer answered
  peer,      \* the thread that got the connection of the fetch
  value,     \* result.value
  rules      \* where result.rules points

localVars == <<auth, now, found, response, peer, value, rules>>
vars == <<config, tokens, pc, localVars>>

\* Mutant: the end of the life of an entry is kept instead of its check.
EntryUntil(kind, at) == [kind |-> kind, at |-> at + Ttl * Minute]

\* A stamped entry has a last_check of the gateway, an unstamped one still that
\* of the peer, a plain one none.  Junk is a key whose value is not an object.
Entry(kind, at) == [kind |-> kind, at |-> at]
Unstamped(kind) == Entry(kind, Epoch)
Entries == [kind : {"absent", "junk", "plain", "unstamped", "stamped"}, at : Times]
IsEntry(a) == tokens[a].kind \in {"plain", "unstamped", "stamped"}

\* The body is an entry, one without a last_check, or no object and perhaps no JSON.
Success == {"full", "bare", "broken"}
Responses == Success \cup {"none", "refused", "unreachable"}
Values == {1, -100, -101, -102}
Labels == {"idle", "check_expiry", "await", "apply", "stamp",
           "find_section", "find_rules", "answer"}

TypeOK ==
  /\ config \in [fetch : BOOLEAN, keep : BOOLEAN, star : BOOLEAN]
  /\ tokens \in [Authorizations -> Entries]
  /\ pc \in [Workers -> Labels]
  /\ auth \in [Workers -> Authorizations \cup {None}]
  /\ now \in [Workers -> Times]
  /\ found \in [Workers -> BOOLEAN]
  /\ response \in [Workers -> Responses]
  /\ peer \in [Workers -> Workers \cup {Outside}]
  /\ value \in [Workers -> Values]
  /\ rules \in [Workers -> {"none", "own", "default", "dangling"}]

Configured ==
  {e \in Entries : e.kind = "stamped" \/ (e.kind \in {"absent", "plain"} /\ e.at = Epoch)}

Init ==
  /\ config \in [fetch : BOOLEAN, keep : BOOLEAN, star : BOOLEAN]
  /\ tokens \in [Authorizations -> Configured]
  /\ pc = [w \in Workers |-> "idle"]
  /\ auth = [w \in Workers |-> None]
  /\ now = [w \in Workers |-> Epoch]
  /\ found = [w \in Workers |-> FALSE]
  /\ response = [w \in Workers |-> "none"]
  /\ peer = [w \in Workers |-> Outside]
  /\ value = [w \in Workers |-> 1]
  /\ rules = [w \in Workers |-> "none"]

-----------------------------------------------------------------------------
(* Helpers                                                                  *)

Goto(w, label) == pc' = [pc EXCEPT ![w] = label]

HasTokens == config.star \/ \E a \in Authorizations : tokens[a].kind # "absent"

\* Mutant: the age must exceed the time to live.
OlderThanTtl(at, t) == t >= at /\ (t - at) \div Minute > Ttl

\* Seconds are divided by sixty with truncation towards zero.
Age(at, t) ==
  IF t >= at THEN (t - at) \div Minute ELSE -((at - t) \div Minute)

Expired(at, t) == Age(at, t) >= Ttl

\* What pointed into an entry that is gone dangles.
Dangle(S) ==
  rules' = [v \in Workers |-> IF rules[v] = "own" /\ auth[v] \in S
                              THEN "dangling" ELSE rules[v]]

Assign(a, e) == tokens' = [tokens EXCEPT ![a] = e] /\ Dangle({a})

\* Mutant: the whole section is cleared.
EraseAll(a) ==
  /\ tokens' = [b \in Authorizations |-> Unstamped("absent")]
  /\ Dangle(Authorizations)

Erase(a) == Assign(a, Unstamped("absent"))

LeaveScope(w) == found' = [found EXCEPT ![w] = FALSE]

\* The check is over, and its locals are gone.
EndCheck(w) ==
  /\ Goto(w, "answer")
  /\ LeaveScope(w)
  /\ now' = [now EXCEPT ![w] = Epoch]
  /\ response' = [response EXCEPT ![w] = "none"]

MayArrive(a) == a \in Exclusive => \A v \in Workers : auth[v] # a

\* axios connects; when the peer is this server any of its threads may get the
\* connection, the one that waits too.
Fetch(w) ==
  /\ \E p \in Workers \cup {Outside} : peer' = [peer EXCEPT ![w] = p]
  /\ Goto(w, "await")

-----------------------------------------------------------------------------
(* check_autorization                                                       *)

\* An idle worker takes a request and looks for its token.  The local clock may
\* be set, so any reading may follow any other.
CheckFound(w) ==
  /\ pc[w] = "idle"
  /\ \E a \in Authorizations :
       /\ MayArrive(a)
       /\ auth' = [auth EXCEPT ![w] = a]
       /\ IF config.fetch /\ HasTokens
          THEN /\ found' = [found EXCEPT ![w] = IsEntry(a)]
               /\ \E t \in Times : now' = [now EXCEPT ![w] = t]
               /\ IF IsEntry(a)
                  THEN Goto(w, "check_expiry") /\ UNCHANGED peer
                  ELSE Fetch(w)
          ELSE Goto(w, "find_section") /\ UNCHANGED <<now, found, peer>>
  /\ UNCHANGED <<config, tokens, response, value, rules>>

MustRefresh(w) ==
  /\ tokens[auth[w]].kind = "stamped"
  /\ Expired(tokens[auth[w]].at, now[w])

\* A last_check that is no time throws; the result stays what the caller passed.
CheckExpiry(w) ==
  /\ pc[w] = "check_expiry"
  /\ \/ tokens[auth[w]].kind = "unstamped" /\ EndCheck(w) /\ UNCHANGED peer
     \/ MustRefresh(w) /\ Fetch(w) /\ UNCHANGED <<now, found, response>>
     \/ /\ tokens[auth[w]].kind # "unstamped" /\ ~MustRefresh(w)
        /\ Goto(w, "find_section")
        /\ UNCHANGED <<now, found, response, peer>>
  /\ UNCHANGED <<config, tokens, auth, value, rules>>

Receive(w, answers) ==
  /\ pc[w] = "await"
  /\ \E r \in answers : response' = [response EXCEPT ![w] = r]
  /\ peer' = [peer EXCEPT ![w] = Outside]
  /\ Goto(w, "apply")
  /\ UNCHANGED <<config, tokens, auth, now, found, value, rules>>

\* The thread with the connection is free, or the peer is another program.
Answered(w) ==
  /\ peer[w] # Outside => pc[peer[w]] = "idle"
  /\ Receive(w, Success \cup {"refused"})

Unreachable(w) == Receive(w, {"unreachable"})

\* Mutant: a refusal is treated like a peer that cannot be reached.
ForgetAsConfigured(w) ==
  /\ response[w] \in {"refused", "unreachable"}
  /\ IF found[w] /\ ~config.keep THEN Erase(auth[w]) ELSE UNCHANGED <<tokens, rules>>
  /\ Goto(w, "find_section")
  /\ UNCHANGED response

\* No new entry: on_fail_to_refresh counts only if the peer was not reached.
ForgetOnFailure(w) ==
  /\ response[w] \in {"refused", "unreachable"}
  /\ IF found[w] /\ (response[w] = "refused" \/ ~config.keep)
     THEN Erase(auth[w]) ELSE UNCHANGED <<tokens, rules>>
  /\ Goto(w, "find_section")
  /\ UNCHANGED response

\* A body that is JSON replaces the entry, whatever it is.
StoredAs == [full |-> "unstamped", bare |-> "plain", broken |-> "junk"]

StoreResponse(w) ==
  /\ response[w] \in Success
  /\ Assign(auth[w], Unstamped(StoredAs[response[w]]))
  /\ Goto(w, "stamp")
  /\ response' = [response EXCEPT ![w] = "none"]

\* On a body that is no JSON the parser throws before the assignment.
FailToParse(w) ==
  /\ response[w] = "broken"
  /\ EndCheck(w)
  /\ UNCHANGED <<tokens, rules>>

\* Mutant: a peer that was not reached is asked again.
Retry(w) ==
  /\ pc[w] = "apply"
  /\ IF response[w] = "unreachable"
     THEN Fetch(w) /\ UNCHANGED <<tokens, now, found, response, rules>>
     ELSE /\ \/ (ForgetOnFailure(w) \/ StoreResponse(w)) /\ UNCHANGED now
             \/ FailToParse(w)
          /\ LeaveScope(w)
          /\ UNCHANGED peer
  /\ UNCHANGED <<config, auth, value>>

Apply(w) ==
  /\ pc[w] = "apply"
  /\ \/ (ForgetOnFailure(w) \/ StoreResponse(w)) /\ UNCHANGED now
     \/ FailToParse(w)
  /\ LeaveScope(w)
  /\ UNCHANGED <<config, auth, peer, value>>

\* The key is looked up again, and created when it is gone.  An entry that is no
\* object, or has no last_check, throws.
Stamp(w) ==
  /\ pc[w] = "stamp"
  /\ \/ /\ tokens[auth[w]].kind \in {"unstamped", "stamped"}
        /\ tokens' = [tokens EXCEPT ![auth[w]] = Entry("stamped", now[w])]
        /\ Goto(w, "find_section")
        /\ UNCHANGED <<now, found, response>>
     \/ /\ tokens[auth[w]].kind = "absent"
        /\ tokens' = [tokens EXCEPT ![auth[w]] = Unstamped("junk")]
        /\ EndCheck(w)
     \/ /\ tokens[auth[w]].kind \in {"junk", "plain"}
        /\ EndCheck(w)
        /\ UNCHANGED tokens
  /\ UNCHANGED <<config, auth, peer, value, rules>>

\* Without any token nothing is checked.
FindSection(w) ==
  /\ pc[w] = "find_section"
  /\ \/ /\ IsEntry(auth[w]) \/ config.star
        /\ found' = [found EXCEPT ![w] = IsEntry(auth[w])]
        /\ Goto(w, "find_rules")
        /\ UNCHANGED <<now, response, value>>
     \/ /\ HasTokens
        /\ ~IsEntry(auth[w]) /\ ~config.star
        /\ value' = [value EXCEPT ![w] = -100]
        /\ EndCheck(w)
     \/ ~HasTokens /\ EndCheck(w) /\ UNCHANGED value
  /\ UNCHANGED <<config, tokens, auth, peer, rules>>

Reject(w, code) ==
  /\ value' = [value EXCEPT ![w] = code]
  /\ EndCheck(w)
  /\ UNCHANGED rules

\* now and response stay for the property that judges the entry.
UseOwn(w) ==
  /\ rules' = [rules EXCEPT ![w] = "own"]
  /\ Goto(w, "answer")
  /\ LeaveScope(w)
  /\ UNCHANGED <<now, response, value>>

UseDefault(w) ==
  /\ rules' = [rules EXCEPT ![w] = "default"]
  /\ EndCheck(w)
  /\ UNCHANGED value

\* What an entry says of a store is free: enabled or not, rules or none.  An
\* entry that has gone since is not enabled.
FindRules(w) ==
  /\ pc[w] = "find_rules"
  /\ \/ found[w] /\ IsEntry(auth[w]) /\ UseOwn(w)
     \/ found[w] /\ Reject(w, -101)
     \/ (found[w] => IsEntry(auth[w])) /\ Reject(w, -102)
     \/ ~found[w] /\ UseDefault(w)
  /\ UNCHANGED <<config, tokens, auth, peer>>

\* The handler has used the rules and ends.
Answer(w) ==
  /\ pc[w] = "answer"
  /\ Goto(w, "idle")
  /\ auth' = [auth EXCEPT ![w] = None]
  /\ now' = [now EXCEPT ![w] = Epoch]
  /\ LeaveScope(w)
  /\ response' = [response EXCEPT ![w] = "none"]
  /\ value' = [value EXCEPT ![w] = 1]
  /\ rules' = [rules EXCEPT ![w] = "none"]
  /\ UNCHANGED <<config, tokens, peer>>

Continue(w) ==
  \/ CheckExpiry(w) \/ Apply(w) \/ Stamp(w)
  \/ FindSection(w) \/ FindRules(w) \/ Answer(w)

Next ==
  \E w \in Workers : CheckFound(w) \/ Continue(w) \/ Answered(w) \/ Unreachable(w)

Spec == Init /\ [][Next]_vars

\* Threads run, a free thread serves its connections, and another program
\* answers or is given up.  No timeout of a fetch within the server is assumed.
Fairness ==
  \A w \in Workers :
    /\ WF_vars(Continue(w))
    /\ SF_vars(peer[w] # Outside /\ Answered(w))
    /\ WF_vars(peer[w] = Outside /\ (Answered(w) \/ Unreachable(w)))

FairSpec == Spec /\ Fairness

-----------------------------------------------------------------------------
(* Properties                                                               *)

\* While a client has one request under way, the rules its check found are not
\* freed by anybody's refresh or removal before the handler has used them.
RulesStayAlive ==
  \A w \in Workers : auth[w] \in Exclusive => rules[w] # "dangling"

\* The entry of the token of w is one that it may be served from.
Current(w) ==
  /\ response[w] # "refused"
  /\ \/ tokens[auth[w]].kind = "plain"
     \/ /\ tokens[auth[w]].kind = "stamped"
        /\ \/ now[w] - tokens[auth[w]].at < Ttl * Minute
           \/ tokens[auth[w]].at = now[w]
           \/ config.keep /\ response[w] = "unreachable"

\* Such a client is never served from an entry that was too old when its check
\* began, unless the configuration says so and the peer could not be reached;
\* and never from one that the peer has just refused.
ServesCurrentToken ==
  \A w \in Workers :
    auth[w] \in Exclusive /\ rules[w] = "own" /\ config.fetch => Current(w)

\* Threads that wait for each other in a circle.
Circle(S) == \A v \in S : pc[v] = "await" /\ peer[v] \in S
Hangs(w) == \E S \in SUBSET Workers : w \in S /\ Circle(S)

\* A check ends, without the help of a timeout, unless it waits for a circle of
\* threads of this server that fetch from each other.
OnlyCirclesHang ==
  \A w \in Workers : pc[w] # "idle" ~> pc[w] = "idle" \/ Hangs(w)
=============================================================================
