--------------------------- MODULE Requests_proofs ---------------------------
(***************************************************************************)
(* What Requests.tla guarantees for any number of workers, accounts,       *)
(* tokens, recipes and requests.  One invariant says what a request looks  *)
(* like; each of the properties adds what its own surface keeps true       *)
(* between two steps of a request.                                         *)
(***************************************************************************)
EXTENDS Requests, SequenceTheorems, WellFoundedInduction, TLAPS

TokenRow == [user : Users, prefix : Prefixes, secret : Secrets, created : Int,
             expires : Int, revoked : BOOLEAN, gone : BOOLEAN]

(* The kind of a request says which steps it takes.                         *)
StepsFollowKind(q) ==
  /\ q.step \in {"row", "head", "options"} => q.kind = "page"
  /\ q.step = "list" => q.kind = "index"
  /\ q.step \in {"lookup", "me"} => q.kind = "me"
  /\ q.step \in {"probe", "unlink"} => q.kind = "health"
  /\ q.step \in {"idle", "row", "head", "options", "list", "lookup", "me", "probe", "unlink", "answered"}

WellFormed ==
  /\ Boots(settings)
  /\ now \in Int
  /\ tokens \in Seq(TokenRow)
  /\ DOMAIN req = Workers
  /\ \A w \in Workers : DOMAIN req[w] = DOMAIN Request /\ StepsFollowKind(req[w])

-----------------------------------------------------------------------------
LEMMA InitWellFormed == Init => WellFormed
<1> SUFFICES ASSUME Init PROVE WellFormed
  OBVIOUS
<1>1. StepsFollowKind(Request)
  BY DEF Request, StepsFollowKind
<1>2. <<>> \in Seq(TokenRow)
  OBVIOUS
<1>3. QED BY <1>1, <1>2 DEF Init, WellFormed

(* What a request observes does not decide what it does.                    *)
LEMMA ObservingIsHarmless ==
  ASSUME NEW q, NEW x, DOMAIN q = DOMAIN Request, StepsFollowKind(q)
  PROVE  LET p == [q EXCEPT !.alone = x] IN
         /\ DOMAIN p = DOMAIN Request /\ StepsFollowKind(p)
         /\ \A field \in DOMAIN Request \ {"alone"} : p[field] = q[field]
         /\ p.alone = x
BY DEF Request, StepsFollowKind

LEMMA SetWellFormed ==
  ASSUME WellFormed, NEW w \in Workers, NEW q, Set(w, q),
         DOMAIN q = DOMAIN Request, StepsFollowKind(q),
         UNCHANGED <<settings, now, tokens>>
  PROVE  WellFormed'
BY DEF WellFormed, Set

LEMMA KeepsWellFormed ==
  ASSUME WellFormed, UNCHANGED <<settings, req>>, now' \in Int, tokens' \in Seq(TokenRow)
  PROVE  WellFormed'
BY DEF WellFormed

LEMMA StepWellFormed == WellFormed /\ [Next]_vars => WellFormed'
<1> SUFFICES ASSUME WellFormed, [Next]_vars PROVE WellFormed'
  OBVIOUS
<1>1. ASSUME UNCHANGED vars PROVE WellFormed'
  BY <1>1 DEF vars, world, WellFormed
<1>2. ASSUME NEW w \in Workers, NEW u, NEW r, NEW query, Visit(w, u, r, query) PROVE WellFormed'
  <2> DEFINE q == Gate([From(u, "page") EXCEPT !.recipe = r, !.query = query], "row")
  <2>1. DOMAIN q = DOMAIN Request /\ StepsFollowKind(q)
    BY DEF Gate, From, Answer, Request, StepsFollowKind
  <2>2. QED BY <1>2, <2>1, SetWellFormed DEF Visit, world
<1>3. ASSUME NEW w \in Workers, NEW u, VisitIndex(w, u) PROVE WellFormed'
  <2> DEFINE q == Gate(From(u, "index"), "list")
  <2>1. DOMAIN q = DOMAIN Request /\ StepsFollowKind(q)
    BY DEF Gate, From, Answer, Request, StepsFollowKind
  <2>2. QED BY <1>3, <2>1, SetWellFormed DEF VisitIndex, world
<1>4. ASSUME NEW w \in Workers, ListRows(w) \/ FindRow(w) \/ ReadHead(w) \/ ChooseOptions(w) PROVE WellFormed'
  <2> DOMAIN req[w] = DOMAIN Request /\ StepsFollowKind(req[w])
    BY DEF WellFormed
  <2>1. CASE ListRows(w)
    BY <2>1, SetWellFormed DEF ListRows, world, Answer, Request, StepsFollowKind
  <2>2. CASE FindRow(w)
    BY <2>2, SetWellFormed DEF FindRow, world, Answer, Request, StepsFollowKind
  <2>3. CASE ReadHead(w)
    BY <2>3, SetWellFormed DEF ReadHead, world, Answer, Request, StepsFollowKind
  <2>4. CASE ChooseOptions(w)
    BY <2>4, SetWellFormed DEF ChooseOptions, world, Answer, Request, StepsFollowKind
  <2>5. QED BY <1>4, <2>1, <2>2, <2>3, <2>4
<1>5. ASSUME NEW w \in Workers, NEW u, NEW t, CallMe(w, u, t) PROVE WellFormed'
  <2> DEFINE p == [From(u, "me") EXCEPT !.token = t, !.dead = DOMAIN tokens \ Active]
  <2>1. DOMAIN p = DOMAIN Request /\ p.kind = "me"
    BY DEF From, Request
  <2>2. PICK q : Set(w, q) /\ q \in {Answer(p, "404"), [p EXCEPT !.step = "me"], Answer(p, "401"),
                                     [p EXCEPT !.step = "lookup"]}
    BY <1>5 DEF CallMe
  <2>3. DOMAIN q = DOMAIN Request /\ StepsFollowKind(q)
    BY <2>1, <2>2 DEF Answer, Request, StepsFollowKind
  <2>4. QED BY <1>5, <2>2, <2>3, SetWellFormed DEF CallMe, world
<1>6. ASSUME NEW w \in Workers, Authenticate(w) \/ AnswerMe(w) PROVE WellFormed'
  <2> DOMAIN req[w] = DOMAIN Request /\ StepsFollowKind(req[w])
    BY DEF WellFormed
  <2>1. CASE Authenticate(w)
    BY <2>1, SetWellFormed DEF Authenticate, world, Answer, Request, StepsFollowKind
  <2>2. CASE AnswerMe(w)
    BY <2>2, SetWellFormed DEF AnswerMe, world, Answer, Request, StepsFollowKind
  <2>3. QED BY <1>6, <2>1, <2>2
<1>7. ASSUME NEW w \in Workers, NEW u, NEW b, CallHealth(w, u, b) PROVE WellFormed'
  <2>1. \A v \in Workers \ {w} : req'[v] = [req[v] EXCEPT !.alone = @ /\ ~Probing(v)]
    BY <1>7 DEF CallHealth
  <2> DEFINE p == [From(u, "health") EXCEPT !.bearer = b, !.trouble = ~database \/ ~writable,
                                            !.alone = \A v \in Workers \ {w} : ~Probing(v)]
  <2>2. DOMAIN p = DOMAIN Request /\ p.kind = "health"
    BY DEF From, Request
  <2>3. req'[w] \in {Answer(p, "raised"), Answer(p, "404"), [p EXCEPT !.step = "probe"], Answer(p, "401")}
    BY <1>7 DEF CallHealth
  <2>4. DOMAIN req'[w] = DOMAIN Request /\ StepsFollowKind(req'[w])
    BY <2>2, <2>3, ZenonT(60) DEF Answer, Request, StepsFollowKind
  <2>5. \A v \in Workers \ {w} : DOMAIN req'[v] = DOMAIN Request /\ StepsFollowKind(req'[v])
    <3> SUFFICES ASSUME NEW v \in Workers \ {w}
                 PROVE  DOMAIN req'[v] = DOMAIN Request /\ StepsFollowKind(req'[v])
      OBVIOUS
    <3> DEFINE x == req[v].alone /\ ~Probing(v)
    <3>1. req'[v] = [req[v] EXCEPT !.alone = x]
      BY <2>1
    <3>2. DOMAIN req[v] = DOMAIN Request /\ StepsFollowKind(req[v])
      BY DEF WellFormed
    <3> HIDE DEF x
    <3>3. QED BY <3>1, <3>2, ObservingIsHarmless
  <2>6. DOMAIN req' = Workers /\ UNCHANGED <<settings, now, tokens>>
    BY <1>7 DEF CallHealth, world
  <2>7. QED BY <2>4, <2>5, <2>6 DEF WellFormed
<1>8. ASSUME NEW w \in Workers, TouchProbe(w) \/ UnlinkProbe(w) PROVE WellFormed'
  <2> DOMAIN req[w] = DOMAIN Request /\ StepsFollowKind(req[w])
    BY DEF WellFormed
  <2>1. CASE TouchProbe(w)
    BY <2>1, SetWellFormed DEF TouchProbe, Answer, Request, StepsFollowKind
  <2>2. CASE UnlinkProbe(w)
    BY <2>2, SetWellFormed DEF UnlinkProbe, Answer, Request, StepsFollowKind
  <2>3. QED BY <1>8, <2>1, <2>2
<1>9. ASSUME NEW w \in Workers, Killed(w) PROVE WellFormed'
  BY <1>9, SetWellFormed DEF Killed, world, Request, StepsFollowKind
<1>10. ASSUME NEW u \in Users, NEW p \in Prefixes, NEW s \in Secrets, NEW life \in Lifetimes,
              Issue(u, p, s, life)
       PROVE  WellFormed'
  <2> DEFINE row == [user |-> u, prefix |-> p, secret |-> s, created |-> now,
                     expires |-> IF life < 0 THEN 0 ELSE now + life, revoked |-> FALSE, gone |-> FALSE]
  <2>1. row \in TokenRow
    BY NumbersAreInt DEF TokenRow, WellFormed
  <2>2. tokens' \in Seq(TokenRow) /\ now' \in Int
    BY <1>10, <2>1 DEF Issue, WellFormed
  <2>3. QED BY <1>10, <2>2, KeepsWellFormed DEF Issue
<1>11. ASSUME NEW u, RemoveAccount(u) PROVE WellFormed'
  <2>1. \A i \in 1..Len(tokens) : [tokens[i] EXCEPT !.gone = @ \/ tokens[i].user = u] \in TokenRow
    <3> SUFFICES ASSUME NEW i \in 1..Len(tokens)
                 PROVE  [tokens[i] EXCEPT !.gone = @ \/ tokens[i].user = u] \in TokenRow
      OBVIOUS
    <3> DEFINE gone == tokens[i].gone \/ tokens[i].user = u
    <3>1. tokens[i] \in TokenRow /\ gone \in BOOLEAN
      BY DEF WellFormed
    <3>2. [tokens[i] EXCEPT !.gone = gone] \in TokenRow
      <4> HIDE DEF gone
      <4> QED BY <3>1 DEF TokenRow
    <3>3. QED BY <3>2
  <2>2. tokens' \in Seq(TokenRow)
    <3>1. Len(tokens) \in Nat /\ DOMAIN tokens = 1..Len(tokens)
      BY DEF WellFormed
    <3>2. tokens' \in [1..Len(tokens) -> TokenRow]
      BY <1>11, <2>1, <3>1 DEF RemoveAccount
    <3>3. QED BY <3>1, <3>2, SeqDef
  <2>3. QED BY <1>11, <2>2 DEF RemoveAccount, WellFormed, Request, StepsFollowKind
<1>12. ASSUME NEW i \in DOMAIN tokens, Revoke(i) PROVE WellFormed'
  <2>1. tokens[i] \in TokenRow
    BY DEF WellFormed
  <2> [tokens[i] EXCEPT !.revoked = TRUE] \in TokenRow
    BY <2>1 DEF TokenRow
  <2>2. tokens' \in Seq(TokenRow) /\ now' \in Int
    <3>1. Len(tokens) \in Nat /\ DOMAIN tokens = 1..Len(tokens) /\ tokens \in [1..Len(tokens) -> TokenRow]
      BY DEF WellFormed
    <3>2. tokens' \in [1..Len(tokens) -> TokenRow]
      BY <1>12, <2>1, <3>1 DEF Revoke
    <3>3. QED BY <1>12, <3>1, <3>2, SeqDef DEF Revoke, WellFormed
  <2>3. QED BY <1>12, <2>2, KeepsWellFormed DEF Revoke
<1>13. CASE Tick
  BY <1>13, KeepsWellFormed DEF Tick, WellFormed
<1>14. CASE Outage
  BY <1>14 DEF Outage, WellFormed, Request, StepsFollowKind
<1>15. ASSUME NEW r, NEW v, CommitHead(r, v) PROVE WellFormed'
  BY <1>15 DEF CommitHead, WellFormed, Request, StepsFollowKind
<1>16. ASSUME NEW r, ProjectHead(r) PROVE WellFormed'
  BY <1>16 DEF ProjectHead, WellFormed, Request, StepsFollowKind
<1>17. QED
  BY <1>1, <1>2, <1>3, <1>4, <1>5, <1>6, <1>7, <1>8, <1>9, <1>10, <1>11, <1>12, <1>13, <1>14,
     <1>15, <1>16
     DEF Next, Environment, Call, Serve

(* Whatever the interleaving, a request takes the steps of its kind, and    *)
(* the application runs only in an environment that passes the boot guard.  *)
THEOREM RequestsAreWellFormed == Spec => []WellFormed
BY InitWellFormed, StepWellFormed, PTL DEF Spec

-----------------------------------------------------------------------------
(* A health check under way knows of everything that may make it fail: an   *)
(* outage, a database error it has met, and another check that may remove   *)
(* the probe between its touch and its unlink.                              *)
Suspects(w) ==
  LET q == req[w] IN
  Probing(w) =>
    /\ ~database \/ ~writable => q.trouble
    /\ q.step = "unlink" => (q.options # {} => q.trouble) /\ (~probe => q.trouble \/ ~q.alone)
    /\ (\E v \in Workers \ {w} : Probing(v)) => ~q.alone

HealthInv == \A w \in Workers : Suspects(w)

(* Steps of the other surfaces leave health checks alone.                   *)
LEMMA OtherSurfaces ==
  ASSUME HealthInv /\ HealthIsExplained, NEW w \in Workers, NEW q, Set(w, q), DOMAIN req = Workers,
         q.kind # "health", UNCHANGED <<database, writable, probe>>
  PROVE  HealthInv' /\ HealthIsExplained'
BY DEF HealthInv, Suspects, HealthIsExplained, Answered, Probing, Running, Set

LEMMA SameChecks ==
  ASSUME HealthInv /\ HealthIsExplained, UNCHANGED <<database, writable, probe, req>>
  PROVE  HealthInv' /\ HealthIsExplained'
BY DEF HealthInv, Suspects, HealthIsExplained, Answered, Probing, Running

LEMMA StaleChecks ==
  ASSUME HealthInv /\ HealthIsExplained, WellFormed, UNCHANGED <<database, writable, probe>>,
         req' = [w \in Workers |-> [req[w] EXCEPT !.fresh = FALSE]]
  PROVE  HealthInv' /\ HealthIsExplained'
<1>1. \A w \in Workers, field \in DOMAIN Request \ {"fresh"} : req'[w][field] = req[w][field]
  BY DEF WellFormed, Request
<1>2. \A w \in Workers : /\ req'[w].kind = req[w].kind /\ req'[w].step = req[w].step
                         /\ req'[w].trouble = req[w].trouble /\ req'[w].alone = req[w].alone
                         /\ req'[w].options = req[w].options /\ req'[w].answer = req[w].answer
  BY <1>1 DEF Request
<1>3. \A w \in Workers : Probing(w)' <=> Probing(w)
  BY <1>2 DEF Probing, Running
<1>4. HealthInv'
  BY <1>2, <1>3 DEF HealthInv, Suspects
<1>5. HealthIsExplained'
  BY <1>2 DEF HealthIsExplained, Answered
<1>6. QED BY <1>4, <1>5

LEMMA StepHealth == WellFormed /\ HealthInv /\ HealthIsExplained /\ [Next]_vars
                      => HealthInv' /\ HealthIsExplained'
<1> SUFFICES ASSUME WellFormed, HealthInv, HealthIsExplained, [Next]_vars
             PROVE  HealthInv' /\ HealthIsExplained'
  OBVIOUS
<1>0. \A w \in Workers : DOMAIN req[w] = DOMAIN Request /\ StepsFollowKind(req[w])
  BY DEF WellFormed
<1> DOMAIN req = Workers
  BY DEF WellFormed
<1>1. ASSUME UNCHANGED vars PROVE HealthInv' /\ HealthIsExplained'
  BY <1>1, SameChecks DEF vars, world
<1>2. ASSUME NEW w \in Workers, NEW u, NEW r, NEW query, Visit(w, u, r, query)
      PROVE  HealthInv' /\ HealthIsExplained'
  <2> DEFINE q == Gate([From(u, "page") EXCEPT !.recipe = r, !.query = query], "row")
  <2>1. q.kind # "health"
    BY DEF Gate, From, Answer, Request
  <2>2. QED BY <1>2, <2>1, OtherSurfaces DEF Visit, world
<1>3. ASSUME NEW w \in Workers, NEW u, VisitIndex(w, u) PROVE HealthInv' /\ HealthIsExplained'
  <2> DEFINE q == Gate(From(u, "index"), "list")
  <2>1. q.kind # "health"
    BY DEF Gate, From, Answer, Request
  <2>2. QED BY <1>3, <2>1, OtherSurfaces DEF VisitIndex, world
<1>4. ASSUME NEW w \in Workers, ListRows(w) \/ FindRow(w) \/ ReadHead(w) \/ ChooseOptions(w)
                                \/ Authenticate(w) \/ AnswerMe(w)
      PROVE HealthInv' /\ HealthIsExplained'
  <2>1. req[w].step \in {"list", "row", "head", "options", "lookup", "me"}
    BY <1>4 DEF ListRows, FindRow, ReadHead, ChooseOptions, Authenticate, AnswerMe
  <2>2. req[w].kind # "health"
    BY <1>0, <2>1 DEF StepsFollowKind
  <2>3. Set(w, req'[w]) /\ req'[w].kind = req[w].kind
    <3> DOMAIN req[w] = DOMAIN Request
      BY <1>0
    <3>1. CASE ListRows(w)
      BY <3>1 DEF ListRows, Answer, Request, Set
    <3>2. CASE FindRow(w)
      BY <3>2 DEF FindRow, Answer, Request, Set
    <3>3. CASE ReadHead(w)
      BY <3>3 DEF ReadHead, Request, Set
    <3>4. CASE ChooseOptions(w)
      BY <3>4 DEF ChooseOptions, Answer, Request, Set
    <3>5. CASE Authenticate(w)
      BY <3>5, ZenonT(60) DEF Authenticate, Answer, Request, Set
    <3>6. CASE AnswerMe(w)
      BY <3>6 DEF AnswerMe, Answer, Request, Set
    <3>7. QED BY <1>4, <3>1, <3>2, <3>3, <3>4, <3>5, <3>6
  <2>4. UNCHANGED <<database, writable, probe>>
    BY <1>4 DEF ListRows, FindRow, ReadHead, ChooseOptions, Authenticate, AnswerMe, world
  <2>5. QED BY <2>2, <2>3, <2>4, OtherSurfaces
<1>5. ASSUME NEW w \in Workers, NEW u, NEW t, CallMe(w, u, t) PROVE HealthInv' /\ HealthIsExplained'
  <2> DEFINE p == [From(u, "me") EXCEPT !.token = t, !.dead = DOMAIN tokens \ Active]
  <2>1. DOMAIN p = DOMAIN Request /\ p.kind = "me"
    BY DEF From, Request
  <2>2. PICK q : Set(w, q) /\ q \in {Answer(p, "404"), [p EXCEPT !.step = "me"], Answer(p, "401"),
                                     [p EXCEPT !.step = "lookup"]}
    BY <1>5 DEF CallMe
  <2>3. q.kind # "health"
    BY <2>1, <2>2 DEF Answer, Request
  <2>4. QED BY <1>5, <2>2, <2>3, OtherSurfaces DEF CallMe, world
<1>6. ASSUME NEW w \in Workers, NEW u, NEW b, CallHealth(w, u, b) PROVE HealthInv' /\ HealthIsExplained'
  <2> DEFINE trouble == ~database \/ ~writable
             alone   == \A v \in Workers \ {w} : ~Probing(v)
             p == [From(u, "health") EXCEPT !.bearer = b, !.trouble = trouble, !.alone = alone]
  <2>1. /\ p.kind = "health" /\ p.step = "idle" /\ p.trouble = trouble /\ p.alone = alone
        /\ DOMAIN p = DOMAIN Request /\ p.options = {}
    <3> HIDE DEF trouble, alone
    <3> QED BY DEF From, Request
  <2>2. req'[w] \in {Answer(p, "raised"), Answer(p, "404"), [p EXCEPT !.step = "probe"], Answer(p, "401")}
    BY <1>6 DEF CallHealth
  <2>3. /\ req'[w].trouble = trouble /\ req'[w].alone = alone
        /\ req'[w].step \in {"probe", "answered"}
        /\ req'[w].answer # "degraded"
    <3> HIDE DEF trouble, alone
    <3>1. p.answer = "none"
      BY DEF From, Request
    <3> HIDE DEF p
    <3>2. QED BY <2>1, <2>2, <3>1 DEF Answer, Request
  <2>4. ASSUME NEW v \in Workers \ {w}
        PROVE  /\ req'[v].alone = (req[v].alone /\ ~Probing(v))
               /\ req'[v].kind = req[v].kind /\ req'[v].step = req[v].step
               /\ req'[v].trouble = req[v].trouble /\ req'[v].options = req[v].options
               /\ req'[v].answer = req[v].answer
    <3> DEFINE x == req[v].alone /\ ~Probing(v)
    <3>1. req'[v] = [req[v] EXCEPT !.alone = x]
      BY <1>6 DEF CallHealth
    <3> HIDE DEF x
    <3>2. QED BY <3>1, <1>0 DEF x, Request
  <2>5. UNCHANGED <<database, writable, probe>> /\ ~Running(w)
    BY <1>6 DEF CallHealth, world, Free
  <2>6. \A v \in Workers \ {w} : Probing(v)' <=> Probing(v)
    BY <2>4 DEF Probing, Running
  <2>7. Suspects(w)' /\ (Answered(w, "health") /\ req[w].answer = "degraded" => req[w].trouble \/ ~req[w].alone)'
    BY <2>3, <2>5, <2>6 DEF Suspects, Answered
  <2>8. ASSUME NEW v \in Workers \ {w}
        PROVE  /\ Suspects(v)'
               /\ (Answered(v, "health") /\ req[v].answer = "degraded" => req[v].trouble \/ ~req[v].alone)'
    BY <2>4, <2>5, <2>6, ZenonT(60) DEF HealthInv, Suspects, HealthIsExplained, Answered
  <2>9. QED BY <2>7, <2>8 DEF HealthInv, HealthIsExplained
<1>7. ASSUME NEW w \in Workers, TouchProbe(w) PROVE HealthInv' /\ HealthIsExplained'
  <2> DEFINE q == [req[w] EXCEPT !.options = IF database THEN {} ELSE {"database"}]
  <2>1. /\ q.kind = "health" /\ q.alone = req[w].alone /\ q.trouble = req[w].trouble
        /\ q.options = (IF database THEN {} ELSE {"database"}) /\ DOMAIN q = DOMAIN Request
        /\ Probing(w)
    BY <1>0, <1>7 DEF TouchProbe, Request, StepsFollowKind, Probing, Running
  <2>2. req' = [req EXCEPT ![w] = IF writable THEN [q EXCEPT !.step = "unlink"] ELSE Answer(q, "degraded")]
    BY <1>7 DEF TouchProbe, CanTouch, Set
  <2>3. /\ req'[w].kind = "health" /\ req'[w].alone = req[w].alone /\ req'[w].trouble = req[w].trouble
        /\ req'[w].options = q.options
        /\ writable => req'[w].step = "unlink"
        /\ ~writable => req'[w].step = "answered"
    <3> HIDE DEF q
    <3> QED BY <2>1, <2>2 DEF Answer, Request
  <2>4. (probe' <=> probe \/ writable) /\ UNCHANGED <<database, writable>>
    BY <1>7 DEF TouchProbe, CanTouch
  <2>5. \A v \in Workers \ {w} : req'[v] = req[v]
    BY <2>2
  <2>6. Suspects(w)' /\ (Answered(w, "health") /\ req[w].answer = "degraded" => req[w].trouble \/ ~req[w].alone)'
    BY <2>1, <2>3, <2>4, <2>5 DEF HealthInv, Suspects, Answered, Probing, Running
  <2>7. ASSUME NEW v \in Workers \ {w}
        PROVE  /\ Suspects(v)'
               /\ (Answered(v, "health") /\ req[v].answer = "degraded" => req[v].trouble \/ ~req[v].alone)'
    BY <2>1, <2>3, <2>4, <2>5 DEF HealthInv, HealthIsExplained, Suspects, Answered, Probing, Running
  <2>8. QED BY <2>6, <2>7 DEF HealthInv, HealthIsExplained
<1>8. ASSUME NEW w \in Workers, UnlinkProbe(w) PROVE HealthInv' /\ HealthIsExplained'
  <2> DEFINE fine == writable /\ probe /\ req[w].options = {}
  <2>1. req[w].step = "unlink" /\ Probing(w)
    BY <1>0, <1>8 DEF UnlinkProbe, StepsFollowKind, Probing, Running
  <2>2. req' = [req EXCEPT ![w] = Answer(req[w], IF fine THEN "ok" ELSE "degraded")]
    BY <1>8 DEF UnlinkProbe, Set
  <2>3. /\ req'[w].alone = req[w].alone /\ req'[w].trouble = req[w].trouble
        /\ req'[w].step = "answered"
        /\ req'[w].answer = "degraded" => ~fine
    BY <1>0, <2>2 DEF Answer, Request
  <2>4. (probe' <=> probe /\ ~writable) /\ UNCHANGED <<database, writable>>
    BY <1>8 DEF UnlinkProbe
  <2>5. \A v \in Workers \ {w} : req'[v] = req[v]
    BY <2>2
  <2>6. Suspects(w)' /\ (Answered(w, "health") /\ req[w].answer = "degraded" => req[w].trouble \/ ~req[w].alone)'
    BY <2>1, <2>3 DEF HealthInv, Suspects, Answered, Probing, Running
  <2>7. ASSUME NEW v \in Workers \ {w}
        PROVE  /\ Suspects(v)'
               /\ (Answered(v, "health") /\ req[v].answer = "degraded" => req[v].trouble \/ ~req[v].alone)'
    BY <2>1, <2>3, <2>4, <2>5 DEF HealthInv, HealthIsExplained, Suspects, Answered, Probing, Running
  <2>8. QED BY <2>6, <2>7 DEF HealthInv, HealthIsExplained
<1>9. ASSUME NEW w \in Workers, Killed(w) PROVE HealthInv' /\ HealthIsExplained'
  BY <1>9, OtherSurfaces DEF Killed, Request, world
<1>10. ASSUME NEW u, NEW p, NEW s, NEW life, NEW i, Issue(u, p, s, life) \/ Revoke(i) \/ Tick
       PROVE  HealthInv' /\ HealthIsExplained'
  BY <1>10, SameChecks DEF Issue, Revoke, Tick
<1>11. ASSUME NEW u, NEW r, NEW v, RemoveAccount(u) \/ CommitHead(r, v) \/ ProjectHead(r)
       PROVE  HealthInv' /\ HealthIsExplained'
  BY <1>11, StaleChecks DEF RemoveAccount, CommitHead, ProjectHead
<1>12. CASE Outage
  <2>1. \A w \in Workers : req'[w].trouble = TRUE
    BY <1>0, <1>12 DEF Outage, Request
  <2>2. \A w \in Workers : /\ req'[w].kind = req[w].kind /\ req'[w].step = req[w].step
                           /\ req'[w].alone = req[w].alone
    BY <1>0, <1>12 DEF Outage, Request
  <2>3. QED BY <2>1, <2>2 DEF HealthInv, Suspects, HealthIsExplained, Answered, Probing, Running
<1>13. QED
  BY <1>1, <1>2, <1>3, <1>4, <1>5, <1>6, <1>7, <1>8, <1>9, <1>10, <1>11, <1>12
     DEF Next, Environment, Call, Serve

LEMMA InitHealth == Init => HealthInv /\ HealthIsExplained
<1>1. Request.step = "idle"
  BY DEF Request
<1>2. QED BY <1>1 DEF Init, HealthInv, Suspects, Probing, Running, HealthIsExplained, Answered

(* The health of the application is never said to be degraded without a     *)
(* cause, for any number of checks that share one probe file.               *)
THEOREM HealthChecksAreExplained == Spec => []HealthIsExplained
<1>1. Init => WellFormed /\ HealthInv /\ HealthIsExplained
  BY InitWellFormed, InitHealth
<1>2. WellFormed /\ HealthInv /\ HealthIsExplained /\ [Next]_vars
        => (WellFormed /\ HealthInv /\ HealthIsExplained)'
  BY StepWellFormed, StepHealth
<1>3. QED BY <1>1, <1>2, PTL DEF Spec

-----------------------------------------------------------------------------
(* Once dead, a token stays dead: no row is taken back and time goes on.     *)
DeadRow(t, time) == t.gone \/ t.revoked \/ (t.expires # 0 /\ t.expires < time)

Holder(q, rowsOf) ==
  \/ q.user = q.session /\ q.user # Anonymous
  \/ \E i \in DOMAIN rowsOf \ q.dead :
       /\ [prefix |-> rowsOf[i].prefix, secret |-> rowsOf[i].secret] = q.token
       /\ rowsOf[i].user = q.user

(* A request past its authentication is made by a holder, and the tokens     *)
(* that were dead when it began still are.                                  *)
Held(q, rowsOf, time) ==
  /\ q.dead \subseteq DOMAIN rowsOf /\ \A i \in q.dead : DeadRow(rowsOf[i], time)
  /\ q.step = "lookup" => q.token = [prefix |-> q.token.prefix, secret |-> q.token.secret]
  /\ q.step = "me" \/ (q.step = "answered" /\ q.kind = "me" /\ q.answer = "ok") => Holder(q, rowsOf)
  /\ q.step \in {"probe", "unlink"}
       \/ (q.step = "answered" /\ q.kind = "health" /\ q.answer \in {"ok", "degraded"}) =>
       q.session \in Staff \/ q.bearer = "strong"

HolderInv == \A w \in Workers : Held(req[w], tokens, now)

LEMMA ActiveIsNotDead ==
  ASSUME WellFormed PROVE \A i \in DOMAIN tokens : DeadRow(tokens[i], now) <=> ~ActiveRow(tokens[i])
<1> SUFFICES ASSUME NEW i \in DOMAIN tokens
             PROVE  DeadRow(tokens[i], now) <=> ~ActiveRow(tokens[i])
  OBVIOUS
<1>1. tokens[i] \in TokenRow /\ now \in Int
  BY DEF WellFormed
<1>2. tokens[i].expires \in Int
  BY <1>1 DEF TokenRow
<1>3. QED BY <1>1, <1>2 DEF DeadRow, ActiveRow

LEMMA TokensStayHeld ==
  ASSUME NEW q, NEW rowsOf, NEW later, NEW time, NEW then, Held(q, rowsOf, time),
         DOMAIN rowsOf \subseteq DOMAIN later,
         \A i \in DOMAIN rowsOf : /\ later[i].prefix = rowsOf[i].prefix /\ later[i].secret = rowsOf[i].secret
                                  /\ later[i].user = rowsOf[i].user
                                  /\ DeadRow(rowsOf[i], time) => DeadRow(later[i], then)
  PROVE  Held(q, later, then)
BY DEF Held, Holder

LEMMA AlikeIsHeld ==
  ASSUME NEW q, NEW p, NEW rowsOf, NEW time, Held(q, rowsOf, time),
         p.dead = q.dead, p.step = q.step, p.kind = q.kind, p.answer = q.answer, p.token = q.token,
         p.user = q.user, p.session = q.session, p.bearer = q.bearer
  PROVE  Held(p, rowsOf, time)
BY DEF Held, Holder

(* Requests for pages hold nothing.                                         *)
LEMMA PagesAreHeld ==
  ASSUME NEW q, NEW p, NEW rowsOf, NEW time, Held(q, rowsOf, time), p.dead \subseteq q.dead,
         StepsFollowKind(p), p.kind \notin {"me", "health"}
  PROVE  Held(p, rowsOf, time)
BY DEF Held, StepsFollowKind

LEMMA NothingIsHeld == ASSUME NEW rowsOf, NEW time PROVE Held(Request, rowsOf, time)
<1>1. Request.step = "idle" /\ Request.dead = {}
  BY DEF Request
<1>2. QED BY <1>1 DEF Held

LEMMA SetHeld ==
  ASSUME WellFormed, HolderInv, NEW w \in Workers, NEW q, Set(w, q), UNCHANGED <<tokens, now>>,
         Held(q, tokens, now)
  PROVE  HolderInv'
<1>1. \A v \in Workers : req'[v] = IF v = w THEN q ELSE req[v]
  BY DEF Set, WellFormed
<1>2. QED BY <1>1 DEF HolderInv

LEMMA StepHeld == WellFormed /\ WellFormed' /\ HolderInv /\ [Next]_vars => HolderInv'
<1> SUFFICES ASSUME WellFormed, WellFormed', HolderInv, [Next]_vars PROVE HolderInv'
  OBVIOUS
<1>0. \A w \in Workers : /\ DOMAIN req[w] = DOMAIN Request /\ StepsFollowKind(req[w])
                         /\ StepsFollowKind(req'[w]) /\ Held(req[w], tokens, now)
  BY DEF WellFormed, HolderInv
<1>1. ASSUME UNCHANGED vars PROVE HolderInv'
  BY <1>1 DEF vars, world, HolderInv
<1>2. ASSUME NEW w \in Workers, NEW u, NEW r, NEW query, Visit(w, u, r, query) PROVE HolderInv'
  <2> DEFINE q == Gate([From(u, "page") EXCEPT !.recipe = r, !.query = query], "row")
  <2>1. q.dead = {} /\ q.kind = "page" /\ StepsFollowKind(q) /\ Request.dead = {}
    BY DEF Gate, From, Answer, Request, StepsFollowKind
  <2>2. Held(q, tokens, now)
    BY <2>1, NothingIsHeld, PagesAreHeld
  <2>3. QED BY <1>2, <2>2, SetHeld DEF Visit, world
<1>3. ASSUME NEW w \in Workers, NEW u, VisitIndex(w, u) PROVE HolderInv'
  <2> DEFINE q == Gate(From(u, "index"), "list")
  <2>1. q.dead = {} /\ q.kind = "index" /\ StepsFollowKind(q) /\ Request.dead = {}
    BY DEF Gate, From, Answer, Request, StepsFollowKind
  <2>2. Held(q, tokens, now)
    BY <2>1, NothingIsHeld, PagesAreHeld
  <2>3. QED BY <1>3, <2>2, SetHeld DEF VisitIndex, world
<1>4. ASSUME NEW w \in Workers, ListRows(w) \/ FindRow(w) \/ ReadHead(w) \/ ChooseOptions(w) PROVE HolderInv'
  <2>1. req[w].kind \in {"page", "index"}
    BY <1>0, <1>4 DEF ListRows, FindRow, ReadHead, ChooseOptions, StepsFollowKind
  <2>2. Set(w, req'[w]) /\ req'[w].kind = req[w].kind /\ req'[w].dead = req[w].dead
    <3> DOMAIN req[w] = DOMAIN Request /\ DOMAIN req = Workers
      BY <1>0 DEF WellFormed
    <3>1. CASE ListRows(w)
      BY <3>1 DEF ListRows, Answer, Request, Set
    <3>2. CASE FindRow(w)
      BY <3>2 DEF FindRow, Answer, Request, Set
    <3>3. CASE ReadHead(w)
      BY <3>3 DEF ReadHead, Request, Set
    <3>4. CASE ChooseOptions(w)
      BY <3>4 DEF ChooseOptions, Answer, Request, Set
    <3>5. QED BY <1>4, <3>1, <3>2, <3>3, <3>4
  <2>3. Held(req'[w], tokens, now)
    BY <1>0, <2>1, <2>2, PagesAreHeld
  <2>4. UNCHANGED <<tokens, now>>
    BY <1>4 DEF ListRows, FindRow, ReadHead, ChooseOptions, world
  <2>5. QED BY <2>2, <2>3, <2>4, SetHeld
<1>5. ASSUME NEW w \in Workers, NEW u, CallMe(w, u, NoToken) \/ (\E t \in Strangers : CallMe(w, u, t))
                                         \/ (\E i \in DOMAIN tokens : CallMe(w, u, Plaintext(i)))
      PROVE  HolderInv'
  <2>1. PICK t : CallMe(w, u, t) /\ t = [prefix |-> t.prefix, secret |-> t.secret]
    <3>1. NoToken = [prefix |-> NoToken.prefix, secret |-> NoToken.secret]
      BY DEF NoToken
    <3>2. \A i \in DOMAIN tokens :
            Plaintext(i) = [prefix |-> Plaintext(i).prefix, secret |-> Plaintext(i).secret]
      BY DEF Plaintext
    <3>3. QED BY <1>5, <3>1, <3>2, StrangersAreUnissued
  <2> DEFINE p == [From(u, "me") EXCEPT !.token = t, !.dead = DOMAIN tokens \ Active]
  <2>2. /\ DOMAIN p = DOMAIN Request /\ p.kind = "me" /\ p.token = t /\ p.dead = DOMAIN tokens \ Active
        /\ p.user = p.session /\ p.step = "idle" /\ p.answer = "none"
    BY DEF From, Request
  <2>3. PICK q : /\ Set(w, q)
                 /\ \/ q = Answer(p, "404") \/ q = Answer(p, "401") \/ q = [p EXCEPT !.step = "lookup"]
                    \/ p.user # Anonymous /\ q = [p EXCEPT !.step = "me"]
    BY <2>1 DEF CallMe
  <2>4. /\ q.kind = "me" /\ q.token = t /\ q.dead = DOMAIN tokens \ Active /\ q.user = q.session
        /\ q.step = "me" => q.user # Anonymous
        /\ q.step \in {"me", "lookup", "answered"} /\ q.answer # "ok"
    <3> HIDE DEF p
    <3> QED BY <2>2, <2>3, ZenonT(60) DEF Answer, Request
  <2>5. \A i \in q.dead : DeadRow(tokens[i], now)
    BY <2>4, ActiveIsNotDead DEF Active
  <2>6. Held(q, tokens, now)
    BY <2>1, <2>4, <2>5 DEF Held, Holder
  <2>7. QED BY <2>1, <2>3, <2>6, SetHeld DEF CallMe, world
<1>6. ASSUME NEW w \in Workers, Authenticate(w) PROVE HolderInv'
  <2> DEFINE candidates == Newest({i \in Active : tokens[i].prefix = req[w].token.prefix})
  <2>1. req[w].step = "lookup" /\ req[w].kind = "me"
    BY <1>0, <1>6 DEF Authenticate, StepsFollowKind
  <2>2. CASE Set(w, Answer(req[w], "401"))
    <3> DEFINE q == Answer(req[w], "401")
    <3>1. q.dead = req[w].dead /\ q.step = "answered" /\ q.kind = "me" /\ q.answer = "401"
      BY <1>0, <2>1 DEF Answer, Request
    <3>2. Held(q, tokens, now)
      BY <1>0, <3>1 DEF Held
    <3>3. QED BY <1>6, <2>2, <3>2, SetHeld DEF Authenticate, world
  <2>3. ASSUME NEW i \in candidates, Matches(i, req[w].token),
               Set(w, [req[w] EXCEPT !.step = "me", !.user = tokens[i].user])
        PROVE  HolderInv'
    <3> DEFINE q == [req[w] EXCEPT !.step = "me", !.user = tokens[i].user]
    <3>1. /\ q.dead = req[w].dead /\ q.step = "me" /\ q.kind = "me" /\ q.token = req[w].token
          /\ q.user = tokens[i].user /\ q.answer = req[w].answer
      BY <1>0, <2>1 DEF Request
    <3>2. i \in Active /\ tokens[i].prefix = req[w].token.prefix /\ tokens[i].secret = req[w].token.secret
      BY <2>3 DEF Newest, Matches
    <3>3. i \in DOMAIN tokens \ q.dead
      BY <1>0, <3>1, <3>2, ActiveIsNotDead DEF Held, Active
    <3>4. [prefix |-> tokens[i].prefix, secret |-> tokens[i].secret] = q.token
      BY <1>0, <2>1, <3>1, <3>2 DEF Held
    <3>5. Held(q, tokens, now)
      BY <1>0, <3>1, <3>3, <3>4 DEF Held, Holder
    <3>6. QED BY <1>6, <2>3, <3>5, SetHeld DEF Authenticate, world
  <2>4. QED BY <1>6, <2>2, <2>3 DEF Authenticate
<1>7. ASSUME NEW w \in Workers, AnswerMe(w) PROVE HolderInv'
  <2> DEFINE q == [Answer(req[w], "ok") EXCEPT !.options = {Stored(req[w].user)}]
  <2>1. /\ req[w].step = "me" /\ req[w].kind = "me"
    BY <1>0, <1>7 DEF AnswerMe, StepsFollowKind
  <2>2. /\ q.dead = req[w].dead /\ q.step = "answered" /\ q.kind = "me" /\ q.token = req[w].token
        /\ q.user = req[w].user /\ q.session = req[w].session
    BY <1>0, <2>1 DEF Answer, Request
  <2>3. Held(q, tokens, now)
    BY <1>0, <2>1, <2>2 DEF Held, Holder
  <2>4. QED BY <1>7, <2>3, SetHeld DEF AnswerMe, world
<1>8. ASSUME NEW w \in Workers, NEW u, NEW b, CallHealth(w, u, b) PROVE HolderInv'
  <2> DEFINE trouble == ~database \/ ~writable
             alone   == \A v \in Workers \ {w} : ~Probing(v)
             p == [From(u, "health") EXCEPT !.bearer = b, !.trouble = trouble, !.alone = alone]
  <2>1. /\ p.kind = "health" /\ p.step = "idle" /\ p.dead = {} /\ p.user = p.session /\ p.bearer = b
        /\ DOMAIN p = DOMAIN Request
    <3> HIDE DEF trouble, alone
    <3> QED BY DEF From, Request
  <2>2. \/ req'[w] \in {Answer(p, "raised"), Answer(p, "404"), Answer(p, "401")}
        \/ settings.ops /\ OpsAccess(p) /\ req'[w] = [p EXCEPT !.step = "probe"]
    BY <1>8 DEF CallHealth
  <2>3. OpsAccess(p) /\ settings.ops => p.session \in Staff \/ p.bearer = "strong"
    <3> HIDE DEF p
    <3> QED BY <2>1 DEF OpsAccess, WellFormed, Boots
  <2>4. /\ req'[w].dead = {} /\ req'[w].kind = "health" /\ req'[w].step \in {"probe", "answered"}
        /\ req'[w].step = "answered" => req'[w].answer \notin {"ok", "degraded"}
        /\ req'[w].step = "probe" => req'[w].session \in Staff \/ req'[w].bearer = "strong"
    <3> HIDE DEF p
    <3> QED BY <2>1, <2>2, <2>3 DEF Answer, Request
  <2>5. Held(req'[w], tokens, now)
    BY <2>4 DEF Held
  <2>6. ASSUME NEW v \in Workers \ {w} PROVE Held(req'[v], tokens, now)
    <3> DEFINE x == req[v].alone /\ ~Probing(v)
    <3>1. req'[v] = [req[v] EXCEPT !.alone = x]
      BY <1>8 DEF CallHealth
    <3> HIDE DEF x
    <3>2. QED BY <3>1, <1>0, AlikeIsHeld DEF Request
  <2>7. UNCHANGED <<tokens, now>>
    BY <1>8 DEF CallHealth, world
  <2>8. QED BY <2>5, <2>6, <2>7 DEF HolderInv
<1>9. ASSUME NEW w \in Workers, TouchProbe(w) \/ UnlinkProbe(w) PROVE HolderInv'
  <2>1. req[w].step \in {"probe", "unlink"} /\ req[w].kind = "health"
    BY <1>0, <1>9 DEF TouchProbe, UnlinkProbe, StepsFollowKind
  <2>2. req[w].session \in Staff \/ req[w].bearer = "strong"
    BY <1>0, <2>1 DEF Held
  <2>3. /\ Set(w, req'[w]) /\ req'[w].kind = "health" /\ req'[w].dead = req[w].dead
        /\ req'[w].session = req[w].session /\ req'[w].bearer = req[w].bearer
        /\ req'[w].step \in {"unlink", "answered"}
    <3> DOMAIN req[w] = DOMAIN Request /\ DOMAIN req = Workers
      BY <1>0 DEF WellFormed
    <3>1. CASE TouchProbe(w)
      <4> DEFINE o == IF database THEN {} ELSE {"database"}
                 q == [req[w] EXCEPT !.options = o]
      <4>1. /\ q.kind = "health" /\ q.dead = req[w].dead /\ q.session = req[w].session
            /\ q.bearer = req[w].bearer /\ DOMAIN q = DOMAIN Request
        <5> HIDE DEF o
        <5> QED BY <2>1 DEF Request
      <4>2. /\ req' = [req EXCEPT ![w] = req'[w]]
            /\ req'[w] \in {[q EXCEPT !.step = "unlink"], Answer(q, "degraded")}
        BY <3>1 DEF TouchProbe, Set
      <4> HIDE DEF q
      <4>3. QED BY <4>1, <4>2 DEF Answer, Request, Set
    <3>2. CASE UnlinkProbe(w)
      BY <2>1, <3>2 DEF UnlinkProbe, Answer, Request, Set
    <3>3. QED BY <1>9, <3>1, <3>2
  <2>4. Held(req'[w], tokens, now)
    BY <1>0, <2>2, <2>3 DEF Held
  <2>5. QED BY <1>9, <2>3, <2>4, SetHeld DEF TouchProbe, UnlinkProbe
<1>10. ASSUME NEW w \in Workers, Killed(w) PROVE HolderInv'
  BY <1>10, NothingIsHeld, SetHeld DEF Killed, world
<1>11. ASSUME NEW u, NEW p, NEW s, NEW life, Issue(u, p, s, life) PROVE HolderInv'
  <2>1. DOMAIN tokens \subseteq DOMAIN tokens' /\ \A i \in DOMAIN tokens : tokens'[i] = tokens[i]
    BY <1>11 DEF Issue, WellFormed
  <2>2. now' = now /\ req' = req
    BY <1>11 DEF Issue
  <2>3. QED BY <1>0, <2>1, <2>2, TokensStayHeld DEF HolderInv
<1>12. ASSUME NEW i \in DOMAIN tokens, Revoke(i) PROVE HolderInv'
  <2>1. \A j \in DOMAIN tokens : tokens[j] \in TokenRow
    BY DEF WellFormed
  <2>2. /\ DOMAIN tokens' = DOMAIN tokens /\ now' = now /\ req' = req
        /\ \A j \in DOMAIN tokens \ {i} : tokens'[j] = tokens[j]
        /\ tokens'[i] = [tokens[i] EXCEPT !.revoked = TRUE]
    BY <1>12 DEF Revoke
  <2>3. \A j \in DOMAIN tokens :
          /\ tokens'[j].prefix = tokens[j].prefix /\ tokens'[j].secret = tokens[j].secret
          /\ tokens'[j].user = tokens[j].user
          /\ DeadRow(tokens[j], now) => DeadRow(tokens'[j], now)
    BY <2>1, <2>2 DEF DeadRow, TokenRow
  <2>4. QED BY <1>0, <2>2, <2>3, TokensStayHeld DEF HolderInv
<1>13. CASE Tick
  <2>1. now' = now + 1 /\ now \in Int /\ UNCHANGED <<tokens, req>>
    BY <1>13 DEF Tick, WellFormed
  <2>2. \A j \in DOMAIN tokens : DeadRow(tokens[j], now) => DeadRow(tokens[j], now + 1)
    <3> SUFFICES ASSUME NEW j \in DOMAIN tokens, DeadRow(tokens[j], now)
                 PROVE  DeadRow(tokens[j], now + 1)
      OBVIOUS
    <3>1. tokens[j] \in TokenRow
      BY DEF WellFormed
    <3>2. tokens[j].expires \in Int
      BY <3>1 DEF TokenRow
    <3>3. QED BY <2>1, <3>2 DEF DeadRow
  <2>3. QED BY <1>0, <2>1, <2>2, TokensStayHeld DEF HolderInv
<1>14. ASSUME NEW u, RemoveAccount(u) PROVE HolderInv'
  <2>1. \A j \in DOMAIN tokens : tokens[j] \in TokenRow
    BY DEF WellFormed
  <2>2. DOMAIN tokens' = DOMAIN tokens /\ now' = now /\ DOMAIN req' = Workers
    BY <1>14 DEF RemoveAccount
  <2>3. ASSUME NEW j \in DOMAIN tokens
        PROVE  /\ tokens'[j].prefix = tokens[j].prefix /\ tokens'[j].secret = tokens[j].secret
               /\ tokens'[j].user = tokens[j].user
               /\ DeadRow(tokens[j], now) => DeadRow(tokens'[j], now)
    <3> DEFINE gone == tokens[j].gone \/ tokens[j].user = u
    <3>1. tokens'[j] = [tokens[j] EXCEPT !.gone = gone]
      BY <1>14 DEF RemoveAccount
    <3>2. tokens[j].gone => gone
      OBVIOUS
    <3> HIDE DEF gone
    <3>3. QED BY <2>1, <3>1, <3>2 DEF DeadRow, TokenRow
  <2>4. \A w \in Workers : Held(req[w], tokens', now)
    BY <1>0, <2>2, <2>3, TokensStayHeld
  <2>5. ASSUME NEW w \in Workers PROVE Held(req'[w], tokens', now)
    <3>1. req'[w] = [req[w] EXCEPT !.fresh = FALSE]
      BY <1>14 DEF RemoveAccount
    <3>2. QED BY <1>0, <2>4, <3>1, AlikeIsHeld DEF Request
  <2>6. QED BY <2>2, <2>5 DEF HolderInv
<1>15. ASSUME NEW r, NEW v, CommitHead(r, v) \/ ProjectHead(r) \/ Outage PROVE HolderInv'
  <2>1. UNCHANGED <<tokens, now>>
    BY <1>15 DEF CommitHead, ProjectHead, Outage
  <2>2. ASSUME NEW w \in Workers PROVE Held(req'[w], tokens, now)
    <3>1. \/ req'[w] = [req[w] EXCEPT !.fresh = FALSE]
          \/ req'[w] = [req[w] EXCEPT !.trouble = TRUE]
      BY <1>15 DEF CommitHead, ProjectHead, Outage
    <3>2. QED BY <1>0, <3>1, AlikeIsHeld DEF Request
  <2>3. QED BY <2>1, <2>2 DEF HolderInv
<1>16. QED
  BY <1>1, <1>2, <1>3, <1>4, <1>5, <1>6, <1>7, <1>8, <1>9, <1>10, <1>11, <1>12, <1>13, <1>14, <1>15
     DEF Next, Environment, Call, Serve

(* Whoever the APIs serve is the account's own session or the holder of a    *)
(* token issued to it and not yet dead when the request began: with rows     *)
(* that share a prefix, tokens that expire or are revoked and accounts that  *)
(* go while the request is under way.                                       *)
THEOREM OnlyHoldersPass == Spec => []OnlyTheHolderPasses
<1>1. Init => WellFormed /\ HolderInv
  BY InitWellFormed, NothingIsHeld DEF Init, HolderInv
<1>2. WellFormed /\ HolderInv /\ [Next]_vars => (WellFormed /\ HolderInv)'
  BY StepWellFormed, StepHeld
<1>3. HolderInv => OnlyTheHolderPasses
  BY DEF HolderInv, Held, Holder, OnlyTheHolderPasses, Answered, Plaintext
<1>4. QED BY <1>1, <1>2, <1>3, PTL DEF Spec

-----------------------------------------------------------------------------
Visibilities == {"private", "unlisted", "public"}

(* A row is of an earlier version than HEAD, or says what HEAD says.         *)
RowsInv ==
  /\ DOMAIN heads = Recipes
  /\ \A r \in Recipes : heads[r].version \in Int /\ heads[r].visibility \in Visibilities
  /\ DOMAIN rows \subseteq Recipes
  /\ \A r \in DOMAIN rows :
       /\ rows[r].owner = OwnerOf[r]
       /\ rows[r].version \in Int /\ rows[r].version =< heads[r].version
       /\ rows[r].version = heads[r].version => rows[r].visibility = heads[r].visibility

MayOpenIn(hs, u, r) == hs[r].visibility # "private" \/ OwnerOf[r] = u

(* What a request for a page has decided and read agrees with HEAD for as    *)
(* long as nobody writes.                                                   *)
Opened(q, hs) ==
  /\ q.step \in {"list", "row", "head", "options"} => q.user # Anonymous
  /\ q.step \in {"row", "head", "options"} => q.recipe \in Recipes
  /\ q.fresh =>
       /\ q.step \in {"head", "options"} => MayOpenIn(hs, q.user, q.recipe)
       /\ q.step = "options" => q.shown = {hs[q.recipe].version}
       /\ q.step = "answered" /\ q.kind = "page" /\ q.answer # "redirect" =>
            /\ q.answer # "404" <=> MayOpenIn(hs, q.user, q.recipe)
            /\ q.answer # "404" => q.shown = {hs[q.recipe].version}
       /\ q.step = "answered" /\ q.kind = "index" => \A r \in q.shown : MayOpenIn(hs, q.user, r)

PagesInv == RowsInv /\ \A w \in Workers : Opened(req[w], heads)

(* A current row opens a recipe, and is listed, just as HEAD says.           *)
LEMMA CurrentRowsDecide ==
  ASSUME RowsInv, NEW u, u # Anonymous, NEW r, Current(r)
  PROVE  /\ r \in Addressable(u) <=> MayOpen(u, r)
         /\ r \in Visible(u) => MayOpen(u, r)
<1>1. /\ r \in DOMAIN rows /\ r \in Recipes /\ rows[r].owner = OwnerOf[r]
      /\ rows[r].visibility = heads[r].visibility /\ heads[r].visibility \in Visibilities
  BY DEF RowsInv, Current
<1>2. QED BY <1>1 DEF Addressable, Visible, Owns, MayOpen, Visibilities

(* Requests of the other surfaces open nothing.                             *)
LEMMA OtherKindsOpenNothing ==
  ASSUME NEW q, NEW hs, StepsFollowKind(q), q.kind \notin {"page", "index"}
  PROVE  Opened(q, hs)
BY DEF StepsFollowKind, Opened

LEMMA AlikeIsOpened ==
  ASSUME NEW q, NEW p, NEW hs, Opened(q, hs), p.step = q.step, p.kind = q.kind, p.answer = q.answer,
         p.user = q.user, p.recipe = q.recipe, p.shown = q.shown, p.fresh = q.fresh
  PROVE  Opened(p, hs)
BY DEF Opened

LEMMA StaleIsOpened ==
  ASSUME NEW q, NEW p, NEW hs, NEW later, Opened(q, hs), p.step = q.step, p.user = q.user,
         p.recipe = q.recipe, p.fresh = FALSE
  PROVE  Opened(p, later)
BY DEF Opened

LEMMA SetOpened ==
  ASSUME WellFormed, PagesInv, NEW w \in Workers, NEW q, Set(w, q), UNCHANGED <<heads, rows>>,
         Opened(q, heads)
  PROVE  PagesInv'
<1>1. \A v \in Workers : req'[v] = IF v = w THEN q ELSE req[v]
  BY DEF Set, WellFormed
<1>2. RowsInv'
  BY DEF PagesInv, RowsInv
<1>3. QED BY <1>1, <1>2 DEF PagesInv

LEMMA StepOpened == WellFormed /\ WellFormed' /\ PagesInv /\ [Next]_vars => PagesInv'
<1> SUFFICES ASSUME WellFormed, WellFormed', PagesInv, [Next]_vars PROVE PagesInv'
  OBVIOUS
<1>0. \A w \in Workers : /\ DOMAIN req[w] = DOMAIN Request /\ StepsFollowKind(req[w])
                         /\ StepsFollowKind(req'[w]) /\ Opened(req[w], heads)
  BY DEF WellFormed, PagesInv
<1>1. ASSUME UNCHANGED vars \/ UNCHANGED <<heads, rows, req>> PROVE PagesInv'
  BY <1>1 DEF vars, world, PagesInv, RowsInv
<1>2. ASSUME NEW w \in Workers, NEW u, NEW r \in Recipes, NEW query, Visit(w, u, r, query) PROVE PagesInv'
  <2> DEFINE p == [From(u, "page") EXCEPT !.recipe = r, !.query = query]
             q == Gate(p, "row")
  <2>1. p.kind = "page" /\ p.recipe = r /\ DOMAIN p = DOMAIN Request
    BY DEF From, Request
  <2>2. \/ q.step = "answered" /\ q.answer = "redirect" /\ q.kind = "page"
        \/ q.step = "row" /\ q.user # Anonymous /\ q.recipe = r
    <3> HIDE DEF p
    <3> QED BY <2>1 DEF Gate, Answer, Request
  <2>3. Opened(q, heads)
    BY <2>2 DEF Opened
  <2>4. QED BY <1>2, <2>3, SetOpened DEF Visit, world
<1>3. ASSUME NEW w \in Workers, NEW u, VisitIndex(w, u) PROVE PagesInv'
  <2> DEFINE p == From(u, "index")
             q == Gate(p, "list")
  <2>1. p.kind = "index" /\ p.shown = {} /\ DOMAIN p = DOMAIN Request
    BY DEF From, Request
  <2>2. \/ q.step = "answered" /\ q.kind = "index" /\ q.shown = {}
        \/ q.step = "list" /\ q.user # Anonymous
    <3> HIDE DEF p
    <3> QED BY <2>1 DEF Gate, Answer, Request
  <2>3. Opened(q, heads)
    BY <2>2 DEF Opened
  <2>4. QED BY <1>3, <2>3, SetOpened DEF VisitIndex, world
<1>4. ASSUME NEW w \in Workers, ListRows(w) PROVE PagesInv'
  <2>1. PICK page \in SUBSET Visible(req[w].user) :
          Set(w, [Answer(req[w], "ok") EXCEPT !.shown = page,
                                              !.fresh = @ /\ \A r \in page : Current(r)])
    BY <1>4 DEF ListRows
  <2> DEFINE all   == \A r \in page : Current(r)
             fresh == Answer(req[w], "ok").fresh /\ all
             q     == [Answer(req[w], "ok") EXCEPT !.shown = page, !.fresh = fresh]
  <2>2. req[w].step = "list" /\ req[w].kind = "index" /\ req[w].user # Anonymous
    BY <1>0, <1>4 DEF ListRows, StepsFollowKind, Opened
  <2>3. q.kind = "index" /\ q.step = "answered" /\ q.shown = page /\ (q.fresh => all)
        /\ q.user = req[w].user
    <3>1. q.fresh = fresh
      <4> HIDE DEF fresh
      <4> QED BY <1>0 DEF Answer, Request
    <3>2. q.kind = "index" /\ q.step = "answered" /\ q.shown = page /\ q.user = req[w].user
      <4> HIDE DEF fresh
      <4> QED BY <1>0, <2>2 DEF Answer, Request
    <3>3. QED BY <3>1, <3>2
  <2>4. ASSUME all PROVE \A r \in page : MayOpen(req[w].user, r)
    BY <2>1, <2>2, <2>4, CurrentRowsDecide DEF PagesInv
  <2>5. Opened(q, heads)
    BY <2>3, <2>4 DEF Opened, MayOpen, MayOpenIn
  <2>6. QED BY <1>4, <2>1, <2>5, SetOpened DEF ListRows, world
<1>5. ASSUME NEW w \in Workers, FindRow(w) PROVE PagesInv'
  <2> DEFINE current == Current(req[w].recipe)
             fresh == req[w].fresh /\ current
             p == [req[w] EXCEPT !.fresh = fresh]
  <2>1. /\ req[w].step = "row" /\ req[w].kind = "page"
        /\ req[w].user # Anonymous /\ req[w].recipe \in Recipes
    BY <1>0, <1>5 DEF FindRow, StepsFollowKind, Opened
  <2>2. /\ p.kind = "page" /\ p.user = req[w].user /\ p.recipe = req[w].recipe
        /\ DOMAIN p = DOMAIN Request /\ (p.fresh => current)
    <3>1. p.fresh = fresh
      <4> HIDE DEF fresh
      <4> QED BY <1>0 DEF Request
    <3>2. /\ p.kind = "page" /\ p.user = req[w].user /\ p.recipe = req[w].recipe
          /\ DOMAIN p = DOMAIN Request
      <4> HIDE DEF fresh
      <4> QED BY <1>0, <2>1 DEF Request
    <3>3. QED BY <3>1, <3>2
  <2>3. Set(w, IF p.recipe \in Addressable(p.user) THEN [p EXCEPT !.step = "head"] ELSE Answer(p, "404"))
    BY <1>5 DEF FindRow
  <2>4. current => (p.recipe \in Addressable(p.user) <=> MayOpen(p.user, p.recipe))
    BY <2>1, <2>2, CurrentRowsDecide DEF PagesInv
  <2> HIDE DEF p
  <2>5. CASE p.recipe \in Addressable(p.user)
    <3> DEFINE q == [p EXCEPT !.step = "head"]
    <3>1. /\ q.kind = "page" /\ q.step = "head" /\ q.user = req[w].user /\ q.recipe = req[w].recipe
          /\ q.fresh = p.fresh
      BY <2>2 DEF Request
    <3>2. Opened(q, heads)
      BY <2>1, <2>2, <2>4, <2>5, <3>1 DEF Opened, MayOpen, MayOpenIn
    <3>3. QED BY <1>5, <2>3, <2>5, <3>2, SetOpened DEF FindRow, world
  <2>6. CASE p.recipe \notin Addressable(p.user)
    <3> DEFINE q == Answer(p, "404")
    <3>1. /\ q.kind = "page" /\ q.step = "answered" /\ q.user = req[w].user
          /\ q.recipe = req[w].recipe /\ q.fresh = p.fresh /\ q.answer = "404"
      BY <2>2 DEF Answer, Request
    <3>2. Opened(q, heads)
      BY <2>1, <2>2, <2>4, <2>6, <3>1 DEF Opened, MayOpen, MayOpenIn
    <3>3. QED BY <1>5, <2>3, <2>6, <3>2, SetOpened DEF FindRow, world
  <2>7. QED BY <2>5, <2>6
<1>6. ASSUME NEW w \in Workers, ReadHead(w) PROVE PagesInv'
  <2> DEFINE q == [req[w] EXCEPT !.step = "options", !.shown = {heads[req[w].recipe].version}]
  <2>1. /\ q.step = "options" /\ q.shown = {heads[req[w].recipe].version} /\ q.user = req[w].user
        /\ q.recipe = req[w].recipe /\ q.fresh = req[w].fresh /\ req[w].step = "head"
    BY <1>0, <1>6 DEF ReadHead, Request
  <2>2. Opened(q, heads)
    BY <1>0, <2>1 DEF Opened
  <2>3. QED BY <1>6, <2>2, SetOpened DEF ReadHead, world
<1>7. ASSUME NEW w \in Workers, ChooseOptions(w) PROVE PagesInv'
  <2>1. req[w].step = "options" /\ req[w].kind = "page"
    BY <1>0, <1>7 DEF ChooseOptions, StepsFollowKind
  <2>2. /\ Set(w, req'[w]) /\ req'[w].kind = "page" /\ req'[w].step = "answered"
        /\ req'[w].answer \in {"raised", "ok"} /\ req'[w].user = req[w].user
        /\ req'[w].recipe = req[w].recipe /\ req'[w].shown = req[w].shown
        /\ req'[w].fresh = req[w].fresh
    <3> DOMAIN req[w] = DOMAIN Request /\ DOMAIN req = Workers
      BY <1>0 DEF WellFormed
    <3> QED BY <1>7, <2>1 DEF ChooseOptions, Answer, Request, Set
  <2>3. Opened(req'[w], heads)
    BY <1>0, <2>1, <2>2 DEF Opened
  <2>4. QED BY <1>7, <2>2, <2>3, SetOpened DEF ChooseOptions, world
<1>8. ASSUME NEW w \in Workers, Authenticate(w) \/ AnswerMe(w) \/ TouchProbe(w) \/ UnlinkProbe(w)
      PROVE  PagesInv'
  <2>1. req[w].kind \in {"me", "health"}
    BY <1>0, <1>8 DEF Authenticate, AnswerMe, TouchProbe, UnlinkProbe, StepsFollowKind
  <2>2. Set(w, req'[w]) /\ req'[w].kind = req[w].kind
    <3> DOMAIN req[w] = DOMAIN Request /\ DOMAIN req = Workers
      BY <1>0 DEF WellFormed
    <3>1. CASE Authenticate(w)
      BY <3>1, ZenonT(60) DEF Authenticate, Answer, Request, Set
    <3>2. CASE AnswerMe(w)
      BY <3>2 DEF AnswerMe, Answer, Request, Set
    <3>3. CASE TouchProbe(w)
      BY <3>3 DEF TouchProbe, Answer, Request, Set
    <3>4. CASE UnlinkProbe(w)
      BY <3>4 DEF UnlinkProbe, Answer, Request, Set
    <3>5. QED BY <1>8, <3>1, <3>2, <3>3, <3>4
  <2>3. Opened(req'[w], heads)
    BY <1>0, <2>1, <2>2, OtherKindsOpenNothing
  <2>4. UNCHANGED <<heads, rows>>
    BY <1>8 DEF Authenticate, AnswerMe, TouchProbe, UnlinkProbe, world
  <2>5. QED BY <2>2, <2>3, <2>4, SetOpened
<1>9. ASSUME NEW w \in Workers, NEW u, NEW t, CallMe(w, u, t) PROVE PagesInv'
  <2> DEFINE p == [From(u, "me") EXCEPT !.token = t, !.dead = DOMAIN tokens \ Active]
  <2>1. DOMAIN p = DOMAIN Request /\ p.kind = "me"
    BY DEF From, Request
  <2>2. PICK q : Set(w, q) /\ q \in {Answer(p, "404"), [p EXCEPT !.step = "me"], Answer(p, "401"),
                                     [p EXCEPT !.step = "lookup"]}
    BY <1>9 DEF CallMe
  <2>3. StepsFollowKind(q) /\ q.kind = "me"
    <3> HIDE DEF p
    <3> QED BY <2>1, <2>2 DEF Answer, Request, StepsFollowKind
  <2>4. QED BY <1>9, <2>2, <2>3, OtherKindsOpenNothing, SetOpened DEF CallMe, world
<1>10. ASSUME NEW w \in Workers, NEW u, NEW b, CallHealth(w, u, b) PROVE PagesInv'
  <2> DEFINE trouble == ~database \/ ~writable
             alone   == \A v \in Workers \ {w} : ~Probing(v)
             p == [From(u, "health") EXCEPT !.bearer = b, !.trouble = trouble, !.alone = alone]
  <2>1. p.kind = "health" /\ DOMAIN p = DOMAIN Request
    <3> HIDE DEF trouble, alone
    <3> QED BY DEF From, Request
  <2>2. req'[w] \in {Answer(p, "raised"), Answer(p, "404"), [p EXCEPT !.step = "probe"], Answer(p, "401")}
    BY <1>10 DEF CallHealth
  <2>3. Opened(req'[w], heads)
    <3> HIDE DEF p
    <3>1. req'[w].kind = "health"
      BY <2>1, <2>2 DEF Answer, Request
    <3>2. QED BY <1>0, <3>1, OtherKindsOpenNothing
  <2>4. ASSUME NEW v \in Workers \ {w} PROVE Opened(req'[v], heads)
    <3> DEFINE x == req[v].alone /\ ~Probing(v)
    <3>1. req'[v] = [req[v] EXCEPT !.alone = x]
      BY <1>10 DEF CallHealth
    <3> HIDE DEF x
    <3>2. QED BY <3>1, <1>0, AlikeIsOpened DEF Request
  <2>5. UNCHANGED <<heads, rows>>
    BY <1>10 DEF CallHealth, world
  <2>6. RowsInv'
    BY <2>5 DEF PagesInv, RowsInv
  <2>7. QED BY <2>3, <2>4, <2>5, <2>6 DEF PagesInv
<1>11. ASSUME NEW w \in Workers, Killed(w) PROVE PagesInv'
  <2>1. Opened(Request, heads)
    BY DEF Opened, Request
  <2>2. QED BY <1>11, <2>1, SetOpened DEF Killed, world
<1>12. ASSUME NEW r, NEW v \in Visibilities, CommitHead(r, v) PROVE PagesInv'
  <2>1. RowsInv'
    <3>1. ASSUME NEW q \in Recipes
          PROVE  heads'[q] = IF q = r THEN [version |-> heads[r].version + 1, visibility |-> v] ELSE heads[q]
      BY <1>12 DEF CommitHead, PagesInv, RowsInv
    <3>2. DOMAIN heads' = Recipes /\ rows' = rows
      BY <1>12 DEF CommitHead, PagesInv, RowsInv
    <3>3. QED BY <3>1, <3>2 DEF PagesInv, RowsInv
  <2>2. ASSUME NEW w \in Workers PROVE Opened(req'[w], heads')
    <3>1. req'[w] = [req[w] EXCEPT !.fresh = FALSE]
      BY <1>12 DEF CommitHead
    <3>2. QED BY <1>0, <3>1, StaleIsOpened DEF Request
  <2>3. QED BY <2>1, <2>2 DEF PagesInv
<1>13. ASSUME NEW r \in Recipes, ProjectHead(r) PROVE PagesInv'
  <2>1. RowsInv'
    <3>1. DOMAIN rows' = DOMAIN rows \cup {r} /\ heads' = heads
      BY <1>13 DEF ProjectHead
    <3>2. \A q \in DOMAIN rows' : rows'[q] = IF q = r THEN RowOf(r) ELSE rows[q]
      BY <1>13 DEF ProjectHead
    <3>3. QED BY <3>1, <3>2 DEF PagesInv, RowsInv, RowOf
  <2>2. ASSUME NEW w \in Workers PROVE Opened(req'[w], heads')
    <3>1. req'[w] = [req[w] EXCEPT !.fresh = FALSE]
      BY <1>13 DEF ProjectHead
    <3>2. QED BY <1>0, <3>1, StaleIsOpened DEF Request
  <2>3. QED BY <2>1, <2>2 DEF PagesInv
<1>14. ASSUME NEW u, RemoveAccount(u) PROVE PagesInv'
  <2>1. RowsInv'
    <3>1. DOMAIN rows' \subseteq DOMAIN rows /\ heads' = heads /\ \A q \in DOMAIN rows' : rows'[q] = rows[q]
      BY <1>14 DEF RemoveAccount
    <3>2. QED BY <3>1 DEF PagesInv, RowsInv
  <2>2. ASSUME NEW w \in Workers PROVE Opened(req'[w], heads')
    <3>1. req'[w] = [req[w] EXCEPT !.fresh = FALSE]
      BY <1>14 DEF RemoveAccount
    <3>2. QED BY <1>0, <3>1, StaleIsOpened DEF Request
  <2>3. QED BY <2>1, <2>2 DEF PagesInv
<1>15. ASSUME NEW u, NEW p, NEW s, NEW life, NEW i, Issue(u, p, s, life) \/ Revoke(i) \/ Tick PROVE PagesInv'
  BY <1>15, <1>1 DEF Issue, Revoke, Tick
<1>16. CASE Outage
  <2>1. UNCHANGED <<heads, rows>>
    BY <1>16 DEF Outage
  <2>2. RowsInv'
    BY <2>1 DEF PagesInv, RowsInv
  <2>3. ASSUME NEW w \in Workers PROVE Opened(req'[w], heads)
    <3>1. req'[w] = [req[w] EXCEPT !.trouble = TRUE]
      BY <1>16 DEF Outage
    <3>2. QED BY <1>0, <3>1, AlikeIsOpened DEF Request
  <2>4. QED BY <2>1, <2>2, <2>3 DEF PagesInv
<1>17. QED
  BY <1>1, <1>2, <1>3, <1>4, <1>5, <1>6, <1>7, <1>8, <1>9, <1>10, <1>11, <1>12, <1>13, <1>14, <1>15, <1>16
     DEF Next, Environment, Call, Serve, Visibilities

LEMMA InitOpened == Init => PagesInv
<1> SUFFICES ASSUME Init PROVE PagesInv
  OBVIOUS
<1>1. \A r \in Recipes : heads[r].version = 1 /\ heads[r].visibility \in Visibilities
  <2>1. CASE heads \in HeadsAtFirst
    BY <2>1 DEF HeadsAtFirst, Visibilities
  <2>2. CASE heads = [r \in Recipes |-> [version |-> 1, visibility |-> "public"]]
    BY <2>2 DEF Visibilities
  <2>3. QED BY <2>1, <2>2 DEF Init
<1>2. DOMAIN heads = Recipes
  BY DEF Init, HeadsAtFirst
<1>3. RowsInv
  BY <1>1, <1>2 DEF Init, RowsInv, RowOf
<1>4. Request.step = "idle"
  BY DEF Request
<1>5. \A w \in Workers : Opened(req[w], heads)
  BY <1>4 DEF Init, Opened
<1>6. QED BY <1>3, <1>5 DEF PagesInv

(* A recipe page and the index open to a reader exactly what HEAD opens to   *)
(* them, whenever the row was HEAD's and nobody wrote: for any number of     *)
(* readers, writers, projections and accounts that go.                      *)
THEOREM PagesOpenWhatHeadOpens == Spec => []PagesFollowHead
<1>1. Init => WellFormed /\ PagesInv
  BY InitWellFormed, InitOpened
<1>2. WellFormed /\ PagesInv /\ [Next]_vars => (WellFormed /\ PagesInv)'
  BY StepWellFormed, StepOpened
<1>3. PagesInv => PagesFollowHead
  BY DEF PagesInv, Opened, PagesFollowHead, Answered, MayOpen, MayOpenIn
<1>4. QED BY <1>1, <1>2, <1>3, PTL DEF Spec

-----------------------------------------------------------------------------
LEMMA LeastExists == ASSUME NEW T \in SUBSET Nat, T # {} PROVE \E x \in T : \A y \in T : x =< y
<1>1. PICK x \in T : \A y \in T : ~(<<y, x>> \in OpToRel(<, Nat))
  BY NatLessThanWellFounded, WFMin, Zenon
<1>2. \A y \in T : ~ (y < x)
  BY <1>1, Zenon DEF OpToRel
<1>3. QED BY <1>2

CreatedInv == \A i \in DOMAIN tokens : tokens[i].created \in Int /\ tokens[i].created =< now

(* Among tokens that match, first() finds one.                              *)
LEMMA SomeoneIsNewest ==
  ASSUME WellFormed, CreatedInv, NEW matching \in SUBSET DOMAIN tokens, matching # {}
  PROVE  Newest(matching) # {}
<1> DEFINE T == {now - tokens[i].created : i \in matching}
<1>1. \A i \in matching : tokens[i].created \in Int /\ now \in Int /\ now - tokens[i].created \in Nat
  BY DEF CreatedInv, WellFormed
<1>2. T \in SUBSET Nat /\ T # {}
  BY <1>1
<1>3. PICK x \in T : \A y \in T : x =< y
  BY <1>2, LeastExists
<1>4. PICK i \in matching : x = now - tokens[i].created
  BY <1>3
<1>5. \A j \in matching : now - tokens[j].created \in T
  OBVIOUS
<1>6. \A j \in matching : now - tokens[i].created =< now - tokens[j].created
  BY <1>3, <1>4, <1>5
<1>7. \A j \in matching : tokens[i].created >= tokens[j].created
  BY <1>1, <1>6
<1>8. QED BY <1>7 DEF Newest

PlaintextOf(row) == [prefix |-> row.prefix, secret |-> row.secret]

(* What a bearer token may be: nothing, somebody's guess, or a token that    *)
(* was issued, whose secret is not issued again.                            *)
Known(t, rowsOf) ==
  \/ t.secret \notin Secrets
  \/ \E i \in DOMAIN rowsOf : t = PlaintextOf(rowsOf[i])

(* Why a token with this row is refused.                                    *)
Excuse(i, q, rowsOf, time) ==
  \/ Pieces[rowsOf[i].secret] > 1
  \/ DeadRow(rowsOf[i], time)
  \/ \E j \in DOMAIN rowsOf \ (q.dead \cup {i}) :
       rowsOf[j].prefix = rowsOf[i].prefix /\ rowsOf[j].created >= rowsOf[i].created

Refused(q, rowsOf, time) ==
  q.kind = "me" =>
    /\ Known(q.token, rowsOf)
    /\ q.step = "answered" /\ q.answer = "401" =>
         \A i \in DOMAIN rowsOf : q.token = PlaintextOf(rowsOf[i]) => Excuse(i, q, rowsOf, time)

RefusalInv == CreatedInv /\ \A w \in Workers : Refused(req[w], tokens, now)

LEMMA AlikeIsRefused ==
  ASSUME NEW q, NEW p, NEW rowsOf, NEW time, Refused(q, rowsOf, time), p.kind = q.kind,
         p.step = q.step, p.answer = q.answer, p.token = q.token, p.dead = q.dead
  PROVE  Refused(p, rowsOf, time)
BY DEF Refused, Excuse

LEMMA TokensStayRefused ==
  ASSUME NEW q, NEW rowsOf, NEW later, NEW time, NEW then, Refused(q, rowsOf, time),
         q.dead \subseteq DOMAIN rowsOf, DOMAIN rowsOf \subseteq DOMAIN later,
         \A i \in DOMAIN later \ DOMAIN rowsOf :
           /\ later[i].secret \in Secrets
           /\ \A j \in DOMAIN rowsOf : rowsOf[j].secret # later[i].secret,
         \A i \in DOMAIN rowsOf : /\ later[i].prefix = rowsOf[i].prefix /\ later[i].secret = rowsOf[i].secret
                                  /\ later[i].created = rowsOf[i].created
                                  /\ DeadRow(rowsOf[i], time) => DeadRow(later[i], then)
  PROVE  Refused(q, later, then)
<1> SUFFICES ASSUME q.kind = "me" PROVE Refused(q, later, then)
  BY DEF Refused
<1>1. \A i \in DOMAIN rowsOf : PlaintextOf(later[i]) = PlaintextOf(rowsOf[i])
  BY DEF PlaintextOf
<1>2. Known(q.token, later)
  BY <1>1 DEF Refused, Known
<1>3. ASSUME q.step = "answered", q.answer = "401", NEW i \in DOMAIN later,
             q.token = PlaintextOf(later[i])
      PROVE  Excuse(i, q, later, then)
  <2>1. CASE i \in DOMAIN rowsOf
    <3>1. Excuse(i, q, rowsOf, time)
      BY <1>1, <1>3, <2>1 DEF Refused
    <3>2. QED BY <2>1, <3>1 DEF Excuse
  <2>2. CASE i \notin DOMAIN rowsOf
    <3>1. q.token.secret = later[i].secret
      BY <1>3 DEF PlaintextOf
    <3>2. PICK j \in DOMAIN rowsOf : q.token = PlaintextOf(rowsOf[j])
      BY <2>2, <3>1 DEF Refused, Known
    <3>3. rowsOf[j].secret = later[i].secret
      BY <3>1, <3>2 DEF PlaintextOf
    <3>4. QED BY <2>2, <3>3
  <2>3. QED BY <2>1, <2>2
<1>4. QED BY <1>2, <1>3 DEF Refused

LEMMA SetRefused ==
  ASSUME WellFormed, RefusalInv, NEW w \in Workers, NEW q, Set(w, q), UNCHANGED <<tokens, now>>,
         Refused(q, tokens, now)
  PROVE  RefusalInv'
<1>1. \A v \in Workers : req'[v] = IF v = w THEN q ELSE req[v]
  BY DEF Set, WellFormed
<1>2. CreatedInv'
  BY DEF RefusalInv, CreatedInv
<1>3. QED BY <1>1, <1>2 DEF RefusalInv

LEMMA StepRefused == WellFormed /\ WellFormed' /\ HolderInv /\ RefusalInv /\ [Next]_vars => RefusalInv'
<1> SUFFICES ASSUME WellFormed, WellFormed', HolderInv, RefusalInv, [Next]_vars PROVE RefusalInv'
  OBVIOUS
<1>0. \A w \in Workers : /\ DOMAIN req[w] = DOMAIN Request /\ StepsFollowKind(req[w])
                         /\ StepsFollowKind(req'[w]) /\ Refused(req[w], tokens, now)
                         /\ Held(req[w], tokens, now)
  BY DEF WellFormed, RefusalInv, HolderInv
<1>1. ASSUME UNCHANGED vars PROVE RefusalInv'
  BY <1>1 DEF vars, world, RefusalInv, CreatedInv
<1>2. ASSUME NEW w \in Workers, NEW q, Set(w, q), q.kind # "me", UNCHANGED <<tokens, now>> PROVE RefusalInv'
  BY <1>2, SetRefused DEF Refused
<1>3. ASSUME NEW w \in Workers, NEW u, NEW r, NEW query, Visit(w, u, r, query) PROVE RefusalInv'
  <2> DEFINE q == Gate([From(u, "page") EXCEPT !.recipe = r, !.query = query], "row")
  <2>1. q.kind # "me"
    BY DEF Gate, From, Answer, Request
  <2>2. QED BY <1>2, <1>3, <2>1 DEF Visit, world
<1>4. ASSUME NEW w \in Workers, NEW u, VisitIndex(w, u) PROVE RefusalInv'
  <2> DEFINE q == Gate(From(u, "index"), "list")
  <2>1. q.kind # "me"
    BY DEF Gate, From, Answer, Request
  <2>2. QED BY <1>2, <1>4, <2>1 DEF VisitIndex, world
<1>5. ASSUME NEW w \in Workers, ListRows(w) \/ FindRow(w) \/ ReadHead(w) \/ ChooseOptions(w)
                                \/ TouchProbe(w) \/ UnlinkProbe(w)
      PROVE RefusalInv'
  <2>1. req[w].kind # "me"
    BY <1>0, <1>5 DEF ListRows, FindRow, ReadHead, ChooseOptions, TouchProbe, UnlinkProbe, StepsFollowKind
  <2>2. Set(w, req'[w]) /\ req'[w].kind = req[w].kind
    <3> DOMAIN req[w] = DOMAIN Request /\ DOMAIN req = Workers
      BY <1>0 DEF WellFormed
    <3>1. CASE ListRows(w)
      BY <3>1 DEF ListRows, Answer, Request, Set
    <3>2. CASE FindRow(w)
      BY <3>2 DEF FindRow, Answer, Request, Set
    <3>3. CASE ReadHead(w)
      BY <3>3 DEF ReadHead, Request, Set
    <3>4. CASE ChooseOptions(w)
      BY <3>4 DEF ChooseOptions, Answer, Request, Set
    <3>5. CASE TouchProbe(w)
      BY <3>5 DEF TouchProbe, Answer, Request, Set
    <3>6. CASE UnlinkProbe(w)
      BY <3>6 DEF UnlinkProbe, Answer, Request, Set
    <3>7. QED BY <1>5, <3>1, <3>2, <3>3, <3>4, <3>5, <3>6
  <2>3. UNCHANGED <<tokens, now>>
    BY <1>5 DEF ListRows, FindRow, ReadHead, ChooseOptions, TouchProbe, UnlinkProbe, world
  <2>4. QED BY <1>2, <2>1, <2>2, <2>3
<1>6. ASSUME NEW w \in Workers, NEW u, NEW t, CallMe(w, u, t),
             t \in Strangers \cup {NoToken} \cup {Plaintext(i) : i \in DOMAIN tokens}
      PROVE  RefusalInv'
  <2> DEFINE p == [From(u, "me") EXCEPT !.token = t, !.dead = DOMAIN tokens \ Active]
  <2>1. /\ DOMAIN p = DOMAIN Request /\ p.kind = "me" /\ p.token = t /\ p.answer = "none"
    BY DEF From, Request
  <2>2. PICK q : /\ Set(w, q)
                 /\ \/ q \in {Answer(p, "404"), [p EXCEPT !.step = "me"], [p EXCEPT !.step = "lookup"]}
                    \/ q = Answer(p, "401") /\ (t = NoToken \/ Parts(t) # 4)
    BY <1>6 DEF CallMe
  <2>3. /\ q.token = t
        /\ q.step = "answered" /\ q.answer = "401" => t = NoToken \/ Parts(t) # 4
    <3> HIDE DEF p
    <3> QED BY <2>1, <2>2 DEF Answer, Request
  <2>4. Known(t, tokens)
    <3>1. CASE t \in Strangers
      BY <3>1, StrangersAreUnissued DEF Known
    <3>2. CASE t = NoToken
      BY <3>2, NobodyHoldsNothing DEF Known
    <3>3. CASE \E i \in DOMAIN tokens : t = Plaintext(i)
      BY <3>3 DEF Known, Plaintext, PlaintextOf
    <3>4. QED BY <1>6, <3>1, <3>2, <3>3
  <2>5. ASSUME NEW i \in DOMAIN tokens, t = PlaintextOf(tokens[i]), t = NoToken \/ Parts(t) # 4
        PROVE  Pieces[tokens[i].secret] > 1
    <3>1. t.secret = tokens[i].secret
      BY <2>5 DEF PlaintextOf
    <3>2. tokens[i] \in TokenRow
      BY DEF WellFormed
    <3>3. t.secret \in Secrets
      BY <3>1, <3>2 DEF TokenRow
    <3>4. Parts(t) # 4
      BY <2>5, <3>3, NobodyHoldsNothing
    <3>5. Pieces[t.secret] \in Nat \ {0}
      BY <3>3, SecretsAreSplit
    <3>6. QED BY <3>1, <3>4, <3>5 DEF Parts
  <2>6. Refused(q, tokens, now)
    BY <2>3, <2>4, <2>5 DEF Refused, Excuse
  <2>7. QED BY <1>6, <2>2, <2>6, SetRefused DEF CallMe, world
<1>7. ASSUME NEW w \in Workers, Authenticate(w) PROVE RefusalInv'
  <2> DEFINE matching == {i \in Active : tokens[i].prefix = req[w].token.prefix}
  <2>1. req[w].step = "lookup" /\ req[w].kind = "me" /\ Known(req[w].token, tokens)
    BY <1>0, <1>7 DEF Authenticate, StepsFollowKind, Refused
  <2>2. ASSUME Set(w, Answer(req[w], "401")),
               \/ Newest(matching) = {}
               \/ \E c \in Newest(matching) : ~Matches(c, req[w].token)
        PROVE  RefusalInv'
    <3> DEFINE q == Answer(req[w], "401")
    <3>1. q.token = req[w].token /\ q.dead = req[w].dead
      BY <1>0 DEF Answer, Request
    <3>2. ASSUME NEW i \in DOMAIN tokens, q.token = PlaintextOf(tokens[i]), ~DeadRow(tokens[i], now)
          PROVE  Excuse(i, q, tokens, now)
      <4>1. i \in matching /\ matching \in SUBSET DOMAIN tokens
        BY <3>1, <3>2, ActiveIsNotDead DEF Active, PlaintextOf
      <4>2. Newest(matching) # {}
        BY <4>1, SomeoneIsNewest DEF RefusalInv
      <4>3. PICK c \in Newest(matching) : ~Matches(c, req[w].token)
        BY <2>2, <4>2
      <4>4. /\ c \in Active /\ tokens[c].prefix = tokens[i].prefix
            /\ tokens[c].created >= tokens[i].created
        BY <3>1, <3>2, <4>1, <4>3 DEF Newest, PlaintextOf
      <4>5. c # i
        BY <3>1, <3>2, <4>3 DEF Matches, PlaintextOf
      <4>6. c \in DOMAIN tokens \ (q.dead \cup {i})
        BY <1>0, <3>1, <4>4, <4>5, ActiveIsNotDead DEF Held, Active
      <4>7. QED BY <4>4, <4>6 DEF Excuse
    <3>3. Refused(q, tokens, now)
      BY <2>1, <3>1, <3>2 DEF Refused, Excuse
    <3>4. QED BY <1>7, <2>2, <3>3, SetRefused DEF Authenticate, world
  <2>3. ASSUME NEW i, Set(w, [req[w] EXCEPT !.step = "me", !.user = tokens[i].user])
        PROVE  RefusalInv'
    <3> DEFINE q == [req[w] EXCEPT !.step = "me", !.user = tokens[i].user]
    <3>1. q.token = req[w].token /\ q.step = "me"
      BY <1>0 DEF Request
    <3>2. Refused(q, tokens, now)
      BY <2>1, <3>1 DEF Refused
    <3>3. QED BY <1>7, <2>3, <3>2, SetRefused DEF Authenticate, world
  <2>4. QED BY <1>7, <2>2, <2>3 DEF Authenticate
<1>8. ASSUME NEW w \in Workers, AnswerMe(w) PROVE RefusalInv'
  <2> DEFINE q == [Answer(req[w], "ok") EXCEPT !.options = {Stored(req[w].user)}]
  <2>1. req[w].step = "me" /\ req[w].kind = "me" /\ Known(req[w].token, tokens)
    BY <1>0, <1>8 DEF AnswerMe, StepsFollowKind, Refused
  <2>2. q.token = req[w].token /\ q.answer = "ok"
    BY <1>0 DEF Answer, Request
  <2>3. Refused(q, tokens, now)
    BY <2>1, <2>2 DEF Refused
  <2>4. QED BY <1>8, <2>3, SetRefused DEF AnswerMe, world
<1>9. ASSUME NEW w \in Workers, NEW u, NEW b, CallHealth(w, u, b) PROVE RefusalInv'
  <2> DEFINE trouble == ~database \/ ~writable
             alone   == \A v \in Workers \ {w} : ~Probing(v)
             p == [From(u, "health") EXCEPT !.bearer = b, !.trouble = trouble, !.alone = alone]
  <2>1. p.kind = "health" /\ DOMAIN p = DOMAIN Request
    <3> HIDE DEF trouble, alone
    <3> QED BY DEF From, Request
  <2>2. req'[w] \in {Answer(p, "raised"), Answer(p, "404"), [p EXCEPT !.step = "probe"], Answer(p, "401")}
    BY <1>9 DEF CallHealth
  <2>3. Refused(req'[w], tokens, now)
    <3> HIDE DEF p
    <3>1. req'[w].kind = "health"
      BY <2>1, <2>2 DEF Answer, Request
    <3>2. QED BY <3>1 DEF Refused
  <2>4. ASSUME NEW v \in Workers \ {w} PROVE Refused(req'[v], tokens, now)
    <3> DEFINE x == req[v].alone /\ ~Probing(v)
    <3>1. req'[v] = [req[v] EXCEPT !.alone = x]
      BY <1>9 DEF CallHealth
    <3> HIDE DEF x
    <3>2. QED BY <3>1, <1>0, AlikeIsRefused DEF Request
  <2>5. UNCHANGED <<tokens, now>>
    BY <1>9 DEF CallHealth, world
  <2>6. CreatedInv'
    BY <2>5 DEF RefusalInv, CreatedInv
  <2>7. QED BY <2>3, <2>4, <2>5, <2>6 DEF RefusalInv
<1>10. ASSUME NEW w \in Workers, Killed(w) PROVE RefusalInv'
  <2>1. Request.kind # "me"
    BY DEF Request
  <2>2. QED BY <1>2, <1>10, <2>1 DEF Killed, world
<1>11. ASSUME NEW u, NEW p, NEW s \in Secrets, NEW life, Issue(u, p, s, life) PROVE RefusalInv'
  <2>1. /\ Len(tokens) \in Nat /\ DOMAIN tokens = 1..Len(tokens)
        /\ DOMAIN tokens' = 1..(Len(tokens) + 1)
        /\ \A i \in DOMAIN tokens : tokens'[i] = tokens[i]
        /\ tokens'[Len(tokens) + 1].secret = s
        /\ tokens'[Len(tokens) + 1].created = now
        /\ \A i \in DOMAIN tokens : tokens[i].secret # s
    BY <1>11 DEF Issue, WellFormed
  <2>2. now' = now /\ req' = req /\ now \in Int
    BY <1>11 DEF Issue, WellFormed
  <2>3. CreatedInv'
    BY <2>1, <2>2 DEF RefusalInv, CreatedInv
  <2>4. ASSUME NEW w \in Workers PROVE Refused(req[w], tokens', now)
    <3>1. \A i \in DOMAIN tokens' \ DOMAIN tokens : i = Len(tokens) + 1
      BY <2>1
    <3>2. \A i \in DOMAIN tokens' \ DOMAIN tokens :
            /\ tokens'[i].secret \in Secrets
            /\ \A j \in DOMAIN tokens : tokens[j].secret # tokens'[i].secret
      BY <2>1, <3>1
    <3>3. DOMAIN tokens \subseteq DOMAIN tokens'
      BY <2>1
    <3>4. \A i \in DOMAIN tokens : /\ tokens'[i].prefix = tokens[i].prefix
                                   /\ tokens'[i].secret = tokens[i].secret
                                   /\ tokens'[i].created = tokens[i].created
                                   /\ DeadRow(tokens[i], now) => DeadRow(tokens'[i], now)
      BY <2>1
    <3>5. Refused(req[w], tokens, now) /\ req[w].dead \subseteq DOMAIN tokens
      BY <1>0 DEF Held
    <3>6. QED BY <3>2, <3>3, <3>4, <3>5, TokensStayRefused
  <2>5. QED BY <2>2, <2>3, <2>4 DEF RefusalInv
<1>12. ASSUME NEW i \in DOMAIN tokens, Revoke(i) PROVE RefusalInv'
  <2>1. \A j \in DOMAIN tokens : tokens[j] \in TokenRow
    BY DEF WellFormed
  <2>2. /\ DOMAIN tokens' = DOMAIN tokens /\ now' = now /\ req' = req
        /\ \A j \in DOMAIN tokens \ {i} : tokens'[j] = tokens[j]
        /\ tokens'[i] = [tokens[i] EXCEPT !.revoked = TRUE]
    BY <1>12 DEF Revoke
  <2>3. \A j \in DOMAIN tokens :
          /\ tokens'[j].prefix = tokens[j].prefix /\ tokens'[j].secret = tokens[j].secret
          /\ tokens'[j].created = tokens[j].created
          /\ DeadRow(tokens[j], now) => DeadRow(tokens'[j], now)
    BY <2>1, <2>2 DEF DeadRow, TokenRow
  <2>4. \A w \in Workers : Refused(req[w], tokens', now)
    BY <1>0, <2>2, <2>3, TokensStayRefused DEF Held
  <2>5. QED BY <2>2, <2>3, <2>4 DEF RefusalInv, CreatedInv
<1>13. CASE Tick
  <2>1. now' = now + 1 /\ now \in Int /\ UNCHANGED <<tokens, req>>
    BY <1>13 DEF Tick, WellFormed
  <2>2. \A j \in DOMAIN tokens : DeadRow(tokens[j], now) => DeadRow(tokens[j], now + 1)
    <3> SUFFICES ASSUME NEW j \in DOMAIN tokens, DeadRow(tokens[j], now)
                 PROVE  DeadRow(tokens[j], now + 1)
      OBVIOUS
    <3>1. tokens[j] \in TokenRow
      BY DEF WellFormed
    <3>2. tokens[j].expires \in Int
      BY <3>1 DEF TokenRow
    <3>3. QED BY <2>1, <3>2 DEF DeadRow
  <2>3. \A w \in Workers : Refused(req[w], tokens, now + 1)
    BY <1>0, <2>2, TokensStayRefused DEF Held
  <2>4. CreatedInv'
    BY <2>1 DEF RefusalInv, CreatedInv
  <2>5. QED BY <2>1, <2>3, <2>4 DEF RefusalInv
<1>14. ASSUME NEW u, RemoveAccount(u) PROVE RefusalInv'
  <2>1. \A j \in DOMAIN tokens : tokens[j] \in TokenRow
    BY DEF WellFormed
  <2>2. DOMAIN tokens' = DOMAIN tokens /\ now' = now
    BY <1>14 DEF RemoveAccount
  <2>3. ASSUME NEW j \in DOMAIN tokens
        PROVE  /\ tokens'[j].prefix = tokens[j].prefix /\ tokens'[j].secret = tokens[j].secret
               /\ tokens'[j].created = tokens[j].created
               /\ DeadRow(tokens[j], now) => DeadRow(tokens'[j], now)
    <3> DEFINE gone == tokens[j].gone \/ tokens[j].user = u
    <3>1. tokens'[j] = [tokens[j] EXCEPT !.gone = gone]
      BY <1>14 DEF RemoveAccount
    <3>2. tokens[j].gone => gone
      OBVIOUS
    <3> HIDE DEF gone
    <3>3. QED BY <2>1, <3>1, <3>2 DEF DeadRow, TokenRow
  <2>4. \A w \in Workers : Refused(req[w], tokens', now)
    BY <1>0, <2>2, <2>3, TokensStayRefused DEF Held
  <2>5. ASSUME NEW w \in Workers PROVE Refused(req'[w], tokens', now)
    <3>1. req'[w] = [req[w] EXCEPT !.fresh = FALSE]
      BY <1>14 DEF RemoveAccount
    <3>2. QED BY <1>0, <2>4, <3>1, AlikeIsRefused DEF Request
  <2>6. QED BY <2>2, <2>3, <2>5 DEF RefusalInv, CreatedInv
<1>15. ASSUME NEW r, NEW v, CommitHead(r, v) \/ ProjectHead(r) \/ Outage PROVE RefusalInv'
  <2>1. UNCHANGED <<tokens, now>>
    BY <1>15 DEF CommitHead, ProjectHead, Outage
  <2>2. ASSUME NEW w \in Workers PROVE Refused(req'[w], tokens, now)
    <3>1. \/ req'[w] = [req[w] EXCEPT !.fresh = FALSE]
          \/ req'[w] = [req[w] EXCEPT !.trouble = TRUE]
      BY <1>15 DEF CommitHead, ProjectHead, Outage
    <3>2. QED BY <1>0, <3>1, AlikeIsRefused DEF Request
  <2>3. QED BY <2>1, <2>2 DEF RefusalInv, CreatedInv
<1>16. QED
  BY <1>1, <1>3, <1>4, <1>5, <1>6, <1>7, <1>8, <1>9, <1>10, <1>11, <1>12, <1>13, <1>14, <1>15
     DEF Next, Environment, Call, Serve

(* A token that was handed out is refused only for a reason: its secret      *)
(* holds "_", it is dead, or a row no older has its prefix; with any number  *)
(* of tokens issued, revoked and expired while the request is under way.     *)
THEOREM RefusalsHaveReasons == Spec => []RefusalsAreExplained
<1>1. Init => WellFormed /\ HolderInv /\ RefusalInv
  <2>1. Request.kind = "none"
    BY DEF Request
  <2>2. QED BY <2>1, InitWellFormed, NothingIsHeld DEF Init, HolderInv, RefusalInv, CreatedInv, Refused
<1>2. WellFormed /\ HolderInv /\ RefusalInv /\ [Next]_vars => (WellFormed /\ HolderInv /\ RefusalInv)'
  BY StepWellFormed, StepHeld, StepRefused
<1>3. WellFormed /\ RefusalInv => RefusalsAreExplained
  BY ActiveIsNotDead DEF RefusalInv, Refused, Excuse, RefusalsAreExplained, Answered, Active,
     Plaintext, PlaintextOf
<1>4. QED BY <1>1, <1>2, <1>3, PTL DEF Spec

-----------------------------------------------------------------------------
Viewed(q, people) ==
  q.kind = "page" =>
    /\ q.query \in Queries
    /\ q.step # "answered" => q.options = {}
    /\ q.step = "answered" =>
         /\ q.answer = "raised" => q.query.scale.kind = "nan"
         /\ \A o \in q.options : Serves(o, q.query, q.user, people)

ViewInv == \A w \in Workers : Viewed(req[w], accounts)

LEMMA ScalesAre ==
  /\ MaxScale \in Int /\ MaxScale > 100
  /\ \A n \in Int : n > 0 /\ n =< MaxScale => n \in Scales
<1>1. MaxScale \in Int /\ MaxScale > 100
  BY DEF MaxScale
<1> QED
  BY <1>1 DEF Scales

LEMMA ScaleIsBounded == ASSUME NEW s, s.value \in Int PROVE ParseScale(s) \in Scales
<1>1. ASSUME s.kind = "number", s.value > 0, s.value =< MaxScale PROVE ParseScale(s) \in Scales
  <2> DEFINE n == s.value
  <2>1. ParseScale(s) = n
    BY <1>1, ScalesAre DEF ParseScale
  <2>2. n \in Int /\ n > 0 /\ n =< MaxScale
    BY <1>1
  <2> QED
    BY <2>1, <2>2, ScalesAre
<1>2. ASSUME s.kind = "number", s.value > MaxScale PROVE ParseScale(s) \in Scales
  <2>1. ParseScale(s) = MaxScale
    BY <1>2, ScalesAre DEF ParseScale
  <2> QED
    BY <2>1, ScalesAre
<1>3. ASSUME ~(s.kind = "number" /\ s.value > 0) PROVE ParseScale(s) \in Scales
  <2>1. ParseScale(s) = 100
    BY <1>3 DEF ParseScale
  <2> QED
    BY <2>1, ScalesAre
<1>4. s.value =< MaxScale \/ s.value > MaxScale
  BY ScalesAre
<1> QED
  BY <1>1, <1>2, <1>3, <1>4

LEMMA AnyQueryIsServed ==
  ASSUME NEW query \in Queries, NEW u
  PROVE  Serves(OptionsFor(query, Stored(u)), query, u, accounts)
<1> DEFINE o == OptionsFor(query, Stored(u))
<1>1. query.scale.value \in Int
  BY NumbersAreInt
<1>2. /\ o.lang = IF query.lang \in Langs THEN query.lang
                  ELSE IF Stored(u).lang \in Langs THEN Stored(u).lang ELSE "en"
      /\ o.system = IF query.system \in Systems THEN query.system
                    ELSE IF query.system = "" /\ Stored(u).system \in Systems THEN Stored(u).system
                    ELSE "metric"
      /\ o.scale = ParseScale(query.scale)
  BY DEF OptionsFor
<1> HIDE DEF o
<1>3. o.lang \in Langs
  BY <1>2 DEF Langs
<1>4. o.system \in Systems
  BY <1>2 DEF Systems
<1>5. o.scale \in Scales
  <2>1. ParseScale(query.scale) \in Scales
    BY <1>1, ScaleIsBounded, Zenon
  <2>2. o.scale = ParseScale(query.scale)
    BY <1>2
  <2>3. QED BY <2>1, <2>2, Zenon
<1>6. ASSUME query = NoQuery, u \in accounts \cap DOMAIN PrefsOf
      PROVE  /\ PrefsOf[u].lang \in Langs => o.lang = PrefsOf[u].lang
             /\ PrefsOf[u].system \in Systems => o.system = PrefsOf[u].system
  <2>1. Stored(u) = PrefsOf[u]
    BY <1>6 DEF Stored
  <2>2. query.lang = "" /\ query.system = ""
    BY <1>6 DEF NoQuery
  <2>3. "" \notin Langs /\ "" \notin Systems
    BY DEF Langs, Systems
  <2>4. PrefsOf[u].lang \in Langs => o.lang = PrefsOf[u].lang
    BY <1>2, <2>1, <2>2, <2>3
  <2>5. PrefsOf[u].system \in Systems => o.system = PrefsOf[u].system
    BY <1>2, <2>1, <2>2, <2>3
  <2>6. QED BY <2>4, <2>5
<1>7. Serves(o, query, u, accounts)
  BY <1>3, <1>4, <1>5, <1>6 DEF Serves
<1>8. QED BY <1>7 DEF o

LEMMA AlikeIsViewed ==
  ASSUME NEW q, NEW p, NEW people, NEW later, Viewed(q, people), later \subseteq people,
         p.kind = q.kind, p.step = q.step, p.answer = q.answer, p.query = q.query,
         p.options = q.options, p.user = q.user
  PROVE  Viewed(p, later)
BY DEF Viewed, Serves

LEMMA SetViewed ==
  ASSUME WellFormed, ViewInv, NEW w \in Workers, NEW q, Set(w, q), accounts' = accounts,
         Viewed(q, accounts)
  PROVE  ViewInv'
<1>1. \A v \in Workers : req'[v] = IF v = w THEN q ELSE req[v]
  BY DEF Set, WellFormed
<1>2. QED BY <1>1 DEF ViewInv

LEMMA StepViewed == WellFormed /\ ViewInv /\ [Next]_vars => ViewInv'
<1> SUFFICES ASSUME WellFormed, ViewInv, [Next]_vars PROVE ViewInv'
  OBVIOUS
<1>0. \A w \in Workers : /\ DOMAIN req[w] = DOMAIN Request /\ StepsFollowKind(req[w])
                         /\ Viewed(req[w], accounts)
  BY DEF WellFormed, ViewInv
<1>1. ASSUME UNCHANGED vars \/ UNCHANGED <<accounts, req>> PROVE ViewInv'
  BY <1>1 DEF vars, world, ViewInv
<1>2. ASSUME NEW w \in Workers, NEW q, Set(w, q), q.kind # "page", accounts' = accounts PROVE ViewInv'
  BY <1>2, SetViewed DEF Viewed
<1>3. ASSUME NEW w \in Workers, NEW u, NEW r, NEW query \in Queries, Visit(w, u, r, query) PROVE ViewInv'
  <2> DEFINE p == [From(u, "page") EXCEPT !.recipe = r, !.query = query]
             q == Gate(p, "row")
  <2>1. /\ DOMAIN p = DOMAIN Request /\ p.kind = "page" /\ p.query = query /\ p.options = {}
    BY DEF From, Request
  <2>2. q.query = query /\ q.options = {} /\ (q.step = "answered" => q.answer = "redirect")
    <3> HIDE DEF p
    <3> QED BY <2>1 DEF Gate, Answer, Request
  <2>3. Viewed(q, accounts)
    BY <2>2 DEF Viewed
  <2>4. QED BY <1>3, <2>3, SetViewed DEF Visit, world
<1>4. ASSUME NEW w \in Workers, NEW u, VisitIndex(w, u) PROVE ViewInv'
  <2> DEFINE q == Gate(From(u, "index"), "list")
  <2>1. q.kind # "page"
    BY DEF Gate, From, Answer, Request
  <2>2. QED BY <1>2, <1>4, <2>1 DEF VisitIndex, world
<1>5. ASSUME NEW w \in Workers, ListRows(w) \/ Authenticate(w) \/ AnswerMe(w)
                                \/ TouchProbe(w) \/ UnlinkProbe(w)
      PROVE ViewInv'
  <2>1. req[w].kind # "page"
    BY <1>0, <1>5 DEF ListRows, Authenticate, AnswerMe, TouchProbe, UnlinkProbe, StepsFollowKind
  <2>2. Set(w, req'[w]) /\ req'[w].kind = req[w].kind
    <3> DOMAIN req[w] = DOMAIN Request /\ DOMAIN req = Workers
      BY <1>0 DEF WellFormed
    <3>1. CASE ListRows(w)
      BY <3>1 DEF ListRows, Answer, Request, Set
    <3>2. CASE Authenticate(w)
      BY <3>2, ZenonT(60) DEF Authenticate, Answer, Request, Set
    <3>3. CASE AnswerMe(w)
      BY <3>3 DEF AnswerMe, Answer, Request, Set
    <3>4. CASE TouchProbe(w)
      BY <3>4 DEF TouchProbe, Answer, Request, Set
    <3>5. CASE UnlinkProbe(w)
      BY <3>5 DEF UnlinkProbe, Answer, Request, Set
    <3>6. QED BY <1>5, <3>1, <3>2, <3>3, <3>4, <3>5
  <2>3. accounts' = accounts
    BY <1>5 DEF ListRows, Authenticate, AnswerMe, TouchProbe, UnlinkProbe, world
  <2>4. QED BY <1>2, <2>1, <2>2, <2>3
<1>6. ASSUME NEW w \in Workers, FindRow(w) \/ ReadHead(w) PROVE ViewInv'
  <2>1. /\ req[w].kind = "page" /\ req[w].options = {} /\ req[w].query \in Queries
    BY <1>0, <1>6 DEF FindRow, ReadHead, StepsFollowKind, Viewed
  <2>2. /\ Set(w, req'[w]) /\ req'[w].kind = "page" /\ req'[w].options = {}
        /\ req'[w].query = req[w].query
        /\ req'[w].step = "answered" => req'[w].answer = "404"
    <3> DOMAIN req[w] = DOMAIN Request /\ DOMAIN req = Workers
      BY <1>0 DEF WellFormed
    <3>1. CASE FindRow(w)
      BY <2>1, <3>1 DEF FindRow, Answer, Request, Set
    <3>2. CASE ReadHead(w)
      BY <2>1, <3>2 DEF ReadHead, Request, Set
    <3>3. QED BY <1>6, <3>1, <3>2
  <2>3. Viewed(req'[w], accounts)
    BY <2>1, <2>2 DEF Viewed
  <2>4. QED BY <1>6, <2>2, <2>3, SetViewed DEF FindRow, ReadHead, world
<1>7. ASSUME NEW w \in Workers, ChooseOptions(w) PROVE ViewInv'
  <2> DEFINE o == OptionsFor(req[w].query, Stored(req[w].user))
  <2>1. /\ req[w].kind = "page" /\ req[w].options = {} /\ req[w].query \in Queries
    BY <1>0, <1>7 DEF ChooseOptions, StepsFollowKind, Viewed
  <2>2. Serves(o, req[w].query, req[w].user, accounts)
    BY <2>1, AnyQueryIsServed
  <2>3. Set(w, req'[w]) /\ \/ req[w].query.scale.kind = "nan" /\ req'[w] = Answer(req[w], "raised")
                           \/ req'[w] = [Answer(req[w], "ok") EXCEPT !.options = {o}]
    BY <1>7 DEF ChooseOptions, WellFormed, Set
  <2> HIDE DEF o
  <2>4. /\ req'[w].kind = "page" /\ req'[w].query = req[w].query /\ req'[w].user = req[w].user
        /\ req'[w].options \subseteq {o} /\ req'[w].step = "answered"
        /\ req'[w].answer = "raised" => req[w].query.scale.kind = "nan"
    BY <1>0, <2>1, <2>3 DEF Answer, Request
  <2>5. Viewed(req'[w], accounts)
    BY <2>1, <2>2, <2>4 DEF Viewed
  <2>6. QED BY <1>7, <2>3, <2>5, SetViewed DEF ChooseOptions, world
<1>8. ASSUME NEW w \in Workers, NEW u, NEW t, CallMe(w, u, t) PROVE ViewInv'
  <2> DEFINE p == [From(u, "me") EXCEPT !.token = t, !.dead = DOMAIN tokens \ Active]
  <2>1. DOMAIN p = DOMAIN Request /\ p.kind = "me"
    BY DEF From, Request
  <2>2. PICK q : Set(w, q) /\ q \in {Answer(p, "404"), [p EXCEPT !.step = "me"], Answer(p, "401"),
                                     [p EXCEPT !.step = "lookup"]}
    BY <1>8 DEF CallMe
  <2>3. q.kind # "page"
    <3> HIDE DEF p
    <3> QED BY <2>1, <2>2 DEF Answer, Request
  <2>4. QED BY <1>2, <1>8, <2>2, <2>3 DEF CallMe, world
<1>9. ASSUME NEW w \in Workers, NEW u, NEW b, CallHealth(w, u, b) PROVE ViewInv'
  <2> DEFINE trouble == ~database \/ ~writable
             alone   == \A v \in Workers \ {w} : ~Probing(v)
             p == [From(u, "health") EXCEPT !.bearer = b, !.trouble = trouble, !.alone = alone]
  <2>1. p.kind = "health" /\ DOMAIN p = DOMAIN Request
    <3> HIDE DEF trouble, alone
    <3> QED BY DEF From, Request
  <2>2. req'[w] \in {Answer(p, "raised"), Answer(p, "404"), [p EXCEPT !.step = "probe"], Answer(p, "401")}
    BY <1>9 DEF CallHealth
  <2>3. Viewed(req'[w], accounts)
    <3> HIDE DEF p
    <3>1. req'[w].kind = "health"
      BY <2>1, <2>2 DEF Answer, Request
    <3>2. QED BY <3>1 DEF Viewed
  <2>4. ASSUME NEW v \in Workers \ {w} PROVE Viewed(req'[v], accounts)
    <3> DEFINE x == req[v].alone /\ ~Probing(v)
    <3>1. req'[v] = [req[v] EXCEPT !.alone = x]
      BY <1>9 DEF CallHealth
    <3> HIDE DEF x
    <3>2. QED BY <3>1, <1>0, AlikeIsViewed DEF Request
  <2>5. accounts' = accounts
    BY <1>9 DEF CallHealth, world
  <2>6. QED BY <2>3, <2>4, <2>5 DEF ViewInv
<1>10. ASSUME NEW w \in Workers, Killed(w) PROVE ViewInv'
  <2>1. Request.kind # "page"
    BY DEF Request
  <2>2. QED BY <1>2, <1>10, <2>1 DEF Killed, world
<1>11. ASSUME NEW u, NEW r, NEW v, RemoveAccount(u) \/ CommitHead(r, v) \/ ProjectHead(r) \/ Outage
       PROVE  ViewInv'
  <2>1. accounts' \subseteq accounts
    BY <1>11 DEF RemoveAccount, CommitHead, ProjectHead, Outage
  <2>2. ASSUME NEW w \in Workers PROVE Viewed(req'[w], accounts')
    <3>1. \/ req'[w] = [req[w] EXCEPT !.fresh = FALSE]
          \/ req'[w] = [req[w] EXCEPT !.trouble = TRUE]
      BY <1>11 DEF RemoveAccount, CommitHead, ProjectHead, Outage
    <3>2. QED BY <1>0, <2>1, <3>1, AlikeIsViewed DEF Request
  <2>3. QED BY <2>2 DEF ViewInv
<1>12. ASSUME NEW u, NEW p, NEW s, NEW life, NEW i, Issue(u, p, s, life) \/ Revoke(i) \/ Tick PROVE ViewInv'
  BY <1>12, <1>1 DEF Issue, Revoke, Tick
<1>13. QED
  BY <1>1, <1>3, <1>4, <1>5, <1>6, <1>7, <1>8, <1>9, <1>10, <1>11, <1>12 DEF Next, Environment, Call, Serve

(* Whatever a reader asks for, the page raises only for a scale that is not  *)
(* a number; else it has options it can render, the reader's own where the   *)
(* page supports them and the query says nothing else.                      *)
THEOREM ReadersGetTheirView == Spec => []ReaderGetsTheirView
<1>1. Init => WellFormed /\ ViewInv
  <2>1. Request.kind = "none"
    BY DEF Request
  <2>2. QED BY <2>1, InitWellFormed DEF Init, ViewInv, Viewed
<1>2. WellFormed /\ ViewInv /\ [Next]_vars => (WellFormed /\ ViewInv)'
  BY StepWellFormed, StepViewed
<1>3. ASSUME ViewInv, NEW w \in Workers, Answered(w, "page")
      PROVE  LET q == req[w] IN
             /\ q.answer = "raised" => q.query.scale.kind = "nan"
             /\ \A o \in q.options : Serves(o, q.query, q.user, accounts)
  <2> DEFINE q == req[w]
  <2>1. q.kind = "page" /\ q.step = "answered"
    BY <1>3 DEF Answered
  <2>2. Viewed(q, accounts)
    BY <1>3 DEF ViewInv
  <2> HIDE DEF q
  <2>3. /\ q.answer = "raised" => q.query.scale.kind = "nan"
        /\ \A o \in q.options : Serves(o, q.query, q.user, accounts)
    BY <2>1, <2>2 DEF Viewed
  <2> QED
    BY <2>3 DEF q
<1>4. ViewInv => ReaderGetsTheirView
  BY <1>3 DEF ReaderGetsTheirView
<1>5. QED BY <1>1, <1>2, <1>4, PTL DEF Spec

=============================================================================
