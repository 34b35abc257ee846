------------------------------ MODULE Requests ------------------------------
(***************************************************************************)
(* What the web application does with a request (apps/web): the login gate *)
(* and the recipe pages, the product API behind sessions and personal      *)
(* access tokens, and the ops API behind a staff session or one token.     *)
(*                                                                         *)
(* Every worker serves its own request; each database query, store read    *)
(* and file operation is a step, and between two of them accounts are      *)
(* deleted, tokens expire or are revoked, recipes are committed and        *)
(* projected.  The surfaces share only the accounts, so one behaviour      *)
(* serves one surface.  The store is the atomic one of RecipeStore.tla; of *)
(* a version and of its catalog row the number and the visibility are      *)
(* kept.  A hash stands for its secret: SHA-256 is taken as injective.     *)
(***************************************************************************)
EXTENDS Integers, Sequences, FiniteSets

CONSTANTS Workers,       \* processes that serve requests
          Surfaces,      \* the surfaces served: "pages", "product", "ops"
          Users, Staff,  \* accounts at first, and those with is_staff
          OwnerOf,       \* [recipe -> the account of its author]
          Prefixes,      \* what token_hex(4) may return
          Secrets,       \* what token_urlsafe(32) may return
          Pieces,        \* [secret -> into how many pieces "_" splits it]
          Lifetimes,     \* how long an issued token lives; -1 is for ever
          Strangers,     \* well-formed tokens nobody issued
          PrefsOf,       \* [users with stored preferences -> lang and system]
          Queries,       \* query strings of the recipe page
          Settings,      \* the environments somebody starts the application in
          PageSize,      \* the recipes an index page shows
          MaxServed,     \* [surface -> bound on the requests sent to it]
          MaxTime, MaxTokens, MaxVersion   \* bounds

Recipes == DOMAIN OwnerOf
Anonymous == "anonymous"
NoToken   == [prefix |-> "", secret |-> ""]

ASSUME AnonymousIsNobody == Anonymous \notin Users
ASSUME NobodyHoldsNothing == NoToken.secret \notin Secrets
ASSUME StrangersAreUnissued ==
  \A t \in Strangers : t = [prefix |-> t.prefix, secret |-> t.secret] /\ t.secret \notin Secrets
ASSUME NumbersAreInt == Lifetimes \subseteq Int /\ \A q \in Queries : q.scale.value \in Int
ASSUME SecretsAreSplit ==
  /\ DOMAIN Pieces = Secrets \cup {t.secret : t \in Strangers}
  /\ \A s \in DOMAIN Pieces : Pieces[s] \in Nat \ {0}

VARIABLES surface, settings,    \* chosen at the start
          now, accounts,
          tokens,               \* rows of ApiToken, in the order they were issued
          heads,                \* [recipe -> version and visibility of HEAD]
          rows,                 \* [projected recipe -> its catalog row]
          database, writable,   \* do PostgreSQL and the store's disk work?
          probe,                \* does .write-probe exist?
          req,                  \* [worker -> its request]
          served

world == <<now, accounts, tokens, heads, rows, database, writable, probe>>
vars  == <<surface, settings, world, req, served>>

-----------------------------------------------------------------------------
(* A request: who sends it and with what, how far it is, what was read, and *)
(* the answer.  The last line observes: the tokens that were dead when it  *)
(* began, whether the recipe's row and HEAD agree and nobody wrote, whether *)
(* no other health check ran, whether something was out of order.          *)
NoQuery == [lang |-> "", system |-> "", scale |-> [kind |-> "absent", value |-> 0]]
Request == [kind |-> "none", session |-> Anonymous, token |-> NoToken, bearer |-> "",
            recipe |-> "", query |-> NoQuery,
            step |-> "idle", user |-> Anonymous, shown |-> {}, options |-> {},
            answer |-> "none",
            dead |-> {}, fresh |-> TRUE, alone |-> TRUE, trouble |-> FALSE]

(* The boot guard of settings.py: an enabled ops API needs a strong token.  *)
BootsAnyway(s) == TRUE
Boots(s) == s.ops => s.opsToken = "strong"

HeadsAtFirst == [Recipes -> [version : {1}, visibility : {"private", "unlisted", "public"}]]
RowOf(r) == [owner |-> OwnerOf[r], version |-> heads[r].version, visibility |-> heads[r].visibility]

Init ==
  /\ surface \in Surfaces /\ settings \in {s \in Settings : Boots(s)}
  /\ now = 1 /\ accounts = Users /\ tokens = <<>>
  /\ \/ surface = "pages" /\ heads \in HeadsAtFirst
     \/ surface # "pages" /\ heads = [r \in Recipes |-> [version |-> 1, visibility |-> "public"]]
  /\ rows = [r \in Recipes |-> RowOf(r)]
  /\ database = TRUE /\ writable = TRUE /\ probe = FALSE
  /\ req = [w \in Workers |-> Request] /\ served = 0

Set(w, changes) == req' = [req EXCEPT ![w] = changes]
Answer(q, a)    == [q EXCEPT !.step = "answered", !.answer = a]
Running(w)      == req[w].step \notin {"idle", "answered"}
Free(w)         == ~Running(w) /\ served < MaxServed[surface]

(* AuthenticationMiddleware: the session's user, if the account exists.    *)
SessionUser(u) == IF u \in accounts THEN u ELSE Anonymous
From(u, kind)  == [Request EXCEPT !.kind = kind, !.session = SessionUser(u), !.user = SessionUser(u)]

-----------------------------------------------------------------------------
(* catalog/access.py.                                                      *)
Owns(u, row) == u # Anonymous /\ row.owner = u

(* Fault: a link opens what is public and what one owns, not the unlisted.  *)
ListedOnly(u)  == {r \in DOMAIN rows : rows[r].visibility = "public" \/ Owns(u, rows[r])}

Visible(u)     == {r \in DOMAIN rows : rows[r].visibility = "public" \/ Owns(u, rows[r])}
Addressable(u) == {r \in DOMAIN rows : rows[r].visibility \in {"public", "unlisted"} \/ Owns(u, rows[r])}

(* A page is asked for: LoginRequiredMiddleware sends the anonymous away.   *)
Gate(q, step) == IF q.user = Anonymous THEN Answer(q, "redirect") ELSE [q EXCEPT !.step = step]

Visit(w, u, r, query) ==
  /\ surface = "pages" /\ Free(w)
  /\ Set(w, Gate([From(u, "page") EXCEPT !.recipe = r, !.query = query], "row"))
  /\ served' = served + 1
  /\ UNCHANGED <<surface, settings, world>>

VisitIndex(w, u) ==
  /\ surface = "pages" /\ Free(w)
  /\ Set(w, Gate(From(u, "index"), "list"))
  /\ served' = served + 1
  /\ UNCHANGED <<surface, settings, world>>

Current(r) == r \in DOMAIN rows /\ rows[r].version = heads[r].version

(* index: the first PageSize visible rows; which come first is left open.   *)
ListRows(w) ==
  /\ req[w].step = "list"
  /\ \E page \in SUBSET Visible(req[w].user) :
       /\ Cardinality(page) =< PageSize
       /\ page = Visible(req[w].user) \/ Cardinality(page) = PageSize
       /\ Set(w, [Answer(req[w], "ok") EXCEPT !.shown = page, !.fresh = @ /\ \A r \in page : Current(r)])
  /\ UNCHANGED <<surface, settings, world, served>>

(* get_recipe_or_404 ...                                                   *)
FindRow(w) ==
  LET q == [req[w] EXCEPT !.fresh = @ /\ Current(req[w].recipe)] IN
  /\ req[w].step = "row"
  /\ Set(w, IF q.recipe \in Addressable(q.user) THEN [q EXCEPT !.step = "head"] ELSE Answer(q, "404"))
  /\ UNCHANGED <<surface, settings, world, served>>

(* ... and head_recipe, which reads the store and not the row.             *)
ReadHead(w) ==
  /\ req[w].step = "head"
  /\ Set(w, [req[w] EXCEPT !.step = "options", !.shown = {heads[req[w].recipe].version}])
  /\ UNCHANGED <<surface, settings, world, served>>

Langs   == {"en", "de"}
Systems == {"metric", "us"}
Stored(u) == IF u \in accounts \cap DOMAIN PrefsOf THEN PrefsOf[u] ELSE [lang |-> "en", system |-> "metric"]

(* Fault: no upper limit.                                                  *)
ScaleUnlimited(s) == IF s.kind = "number" /\ s.value > 0 THEN s.value ELSE 100

MaxScale == 100 * 100   \* _MAX_SCALE, in hundredths

(* _parse_scale, in hundredths, at most a hundredfold.                     *)
ParseScale(s) ==
  IF s.kind = "number" /\ s.value > 0 THEN (IF s.value > MaxScale THEN MaxScale ELSE s.value) ELSE 100

(* _options_from_request.  Comparing the NaN that Decimal("nan") returns    *)
(* with 0 raises, outside of the try.                                      *)
OptionsFor(query, prefs) ==
  [lang |-> IF query.lang \in Langs THEN query.lang
            ELSE IF prefs.lang \in Langs THEN prefs.lang ELSE "en",
   system |-> IF query.system \in Systems THEN query.system
              ELSE IF query.system = "" /\ prefs.system \in Systems THEN prefs.system ELSE "metric",
   scale |-> ParseScale(query.scale)]

ChooseOptions(w) ==
  LET q == req[w] IN
  /\ q.step = "options"
  /\ Set(w, IF q.query.scale.kind = "nan" THEN Answer(q, "raised")
            ELSE [Answer(q, "ok") EXCEPT !.options = {OptionsFor(q.query, Stored(q.user))}])
  /\ UNCHANGED <<surface, settings, world, served>>

-----------------------------------------------------------------------------
(* ApiToken: active() keeps what is not revoked and does not expire before  *)
(* now; the rows of a deleted account are gone.                            *)
ActiveRow(t) == ~t.gone /\ ~t.revoked /\ (t.expires = 0 \/ t.expires >= now)
Active == {i \in DOMAIN tokens : ActiveRow(tokens[i])}

Plaintext(i) == [prefix |-> tokens[i].prefix, secret |-> tokens[i].secret]

(* Fault: no ordering.                                                     *)
OldestFirst(matching) == {i \in matching : \A j \in matching : tokens[i].created =< tokens[j].created}

(* first() under Meta.ordering, "-created_at"; a tie is left open.          *)
Newest(matching) == {i \in matching : \A j \in matching : tokens[i].created >= tokens[j].created}

(* authenticate splits "snck_pat_<prefix>_<secret>" and wants four parts.   *)
Parts(t) == 3 + Pieces[t.secret]

(* Fault: the row with the prefix is enough.                               *)
SamePrefix(i, t) == tokens[i].prefix = t.prefix
Matches(i, t) == tokens[i].secret = t.secret

(* ApiToken.issue; token_urlsafe never repeats itself, token_hex may.       *)
Issue(u, prefix, secret, life) ==
  /\ surface = "product" /\ Len(tokens) < MaxTokens
  /\ u \in accounts /\ \A i \in DOMAIN tokens : tokens[i].secret # secret
  /\ tokens' = Append(tokens,
       [user |-> u, prefix |-> prefix, secret |-> secret, created |-> now,
        expires |-> IF life < 0 THEN 0 ELSE now + life, revoked |-> FALSE, gone |-> FALSE])
  /\ UNCHANGED <<surface, settings, now, accounts, heads, rows, database, writable, probe, req, served>>

(* /api/v1/me: absent unless enabled; a session is tried first, then the    *)
(* bearer token.                                                           *)
CallMe(w, u, t) ==
  LET q == [From(u, "me") EXCEPT !.token = t, !.dead = DOMAIN tokens \ Active] IN
  /\ surface = "product" /\ Free(w)
  /\ Set(w, CASE ~settings.api -> Answer(q, "404")
              [] settings.api /\ q.user # Anonymous -> [q EXCEPT !.step = "me"]
              [] settings.api /\ q.user = Anonymous ->
                   IF t = NoToken \/ Parts(t) # 4 THEN Answer(q, "401") ELSE [q EXCEPT !.step = "lookup"])
  /\ served' = served + 1
  /\ UNCHANGED <<surface, settings, world>>

(* PatAuth.authenticate: one row is looked up and compared.  Its            *)
(* last_used_at, which nothing reads, is not kept.                          *)
Authenticate(w) ==
  LET q == req[w]
      candidates == Newest({i \in Active : tokens[i].prefix = q.token.prefix}) IN
  /\ q.step = "lookup"
  /\ \/ candidates = {} /\ Set(w, Answer(q, "401"))
     \/ \E i \in candidates :
          Set(w, IF Matches(i, q.token) THEN [q EXCEPT !.step = "me", !.user = tokens[i].user]
                 ELSE Answer(q, "401"))
  /\ UNCHANGED <<surface, settings, world, served>>

(* me.                                                                     *)
AnswerMe(w) ==
  /\ req[w].step = "me"
  /\ Set(w, [Answer(req[w], "ok") EXCEPT !.options = {Stored(req[w].user)}])
  /\ UNCHANGED <<surface, settings, world, served>>

-----------------------------------------------------------------------------
(* require_ops_access.                                                     *)
OpsAccess(q) ==
  \/ q.user \in Staff
  \/ settings.opsToken # "" /\ q.bearer = settings.opsToken

Probing(v) == req[v].kind = "health" /\ Running(v)

(* /ops/api/health; a session is looked up in the database.                *)
CallHealth(w, u, bearer) ==
  LET q == [From(u, "health") EXCEPT !.bearer = bearer, !.trouble = ~database \/ ~writable,
                                     !.alone = \A v \in Workers \ {w} : ~Probing(v)] IN
  /\ surface = "ops" /\ Free(w)
  /\ req' = [v \in Workers |->
       IF v # w THEN [req[v] EXCEPT !.alone = @ /\ ~Probing(v)]
       ELSE CASE u # Anonymous /\ ~database -> Answer(q, "raised")
              [] (u = Anonymous \/ database) /\ ~settings.ops -> Answer(q, "404")
              [] (u = Anonymous \/ database) /\ settings.ops ->
                   IF OpsAccess(q) THEN [q EXCEPT !.step = "probe"] ELSE Answer(q, "401")]
  /\ served' = served + 1
  /\ UNCHANGED <<surface, settings, world>>

(* Fault: touch refuses a file that is there.                              *)
CanCreate == writable /\ ~probe
CanTouch  == writable

(* health: SELECT 1, then the probe is touched ...                         *)
TouchProbe(w) ==
  LET q == [req[w] EXCEPT !.options = IF database THEN {} ELSE {"database"}] IN
  /\ req[w].step = "probe"
  /\ probe' = (probe \/ CanTouch)
  /\ Set(w, IF CanTouch THEN [q EXCEPT !.step = "unlink"] ELSE Answer(q, "degraded"))
  /\ UNCHANGED <<surface, settings, now, accounts, tokens, heads, rows, database, writable, served>>

(* ... and removed, unless another check has removed it.                   *)
UnlinkProbe(w) ==
  LET fine == writable /\ probe /\ req[w].options = {} IN
  /\ req[w].step = "unlink"
  /\ probe' = (probe /\ ~writable)
  /\ Set(w, Answer(req[w], IF fine THEN "ok" ELSE "degraded"))
  /\ UNCHANGED <<surface, settings, now, accounts, tokens, heads, rows, database, writable, served>>

-----------------------------------------------------------------------------
(* A worker is killed; only a health check leaves something behind.        *)
Killed(w) ==
  /\ Probing(w)
  /\ Set(w, Request)
  /\ UNCHANGED <<surface, settings, world, served>>

(* A commit; and a projection of HEAD, for an owner with an account.        *)
CommitHead(r, visibility) ==
  /\ surface = "pages" /\ heads[r].version < MaxVersion
  /\ heads' = [heads EXCEPT ![r] = [version |-> @.version + 1, visibility |-> visibility]]
  /\ req' = [w \in Workers |-> [req[w] EXCEPT !.fresh = FALSE]]
  /\ UNCHANGED <<surface, settings, now, accounts, tokens, rows, database, writable, probe, served>>

ProjectHead(r) ==
  /\ surface = "pages" /\ OwnerOf[r] \in accounts /\ ~Current(r)
  /\ rows' = [q \in DOMAIN rows \cup {r} |-> IF q = r THEN RowOf(r) ELSE rows[q]]
  /\ req' = [w \in Workers |-> [req[w] EXCEPT !.fresh = FALSE]]
  /\ UNCHANGED <<surface, settings, now, accounts, tokens, heads, database, writable, probe, served>>

(* An account goes, and with it its rows and its tokens (CASCADE).          *)
RemoveAccount(u) ==
  /\ surface # "ops" /\ u \in accounts
  /\ accounts' = accounts \ {u}
  /\ rows' = [q \in {r \in DOMAIN rows : rows[r].owner # u} |-> rows[q]]
  /\ tokens' = [i \in DOMAIN tokens |-> [tokens[i] EXCEPT !.gone = @ \/ tokens[i].user = u]]
  /\ req' = [w \in Workers |-> [req[w] EXCEPT !.fresh = FALSE]]
  /\ UNCHANGED <<surface, settings, now, heads, database, writable, probe, served>>

(* Somebody revokes a token; nothing in the application does.              *)
Revoke(i) ==
  /\ surface = "product" /\ ActiveRow(tokens[i])
  /\ tokens' = [tokens EXCEPT ![i].revoked = TRUE]
  /\ UNCHANGED <<surface, settings, now, accounts, heads, rows, database, writable, probe, req, served>>

Tick ==
  /\ surface = "product" /\ now < MaxTime
  /\ now' = now + 1
  /\ UNCHANGED <<surface, settings, accounts, tokens, heads, rows, database, writable, probe, req, served>>

(* PostgreSQL or the disk fails or comes back.                             *)
Outage ==
  /\ surface = "ops"
  /\ \/ database' = ~database /\ UNCHANGED writable
     \/ writable' = ~writable /\ UNCHANGED database
  /\ req' = [w \in Workers |-> [req[w] EXCEPT !.trouble = TRUE]]
  /\ UNCHANGED <<surface, settings, now, accounts, tokens, heads, rows, probe, served>>

-----------------------------------------------------------------------------
Senders == Users \cup {Anonymous}

Serve(w) ==
  \/ ListRows(w) \/ FindRow(w) \/ ReadHead(w) \/ ChooseOptions(w)
  \/ Authenticate(w) \/ AnswerMe(w)
  \/ TouchProbe(w) \/ UnlinkProbe(w)

Call(w) ==
  \E u \in Senders :
    \/ VisitIndex(w, u)
    \/ \E r \in Recipes, query \in Queries : Visit(w, u, r, query)
    \/ \E t \in Strangers \cup {NoToken} \cup {Plaintext(i) : i \in DOMAIN tokens} : CallMe(w, u, t)
    \/ \E bearer \in {"", "wrong", "strong"} : CallHealth(w, u, bearer)

Environment ==
  \/ \E u \in Users, p \in Prefixes, s \in Secrets, life \in Lifetimes : Issue(u, p, s, life)
  \/ \E i \in DOMAIN tokens : Revoke(i)
  \/ \E u \in Users : RemoveAccount(u)
  \/ \E r \in Recipes, v \in {"private", "unlisted", "public"} : CommitHead(r, v)
  \/ \E r \in Recipes : ProjectHead(r)
  \/ Tick \/ Outage

Next == Environment \/ \E w \in Workers : Call(w) \/ Serve(w) \/ Killed(w)

Spec == Init /\ [][Next]_vars

-----------------------------------------------------------------------------
Answered(w, kind) == req[w].step = "answered" /\ req[w].kind = kind

(* The product API serves a request as u only to u's own session or to the  *)
(* holder of a token issued to u that was not yet revoked, expired or gone  *)
(* when the request began, whatever rows share its prefix; the ops API only *)
(* to staff or to the holder of a token that passes the boot guard.         *)
OnlyTheHolderPasses ==
  \A w \in Workers :
    LET q == req[w] IN
    /\ Answered(w, "me") /\ q.answer = "ok" =>
         \/ q.user = q.session /\ q.user # Anonymous
         \/ \E i \in DOMAIN tokens \ q.dead : Plaintext(i) = q.token /\ tokens[i].user = q.user
    /\ Answered(w, "health") /\ q.answer \in {"ok", "degraded"} =>
         q.session \in Staff \/ q.bearer = "strong"

(* A token that was handed out is refused only if its secret contains "_",  *)
(* it is dead, or a row that is not older and was not dead has its prefix.  *)
RefusalsAreExplained ==
  \A w \in Workers, i \in DOMAIN tokens :
    LET q == req[w] IN
    Answered(w, "me") /\ q.answer = "401" /\ q.token = Plaintext(i) =>
      \/ Pieces[tokens[i].secret] > 1
      \/ i \notin Active
      \/ \E j \in DOMAIN tokens \ (q.dead \cup {i}) :
           tokens[j].prefix = tokens[i].prefix /\ tokens[j].created >= tokens[i].created

(* ApiToken.issue hands out "snck_pat_<prefix>_<secret>", the form that      *)
(* authenticate reads: an active token is not refused for its form.         *)
IssuedTokensAreRead ==
  \A w \in Workers, i \in DOMAIN tokens :
    LET q == req[w] IN
    Answered(w, "me") /\ q.answer = "401" /\ q.token = Plaintext(i) =>
      i \notin Active \/ \E j \in DOMAIN tokens \ {i} : tokens[j].prefix = tokens[i].prefix

(* A page decides by the row and shows HEAD.  Nobody having written, and    *)
(* the row being HEAD's, it opens exactly what HEAD's visibility lets this  *)
(* reader open, and shows that HEAD; the index lists only what opens.       *)
MayOpen(u, r) == heads[r].visibility # "private" \/ OwnerOf[r] = u
PagesFollowHead ==
  \A w \in Workers :
    LET q == req[w] IN
    /\ Answered(w, "page") /\ q.fresh /\ q.answer # "redirect" =>
         /\ q.answer # "404" <=> MayOpen(q.user, q.recipe)
         /\ q.answer # "404" => q.shown = {heads[q.recipe].version}
    /\ Answered(w, "index") /\ q.fresh => \A r \in q.shown : MayOpen(q.user, r)

(* The hundredths a page can be scaled by.                                  *)
Scales == 1..MaxScale

(* Options that can be rendered: the stored preferences of somebody who has *)
(* an account and asks for nothing, where the page supports them.           *)
Serves(o, query, u, people) ==
  /\ o.lang \in Langs /\ o.system \in Systems /\ o.scale \in Scales
  /\ query = NoQuery /\ u \in people \cap DOMAIN PrefsOf =>
       /\ PrefsOf[u].lang \in Langs => o.lang = PrefsOf[u].lang
       /\ PrefsOf[u].system \in Systems => o.system = PrefsOf[u].system

(* Only a scale that is not a number is an error; any other reader lands on *)
(* a view that can be rendered, and one with an account whose query is      *)
(* empty on the stored preferences, as far as the page supports them.       *)
ReaderGetsTheirView ==
  \A w \in Workers :
    LET q == req[w] IN
    Answered(w, "page") =>
      /\ q.answer = "raised" => q.query.scale.kind = "nan"
      /\ \A o \in q.options : Serves(o, q.query, q.user, accounts)

(* A health check says "degraded" only if something was out of order, or    *)
(* because another check removed the probe file; a probe that a killed      *)
(* worker left behind does not count.                                       *)
HealthIsExplained ==
  \A w \in Workers :
    Answered(w, "health") /\ req[w].answer = "degraded" => req[w].trouble \/ ~req[w].alone

=============================================================================
