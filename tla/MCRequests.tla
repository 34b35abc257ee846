----------------------------- MODULE MCRequests -----------------------------
(* Two readers, one of them staff, and the inputs that make a difference.   *)
EXTENDS Requests, TLC

Owners == [r1 |-> "ann", r2 |-> "bob"]

(* Only health checks write what another request reads.                    *)
Served == [pages |-> 1, product |-> 1, ops |-> 3]

(* "s_2" splits in two; both prefixes of two tokens may be alike.          *)
Splits   == [s1 |-> 1, s2 |-> 1, s_2 |-> 2, zz |-> 1]
Unissued == {[prefix |-> "aa", secret |-> "zz"]}

(* The choices of UnitSystem include one that no page offers.              *)
Preferences == [ann |-> [lang |-> "de", system |-> "us"], bob |-> [lang |-> "de-CH", system |-> "imperial"]]

Lives == {-1, 0}

Scale(kind, n) == [kind |-> kind, value |-> n]
Asked == {NoQuery,
          [NoQuery EXCEPT !.lang = "fr", !.system = "us", !.scale = Scale("number", 50)],
          [NoQuery EXCEPT !.system = "imperial", !.scale = Scale("number", 20000)],
          [NoQuery EXCEPT !.scale = Scale("nan", 0)],
          [NoQuery EXCEPT !.scale = Scale("number", -100)]}

Env(api, ops, token) == [api |-> api, ops |-> ops, opsToken |-> token]
Environments == {Env(TRUE, FALSE, ""), Env(TRUE, TRUE, "weak"), Env(FALSE, TRUE, "strong")}

Alike == Permutations(Workers)

=============================================================================
