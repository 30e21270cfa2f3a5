--------------------------- MODULE BrowserSession ---------------------------
(***************************************************************************)
(* One browser's session: its tabs, the cookie jar they share, and the     *)
(* server's rotation of refresh tokens.                                    *)
(*                                                                         *)
(*   apps/api/src/routes/auth.rs                refresh, bootstrap, logout *)
(*   packages/hooks/src/api/transport.ts        refresh after a 401        *)
(*   packages/hooks/src/useAuth.ts              resumeSession, login       *)
(*   apps/web/src/components/layout/AuthGuard.tsx  start and recovery      *)
(*                                                                         *)
(* A request carries the cookie of the moment it is sent, the jar takes    *)
(* the cookies of replies in the order they arrive, and requests overtake  *)
(* each other.  A tab has one request of its session under way, a start or *)
(* a refresh; a sign-out, which nobody waits for, is a request beside it.  *)
(* A page that is loaded again abandons its request: that is a failure of  *)
(* the request before the page starts.                                     *)
(*                                                                         *)
(* The server refuses a revoked token as it refuses a request without      *)
(* one, so a cookie whose token is revoked is no cookie here.              *)
(***************************************************************************)
EXTENDS Naturals, FiniteSets

CONSTANTS
    Tabs,
    SignOut,     \* stands for the request of a sign-out. Bound: one at a time
    Nil,
    Clear,       \* a Set-Cookie header that removes the cookie
    MaxLogins,   \* bound: sign-ins after the first
    MaxFaults    \* bound: lost, abandoned or limited requests, lost replies, server errors

ASSUME BoundsAssumption == MaxLogins \in Nat /\ MaxFaults \in Nat

VARIABLES
    live,      \* refresh_tokens: neither revoked nor expired
    jar,       \* the token of the browser's refresh_token cookie, or Nil
    tab,       \* what a tab shows or waits for
    req,       \* call of a tab -> its request in flight, or Nil
    logins,    \* sign-ins so far
    crowded,   \* history: two requests were in flight together
    left,      \* history: sign-ins whose user signed out
    faults

vars == <<live, jar, tab, req, logins, crowded, left, faults>>

Waiting == {"booting", "refreshing", "recovering"}
Settled == {"in", "expired", "login"}

Calls == Tabs \cup {SignOut}

\* A token of a sign-in; numbers that nobody has any more are given out again.
Token == [login : 1 .. MaxLogins + 1, id : 1 .. 3]
Request == [kind : {"bootstrap", "refresh", "logout"}, cookie : Token \cup {Nil},
            stage : {"sent", "issuing", "replied"}, reply : {"ok", "none", "error", Nil},
            set : Token \cup {Clear, Nil}]

ASSUME TabsAssumption == SignOut \notin Tabs
ASSUME NilAssumption  == Nil # Clear /\ Nil \notin Token \cup Request /\ Clear \notin Token

\* Tokens that somebody could still present; one that is being exchanged is revoked.
Known == live \cup {jar} \cup UNION {{req[c].cookie, req[c].set} :
                                     c \in {d \in Calls : req[d] # Nil /\ req[d].stage # "issuing"}}
IsNew(token) ==
    token \in Token \ Known /\ \A n \in 1 .. token.id - 1 : [token EXCEPT !.id = n] \in Known

Init ==
    /\ live = {[login |-> 1, id |-> 1]} /\ jar = [login |-> 1, id |-> 1]
    /\ tab = [t \in Tabs |-> "closed"] /\ req = [c \in Calls |-> Nil]
    /\ logins = 1 /\ crowded = FALSE /\ left = {} /\ faults = 0

Goto(t, page) == tab' = [tab EXCEPT ![t] = page]
Fault == faults < MaxFaults /\ faults' = faults + 1

\* fetch with credentials: "include".
Sent(kind, cookie) ==
    [kind |-> kind, cookie |-> cookie, stage |-> "sent", reply |-> Nil, set |-> Nil]
Send(c, kind) ==
    /\ req' = [req EXCEPT ![c] = Sent(kind, jar)]
    /\ crowded' = (crowded \/ \E d \in Calls \ {c} : req[d] # Nil)

\* The reply, and the Set-Cookie header it has: a token, Clear or none.
Answered(r, reply, set) ==
    [r EXCEPT !.cookie = Nil, !.stage = "replied", !.reply = reply, !.set = set]
Answer(c, reply, set) == req' = [req EXCEPT ![c] = Answered(@, reply, set)]

\* The token of request c is revoked, and no request carries it any more; r is what becomes of c.
Without(r, token) ==
    IF r # Nil /\ r.stage = "sent" /\ r.cookie = token THEN [r EXCEPT !.cookie = Nil] ELSE r
Revoke(c, r) ==
    /\ live' = live \ {req[c].cookie}
    /\ jar' = IF jar = req[c].cookie THEN Nil ELSE jar
    /\ req' = [d \in Calls |-> IF d = c THEN r ELSE Without(req[d], req[c].cookie)]

-----------------------------------------------------------------------------
(* Tabs. Definitions named ...Variant, here and below, are faulty forms used only to show
   that a property notices when the definition after them is wrong. *)

\* A page starts, or is loaded again, without an access token: AuthGuard resumes the session.
Open(t) ==
    /\ tab[t] \in {"closed", "in", "expired"} /\ req[t] = Nil
    /\ Goto(t, "booting") /\ Send(t, "bootstrap")
    /\ UNCHANGED <<live, jar, logins, left, faults>>

AccessExpires(t) ==
    /\ tab[t] = "in" /\ Goto(t, "expired")
    /\ UNCHANGED <<live, jar, req, logins, crowded, left, faults>>

\* A call gets 401: one refresh for all the calls of the tab, and for those of a later
\* sign-in while it lasts.
Refresh(t) ==
    /\ tab[t] = "expired" /\ Goto(t, "refreshing")
    /\ \/ req[t] = Nil /\ Send(t, "refresh")
       \/ req[t] # Nil /\ UNCHANGED <<req, crowded>>
    /\ UNCHANGED <<live, jar, logins, left, faults>>

\* The tab is signed out at once, the server afterwards; a refresh in flight goes on.
Logout(t) ==
    /\ tab[t] \in {"in", "expired", "refreshing"} /\ req[SignOut] = Nil
    /\ Goto(t, "login") /\ Send(SignOut, "logout") /\ left' = left \cup 1 .. logins
    /\ UNCHANGED <<live, jar, logins, faults>>

Login(t) ==
    /\ tab[t] = "login" /\ logins <= MaxLogins
    /\ logins' = logins + 1 /\ Goto(t, "in")
    /\ \E token \in Token : /\ IsNew(token) /\ token.login = logins + 1
                            /\ live' = live \cup {token} /\ jar' = token
    /\ UNCHANGED <<req, crowded, left, faults>>

-----------------------------------------------------------------------------
(* The server: refresh_from_cookie and logout. *)

\* refresh answers 401 and leaves the cookie, bootstrap answers 204 and clears it.
Refuse(c) == Answer(c, "none", IF req[c].kind = "refresh" THEN Nil ELSE Clear)

\* Mutation: the token is looked up first and revoked with the issue of its successor.
PresentVariant(c) ==
    /\ req[c] # Nil /\ req[c].stage = "sent" /\ req[c].kind # "logout"
    /\ IF req[c].cookie \in live THEN req' = [req EXCEPT ![c].stage = "issuing"] ELSE Refuse(c)
    /\ UNCHANGED <<live, jar, tab, logins, crowded, left, faults>>

\* One statement revokes the token and says whether it was valid.
Present(c) ==
    /\ req[c] # Nil /\ req[c].stage = "sent" /\ req[c].kind # "logout"
    /\ IF req[c].cookie \in live
       THEN Revoke(c, [req[c] EXCEPT !.stage = "issuing"])
       ELSE Refuse(c) /\ UNCHANGED <<live, jar>>
    /\ UNCHANGED <<tab, logins, crowded, left, faults>>

\* Mutation: the reply has no Set-Cookie header.
IssueVariant(c) ==
    /\ req[c] # Nil /\ req[c].stage = "issuing" /\ Answer(c, "ok", Nil)
    /\ \E token \in Token : /\ IsNew(token) /\ token.login = req[c].cookie.login
                            /\ live' = live \cup {token}
    /\ UNCHANGED <<jar, tab, logins, crowded, left, faults>>

Issue(c) ==
    /\ req[c] # Nil /\ req[c].stage = "issuing"
    /\ \E token \in Token : /\ IsNew(token) /\ token.login = req[c].cookie.login
                            /\ live' = live \cup {token} /\ Answer(c, "ok", token)
    /\ UNCHANGED <<jar, tab, logins, crowded, left, faults>>

\* The statement after the revocation fails, or the account has been disabled.
IssueFails(c) ==
    /\ req[c] # Nil /\ req[c].stage = "issuing" /\ Fault
    /\ Answer(c, "error", Nil) \/ Refuse(c)
    /\ UNCHANGED <<live, jar, tab, logins, crowded, left>>

PresentLogout(c) ==
    /\ req[c] # Nil /\ req[c].stage = "sent" /\ req[c].kind = "logout"
    /\ Revoke(c, Answered(req[c], "none", Clear))
    /\ UNCHANGED <<tab, logins, crowded, left, faults>>

-----------------------------------------------------------------------------
(* Replies. *)

\* Mutation: the empty cookie is kept as a cookie.
JarVariant(set) == IF set = Nil THEN jar ELSE set

Jar(set) == CASE set = Nil -> jar [] set = Clear -> Nil [] OTHER -> set

\* Mutation: a start that fails for another reason than 204 is not handled.
NextPageVariant(t, kind, reply) ==
    CASE reply = "ok" -> "in"
      [] kind = "refresh" /\ reply = "none" /\ tab[t] # "login" -> "recovering"
      [] kind = "refresh" /\ reply = "error" /\ tab[t] = "refreshing" -> "expired"
      [] <<kind, reply>> \in {<<"refresh", "limited">>, <<"bootstrap", "none">>} -> "login"
      [] OTHER -> tab[t]

\* A refreshed token signs the tab in, and a refused one is cleared, whatever became of the tab
\* meanwhile; one that the network or the server failed is left to try again. A refused refresh
\* starts the recovery unless the login page is shown; the recovery of one that was limited is
\* refused in the browser, by the pause it keeps after a 429. A failed resume, whatever the
\* reason, shows the login page.
NextPage(t, kind, reply) ==
    CASE reply = "ok" -> "in"
      [] kind = "refresh" /\ reply = "none" /\ tab[t] # "login" -> "recovering"
      [] kind = "refresh" /\ reply = "error" /\ tab[t] = "refreshing" -> "expired"
      [] kind = "refresh" /\ reply = "limited" -> "login"
      [] kind = "bootstrap" /\ reply # "ok" -> "login"
      [] OTHER -> tab[t]

\* The reply is handled; the recovery sends its request with the cookie it finds.
Handle(c, reply, set) ==
    LET page == NextPage(c, req[c].kind, reply)
        more == c \in Tabs /\ req[c].kind = "refresh" /\ page = "recovering"
    IN /\ tab' = IF c \in Tabs THEN [tab EXCEPT ![c] = page] ELSE tab
       /\ jar' = Jar(set)
       /\ req' = [req EXCEPT ![c] = IF more THEN Sent("bootstrap", Jar(set)) ELSE Nil]
       /\ crowded' = (crowded \/ (more /\ \E d \in Calls \ {c} : req[d] # Nil))

Deliver(c) ==
    /\ req[c] # Nil /\ req[c].stage = "replied" /\ Handle(c, req[c].reply, req[c].set)
    /\ UNCHANGED <<live, logins, left, faults>>

\* The request or its reply is lost, or the rate limit refuses the request.
NetworkFails(c) ==
    /\ req[c] # Nil /\ req[c].stage \in {"sent", "replied"} /\ Fault
    /\ \/ Handle(c, "error", Nil)
       \/ req[c].stage = "sent" /\ Handle(c, "limited", Nil)
    /\ UNCHANGED <<live, logins, left>>

-----------------------------------------------------------------------------
Progress(c) == Present(c) \/ Issue(c) \/ PresentLogout(c) \/ Deliver(c)

Next ==
    \/ \E t \in Tabs : Open(t) \/ AccessExpires(t) \/ Refresh(t) \/ Logout(t) \/ Login(t)
    \/ \E c \in Calls : Progress(c) \/ IssueFails(c) \/ NetworkFails(c)

Spec == Init /\ [][Next]_vars

\* What a page waits for is answered; users and their calls come when they come.
FairSpec == Spec /\ \A t \in Tabs : WF_vars(Progress(t))

-----------------------------------------------------------------------------
(* Properties *)

\* Types of the state.
TypeOK ==
    /\ live \subseteq Token /\ jar \in Token \cup {Nil}
    /\ tab \in [Tabs -> Waiting \cup Settled \cup {"closed"}]
    /\ req \in [Calls -> Request \cup {Nil}]
    /\ logins \in 1 .. MaxLogins + 1 /\ crowded \in BOOLEAN /\ left \subseteq 1 .. logins
    /\ faults \in 0 .. MaxFaults

Of(login)      == {token \in live : token.login = login}
Issuing(login) == {c \in Calls : req[c] # Nil /\ req[c].stage = "issuing"
                                 /\ req[c].cookie.login = login}

\* However many tabs present one cookie, a sign-in has one live token or one successor being
\* issued at most; and exactly one while no request has failed and nobody has signed out
\* (refresh_from_cookie's single UPDATE ... RETURNING).
OneSuccessor ==
    \A login \in 1 .. logins :
        LET tokens == Cardinality(Of(login)) + Cardinality(Issuing(login)) IN
        tokens <= 1 /\ (faults = 0 /\ login \notin left => tokens = 1)

\* While requests have not overlapped and none has failed, the cookie jar follows
\* the rotation: nobody who has not signed out is asked to sign in.
SessionKept == ~crowded /\ faults = 0 /\ left = {} => \A t \in Tabs : tab[t] # "login"

\* What the tokens and the cookie are, with the types.
SessionInv == TypeOK /\ OneSuccessor /\ SessionKept

\* A tab that waits for the session ends up signed in, on the login page, or ready to try
\* again, whatever becomes of its requests.
TabSettles == \A t \in Tabs : tab[t] \in Waiting ~> tab[t] \in Settled

\* What docs/guides/oidc-sso.md says of a sign-out, once nothing is in flight: the refresh token
\* is revoked. A refresh in flight has a successor issued that the sign-out does not know.
SignOutRevokes == (\A c \in Calls : req[c] = Nil) => \A token \in live : token.login \notin left

=============================================================================
