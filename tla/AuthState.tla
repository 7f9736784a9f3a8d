------------------------------- MODULE AuthState -------------------------------
(***************************************************************************)
(* Who is logged in: the identity a browser page keeps                     *)
(* (apps/frontend/src/auth/authState.ts), the token in localStorage and    *)
(* the sessions of the server (auth/service.py, auth/repository.py), with  *)
(* any number of HTTP calls between them whose answers come in any order,  *)
(* late or never.                                                          *)
(*                                                                         *)
(* Code between two awaits of the page is one action, and so is one        *)
(* transaction of the server.  authenticate resolves the token and touches *)
(* the session in two transactions; both require that it is not revoked    *)
(* and a revocation is final, so the second decides.                       *)
(***************************************************************************)
EXTENDS Naturals, FiniteSets

CONSTANTS
  User,        \* users.id
  Token,       \* bearer tokens
  Call,        \* calls of the page that are in progress
  MaxVersion,  \* bound on the identity changes a page starts
  NoUser, NoToken

ASSUME AuthAssumption ==
  /\ NoUser \notin User /\ NoToken \notin Token
  /\ MaxVersion \in Nat

VARIABLES
  owner,    \* table auth_sessions: the user of each token
  live,     \* the sessions that are not revoked
  stored,   \* localStorage
  page,     \* the variables of createAuthState
  call      \* call[c]: NoCall, or a call that was sent

serverVars == <<owner, live>>
vars == <<owner, live, stored, page, call>>

PageState ==
  [status: {"idle", "loading", "anonymous", "authenticated", "error"},
   user: User \cup {NoUser},
   token: Token \cup {NoToken},
   version: Nat,
   shown: User \cup {NoUser},   \* whose data the protected stores hold
   left: SUBSET Token]          \* history: tokens this page has logged out of

(* for is the user a login is for; version and token are captured when the *)
(* call is made; nobody awaits the calls of a page that was closed.        *)
CallState ==
  [op: {"me", "login", "logout", "request", "stream"},
   token: Token \cup {NoToken}, version: Nat, for: User \cup {NoUser},
   phase: {"sent", "admitted", "open", "done"},
   result: {"none", "ok", "unauthorized", "refused"},
   awaited: BOOLEAN]
NoCall == [op |-> "none"]

Sent(op, t, v, u) ==
  [op |-> op, token |-> t, version |-> v, for |-> u,
   phase |-> "sent", result |-> "none", awaited |-> TRUE]

Unauthenticated(t) ==
  [status |-> "idle", user |-> NoUser, token |-> t, version |-> 0,
   shown |-> NoUser, left |-> {}]

(* The identity a call was made under is still the page's.                 *)
CurrentAlways(c) == TRUE                                   \* mutant of Current
Current(c) == call[c].version = page.version

(* clearIdentity, but for localStorage and the streams.                    *)
ClearedKeepingData(p) ==                                   \* mutant of Cleared
  [p EXCEPT !.version = @ + 1, !.token = NoToken, !.user = NoUser,
            !.status = "anonymous"]
Cleared(p) ==
  [p EXCEPT !.version = @ + 1, !.token = NoToken, !.user = NoUser,
            !.status = "anonymous", !.shown = NoUser]

(* cancelStreams aborts every stream.                                      *)
WithOpenStreams(calls) == calls                      \* mutant of WithoutStreams
WithoutStreams(calls) ==
  [c \in Call |-> IF calls[c].op = "stream" THEN NoCall ELSE calls[c]]

-----------------------------------------------------------------------------
Init ==
  /\ owner = [t \in Token |-> NoUser]
  /\ live = {}
  /\ stored = NoToken
  /\ page = Unauthenticated(NoToken)
  /\ call = [c \in Call |-> NoCall]

(* A call nobody waits for any more.  The server may still handle it, which *)
(* makes a difference for a login or a logout.                             *)
Abandoned(x) ==
  IF x.op \in {"login", "logout"} /\ x.phase \in {"sent", "admitted"}
  THEN [x EXCEPT !.awaited = FALSE]
  ELSE NoCall

(* A page is closed and opened again.                                      *)
Reload ==
  /\ page.status # "idle"
  /\ page' = Unauthenticated(stored)
  /\ call' = [c \in Call |-> IF call[c] = NoCall THEN NoCall ELSE Abandoned(call[c])]
  /\ UNCHANGED <<owner, live, stored>>

(* initialize: the router's first navigation, or the retry button of the   *)
(* error panel.                                                            *)
Initialize(c) ==
  LET p == [page EXCEPT !.version = @ + 1, !.user = NoUser, !.shown = NoUser]
  IN  /\ page.status \in {"idle", "error"} /\ page.version < MaxVersion
      /\ call[c] = NoCall
      /\ IF page.token = NoToken
         THEN /\ page' = [p EXCEPT !.status = "anonymous"]
              /\ call' = WithoutStreams(call)
         ELSE /\ page' = [p EXCEPT !.status = "loading"]
              /\ call' = [WithoutStreams(call) EXCEPT
                            ![c] = Sent("me", p.token, p.version, NoUser)]
      /\ UNCHANGED <<owner, live, stored>>

(* login, from the login page, which is also there while a logout, another *)
(* login or a retried recovery is in progress: the old identity goes       *)
(* before the new one is asked for.                                        *)
LoginKeepingStored(c, u) ==                                  \* mutant of Login
  /\ page.status \in {"anonymous", "loading"}
  /\ page.version < MaxVersion
  /\ call[c] = NoCall
  /\ page' = [Cleared(page) EXCEPT !.status = "loading"]
  /\ call' = [WithoutStreams(call) EXCEPT
                ![c] = Sent("login", NoToken, page'.version, u)]
  /\ UNCHANGED <<owner, live, stored>>
LoginVersionFirst(c, u) ==                                   \* mutant of Login
  /\ page.status \in {"anonymous", "loading"}
  /\ page.version < MaxVersion
  /\ call[c] = NoCall
  /\ page' = [Cleared(page) EXCEPT !.status = "loading"]
  /\ stored' = NoToken
  /\ call' = [WithoutStreams(call) EXCEPT
                ![c] = Sent("login", NoToken, page.version, u)]
  /\ UNCHANGED <<owner, live>>
Login(c, u) ==
  /\ page.status \in {"anonymous", "loading"}
  /\ page.version < MaxVersion
  /\ call[c] = NoCall
  /\ page' = [Cleared(page) EXCEPT !.status = "loading"]
  /\ stored' = NoToken
  /\ call' = [WithoutStreams(call) EXCEPT
                ![c] = Sent("login", NoToken, page'.version, u)]
  /\ UNCHANGED <<owner, live>>

(* logout: the token leaves memory at once, localStorage with the answer.  *)
Logout(c) ==
  /\ page.status = "authenticated" /\ page.version < MaxVersion
  /\ call[c] = NoCall
  /\ page' = [page EXCEPT !.version = @ + 1, !.token = NoToken, !.user = NoUser,
                          !.status = "loading", !.left = @ \cup {page.token}]
  /\ call' = [WithoutStreams(call) EXCEPT
                ![c] = Sent("logout", page.token, page'.version, NoUser)]
  /\ UNCHANGED <<owner, live, stored>>

(* request and stream, made by the views of an authenticated user.         *)
Ask(c, op) ==
  /\ page.status = "authenticated"
  /\ call[c] = NoCall
  /\ call' = [call EXCEPT ![c] = Sent(op, page.token, page.version, NoUser)]
  /\ UNCHANGED <<owner, live, stored, page>>

-----------------------------------------------------------------------------
(* The server.  An answer to a closed page is dropped.                     *)
Answer(c, result, t) ==
  call' = [call EXCEPT ![c] =
             IF ~call[c].awaited THEN NoCall
             ELSE [@ EXCEPT !.phase = "done", !.result = result, !.token = t]]

(* The session of a token that resolve_token_hash finds and touch_session  *)
(* and revoke_session update.                                              *)
Valid(t) == t \in live

(* AuthService.login: a new session under a new token, or a refusal.       *)
LoginHandled(c) ==
  /\ call[c].op = "login" /\ call[c].phase = "sent"
  /\ \/ \E t \in Token :
          /\ owner[t] = NoUser
          /\ owner' = [owner EXCEPT ![t] = call[c].for]
          /\ live' = live \cup {t}
          /\ Answer(c, "ok", t)
     \/ Answer(c, "refused", NoToken) /\ UNCHANGED serverVars
  /\ UNCHANGED <<stored, page>>

(* authenticate, before the endpoint itself.                               *)
Authenticate(c) ==
  LET t == call[c].token IN
  /\ call[c].op \notin {"none", "login"} /\ call[c].phase = "sent"
  /\ CASE ~Valid(t) -> Answer(c, "unauthorized", t)
       [] Valid(t) /\ call[c].op = "logout" ->
            call' = [call EXCEPT ![c].phase = "admitted"]
       [] Valid(t) /\ call[c].op = "stream" ->
            call' = [call EXCEPT ![c].phase = "open"]
       [] OTHER -> Answer(c, "ok", t)
  /\ UNCHANGED <<owner, live, stored, page>>

(* AuthService.logout: revoke_session if nobody did so meanwhile.          *)
Revoke(c) ==
  LET t == call[c].token IN
  /\ call[c].op = "logout" /\ call[c].phase = "admitted"
  /\ live' = live \ {t}
  /\ Answer(c, IF Valid(t) THEN "ok" ELSE "unauthorized", t)
  /\ UNCHANGED <<owner, stored, page>>

-----------------------------------------------------------------------------
(* What the page makes of the end of a call.                               *)
Forget(c) == call' = [call EXCEPT ![c] = NoCall]

ClearIdentity(c) ==
  /\ page' = Cleared(page)
  /\ stored' = NoToken
  /\ call' = WithoutStreams([call EXCEPT ![c] = NoCall])

Ignore(c) == Forget(c) /\ UNCHANGED <<page, stored>>

AnswerOfMe(c) ==
  /\ call[c].op = "me"
  /\ IF Current(c)
     THEN IF call[c].result = "ok"
          THEN /\ page' = [page EXCEPT !.user = owner[call[c].token],
                                       !.status = "authenticated"]
               /\ Forget(c) /\ UNCHANGED stored
          ELSE ClearIdentity(c)
     ELSE Ignore(c)

AnswerOfLogin(c) ==
  /\ call[c].op = "login"
  /\ IF Current(c)
     THEN IF call[c].result = "ok"
          THEN /\ page' = [page EXCEPT !.user = owner[call[c].token],
                                       !.token = call[c].token,
                                       !.status = "authenticated"]
               /\ stored' = call[c].token
               /\ Forget(c)
          ELSE /\ page' = [page EXCEPT !.status = "anonymous"]
               /\ Forget(c) /\ UNCHANGED stored
     ELSE Ignore(c)

AnswerOfLogout(c) ==
  /\ call[c].op = "logout"
  /\ IF Current(c) THEN ClearIdentity(c) ELSE Ignore(c)

AnswerOfRequest(c) ==
  /\ call[c].op = "request"
  /\ IF Current(c) /\ call[c].token = page.token
     THEN IF call[c].result = "ok"
          THEN /\ page' = [page EXCEPT !.shown = owner[call[c].token]]
               /\ Forget(c) /\ UNCHANGED stored
          ELSE ClearIdentity(c)
     ELSE Ignore(c)

HandshakeRefused(c) ==
  /\ call[c].op = "stream"
  /\ IF Current(c) /\ call[c].token = page.token
     THEN ClearIdentity(c) ELSE Ignore(c)

Receive(c) ==
  /\ call[c].op # "none" /\ call[c].phase = "done"
  /\ AnswerOfMe(c) \/ AnswerOfLogin(c) \/ AnswerOfLogout(c)
       \/ AnswerOfRequest(c) \/ HandshakeRefused(c)
  /\ UNCHANGED serverVars

(* No answer: the network, a 5xx, an answer that breaks the contract, the  *)
(* ten seconds a logout waits.                                             *)
Fail(c) ==
  /\ call[c].op # "none" /\ call[c].awaited
  /\ IF ~Current(c) \/ call[c].op \in {"request", "stream"}
     THEN call' = [call EXCEPT ![c] = Abandoned(@)] /\ UNCHANGED <<page, stored>>
     ELSE CASE call[c].op = "me" ->
                 /\ page' = [page EXCEPT !.status = "error"]
                 /\ call' = [call EXCEPT ![c] = Abandoned(@)] /\ UNCHANGED stored
            [] call[c].op = "login" ->
                 /\ page' = [page EXCEPT !.status = "anonymous"]
                 /\ call' = [call EXCEPT ![c] = Abandoned(@)] /\ UNCHANGED stored
            [] call[c].op = "logout" ->
                 /\ page' = Cleared(page) /\ stored' = NoToken
                 /\ call' = WithoutStreams([call EXCEPT ![c] = Abandoned(@)])
  /\ UNCHANGED serverVars

(* An event of an open stream reaches the view.                            *)
StreamEvent(c) ==
  /\ call[c].op = "stream" /\ call[c].phase = "open"
  /\ Current(c) /\ call[c].token = page.token
  /\ page' = [page EXCEPT !.shown = owner[call[c].token]]
  /\ UNCHANGED <<owner, live, stored, call>>

Served(c) == LoginHandled(c) \/ Authenticate(c) \/ Revoke(c)

Next ==
  \/ Reload
  \/ \E c \in Call :
       \/ Initialize(c) \/ Logout(c)
       \/ \E u \in User : Login(c, u)
       \/ \E op \in {"request", "stream"} : Ask(c, op)
       \/ Served(c) \/ Receive(c) \/ Fail(c) \/ StreamEvent(c)

(* The server answers what reaches it, and the page handles what it gets.  *)
Fairness == \A c \in Call : WF_vars(Served(c)) /\ WF_vars(Receive(c))

Spec == Init /\ [][Next]_vars /\ Fairness

-----------------------------------------------------------------------------
(* Every variable stays in its domain. *)
AuthTypeOK ==
  /\ owner \in [Token -> User \cup {NoUser}]
  /\ live \subseteq {t \in Token : owner[t] # NoUser}
  /\ stored \in Token \cup {NoToken}
  /\ page \in PageState
  /\ call \in [Call -> CallState \cup {NoCall}]

(* The user on the screen is the one of the token that requests carry and  *)
(* that a reload would restore, and the protected stores hold nobody       *)
(* else's data: answers to earlier identities never mix in.                *)
IdentityIsConsistent ==
  /\ page.status = "authenticated" =>
       /\ page.token # NoToken /\ stored = page.token
       /\ page.user = owner[page.token]
       /\ page.shown \in {NoUser, page.user}
  /\ page.status # "authenticated" => page.user = NoUser
  /\ page.status \in {"idle", "anonymous", "error"} => page.shown = NoUser

(* Once a logout is over, whether the server confirmed it or not and       *)
(* whatever the user did meanwhile, the page neither uses the token again  *)
(* nor leaves it in localStorage for the next page.                        *)
LogoutForgetsToken ==
  \A t \in page.left :
    /\ page.token # t
    /\ (\A c \in Call : ~(call[c].op = "logout" /\ call[c].token = t /\ call[c].awaited))
         => stored # t

(* Every stream that is still read belongs to the present identity.        *)
StreamsAreCurrent ==
  \A c \in Call :
    call[c].op = "stream" =>
      Current(c) /\ call[c].token = page.token /\ page.status = "authenticated"

(* A page falls back to anonymous only when its own session has been       *)
(* revoked: the refusal of an earlier token never ends a newer session.    *)
OnlyRevokedIdentityCleared ==
  [][(page.status = "authenticated" /\ page'.status = "anonymous")
       => page.token \notin live]_vars

(* The page does not hang: a login, logout or recovery in progress comes   *)
(* to an end, superseded or not.                                           *)
LoadingEnds == page.status = "loading" ~> page.status # "loading"
================================================================================
