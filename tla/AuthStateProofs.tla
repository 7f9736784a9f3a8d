---------------------------- MODULE AuthStateProofs ----------------------------
(* Theorems about AuthState for every value of its constants: however late    *)
(* answers come and whatever the user does meanwhile, the identity of the     *)
(* page, localStorage and the calls in the air stay in agreement.             *)
EXTENDS AuthState, TLAPS

-----------------------------------------------------------------------------
(* The inductive invariant: what is known of the page, of each call, and that *)
(* at most one call decides what becomes of the present identity.             *)
IsCall(c) == call[c].op # "none"
Deciding(c) ==
  /\ call[c].op \in {"me", "login", "logout"}
  /\ call[c].awaited /\ Current(c)

(* Tokens that were handed out belong to a user for ever.                     *)
Owned(t) == t \in Token /\ owner[t] # NoUser

Forgotten(t) ==
  /\ Owned(t) /\ page.token # t
  /\ stored = t => \E c \in Call : /\ Deciding(c) /\ call[c].op = "logout"
                                   /\ call[c].token = t

PageOK ==
  /\ page.status = "authenticated" =>
       /\ page.token # NoToken /\ stored = page.token
       /\ page.user = owner[page.token] /\ page.shown \in {NoUser, page.user}
  /\ page.status # "authenticated" => page.user = NoUser
  /\ page.status \in {"idle", "anonymous", "error"} => page.shown = NoUser
  /\ page.status \in {"idle", "error"} => page.token = stored
  /\ page.status = "idle" =>
       page.left = {} /\ \A c \in Call : IsCall(c) => ~call[c].awaited
  /\ page.token # NoToken => Owned(page.token)
  /\ stored # NoToken => Owned(stored)
  /\ \A t \in page.left : Forgotten(t)

(* What a call that decides waits for.                                        *)
DecidingOK(c) ==
  /\ page.status = "loading"
  /\ call[c].op = "me" =>
       call[c].token = page.token /\ stored = page.token /\ page.shown = NoUser
  /\ call[c].op = "login" =>
       /\ page.token = NoToken /\ stored = NoToken /\ page.shown = NoUser
       /\ call[c].result = "ok" => Owned(call[c].token) /\ call[c].token \notin page.left

CallOK(c) ==
  /\ call[c].op # "login" => Owned(call[c].token)
  /\ call[c].op = "login" => call[c].for \in User
  /\ call[c].op \notin {"login", "logout"} \/ call[c].phase = "done" => call[c].awaited
  /\ call[c].awaited => call[c].version <= page.version
  /\ Deciding(c) => DecidingOK(c)
  /\ call[c].op = "request" /\ Current(c) =>
       page.status = "authenticated" /\ call[c].token = page.token
  /\ call[c].op = "stream" =>
       Current(c) /\ page.status = "authenticated" /\ call[c].token = page.token
  /\ call[c].op # "login" /\ call[c].result = "unauthorized" => call[c].token \notin live
  /\ call[c].op = "request" /\ call[c].phase = "done" =>
       call[c].result \in {"ok", "unauthorized"}
  /\ call[c].op = "stream" /\ call[c].phase = "done" => call[c].result = "unauthorized"

OneDecides == \A c, d \in Call : Deciding(c) /\ Deciding(d) => c = d

AuthInv ==
  /\ AuthTypeOK
  /\ PageOK
  /\ \A c \in Call : IsCall(c) => CallOK(c)
  /\ OneDecides

-----------------------------------------------------------------------------
(* What the domains say about a call and the page.                            *)
LEMMA CallRows ==
  ASSUME AuthTypeOK, NEW c \in Call
  PROVE  /\ IsCall(c) <=> call[c] \in CallState
         /\ ~IsCall(c) <=> call[c] = NoCall
         /\ IsCall(c) => call[c].op \in {"me", "login", "logout", "request", "stream"}
<1>1. call[c] \in CallState \cup {NoCall}
  BY DEF AuthTypeOK
<1>2. NoCall.op = "none"
  BY DEF NoCall
<1>3. \A x \in CallState : x.op \in {"me", "login", "logout", "request", "stream"}
  BY DEF CallState
<1>4. QED
  BY <1>1, <1>2, <1>3 DEF IsCall

LEMMA PageFields ==
  ASSUME AuthTypeOK
  PROVE  /\ page.status \in {"idle", "loading", "anonymous", "authenticated", "error"}
         /\ page.user \in User \cup {NoUser} /\ page.token \in Token \cup {NoToken}
         /\ page.version \in Nat /\ page.shown \in User \cup {NoUser}
         /\ page.left \subseteq Token
BY DEF AuthTypeOK, PageState

LEMMA SentType ==
  ASSUME NEW op \in {"me", "login", "logout", "request", "stream"},
         NEW t \in Token \cup {NoToken}, NEW v \in Nat, NEW u \in User \cup {NoUser}
  PROVE  /\ Sent(op, t, v, u) \in CallState
         /\ Sent(op, t, v, u).op = op /\ Sent(op, t, v, u).token = t
         /\ Sent(op, t, v, u).version = v /\ Sent(op, t, v, u).phase = "sent"
         /\ Sent(op, t, v, u).result = "none" /\ Sent(op, t, v, u).awaited
         /\ Sent(op, t, v, u).for = u
BY DEF Sent, CallState

LEMMA AbandonedType ==
  ASSUME NEW x \in CallState
  PROVE  \/ Abandoned(x) = NoCall
         \/ /\ Abandoned(x) \in CallState
            /\ Abandoned(x).op \in {"login", "logout"} /\ Abandoned(x).op = x.op
            /\ Abandoned(x).token = x.token /\ Abandoned(x).phase # "done"
            /\ Abandoned(x).result = x.result /\ ~Abandoned(x).awaited
            /\ Abandoned(x).for = x.for
BY DEF Abandoned, CallState

LEMMA ClearedFields ==
  ASSUME AuthTypeOK
  PROVE  /\ Cleared(page) \in PageState
         /\ Cleared(page).version = page.version + 1 /\ Cleared(page).token = NoToken
         /\ Cleared(page).user = NoUser /\ Cleared(page).status = "anonymous"
         /\ Cleared(page).shown = NoUser /\ Cleared(page).left = page.left
<1>1. page \in PageState /\ page.version + 1 \in Nat
  BY PageFields DEF AuthTypeOK
<1>2. QED
  BY <1>1 DEF Cleared, PageState

(* A page with a deciding call is loading, and any other has none.            *)
LEMMA DecidingLoads ==
  ASSUME AuthInv, NEW c \in Call, Deciding(c)
  PROVE  DecidingOK(c) /\ page.status = "loading" /\ IsCall(c)
BY DEF AuthInv, CallOK, Deciding, DecidingOK, IsCall

LEMMA NoTokenIsNone == \A t : Owned(t) => t # NoToken
BY AuthAssumption DEF Owned

-----------------------------------------------------------------------------
(* A step that starts a new identity: the calls of the old one are left       *)
(* alone, forgotten or abandoned, and decide nothing from now on.             *)
OldCall(c) ==
  \/ call'[c] = NoCall
  \/ call'[c] = call[c] /\ call[c].op # "stream"
  \/ IsCall(c) /\ call'[c] = Abandoned(call[c])

LEMMA OldCallsDecideNothing ==
  ASSUME AuthInv, UNCHANGED serverVars, page'.version = page.version + 1,
         NEW c \in Call, OldCall(c)
  PROVE  /\ call'[c] \in CallState \cup {NoCall}
         /\ ~Deciding(c)'
         /\ IsCall(c)' => CallOK(c)'
<1>1. /\ AuthTypeOK /\ (IsCall(c) => CallOK(c)) /\ page.version \in Nat
      /\ owner' = owner /\ live' = live
  BY PageFields DEF AuthInv, serverVars
<1>2. CASE call'[c] = NoCall
  <2>1. NoCall.op = "none"
    BY DEF NoCall
  <2>2. QED
    BY <1>2, <2>1 DEF IsCall, Deciding
<1>3. CASE call'[c] = call[c] /\ call[c].op # "stream" /\ IsCall(c)
  <2>1. /\ call[c] \in CallState /\ CallOK(c) /\ call[c].version \in Nat
    BY <1>1, <1>3, CallRows DEF CallState
  <2>2. call[c].awaited => call[c].version # page'.version
    BY <1>1, <2>1 DEF CallOK
  <2>3. ~Deciding(c)'
    BY <1>3, <2>2 DEF Deciding, Current
  <2>4. call[c].awaited => call[c].version <= page'.version
    BY <1>1, <2>1 DEF CallOK
  <2>5. CallOK(c)'
    BY <1>1, <1>3, <2>1, <2>2, <2>3, <2>4 DEF CallOK, Current, Owned
  <2>6. QED
    BY <1>3, <2>1, <2>3, <2>5
<1>4. CASE IsCall(c) /\ call'[c] = Abandoned(call[c]) /\ call'[c] # NoCall
  <2>1. /\ call[c] \in CallState /\ CallOK(c)
    BY <1>1, <1>4, CallRows
  <2>2. /\ call'[c] \in CallState /\ call'[c].op \in {"login", "logout"}
        /\ call'[c].op = call[c].op /\ call'[c].token = call[c].token
        /\ call'[c].phase # "done" /\ call'[c].result = call[c].result /\ ~call'[c].awaited
        /\ call'[c].for = call[c].for
    BY <1>4, <2>1, AbandonedType
  <2>3. ~Deciding(c)'
    BY <2>2 DEF Deciding
  <2>4. CallOK(c)'
    BY <1>1, <2>1, <2>2, <2>3 DEF CallOK, Owned
  <2>5. QED
    BY <2>2, <2>3, <2>4
<1>5. CASE call'[c] = call[c] /\ ~IsCall(c)
  BY <1>1, <1>2, <1>5, CallRows
<1>6. QED
  BY <1>2, <1>3, <1>4, <1>5 DEF OldCall

(* The call that a new identity starts with, if any, is the only one that     *)
(* decides.                                                                   *)
LEMMA NewIdentity ==
  ASSUME AuthInv, UNCHANGED serverVars, page'.version = page.version + 1,
         page' \in PageState, stored' \in Token \cup {NoToken}, PageOK',
         call' = [d \in Call |-> call'[d]],
         NEW c \in Call, \A d \in Call : d # c => OldCall(d),
         OldCall(c) \/ (call'[c] \in CallState /\ CallOK(c)')
  PROVE  AuthInv'
<1>1. AuthTypeOK /\ owner' = owner /\ live' = live
  BY DEF AuthInv, serverVars
<1>2. \A d \in Call : d # c => /\ call'[d] \in CallState \cup {NoCall}
                               /\ ~Deciding(d)' /\ (IsCall(d)' => CallOK(d)')
  BY OldCallsDecideNothing
<1>3. call'[c] \in CallState \cup {NoCall} /\ (IsCall(c)' => CallOK(c)')
  BY OldCallsDecideNothing
<1>4. call' \in [Call -> CallState \cup {NoCall}]
  BY <1>2, <1>3
<1>5. AuthTypeOK'
  BY <1>1, <1>4 DEF AuthTypeOK
<1>6. OneDecides'
  BY <1>2 DEF OneDecides
<1>7. \A d \in Call : IsCall(d)' => CallOK(d)'
  BY <1>2, <1>3
<1>8. QED
  BY <1>5, <1>6, <1>7 DEF AuthInv

LEMMA StreamsGone ==
  ASSUME AuthTypeOK, NEW c \in Call, NEW calls, call'[c] = WithoutStreams(calls)[c],
         calls[c] = call[c] \/ calls[c] = NoCall \/ (IsCall(c) /\ calls[c] = Abandoned(call[c]))
  PROVE  OldCall(c)
<1>1. call'[c] = IF calls[c].op = "stream" THEN NoCall ELSE calls[c]
  BY DEF WithoutStreams
<1>2. QED
  BY <1>1 DEF OldCall

(* Nobody waits for an answer that could change an idle, anonymous,           *)
(* authenticated or failed page's identity.                                   *)
LEMMA ForgottenNotStored ==
  ASSUME AuthInv, page.status # "loading", NEW t \in page.left
  PROVE  Owned(t) /\ page.token # t /\ stored # t
BY DecidingLoads DEF AuthInv, PageOK, Forgotten

LEMMA ClearKeepsInv ==
  ASSUME AuthInv, UNCHANGED serverVars, NEW calls, call' = WithoutStreams(calls),
         \A d \in Call : \/ calls[d] = call[d] \/ calls[d] = NoCall
                         \/ IsCall(d) /\ calls[d] = Abandoned(call[d]),
         page' = Cleared(page), stored' = NoToken, NEW c \in Call
  PROVE  AuthInv'
<1>1. AuthTypeOK /\ PageOK /\ owner' = owner
  BY DEF AuthInv, serverVars
<1>2. /\ page' \in PageState
      /\ page'.version = page.version + 1 /\ page'.token = NoToken
      /\ page'.user = NoUser /\ page'.status = "anonymous"
      /\ page'.shown = NoUser /\ page'.left = page.left
  BY <1>1, ClearedFields
<1>3. \A d \in Call : OldCall(d)
  BY <1>1, StreamsGone
<1>4. \A t \in page.left : Owned(t) /\ t # NoToken
  BY <1>1, NoTokenIsNone DEF PageOK, Forgotten
<1>5. PageOK'
  BY <1>1, <1>2, <1>4 DEF PageOK, Forgotten, Owned
<1>6. call' = [d \in Call |-> call'[d]]
  BY DEF WithoutStreams
<1>7. QED
  BY <1>2, <1>3, <1>5, <1>6, NewIdentity

LEMMA ClearIdentityKeeps ==
  ASSUME AuthInv, UNCHANGED serverVars, NEW c \in Call, ClearIdentity(c)
  PROVE  AuthInv'
<1> DEFINE calls == [call EXCEPT ![c] = NoCall]
<1>1. \A d \in Call : calls[d] = call[d] \/ calls[d] = NoCall
  BY DEF AuthInv, AuthTypeOK
<1>2. call' = WithoutStreams(calls) /\ page' = Cleared(page) /\ stored' = NoToken
  BY DEF ClearIdentity
<1>3. QED
  BY <1>1, <1>2, ClearKeepsInv

LEMMA InitializeKeeps ==
  ASSUME AuthInv, NEW c \in Call, Initialize(c)
  PROVE  AuthInv'
<1> DEFINE p == [page EXCEPT !.version = @ + 1, !.user = NoUser, !.shown = NoUser]
<1>1. /\ AuthTypeOK /\ PageOK /\ owner' = owner /\ UNCHANGED serverVars /\ stored' = stored
      /\ page.status \in {"idle", "error"} /\ call[c] = NoCall
      /\ page.version + 1 \in Nat /\ page \in PageState /\ page.token = stored
      /\ call \in [Call -> CallState \cup {NoCall}]
      /\ stored \in Token \cup {NoToken}
  BY PageFields DEF AuthInv, AuthTypeOK, PageOK, Initialize, serverVars
<1>2. \A t \in page.left : Owned(t) /\ page.token # t /\ stored # t
  BY <1>1, ForgottenNotStored
<1>3. CASE page.token = NoToken
  <2>1. page' = [p EXCEPT !.status = "anonymous"] /\ call' = WithoutStreams(call)
    BY <1>3 DEF Initialize
  <2>2. /\ page' \in PageState /\ page'.version = page.version + 1
        /\ page'.token = page.token /\ page'.user = NoUser /\ page'.status = "anonymous"
        /\ page'.shown = NoUser /\ page'.left = page.left
    BY <1>1, <2>1 DEF PageState
  <2>3. PageOK'
    BY <1>1, <1>2, <2>2 DEF PageOK, Forgotten, Owned
  <2>4. \A d \in Call : OldCall(d)
    BY <1>1, <2>1, StreamsGone
  <2>5. call' = [d \in Call |-> call'[d]]
    BY <2>1 DEF WithoutStreams
  <2>6. QED
    BY <1>1, <2>2, <2>3, <2>4, <2>5, NewIdentity
<1>4. CASE page.token # NoToken
  <2> DEFINE new == Sent("me", p.token, p.version, NoUser)
  <2>1. /\ page' = [p EXCEPT !.status = "loading"]
        /\ call' = [WithoutStreams(call) EXCEPT ![c] = new]
    BY <1>4 DEF Initialize
  <2>2. /\ page' \in PageState /\ page'.version = page.version + 1
        /\ page'.token = page.token /\ page'.user = NoUser /\ page'.status = "loading"
        /\ page'.shown = NoUser /\ page'.left = page.left
    BY <1>1, <2>1 DEF PageState
  <2>3. p.token = page.token /\ p.version = page.version + 1
    BY <1>1 DEF PageState
  <2>4. Owned(page.token)
    BY <1>1, <1>4 DEF PageOK
  <2>5. /\ new \in CallState /\ new.op = "me" /\ new.token = page.token
        /\ new.version = page'.version /\ new.phase = "sent" /\ new.result = "none"
        /\ new.awaited
    BY <1>1, <2>2, <2>3, <2>4, SentType DEF Owned
  <2> HIDE DEF new
  <2>6. /\ call'[c] = new /\ call' = [d \in Call |-> call'[d]]
        /\ \A d \in Call : d # c => call'[d] = WithoutStreams(call)[d]
    BY <2>1 DEF WithoutStreams
  <2>7. \A d \in Call : d # c => OldCall(d)
    BY <1>1, <2>6, StreamsGone
  <2>8. PageOK'
    BY <1>1, <1>2, <2>2 DEF PageOK, Forgotten, Owned
  <2>9. CallOK(c)'
    BY <1>1, <2>2, <2>4, <2>5, <2>6 DEF CallOK, DecidingOK, Owned
  <2>10. QED
    BY <1>1, <2>2, <2>5, <2>6, <2>7, <2>8, <2>9, NewIdentity
<1>5. QED
  BY <1>3, <1>4

LEMMA LoginKeeps ==
  ASSUME AuthInv, NEW c \in Call, NEW u \in User, Login(c, u)
  PROVE  AuthInv'
<1> DEFINE new == Sent("login", NoToken, page'.version, u)
<1>1. /\ AuthTypeOK /\ PageOK /\ owner' = owner /\ UNCHANGED serverVars /\ stored' = NoToken
      /\ call[c] = NoCall /\ page.version + 1 \in Nat
      /\ page' = [Cleared(page) EXCEPT !.status = "loading"]
      /\ call' = [WithoutStreams(call) EXCEPT ![c] = new]
  BY PageFields DEF AuthInv, Login, serverVars
<1>2. /\ page' \in PageState
      /\ page'.version = page.version + 1 /\ page'.token = NoToken
      /\ page'.user = NoUser /\ page'.status = "loading"
      /\ page'.shown = NoUser /\ page'.left = page.left
  BY <1>1, ClearedFields DEF PageState
<1>3. /\ new \in CallState /\ new.op = "login" /\ new.token = NoToken
      /\ new.version = page'.version /\ new.phase = "sent" /\ new.result = "none"
      /\ new.awaited /\ new.for = u
  <2>1. page'.version \in Nat /\ u \in User \cup {NoUser} /\ NoToken \in Token \cup {NoToken}
    BY <1>1, <1>2
  <2>2. QED
    BY <2>1, SentType
<1> HIDE DEF new
<1>4. /\ call'[c] = new /\ call' = [d \in Call |-> call'[d]]
      /\ \A d \in Call : d # c => call'[d] = WithoutStreams(call)[d]
  BY <1>1 DEF WithoutStreams
<1>5. \A d \in Call : d # c => OldCall(d)
  BY <1>1, <1>4, StreamsGone
<1>6. \A t \in page.left : Owned(t) /\ t # NoToken
  BY <1>1, NoTokenIsNone DEF PageOK, Forgotten
<1>7. PageOK'
  BY <1>1, <1>2, <1>6 DEF PageOK, Forgotten, Owned
<1>8. CallOK(c)'
  BY <1>1, <1>2, <1>3, <1>4 DEF CallOK, DecidingOK
<1>9. QED
  BY <1>1, <1>2, <1>3, <1>4, <1>5, <1>7, <1>8, NewIdentity

LEMMA LogoutKeeps ==
  ASSUME AuthInv, NEW c \in Call, Logout(c)
  PROVE  AuthInv'
<1> DEFINE new == Sent("logout", page.token, page'.version, NoUser)
<1>1. /\ AuthTypeOK /\ PageOK /\ owner' = owner /\ UNCHANGED serverVars /\ stored' = stored
      /\ call[c] = NoCall /\ page.version + 1 \in Nat /\ page \in PageState
      /\ page.status = "authenticated" /\ page.token # NoToken /\ stored = page.token
      /\ page' = [page EXCEPT !.version = @ + 1, !.token = NoToken, !.user = NoUser,
                              !.status = "loading", !.left = @ \cup {page.token}]
      /\ call' = [WithoutStreams(call) EXCEPT ![c] = new]
      /\ Owned(page.token) /\ stored \in Token \cup {NoToken}
  BY PageFields DEF AuthInv, AuthTypeOK, Logout, PageOK, serverVars
<1>2. /\ page' \in PageState
      /\ page'.version = page.version + 1 /\ page'.token = NoToken
      /\ page'.user = NoUser /\ page'.status = "loading"
      /\ page'.left = page.left \cup {page.token}
  BY <1>1 DEF PageState, Owned
<1>3. /\ new \in CallState /\ new.op = "logout" /\ new.token = page.token
      /\ new.version = page'.version /\ new.phase = "sent" /\ new.result = "none"
      /\ new.awaited
  BY <1>1, <1>2, SentType DEF Owned
<1> HIDE DEF new
<1>4. /\ call'[c] = new /\ call' = [d \in Call |-> call'[d]]
      /\ \A d \in Call : d # c => call'[d] = WithoutStreams(call)[d]
  BY <1>1 DEF WithoutStreams
<1>5. \A d \in Call : d # c => OldCall(d)
  BY <1>1, <1>4, StreamsGone
<1>6. \A t \in page.left : Owned(t) /\ t # NoToken /\ stored # t
  BY <1>1, ForgottenNotStored, NoTokenIsNone
<1>7. Deciding(c)' /\ call'[c].op = "logout" /\ call'[c].token = page.token
  BY <1>3, <1>4 DEF Deciding, Current
<1>8. \A t \in page'.left : Forgotten(t)'
  <2> SUFFICES ASSUME NEW t \in page.left \cup {page.token} PROVE Forgotten(t)'
    BY <1>2
  <2>1. Owned(t) /\ t # NoToken
    BY <1>1, <1>6
  <2>2. Owned(t)'
    BY <1>1, <2>1 DEF Owned
  <2>3. stored' = t => t = page.token
    BY <1>1, <1>6
  <2>4. QED
    BY <1>2, <1>7, <2>1, <2>2, <2>3 DEF Forgotten
<1>9. PageOK'
  BY <1>1, <1>2, <1>8 DEF PageOK, Owned
<1>10. CallOK(c)'
  BY <1>1, <1>2, <1>3, <1>4 DEF CallOK, DecidingOK, Owned
<1>11. QED
  BY <1>1, <1>2, <1>3, <1>4, <1>5, <1>9, <1>10, NewIdentity

-----------------------------------------------------------------------------
(* Steps that leave the page alone: a call moves on, or is given up without   *)
(* being the one that decides.                                                *)
ServerMoves ==
  /\ owner' \in [Token -> User \cup {NoUser}]
  /\ live' \subseteq {t \in Token : owner'[t] # NoUser}
  /\ \A t : Owned(t) => owner'[t] = owner[t] /\ (t \in live' => t \in live)

PageWaits == page' = page /\ stored' = stored

Moved(c) ==
  /\ call'[c] \in CallState
  /\ call'[c].op = call[c].op /\ call'[c].version = call[c].version
  /\ call'[c].awaited = call[c].awaited /\ call'[c].for = call[c].for
  /\ call[c].op # "login" => call'[c].token = call[c].token
  /\ call'[c].phase = "done" => call[c].awaited
  /\ call[c].op # "login" /\ call'[c].result = "unauthorized" => call[c].token \notin live'
  /\ Deciding(c) /\ call[c].op = "login" /\ call'[c].result = "ok" =>
       Owned(call[c].token)' /\ call'[c].token \notin page.left
  /\ call[c].op = "request" /\ call'[c].phase = "done" =>
       call'[c].result \in {"ok", "unauthorized"}
  /\ call[c].op = "stream" /\ call'[c].phase = "done" => call'[c].result = "unauthorized"

LEMMA MovedKeeps ==
  ASSUME AuthInv, ServerMoves, PageWaits, NEW c \in Call, IsCall(c), Moved(c)
  PROVE  CallOK(c)' /\ (Deciding(c)' <=> Deciding(c))
<1>1. CallOK(c) /\ page' = page /\ stored' = stored
  BY DEF AuthInv, PageWaits
<1>2. Current(c)' <=> Current(c)
  BY <1>1 DEF Current, Moved
<1>3. Deciding(c)' <=> Deciding(c)
  BY <1>2 DEF Deciding, Moved
<1>4. call[c].op # "login" => Owned(call[c].token)'
  <2>1. call[c].op # "login" => Owned(call[c].token) /\ call'[c].token = call[c].token
    BY <1>1 DEF CallOK, Moved
  <2>2. QED
    BY <2>1 DEF ServerMoves, Owned
<1>5. Deciding(c)' => DecidingOK(c)'
  BY <1>1, <1>3 DEF CallOK, DecidingOK, Moved
<1>6. QED
  BY <1>1, <1>2, <1>3, <1>4, <1>5 DEF CallOK, Moved

LEMMA StillMoved ==
  ASSUME AuthInv, ServerMoves, NEW c \in Call, IsCall(c), call'[c] = call[c]
  PROVE  Moved(c)
<1>1. CallOK(c) /\ call[c] \in CallState
  BY CallRows DEF AuthInv
<1>2. Deciding(c) /\ call[c].op = "login" /\ call[c].result = "ok" =>
        Owned(call[c].token) /\ call[c].token \notin page.left
  BY <1>1 DEF CallOK, DecidingOK
<1>3. QED
  BY <1>1, <1>2 DEF CallOK, Moved, ServerMoves, Owned

(* What may become of a call while the page waits.                            *)
WaitStep(c) ==
  \/ IsCall(c) /\ Moved(c)
  \/ ~Deciding(c) /\ call'[c] = NoCall
  \/ ~Deciding(c) /\ IsCall(c) /\ call'[c] = Abandoned(call[c])
  \/ /\ page.status = "authenticated"
     /\ \E op \in {"request", "stream"} :
          call'[c] = Sent(op, page.token, page.version, NoUser)

LEMMA WaitStepEffect ==
  ASSUME AuthInv, ServerMoves, PageWaits, NEW c \in Call, WaitStep(c)
  PROVE  /\ call'[c] \in CallState \cup {NoCall}
         /\ IsCall(c)' => CallOK(c)'
         /\ Deciding(c)' <=> Deciding(c)
         /\ Deciding(c) => call'[c].op = call[c].op /\ (call[c].op = "logout" =>
                              call'[c].token = call[c].token)
         /\ page.status = "idle" /\ IsCall(c)' => ~call'[c].awaited
<1>1. /\ AuthTypeOK /\ PageOK /\ page' = page /\ stored' = stored /\ (IsCall(c) => CallOK(c))
      /\ page.version \in Nat /\ page.token \in Token \cup {NoToken}
  BY PageFields DEF AuthInv, PageWaits
<1>2. CASE IsCall(c) /\ Moved(c)
  <2>1. CallOK(c)' /\ (Deciding(c)' <=> Deciding(c))
    BY <1>2, MovedKeeps
  <2>2. page.status = "idle" => ~call[c].awaited
    BY <1>1, <1>2 DEF PageOK
  <2>3. QED
    BY <1>2, <2>1, <2>2 DEF Moved
<1>3. CASE ~Deciding(c) /\ call'[c] = NoCall
  <2>1. NoCall.op = "none"
    BY DEF NoCall
  <2>2. QED
    BY <1>3, <2>1 DEF IsCall, Deciding
<1>4. CASE ~Deciding(c) /\ IsCall(c) /\ call'[c] = Abandoned(call[c]) /\ call'[c] # NoCall
  <2>1. call[c] \in CallState /\ CallOK(c)
    BY <1>1, <1>4, CallRows
  <2>2. /\ call'[c] \in CallState /\ call'[c].op \in {"login", "logout"}
        /\ call'[c].op = call[c].op /\ call'[c].token = call[c].token
        /\ call'[c].phase # "done" /\ call'[c].result = call[c].result /\ ~call'[c].awaited
        /\ call'[c].for = call[c].for
    BY <1>4, <2>1, AbandonedType
  <2>3. ~Deciding(c)'
    BY <2>2 DEF Deciding
  <2>4. CallOK(c)'
    BY <1>1, <2>1, <2>2, <2>3 DEF CallOK, ServerMoves, Owned
  <2>5. QED
    BY <1>4, <2>2, <2>3, <2>4
<1>5. ASSUME page.status = "authenticated", NEW op \in {"request", "stream"},
             call'[c] = Sent(op, page.token, page.version, NoUser)
      PROVE  /\ call'[c] \in CallState /\ CallOK(c)' /\ ~Deciding(c)' /\ ~Deciding(c)
  <2>1. /\ call'[c] \in CallState /\ call'[c].op = op /\ call'[c].token = page.token
        /\ call'[c].version = page.version /\ call'[c].phase = "sent"
        /\ call'[c].result = "none" /\ call'[c].awaited
    BY <1>1, <1>5, SentType
  <2>2. ~Deciding(c)' /\ ~Deciding(c)
    BY <1>5, <2>1, DecidingLoads DEF Deciding
  <2>3. Owned(page.token)'
    BY <1>1, <1>5 DEF PageOK, ServerMoves, Owned
  <2>4. Current(c)'
    BY <1>1, <2>1 DEF Current
  <2>5. CallOK(c)'
    BY <1>1, <1>5, <2>1, <2>2, <2>3, <2>4 DEF CallOK
  <2>6. QED
    BY <2>1, <2>2, <2>5
<1>6. QED
  BY <1>2, <1>3, <1>4, <1>5 DEF WaitStep

LEMMA WaitingKeepsInv ==
  ASSUME AuthInv, ServerMoves, PageWaits, call' = [d \in Call |-> call'[d]],
         \A d \in Call : WaitStep(d)
  PROVE  AuthInv'
<1>1. AuthTypeOK /\ PageOK /\ OneDecides /\ page' = page /\ stored' = stored
  BY DEF AuthInv, PageWaits
<1>2. \A d \in Call : /\ call'[d] \in CallState \cup {NoCall}
                      /\ IsCall(d)' => CallOK(d)'
                      /\ Deciding(d)' <=> Deciding(d)
                      /\ Deciding(d) => call'[d].op = call[d].op
                                         /\ (call[d].op = "logout" => call'[d].token = call[d].token)
                      /\ page.status = "idle" /\ IsCall(d)' => ~call'[d].awaited
  BY WaitStepEffect
<1>3. call' \in [Call -> CallState \cup {NoCall}]
  BY <1>2
<1>4. AuthTypeOK'
  BY <1>1, <1>3 DEF AuthTypeOK, ServerMoves
<1>5. \A t : Owned(t) => Owned(t)' /\ owner'[t] = owner[t]
  BY DEF ServerMoves, Owned
<1>6. ASSUME NEW t \in page.left PROVE Forgotten(t)'
  <2>1. Forgotten(t)
    BY <1>1, <1>6 DEF PageOK
  <2>2. stored = t => \E c \in Call : /\ Deciding(c)' /\ call'[c].op = "logout"
                                      /\ call'[c].token = t
    BY <1>2, <2>1 DEF Forgotten
  <2>3. Owned(t)' /\ page.token # t
    BY <1>5, <2>1 DEF Forgotten
  <2>4. QED
    BY <1>1, <2>2, <2>3 DEF Forgotten
<1>7. PageOK'
  <2>1. page.token # NoToken => Owned(page.token)' /\ owner'[page.token] = owner[page.token]
    BY <1>1, <1>5 DEF PageOK
  <2>2. stored # NoToken => Owned(stored)'
    BY <1>1, <1>5 DEF PageOK
  <2>3. page.status = "idle" => \A c \in Call : IsCall(c)' => ~call'[c].awaited
    BY <1>2
  <2>4. \A t \in page'.left : Forgotten(t)'
    BY <1>1, <1>6
  <2>5. QED
    BY <1>1, <2>1, <2>2, <2>3, <2>4 DEF PageOK
<1>8. OneDecides'
  BY <1>1, <1>2 DEF OneDecides
<1>9. QED
  BY <1>2, <1>4, <1>7, <1>8 DEF AuthInv

LEMMA SameCallWaits ==
  ASSUME AuthInv, ServerMoves, NEW c \in Call, call'[c] = call[c]
  PROVE  WaitStep(c)
<1>1. CASE IsCall(c)
  BY <1>1, StillMoved DEF WaitStep
<1>2. CASE ~IsCall(c)
  <2>1. call[c] = NoCall /\ ~Deciding(c)
    BY <1>2, CallRows DEF AuthInv, IsCall, Deciding
  <2>2. QED
    BY <2>1 DEF WaitStep
<1>3. QED
  BY <1>1, <1>2

LEMMA OneCallWaits ==
  ASSUME AuthInv, ServerMoves, PageWaits, NEW c \in Call, NEW x, call' = [call EXCEPT ![c] = x],
         call'[c] = x => WaitStep(c)
  PROVE  AuthInv'
<1>1. call \in [Call -> CallState \cup {NoCall}]
  BY DEF AuthInv, AuthTypeOK
<1>2. /\ call'[c] = x /\ call' = [d \in Call |-> call'[d]]
      /\ \A d \in Call : d # c => call'[d] = call[d]
  BY <1>1
<1>3. \A d \in Call : WaitStep(d)
  BY <1>2, SameCallWaits
<1>4. QED
  BY <1>2, <1>3, WaitingKeepsInv

LEMMA QuietServer ==
  ASSUME AuthInv, UNCHANGED serverVars
  PROVE  ServerMoves
BY DEF AuthInv, AuthTypeOK, serverVars, ServerMoves, Owned

(* The answer of the server to a call.                                        *)
Fitting(c, result, t) ==
  /\ t \in Token \cup {NoToken} /\ result \in {"ok", "unauthorized", "refused"}
  /\ call[c].op # "login" => t = call[c].token
  /\ call[c].op # "login" /\ result = "unauthorized" => t \notin live'
  /\ call[c].op = "login" /\ result = "ok" =>
       t \in Token /\ owner'[t] # NoUser /\ t \notin page.left
  /\ call[c].op = "request" => result \in {"ok", "unauthorized"}
  /\ call[c].op = "stream" => result = "unauthorized"

LEMMA AnswerKeeps ==
  ASSUME AuthInv, ServerMoves, PageWaits, NEW c \in Call, IsCall(c),
         NEW result, NEW t, Answer(c, result, t), Fitting(c, result, t)
  PROVE  AuthInv'
<1>1. call[c] \in CallState /\ CallOK(c)
  BY CallRows DEF AuthInv
<1>2. CASE ~call[c].awaited
  <2>1. call' = [call EXCEPT ![c] = NoCall]
    BY <1>2 DEF Answer
  <2>2. ~Deciding(c)
    BY <1>2 DEF Deciding
  <2>3. QED
    BY <2>1, <2>2, OneCallWaits DEF WaitStep
<1>3. CASE call[c].awaited
  <2> DEFINE x == [call[c] EXCEPT !.phase = "done", !.result = result, !.token = t]
  <2>1. call' = [call EXCEPT ![c] = x]
    BY <1>3 DEF Answer
  <2>2. /\ x \in CallState /\ x.op = call[c].op /\ x.version = call[c].version
        /\ x.for = call[c].for
        /\ x.awaited /\ x.phase = "done" /\ x.result = result /\ x.token = t
    BY <1>1, <1>3 DEF CallState, Fitting
  <2> HIDE DEF x
  <2>3. ASSUME call'[c] = x PROVE Moved(c)
    BY <1>1, <1>3, <2>2, <2>3 DEF Moved, Fitting, Owned
  <2>4. QED
    BY <2>1, <2>3, OneCallWaits DEF WaitStep
<1>4. QED
  BY <1>1, <1>2, <1>3 DEF CallState

LEMMA LoginHandledKeeps ==
  ASSUME AuthInv, NEW c \in Call, LoginHandled(c)
  PROVE  AuthInv'
<1>1. /\ IsCall(c) /\ call[c].op = "login" /\ PageWaits /\ PageOK
      /\ owner \in [Token -> User \cup {NoUser}]
      /\ live \subseteq {t \in Token : owner[t] # NoUser}
  BY DEF LoginHandled, IsCall, PageWaits, AuthInv, AuthTypeOK
<1>2. call[c].for \in User /\ call[c].for # NoUser
  BY <1>1, AuthAssumption DEF AuthInv, CallOK
<1>3. ASSUME NEW t \in Token, owner[t] = NoUser, owner' = [owner EXCEPT ![t] = call[c].for],
             live' = live \cup {t}, Answer(c, "ok", t)
      PROVE  AuthInv'
  <2>1. owner'[t] # NoUser /\ \A s \in Token : s # t => owner'[s] = owner[s]
    BY <1>1, <1>2, <1>3
  <2>2. ServerMoves
    <3>1. owner' \in [Token -> User \cup {NoUser}]
      BY <1>1, <1>2, <1>3
    <3>2. live' \subseteq {s \in Token : owner'[s] # NoUser}
      BY <1>1, <1>3, <2>1
    <3>3. \A s : Owned(s) => s # t /\ owner'[s] = owner[s] /\ (s \in live' => s \in live)
      BY <1>3, <2>1 DEF Owned
    <3>4. QED
      BY <3>1, <3>2, <3>3 DEF ServerMoves
  <2>3. t \notin page.left
    BY <1>1, <1>3 DEF PageOK, Forgotten, Owned
  <2>4. Fitting(c, "ok", t)
    BY <1>1, <1>3, <2>1, <2>3 DEF Fitting
  <2>5. QED
    BY <1>1, <1>3, <2>2, <2>4, AnswerKeeps
<1>4. ASSUME Answer(c, "refused", NoToken), UNCHANGED serverVars
      PROVE  AuthInv'
  <2>1. ServerMoves /\ Fitting(c, "refused", NoToken)
    BY <1>1, <1>4, QuietServer DEF Fitting
  <2>2. QED
    BY <1>1, <1>4, <2>1, AnswerKeeps
<1>5. QED
  BY <1>3, <1>4 DEF LoginHandled

LEMMA AuthenticateKeeps ==
  ASSUME AuthInv, NEW c \in Call, Authenticate(c)
  PROVE  AuthInv'
<1> DEFINE t == call[c].token
<1>1. /\ IsCall(c) /\ call[c].op # "login" /\ call[c].phase = "sent"
      /\ PageWaits /\ UNCHANGED serverVars /\ live' = live
  BY DEF Authenticate, IsCall, PageWaits, serverVars
<1>2. call[c] \in CallState /\ CallOK(c) /\ ServerMoves /\ t \in Token /\ t \in Token \cup {NoToken}
  BY <1>1, CallRows, QuietServer DEF AuthInv, CallOK, Owned
<1> HIDE DEF t
<1>3. CASE ~Valid(t) /\ Answer(c, "unauthorized", t)
  <2>1. Fitting(c, "unauthorized", t)
    BY <1>1, <1>2, <1>3 DEF Fitting, Valid, t
  <2>2. QED
    BY <1>1, <1>2, <1>3, <2>1, AnswerKeeps
<1>4. ASSUME NEW ph \in {"admitted", "open"}, call' = [call EXCEPT ![c].phase = ph]
      PROVE  AuthInv'
  <2> DEFINE x == [call[c] EXCEPT !.phase = ph]
  <2>1. call' = [call EXCEPT ![c] = x]
    BY <1>4
  <2>2. /\ x \in CallState /\ x.op = call[c].op /\ x.version = call[c].version
        /\ x.for = call[c].for /\ x.awaited = call[c].awaited /\ x.phase = ph
        /\ x.result = call[c].result /\ x.token = call[c].token
    BY <1>2, <1>4 DEF CallState
  <2> HIDE DEF x
  <2>3. ASSUME call'[c] = x PROVE Moved(c)
    BY <1>1, <1>2, <1>4, <2>2, <2>3 DEF Moved, CallOK
  <2>4. QED
    BY <1>1, <1>2, <2>1, <2>3, OneCallWaits DEF WaitStep
<1>5. CASE Answer(c, "ok", t) /\ call[c].op # "stream"
  <2>1. Fitting(c, "ok", t)
    BY <1>1, <1>2, <1>5 DEF Fitting, t
  <2>2. QED
    BY <1>1, <1>2, <1>5, <2>1, AnswerKeeps
<1>6. QED
  BY <1>3, <1>4, <1>5 DEF Authenticate, t

LEMMA RevokeKeeps ==
  ASSUME AuthInv, NEW c \in Call, Revoke(c)
  PROVE  AuthInv'
<1> DEFINE t == call[c].token
           r == IF Valid(t) THEN "ok" ELSE "unauthorized"
<1>1. /\ IsCall(c) /\ call[c].op = "logout" /\ PageWaits /\ owner' = owner
      /\ live' = live \ {t} /\ Answer(c, r, t)
  BY DEF Revoke, IsCall, PageWaits
<1>2. CallOK(c) /\ t \in Token /\ AuthTypeOK
  BY <1>1 DEF AuthInv, CallOK, Owned
<1>3. ServerMoves
  BY <1>1, <1>2 DEF AuthTypeOK, ServerMoves, Owned
<1>4. Fitting(c, r, t)
  BY <1>1, <1>2 DEF Fitting
<1>5. QED
  BY <1>1, <1>3, <1>4, AnswerKeeps

LEMMA AskKeeps ==
  ASSUME AuthInv, NEW c \in Call, NEW op \in {"request", "stream"}, Ask(c, op)
  PROVE  AuthInv'
<1>1. PageWaits /\ ServerMoves /\ page.status = "authenticated"
  BY QuietServer DEF Ask, PageWaits, serverVars
<1>2. call' = [call EXCEPT ![c] = Sent(op, page.token, page.version, NoUser)]
  BY DEF Ask
<1>3. QED
  BY <1>1, <1>2, OneCallWaits DEF WaitStep

(* The end of a call that decides nothing.                                    *)
LEMMA IgnoreKeeps ==
  ASSUME AuthInv, UNCHANGED serverVars, NEW c \in Call, ~Deciding(c), Ignore(c)
  PROVE  AuthInv'
<1>1. PageWaits /\ ServerMoves /\ call' = [call EXCEPT ![c] = NoCall]
  BY QuietServer DEF Ignore, Forget, PageWaits
<1>2. QED
  BY <1>1, OneCallWaits DEF WaitStep

LEMMA GivenUpKeeps ==
  ASSUME AuthInv, UNCHANGED serverVars, NEW c \in Call, IsCall(c), ~Deciding(c),
         call' = [call EXCEPT ![c] = Abandoned(@)], UNCHANGED <<page, stored>>
  PROVE  AuthInv'
<1>1. PageWaits /\ ServerMoves
  BY QuietServer DEF PageWaits
<1>2. QED
  BY <1>1, OneCallWaits DEF WaitStep

-----------------------------------------------------------------------------
(* The call that decides ends: no other call was made under its identity.     *)
Ended(c) == call'[c] = NoCall \/ call'[c] = Abandoned(call[c])

LEMMA EndedDecidesNothing ==
  ASSUME AuthInv, UNCHANGED serverVars, NEW c \in Call, IsCall(c), Ended(c)
  PROVE  /\ call'[c] \in CallState \cup {NoCall} /\ ~Deciding(c)'
         /\ IsCall(c)' => CallOK(c)' /\ ~call'[c].awaited
<1>1. call[c] \in CallState /\ CallOK(c) /\ owner' = owner /\ live' = live
  BY CallRows DEF AuthInv, serverVars
<1>2. CASE call'[c] = NoCall
  BY <1>2 DEF IsCall, Deciding, NoCall
<1>3. CASE call'[c] = Abandoned(call[c]) /\ call'[c] # NoCall
  <2>1. /\ call'[c] \in CallState /\ call'[c].op \in {"login", "logout"}
        /\ call'[c].op = call[c].op /\ call'[c].token = call[c].token
        /\ call'[c].phase # "done" /\ call'[c].result = call[c].result /\ ~call'[c].awaited
        /\ call'[c].for = call[c].for
    BY <1>1, <1>3, AbandonedType
  <2>2. ~Deciding(c)'
    BY <2>1 DEF Deciding
  <2>3. CallOK(c)'
    BY <1>1, <2>1, <2>2 DEF CallOK, Owned
  <2>4. QED
    BY <2>1, <2>2, <2>3
<1>4. QED
  BY <1>2, <1>3 DEF Ended

LEMMA DecidedKeepsInv ==
  ASSUME AuthInv, UNCHANGED serverVars, NEW c \in Call, Deciding(c), Ended(c),
         call' = [d \in Call |-> call'[d]], \A d \in Call : d # c => call'[d] = call[d],
         page' \in PageState, page'.version = page.version,
         stored' \in Token \cup {NoToken}, PageOK'
  PROVE  AuthInv'
<1>1. /\ AuthTypeOK /\ OneDecides /\ IsCall(c) /\ page.status = "loading"
      /\ owner' = owner /\ live' = live
  BY DecidingLoads DEF AuthInv, serverVars
<1>2. /\ call'[c] \in CallState \cup {NoCall} /\ ~Deciding(c)' /\ (IsCall(c)' => CallOK(c)')
  BY <1>1, EndedDecidesNothing
<1>3. ASSUME NEW d \in Call, d # c
      PROVE  /\ call'[d] \in CallState \cup {NoCall} /\ ~Deciding(d)'
             /\ IsCall(d)' => CallOK(d)'
  <2>1. ~Deciding(d) /\ call'[d] = call[d] /\ (IsCall(d) => CallOK(d))
    BY <1>1, <1>3 DEF OneDecides, AuthInv
  <2>2. (Current(d)' <=> Current(d)) /\ ~Deciding(d)'
    BY <2>1 DEF Deciding, Current
  <2>3. IsCall(d)' => CallOK(d)'
    BY <1>1, <2>1, <2>2 DEF IsCall, CallOK, Owned
  <2>4. QED
    BY <1>1, <2>1, <2>2, <2>3 DEF AuthTypeOK
<1>4. call' \in [Call -> CallState \cup {NoCall}]
  BY <1>2, <1>3
<1>5. AuthTypeOK'
  BY <1>1, <1>4 DEF AuthTypeOK
<1>6. OneDecides' /\ \A d \in Call : IsCall(d)' => CallOK(d)'
  BY <1>2, <1>3 DEF OneDecides
<1>7. QED
  BY <1>5, <1>6 DEF AuthInv

LEMMA OneCallEnds ==
  ASSUME AuthInv, NEW c \in Call,
         Forget(c) \/ call' = [call EXCEPT ![c] = Abandoned(@)]
  PROVE  /\ Ended(c) /\ call' = [d \in Call |-> call'[d]]
         /\ \A d \in Call : d # c => call'[d] = call[d]
BY DEF AuthInv, AuthTypeOK, Forget, Ended

(* What the page may come to when the identity it waited for is decided.      *)
LEMMA PageDecided ==
  ASSUME AuthInv, owner' = owner, page' \in PageState, page'.left = page.left,
         \/ /\ page'.status = "authenticated" /\ Owned(page'.token)
            /\ stored' = page'.token /\ page'.token \notin page.left
            /\ page'.user = owner[page'.token]
         \/ /\ page'.status = "error" /\ page'.user = NoUser
            /\ stored' = page'.token /\ page'.token \notin page.left
            /\ (page'.token # NoToken => Owned(page'.token))
         \/ /\ page'.status = "anonymous" /\ page'.user = NoUser
            /\ page'.token = NoToken /\ stored' = NoToken,
         page'.shown = NoUser
  PROVE  PageOK'
<1>1. \A t \in page.left : Owned(t) /\ t # NoToken
  BY NoTokenIsNone DEF AuthInv, PageOK, Forgotten
<1>2. \A t \in page'.left : Forgotten(t)'
  BY <1>1 DEF Forgotten, Owned
<1>3. page'.status = "authenticated" => page'.token # NoToken
  BY NoTokenIsNone
<1>4. QED
  BY <1>2, <1>3 DEF PageOK, Owned

LEMMA MeDecided ==
  ASSUME AuthInv, UNCHANGED serverVars, NEW c \in Call, Deciding(c), call[c].op = "me",
         UNCHANGED stored,
         \/ /\ page' = [page EXCEPT !.user = owner[call[c].token], !.status = "authenticated"]
            /\ Forget(c)
         \/ /\ page' = [page EXCEPT !.status = "error"]
            /\ call' = [call EXCEPT ![c] = Abandoned(@)]
  PROVE  AuthInv'
<1>1. /\ AuthTypeOK /\ PageOK /\ owner' = owner /\ CallOK(c) /\ page.status = "loading"
      /\ call[c].token = page.token /\ stored = page.token /\ page.shown = NoUser
  BY DecidingLoads DEF AuthInv, DecidingOK, serverVars
<1>2. /\ Owned(page.token) /\ page.user = NoUser /\ owner[page.token] \in User \cup {NoUser}
      /\ page \in PageState /\ stored \in Token \cup {NoToken}
  BY <1>1 DEF CallOK, PageOK, AuthTypeOK, Owned
<1>3. \A t \in page.left : page.token # t
  BY <1>1 DEF PageOK, Forgotten
<1>4. /\ page' \in PageState /\ page'.version = page.version /\ page'.left = page.left
      /\ page'.token = page.token /\ page'.shown = NoUser
      /\ \/ page'.status = "authenticated" /\ page'.user = owner[page.token]
         \/ page'.status = "error" /\ page'.user = NoUser
  BY <1>1, <1>2 DEF PageState
<1>5. PageOK'
  BY <1>1, <1>2, <1>3, <1>4, PageDecided
<1>6. /\ Ended(c) /\ call' = [d \in Call |-> call'[d]]
      /\ \A d \in Call : d # c => call'[d] = call[d]
  BY OneCallEnds
<1>7. QED
  BY <1>1, <1>2, <1>4, <1>5, <1>6, DecidedKeepsInv

LEMMA LoginDecided ==
  ASSUME AuthInv, UNCHANGED serverVars, NEW c \in Call, Deciding(c), call[c].op = "login",
         \/ /\ call[c].result = "ok"
            /\ page' = [page EXCEPT !.user = owner[call[c].token],
                                    !.token = call[c].token, !.status = "authenticated"]
            /\ stored' = call[c].token /\ Forget(c)
         \/ /\ page' = [page EXCEPT !.status = "anonymous"]
            /\ Forget(c) \/ call' = [call EXCEPT ![c] = Abandoned(@)]
            /\ UNCHANGED stored
  PROVE  AuthInv'
<1>1. /\ AuthTypeOK /\ PageOK /\ owner' = owner /\ page.status = "loading"
      /\ page.token = NoToken /\ stored = NoToken /\ page.shown = NoUser
      /\ call[c].result = "ok" => Owned(call[c].token) /\ call[c].token \notin page.left
  BY DecidingLoads DEF AuthInv, DecidingOK, serverVars
<1>2. page.user = NoUser /\ page \in PageState
  BY <1>1 DEF PageOK, AuthTypeOK
<1>3. /\ Ended(c) /\ call' = [d \in Call |-> call'[d]]
      /\ \A d \in Call : d # c => call'[d] = call[d]
  BY OneCallEnds
<1>4. CASE /\ call[c].result = "ok"
           /\ page' = [page EXCEPT !.user = owner[call[c].token],
                                   !.token = call[c].token, !.status = "authenticated"]
           /\ stored' = call[c].token
  <2>1. /\ call[c].token \in Token /\ owner[call[c].token] \in User \cup {NoUser}
        /\ Owned(call[c].token) /\ call[c].token \notin page.left
    BY <1>1, <1>4 DEF AuthTypeOK, Owned
  <2>2. /\ page' \in PageState /\ page'.version = page.version /\ page'.left = page.left
        /\ page'.token = call[c].token /\ page'.shown = NoUser
        /\ page'.status = "authenticated" /\ page'.user = owner[call[c].token]
    BY <1>1, <1>2, <1>4, <2>1 DEF PageState
  <2>3. PageOK'
    BY <1>1, <1>4, <2>1, <2>2, PageDecided
  <2>4. stored' \in Token \cup {NoToken}
    BY <1>4, <2>1
  <2>5. QED
    BY <1>3, <2>2, <2>3, <2>4, DecidedKeepsInv
<1>5. CASE page' = [page EXCEPT !.status = "anonymous"] /\ UNCHANGED stored
  <2>1. /\ page' \in PageState /\ page'.version = page.version /\ page'.left = page.left
        /\ page'.token = NoToken /\ page'.shown = NoUser
        /\ page'.status = "anonymous" /\ page'.user = NoUser
    BY <1>1, <1>2, <1>5 DEF PageState
  <2>2. PageOK'
    BY <1>1, <1>5, <2>1, PageDecided
  <2>3. stored' \in Token \cup {NoToken}
    BY <1>1, <1>5
  <2>4. QED
    BY <1>3, <2>1, <2>2, <2>3, DecidedKeepsInv
<1>6. QED
  BY <1>4, <1>5

(* Data that arrives under the present identity is shown.                     *)
LEMMA ShownKeepsInv ==
  ASSUME AuthInv, UNCHANGED serverVars, UNCHANGED stored, NEW c \in Call,
         page.status = "authenticated", page' = [page EXCEPT !.shown = owner[page.token]],
         UNCHANGED call \/ Forget(c)
  PROVE  AuthInv'
<1>1. AuthTypeOK /\ PageOK /\ owner' = owner /\ live' = live /\ stored' = stored
  BY DEF AuthInv, serverVars
<1>2. /\ page.token \in Token /\ owner[page.token] \in User \cup {NoUser}
      /\ page \in PageState
  BY <1>1 DEF PageOK, Owned, AuthTypeOK
<1>3. /\ page' \in PageState /\ page'.status = page.status /\ page'.token = page.token
      /\ page'.user = page.user /\ page'.version = page.version
      /\ page'.left = page.left /\ page'.shown = owner[page.token]
  BY <1>2 DEF PageState
<1>4. ASSUME NEW t \in page.left PROVE Forgotten(t)'
  <2>1. Owned(t) /\ page.token # t /\ stored # t
    BY <1>4, ForgottenNotStored
  <2>2. QED
    BY <1>1, <1>3, <2>1 DEF Forgotten, Owned
<1>5. PageOK'
  BY <1>1, <1>3, <1>4 DEF PageOK, Owned
<1>6. ASSUME NEW d \in Call
      PROVE  /\ call'[d] \in CallState \cup {NoCall} /\ ~Deciding(d)'
             /\ IsCall(d)' => CallOK(d)'
  <2>1. ~Deciding(d)
    BY DecidingLoads
  <2>2. CASE call'[d] = call[d]
    <3>1. (Current(d)' <=> Current(d)) /\ ~Deciding(d)'
      BY <1>3, <2>1, <2>2 DEF Current, Deciding
    <3>2. IsCall(d)' => CallOK(d)'
      BY <1>1, <1>3, <2>2, <3>1 DEF AuthInv, IsCall, CallOK, Owned
    <3>3. QED
      BY <1>1, <2>2, <3>1, <3>2 DEF AuthTypeOK
  <2>3. CASE call'[d] = NoCall
    BY <2>3 DEF IsCall, Deciding, NoCall
  <2>4. QED
    BY <1>1, <2>2, <2>3 DEF AuthTypeOK, Forget
<1>7. call' \in [Call -> CallState \cup {NoCall}]
  <2>1. call' = [d \in Call |-> call'[d]]
    BY <1>1 DEF AuthTypeOK, Forget
  <2>2. QED
    BY <1>6, <2>1
<1>8. AuthTypeOK'
  BY <1>1, <1>3, <1>7 DEF AuthTypeOK
<1>9. QED
  BY <1>5, <1>6, <1>8 DEF AuthInv, OneDecides

-----------------------------------------------------------------------------
(* Every action keeps the invariant.                                          *)
LEMMA ReceiveKeeps ==
  ASSUME AuthInv, NEW c \in Call, Receive(c)
  PROVE  AuthInv'
<1>1. /\ IsCall(c) /\ call[c].phase = "done" /\ UNCHANGED serverVars
      /\ CallOK(c) /\ call[c].awaited
  BY DEF Receive, IsCall, AuthInv, CallOK
<1>2. CASE AnswerOfMe(c)
  <2>1. CASE Current(c) /\ call[c].result = "ok"
    <3>1. Deciding(c) /\ call[c].op = "me"
      BY <1>1, <1>2, <2>1 DEF Deciding, AnswerOfMe
    <3>2. QED
      BY <1>1, <1>2, <2>1, <3>1, MeDecided DEF AnswerOfMe
  <2>2. CASE Current(c) /\ call[c].result # "ok"
    BY <1>1, <1>2, <2>2, ClearIdentityKeeps DEF AnswerOfMe
  <2>3. CASE ~Current(c)
    BY <1>1, <1>2, <2>3, IgnoreKeeps DEF AnswerOfMe, Deciding
  <2>4. QED
    BY <2>1, <2>2, <2>3
<1>3. CASE AnswerOfLogin(c)
  <2>1. CASE Current(c)
    <3>1. Deciding(c) /\ call[c].op = "login"
      BY <1>1, <1>3, <2>1 DEF Deciding, AnswerOfLogin
    <3>2. QED
      BY <1>1, <1>3, <2>1, <3>1, LoginDecided DEF AnswerOfLogin
  <2>2. CASE ~Current(c)
    BY <1>1, <1>3, <2>2, IgnoreKeeps DEF AnswerOfLogin, Deciding
  <2>3. QED
    BY <2>1, <2>2
<1>4. CASE AnswerOfLogout(c)
  <2>1. CASE Current(c)
    BY <1>1, <1>4, <2>1, ClearIdentityKeeps DEF AnswerOfLogout
  <2>2. CASE ~Current(c)
    BY <1>1, <1>4, <2>2, IgnoreKeeps DEF AnswerOfLogout, Deciding
  <2>3. QED
    BY <2>1, <2>2
<1>5. CASE AnswerOfRequest(c)
  <2>1. CASE Current(c) /\ call[c].token = page.token /\ call[c].result = "ok"
    <3>1. page.status = "authenticated"
      BY <1>1, <1>5, <2>1 DEF AnswerOfRequest, CallOK
    <3>2. /\ page' = [page EXCEPT !.shown = owner[page.token]]
          /\ Forget(c) /\ UNCHANGED stored
      BY <1>5, <2>1 DEF AnswerOfRequest
    <3>3. QED
      BY <1>1, <3>1, <3>2, ShownKeepsInv
  <2>2. CASE Current(c) /\ call[c].token = page.token /\ call[c].result # "ok"
    BY <1>1, <1>5, <2>2, ClearIdentityKeeps DEF AnswerOfRequest
  <2>3. CASE ~(Current(c) /\ call[c].token = page.token)
    BY <1>1, <1>5, <2>3, IgnoreKeeps DEF AnswerOfRequest, Deciding
  <2>4. QED
    BY <2>1, <2>2, <2>3
<1>6. CASE HandshakeRefused(c)
  <2>1. CASE Current(c) /\ call[c].token = page.token
    BY <1>1, <1>6, <2>1, ClearIdentityKeeps DEF HandshakeRefused
  <2>2. CASE ~(Current(c) /\ call[c].token = page.token)
    BY <1>1, <1>6, <2>2, IgnoreKeeps DEF HandshakeRefused, Deciding
  <2>3. QED
    BY <2>1, <2>2
<1>7. QED
  BY <1>2, <1>3, <1>4, <1>5, <1>6 DEF Receive

LEMMA FailKeeps ==
  ASSUME AuthInv, NEW c \in Call, Fail(c)
  PROVE  AuthInv'
<1>1. /\ IsCall(c) /\ UNCHANGED serverVars /\ call[c].awaited
  BY DEF Fail, IsCall
<1>2. CASE ~Current(c) \/ call[c].op \in {"request", "stream"}
  <2>1. ~Deciding(c)
    BY <1>2 DEF Deciding
  <2>2. call' = [call EXCEPT ![c] = Abandoned(@)] /\ UNCHANGED <<page, stored>>
    BY <1>2 DEF Fail
  <2>3. QED
    BY <1>1, <2>1, <2>2, GivenUpKeeps
<1>3. CASE Current(c) /\ call[c].op = "me"
  BY <1>1, <1>3, MeDecided DEF Fail, Deciding
<1>4. CASE Current(c) /\ call[c].op = "login"
  BY <1>1, <1>4, LoginDecided DEF Fail, Deciding
<1>5. CASE Current(c) /\ call[c].op = "logout"
  <2> DEFINE calls == [call EXCEPT ![c] = Abandoned(@)]
  <2>1. page' = Cleared(page) /\ stored' = NoToken /\ call' = WithoutStreams(calls)
    BY <1>5 DEF Fail
  <2>2. \A d \in Call : calls[d] = call[d] \/ (IsCall(d) /\ calls[d] = Abandoned(call[d]))
    BY <1>1 DEF AuthInv, AuthTypeOK
  <2> HIDE DEF calls
  <2>3. QED
    BY <1>1, <2>1, <2>2, ClearKeepsInv
<1>6. QED
  BY <1>1, <1>2, <1>3, <1>4, <1>5, CallRows DEF AuthInv

LEMMA StreamEventKeeps ==
  ASSUME AuthInv, NEW c \in Call, StreamEvent(c)
  PROVE  AuthInv'
<1>1. /\ UNCHANGED serverVars /\ UNCHANGED stored /\ UNCHANGED call
      /\ page' = [page EXCEPT !.shown = owner[page.token]]
  BY DEF StreamEvent, serverVars
<1>2. page.status = "authenticated"
  BY DEF StreamEvent, AuthInv, IsCall, CallOK
<1>3. QED
  BY <1>1, <1>2, ShownKeepsInv

LEMMA ReloadKeeps ==
  ASSUME AuthInv, Reload
  PROVE  AuthInv'
<1>1. /\ AuthTypeOK /\ PageOK /\ UNCHANGED serverVars /\ stored' = stored
      /\ owner' = owner /\ live' = live
      /\ page' = Unauthenticated(stored)
      /\ call' = [d \in Call |-> IF call[d] = NoCall THEN NoCall ELSE Abandoned(call[d])]
  BY DEF AuthInv, Reload, serverVars
<1>2. /\ page' \in PageState /\ page'.status = "idle" /\ page'.user = NoUser
      /\ page'.token = stored /\ page'.shown = NoUser /\ page'.left = {}
  BY <1>1 DEF Unauthenticated, PageState, AuthTypeOK
<1>3. ASSUME NEW d \in Call
      PROVE  /\ call'[d] \in CallState \cup {NoCall} /\ ~Deciding(d)'
             /\ IsCall(d)' => CallOK(d)' /\ ~call'[d].awaited
  <2>1. CASE IsCall(d)
    BY <1>1, <2>1, EndedDecidesNothing DEF Ended
  <2>2. CASE ~IsCall(d)
    <3>1. call'[d] = NoCall
      BY <1>1, <2>2, CallRows
    <3>2. QED
      BY <3>1 DEF IsCall, Deciding, NoCall
  <2>3. QED
    BY <2>1, <2>2
<1>4. call' \in [Call -> CallState \cup {NoCall}]
  BY <1>1, <1>3
<1>5. AuthTypeOK'
  BY <1>1, <1>2, <1>4 DEF AuthTypeOK
<1>6. PageOK'
  BY <1>1, <1>2, <1>3 DEF PageOK, Owned
<1>7. QED
  BY <1>3, <1>5, <1>6 DEF AuthInv, OneDecides

LEMMA AuthInit == Init => AuthInv
<1> SUFFICES ASSUME Init PROVE AuthInv
  OBVIOUS
<1>1. Unauthenticated(NoToken) \in PageState
  BY DEF Unauthenticated, PageState
<1>2. AuthTypeOK
  BY <1>1 DEF Init, AuthTypeOK
<1>3. \A c \in Call : ~IsCall(c) /\ ~Deciding(c)
  BY DEF Init, IsCall, Deciding, NoCall
<1>4. PageOK
  BY <1>3 DEF Init, PageOK, Unauthenticated
<1>5. QED
  BY <1>2, <1>3, <1>4 DEF AuthInv, OneDecides

LEMMA StutterKeeps == ASSUME AuthInv, UNCHANGED vars PROVE AuthInv'
BY DEF AuthInv, vars, AuthTypeOK, PageOK, Forgotten, Owned, IsCall, CallOK,
       Deciding, DecidingOK, Current, OneDecides

LEMMA AuthStep == AuthInv /\ [Next]_vars => AuthInv'
<1> SUFFICES ASSUME AuthInv, [Next]_vars PROVE AuthInv'
  OBVIOUS
<1>1. CASE Reload
  BY <1>1, ReloadKeeps
<1>2. ASSUME NEW c \in Call, Initialize(c) \/ Logout(c) PROVE AuthInv'
  BY <1>2, InitializeKeeps, LogoutKeeps
<1>3. ASSUME NEW c \in Call, NEW u \in User, Login(c, u) PROVE AuthInv'
  BY <1>3, LoginKeeps
<1>4. ASSUME NEW c \in Call, NEW op \in {"request", "stream"}, Ask(c, op) PROVE AuthInv'
  BY <1>4, AskKeeps
<1>5. ASSUME NEW c \in Call, Served(c) PROVE AuthInv'
  BY <1>5, LoginHandledKeeps, AuthenticateKeeps, RevokeKeeps DEF Served
<1>6. ASSUME NEW c \in Call, Receive(c) \/ Fail(c) \/ StreamEvent(c) PROVE AuthInv'
  BY <1>6, ReceiveKeeps, FailKeeps, StreamEventKeeps
<1>7. CASE UNCHANGED vars
  BY <1>7, StutterKeeps
<1>8. QED
  BY <1>1, <1>2, <1>3, <1>4, <1>5, <1>6, <1>7 DEF Next

LEMMA AuthInvariant == Spec => []AuthInv
BY AuthInit, AuthStep, PTL DEF Spec

-----------------------------------------------------------------------------
(* The theorems.                                                              *)

(* The page, localStorage, the sessions and the calls stay in their domains;  *)
(* a session that is not revoked always has a user (auth_sessions).           *)
THEOREM AuthTypeCorrect == Spec => []AuthTypeOK
<1>1. AuthInv => AuthTypeOK
  BY DEF AuthInv
<1>2. QED
  BY <1>1, AuthInvariant, PTL

(* createAuthState: the user, the token, localStorage and the data on the     *)
(* screen are always those of one identity.                                   *)
THEOREM OneIdentity == Spec => []IdentityIsConsistent
<1>1. AuthInv => IdentityIsConsistent
  BY DEF AuthInv, PageOK, IdentityIsConsistent
<1>2. QED
  BY <1>1, AuthInvariant, PTL

(* logout: whatever becomes of its call, the page does not use the token      *)
(* again, and once the call is over nor does the page after it.               *)
THEOREM LogoutIsForGood == Spec => []LogoutForgetsToken
<1>1. AuthInv => LogoutForgetsToken
  BY DEF AuthInv, PageOK, Forgotten, LogoutForgetsToken, Deciding
<1>2. QED
  BY <1>1, AuthInvariant, PTL

(* cancelStreams: a stream that is still read is one of the present identity. *)
THEOREM NoForeignStream == Spec => []StreamsAreCurrent
<1>1. AuthInv => StreamsAreCurrent
  BY DEF AuthInv, CallOK, IsCall, StreamsAreCurrent
<1>2. QED
  BY <1>1, AuthInvariant, PTL

(* handleUnauthorized: an authenticated page falls back to anonymous only     *)
(* because of a refusal of its own session, which is revoked.                 *)
LEMMA ClearedWhenRevoked ==
  ASSUME AuthInv, [Next]_vars,
         page.status = "authenticated", page'.status = "anonymous"
  PROVE  page.token \notin live
<1>1. \A c \in Call : ~Deciding(c)
  BY DecidingLoads
<1>2. CASE Reload
  BY <1>2 DEF Reload, Unauthenticated
<1>3. ASSUME NEW c \in Call, Initialize(c) \/ (\E u \in User : Login(c, u)) PROVE FALSE
  BY <1>3 DEF Initialize, Login
<1>4. ASSUME NEW c \in Call, Logout(c) PROVE FALSE
  <2>1. page \in PageState
    BY DEF AuthInv, AuthTypeOK
  <2>2. QED
    BY <1>4, <2>1 DEF Logout, PageState
<1>5. ASSUME NEW c \in Call, (\E op \in {"request", "stream"} : Ask(c, op)) \/ Served(c)
      PROVE FALSE
  BY <1>5 DEF Ask, Served, LoginHandled, Authenticate, Revoke
<1>6. ASSUME NEW c \in Call, Receive(c) PROVE page.token \notin live
  <2>1. /\ IsCall(c) /\ call[c].phase = "done" /\ CallOK(c) /\ call[c].awaited
    BY <1>6 DEF Receive, IsCall, AuthInv, CallOK
  <2>2. CASE Ignore(c)
    BY <2>2 DEF Ignore
  <2>3. CASE Current(c) /\ call[c].op \in {"me", "login", "logout"}
    BY <1>1, <2>1, <2>3 DEF Deciding
  <2>4. CASE call[c].op = "request" /\ Current(c) /\ call[c].token = page.token
    <3>1. CASE call[c].result = "ok"
      <4>1. page \in PageState
        BY DEF AuthInv, AuthTypeOK
      <4>2. page' = [page EXCEPT !.shown = owner[call[c].token]]
        BY <1>6, <2>4, <3>1 DEF Receive, AnswerOfMe, AnswerOfLogin, AnswerOfLogout,
                                AnswerOfRequest, HandshakeRefused
      <4>3. QED
        BY <4>1, <4>2 DEF PageState
    <3>2. CASE call[c].result = "unauthorized"
      BY <2>1, <2>4, <3>2 DEF CallOK
    <3>3. QED
      BY <2>1, <2>4, <3>1, <3>2 DEF CallOK
  <2>5. CASE call[c].op = "stream" /\ call[c].token = page.token
    BY <2>1, <2>5 DEF CallOK
  <2>6. QED
    BY <1>6, <2>2, <2>3, <2>4, <2>5
       DEF Receive, AnswerOfMe, AnswerOfLogin, AnswerOfLogout, AnswerOfRequest,
           HandshakeRefused
<1>7. ASSUME NEW c \in Call, Fail(c) PROVE FALSE
  <2>1. IsCall(c) /\ call[c].awaited
    BY <1>7 DEF Fail, IsCall
  <2>2. ~Current(c) \/ call[c].op \in {"request", "stream"}
    BY <1>1, <2>1, CallRows DEF Deciding, AuthInv
  <2>3. QED
    BY <1>7, <2>2 DEF Fail
<1>8. ASSUME NEW c \in Call, StreamEvent(c) PROVE FALSE
  <2>1. page \in PageState
    BY DEF AuthInv, AuthTypeOK
  <2>2. QED
    BY <1>8, <2>1 DEF StreamEvent, PageState
<1>9. CASE UNCHANGED vars
  BY <1>9 DEF vars
<1>10. QED
  BY <1>2, <1>3, <1>4, <1>5, <1>6, <1>7, <1>8, <1>9 DEF Next

THEOREM StaleRefusalsIgnored == Spec => OnlyRevokedIdentityCleared
<1>1. AuthInv /\ [Next]_vars =>
        [(page.status = "authenticated" /\ page'.status = "anonymous")
           => page.token \notin live]_vars
  BY ClearedWhenRevoked
<1>2. QED
  BY <1>1, AuthInvariant, PTL DEF Spec, OnlyRevokedIdentityCleared
===============================================================================
