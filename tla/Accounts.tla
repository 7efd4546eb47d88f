------------------------------ MODULE Accounts ------------------------------
(***************************************************************************)
(* The account of a user, its sessions, and the tabs of one browser that   *)
(* use it: the handlers of app/users_service/service.py, the tokens of     *)
(* frontend/src/api/client.js and the forms of auth/session.js and         *)
(* account/profile.js.                                                     *)
(*                                                                         *)
(* A pair of tokens is known by its number, the place of the refresh token *)
(* in the table; the access token of the pair is not stored by the server  *)
(* and is good until it is in expired.  Passwords are numbered as they are *)
(* set.  A handler that reads before it writes is two steps, Check and     *)
(* Commit: other transactions can commit between them.                     *)
(***************************************************************************)
EXTENDS Naturals, Sequences, FiniteSets, Functions

CONSTANTS
  Tabs,         \* the tabs of the browser
  MaxTokens,    \* a bound on the pairs of tokens
  MaxCodes,     \* a bound on the reset codes
  MaxCommands,  \* a bound on the forms that are submitted
  MaxFailures   \* a bound on lost requests and answers, and on reloads

ASSUME AccountsAssumption ==
  /\ MaxTokens \in Nat \ {0}
  /\ {MaxCodes, MaxCommands, MaxFailures} \subseteq Nat

None == 0

Slots == {"background", "form"}

VARIABLES
  active,    \* the row of users exists
  password,  \* the number of the password in force
  tokens,    \* refresh_tokens
  codes,     \* password_reset_codes: "valid" or "used", oldest first
  recent,    \* the newest code is less than a minute old
  expired,   \* pairs whose access token has expired
  local,     \* the pair in localStorage
  session,   \* the pair in the sessionStorage of each tab
  screen,    \* what each tab shows
  ask,       \* what each tab is asking the server
  renew,     \* refreshPromise of each tab
  commands,  \* the forms submitted, in order
  failures,  \* failures that happened
  crossed    \* history: two requests that change tokens or codes overlapped

server == <<active, password, tokens, codes, recent>>
browser == <<local, session, screen>>
vars == <<server, expired, browser, ask, renew, commands, failures, crossed>>

Pairs == 1..MaxTokens

NoAsk == [what |-> "none", pc |-> "idle", pair |-> None, typed |-> None,
          remember |-> FALSE, again |-> FALSE, answer |-> "none", seen |-> {}]

NoRenewal == [pc |-> "idle", pair |-> None, answer |-> None]

(* A user who asked to be remembered opens the browser again.              *)
Init ==
  /\ active = TRUE /\ password = 1
  /\ tokens = <<[live |-> TRUE, family |-> 1, under |-> 1]>>
  /\ codes = <<>> /\ recent = FALSE
  /\ expired = {}
  /\ local = 1 /\ session = [t \in Tabs |-> None]
  /\ screen = [t \in Tabs |-> "auth"]
  /\ ask = [t \in Tabs |-> [s \in Slots |-> NoAsk]]
  /\ renew = [t \in Tabs |-> NoRenewal]
  /\ commands = <<>> /\ failures = 0 /\ crossed = FALSE

-----------------------------------------------------------------------------
(* client.js: the storages                                                 *)

(* getAccessToken and getRefreshToken.                                     *)
Stored(t) == IF session[t] # None THEN session[t] ELSE local

setTokens(t, pair, remember) ==
  /\ local' = IF remember THEN pair ELSE None
  /\ session' = [session EXCEPT ![t] = IF remember THEN None ELSE pair]

clearTokens(t) == local' = None /\ session' = [session EXCEPT ![t] = None]

rememberEnabled == local # None

(* What each request needs: a valid access token, or not.                  *)
Authorised == {"poll", "me", "patch", "delete"}

Fields(what, typed, remember) ==
  [NoAsk EXCEPT !.what = what, !.pc = "sent", !.typed = typed, !.remember = remember]

Ask(t, s, request) == ask' = [ask EXCEPT ![t][s] = [request EXCEPT !.pair = Stored(t)]]

Idle(t, s) == ask[t][s] = NoAsk

Finished(t, s) == ask' = [ask EXCEPT ![t][s] = NoAsk]

Answered(t, s, what) ==
  ask' = [ask EXCEPT ![t][s] = [@ EXCEPT !.pc = "answered", !.answer = what]]

-----------------------------------------------------------------------------
(* What the tabs do by themselves, and what their user does                *)

(* The page is loaded: restoreSession.                                     *)
Open(t) ==
  /\ screen[t] = "auth" /\ Idle(t, "form") /\ Stored(t) # None
  /\ Ask(t, "form", Fields("me", None, FALSE))
  /\ UNCHANGED <<server, expired, browser, renew, commands, failures>>

(* Polling, the history and the tiles ask again and again.                 *)
Poll(t) ==
  /\ screen[t] = "app" /\ Idle(t, "background")
  /\ Ask(t, "background", Fields("poll", None, FALSE))
  /\ UNCHANGED <<server, expired, browser, renew, commands, failures>>

(* The forms; one is open at a time in each tab and its button is disabled *)
(* while it is busy.  The password that is typed is the one in force.      *)
Forms(t) ==
  IF screen[t] = "auth"
  THEN {Fields("login", password, r) : r \in BOOLEAN}
         \union {Fields("register", password, FALSE), Fields("code", None, FALSE)}
         \union {Fields("reset", n, FALSE) : n \in 1..Len(codes)}
  ELSE {Fields("logout", None, FALSE), Fields("patch", password, FALSE),
        Fields("delete", password, FALSE)}

Submit(t) ==
  /\ Idle(t, "form") /\ Len(commands) < MaxCommands
  /\ \E f \in Forms(t) : Ask(t, "form", f) /\ commands' = Append(commands, f.what)
  /\ UNCHANGED <<server, expired, browser, renew, failures>>

-----------------------------------------------------------------------------
(* The server                                                              *)

Valid == {n \in 1..Len(codes) : codes[n] = "valid"}

(* get_current_user.                                                       *)
Recognised(pair) == pair # None /\ pair \notin expired

(* Mutant: the sessions are kept.                                          *)
RevokeNone(table) == table

(* _revoke_refresh_tokens.                                                 *)
RevokeAll(table) == [n \in DOMAIN table |-> [table[n] EXCEPT !.live = FALSE]]

(* _issue_tokens.  The family of a token begins with a login; the password *)
(* that was typed then is remembered.                                      *)
Issued(table, family, under) ==
  Append(table, [live |-> TRUE, family |-> family, under |-> under])

(* What the handler of a request looks at before it writes.                *)
Passes(a) ==
  CASE a.what = "register" -> ~active
    [] a.what = "login"    -> active /\ a.typed = password
    [] a.what = "code"     -> active /\ ~recent
    [] a.what = "reset"    -> active /\ a.typed \in Valid
    [] a.what \in {"patch", "delete"} -> a.typed = password
    [] OTHER -> TRUE

(* Wrong passwords and codes, and accounts that are gone, are no token     *)
(* errors for isAuthTokenError: only an access token that is missing or    *)
(* has expired leads to "denied".                                          *)
Check(t, s) ==
  LET a == ask[t][s]
  IN  /\ a.pc = "sent"
      /\ IF a.what \in Authorised /\ ~Recognised(a.pair) THEN Answered(t, s, "denied")
         ELSE IF ~Passes(a) \/ (a.what \in Authorised /\ ~active) THEN Answered(t, s, "error")
         ELSE IF a.what \in {"poll", "me"} THEN Answered(t, s, "ok")
         ELSE ask' = [ask EXCEPT ![t][s] = [@ EXCEPT !.pc = "checked", !.seen = Valid]]
      /\ UNCHANGED <<server, expired, browser, renew, commands, failures>>

(* register_user and login_user.                                           *)
CommitEntry(t, s) ==
  LET a == ask[t][s]
  IN  /\ a.pc = "checked" /\ a.what \in {"register", "login"}
      /\ IF (a.what = "register") = active
         THEN Answered(t, s, "error") /\ UNCHANGED <<active, tokens>>
         ELSE /\ Len(tokens) < MaxTokens
              /\ active' = TRUE
              /\ tokens' = Issued(tokens, Len(tokens) + 1, a.typed)
              /\ ask' = [ask EXCEPT ![t][s] = [@ EXCEPT !.pc = "answered", !.answer = "ok",
                                                        !.pair = Len(tokens) + 1]]
      /\ UNCHANGED <<password, codes, recent, expired, browser, renew, commands, failures>>

(* Mutant: a token is revoked by a refresh only.                           *)
CommitExitKeepsToken(t, s) ==
  /\ ask[t][s].pc = "checked" /\ ask[t][s].what = "logout"
  /\ Answered(t, s, "ok")
  /\ UNCHANGED <<server, expired, browser, renew, commands, failures>>

(* logout_user.                                                            *)
CommitExit(t, s) ==
  LET a == ask[t][s]
  IN  /\ a.pc = "checked" /\ a.what = "logout"
      /\ tokens' = IF a.pair = None THEN tokens ELSE [tokens EXCEPT ![a.pair].live = FALSE]
      /\ Answered(t, s, "ok")
      /\ UNCHANGED <<active, password, codes, recent, expired, browser, renew, commands, failures>>

(* Mutant: older codes keep working.                                       *)
WithoutCodesKept(S) == codes

WithoutCodes(S) == [n \in 1..Len(codes) |-> IF n \in S THEN "used" ELSE codes[n]]

(* request_password_reset: the UPDATE of the older codes sees those that   *)
(* were committed when it was begun, after the check.                      *)
CommitCode(t, s) ==
  /\ ask[t][s].pc = "checked" /\ ask[t][s].what = "code"
  /\ IF active
     THEN /\ Len(codes) < MaxCodes
          /\ \E S \in {ask[t][s].seen, Valid} : codes' = Append(WithoutCodes(S), "valid")
          /\ recent' = TRUE
          /\ Answered(t, s, "ok")
     ELSE Answered(t, s, "error") /\ UNCHANGED <<codes, recent>>
  /\ UNCHANGED <<active, password, tokens, expired, browser, renew, commands, failures>>

(* confirm_password_reset, and update_profile with a new password.         *)
CommitPassword(t, s) ==
  LET a == ask[t][s]
  IN  /\ a.pc = "checked" /\ a.what \in {"reset", "patch"}
      /\ IF active
         THEN /\ password' = password + 1
              /\ tokens' = RevokeAll(tokens)
              /\ codes' = IF a.what = "reset" THEN WithoutCodes({a.typed}) ELSE codes
              /\ Answered(t, s, "ok")
         ELSE Answered(t, s, "error") /\ UNCHANGED <<password, tokens, codes>>
      /\ UNCHANGED <<active, recent, expired, browser, renew, commands, failures>>

(* delete_account: tokens and codes go with the row.                       *)
CommitDelete(t, s) ==
  /\ ask[t][s].pc = "checked" /\ ask[t][s].what = "delete"
  /\ active' = FALSE
  /\ tokens' = RevokeAll(tokens)
  /\ codes' = WithoutCodes(Valid) /\ recent' = FALSE
  /\ Answered(t, s, "ok")
  /\ UNCHANGED <<password, expired, browser, renew, commands, failures>>

(* Mutant: a revoked token is not refused.                                 *)
RenewUnchecked(t) ==
  /\ renew[t].pc = "sent"
  /\ renew' = [renew EXCEPT ![t].pc = "checked"]
  /\ UNCHANGED <<server, expired, browser, ask, commands, failures>>

(* refresh_tokens: the SELECT ...                                          *)
RenewCheck(t) ==
  /\ renew[t].pc = "sent"
  /\ renew' = [renew EXCEPT ![t] =
       IF tokens[renew[t].pair].live THEN [@ EXCEPT !.pc = "checked"]
       ELSE [@ EXCEPT !.pc = "answered"]]
  /\ UNCHANGED <<server, expired, browser, ask, commands, failures>>

(* ... and the COMMIT, whatever became of the token meanwhile.             *)
RenewCommit(t) ==
  /\ renew[t].pc = "checked"
  /\ IF active
     THEN /\ Len(tokens) < MaxTokens
          /\ LET old == tokens[renew[t].pair]
            IN  tokens' = Issued([tokens EXCEPT ![renew[t].pair].live = FALSE],
                                 old.family, old.under)
          /\ renew' = [renew EXCEPT ![t] =
                         [@ EXCEPT !.pc = "answered", !.answer = Len(tokens) + 1]]
     ELSE /\ tokens' = tokens
          /\ renew' = [renew EXCEPT ![t].pc = "answered"]
  /\ UNCHANGED <<active, password, codes, recent, expired, browser, ask, commands, failures>>

-----------------------------------------------------------------------------
(* The client goes on with an answer                                       *)

(* rawFetch with a 401: the request waits for the refresh that is under    *)
(* way, or begins one.  It is repeated once.                               *)
Denied(t, s) ==
  LET a == ask[t][s]
  IN  /\ a.pc = "answered" /\ a.answer = "denied" /\ ~a.again
      /\ IF renew[t] = NoRenewal /\ Stored(t) = None
         THEN /\ clearTokens(t) /\ UNCHANGED <<screen, renew>>
              /\ ask' = [ask EXCEPT ![t][s].answer = "error"]
         ELSE /\ ask' = [ask EXCEPT ![t][s].pc = "waiting"]
              /\ renew' = IF renew[t] # NoRenewal THEN renew
                          ELSE [renew EXCEPT ![t] = [@ EXCEPT !.pc = "sent", !.pair = Stored(t)]]
              /\ UNCHANGED browser
      /\ UNCHANGED <<server, expired, commands, failures>>

(* The requests that waited for the refresh.                               *)
Woken(t, pair) ==
  ask' = [ask EXCEPT ![t] = [s \in Slots |->
    IF @[s].pc # "waiting" THEN @[s]
    ELSE IF pair = None THEN [@[s] EXCEPT !.pc = "answered", !.answer = "error"]
    ELSE [@[s] EXCEPT !.pc = "sent", !.pair = pair, !.answer = "none", !.again = TRUE]]]

(* Mutant: the new tokens are not stored.                                  *)
RenewedForgets(t) ==
  /\ renew[t].pc = "answered"
  /\ UNCHANGED <<local, session>>
  /\ Woken(t, renew[t].answer)
  /\ renew' = [renew EXCEPT ![t] = NoRenewal]
  /\ UNCHANGED <<server, expired, screen, commands, failures>>

(* refreshAccessToken: whatever went wrong, the tokens are cleared.        *)
Renewed(t) ==
  /\ renew[t].pc = "answered"
  /\ IF renew[t].answer = None THEN clearTokens(t)
     ELSE setTokens(t, renew[t].answer, rememberEnabled)
  /\ Woken(t, renew[t].answer)
  /\ renew' = [renew EXCEPT ![t] = NoRenewal]
  /\ UNCHANGED <<server, expired, screen, commands, failures>>

(* logoutNow, and the catch branches of the forms.                         *)
Leave(t) == clearTokens(t) /\ screen' = [screen EXCEPT ![t] = "auth"]

(* restoreSession, doLogin, doRegister, saveProfile, logoutNow and         *)
(* deleteAccount, after the await.                                         *)
Take(t, s) ==
  LET a == ask[t][s]
      ok == a.answer = "ok"
  IN  /\ a.pc = "answered" /\ (a.answer = "denied" => a.again)
      /\ CASE a.what = "me" ->
                /\ screen' = [screen EXCEPT ![t] = IF ok THEN "app" ELSE "auth"]
                /\ Finished(t, s) /\ UNCHANGED <<local, session>>
           [] a.what \in {"login", "register"} /\ ok ->
                /\ setTokens(t, a.pair, a.remember)
                /\ IF screen[t] = "app" THEN Finished(t, s)
                   ELSE ask' = [ask EXCEPT ![t][s] = [Fields("me", None, FALSE) EXCEPT !.pair = a.pair]]
                /\ UNCHANGED screen
           [] a.what = "patch" /\ ok ->
                /\ ask' = [ask EXCEPT ![t][s] = Fields("login", a.typed + 1, rememberEnabled)]
                /\ UNCHANGED browser
           [] a.what = "logout" /\ ~ok ->
                clearTokens(t) /\ Finished(t, s) /\ UNCHANGED screen
           [] a.what \in {"logout", "delete"} /\ ok -> Leave(t) /\ Finished(t, s)
           [] OTHER -> Finished(t, s) /\ UNCHANGED browser
      /\ UNCHANGED <<server, expired, renew, commands, failures>>

-----------------------------------------------------------------------------
(* Time and failures                                                       *)

Expire(pair) ==
  /\ pair \in 1..Len(tokens) /\ pair \notin expired
  /\ expired' = expired \union {pair}
  /\ UNCHANGED <<server, browser, ask, renew, commands, failures>>

Minute ==
  /\ recent /\ recent' = FALSE
  /\ UNCHANGED <<active, password, tokens, codes, expired, browser, ask, renew, commands, failures>>

Fail == failures < MaxFailures /\ failures' = failures + 1

(* A request or its answer is lost.                                        *)
Lose(t, s) ==
  /\ Fail /\ ask[t][s].pc \in {"sent", "answered"}
  /\ Answered(t, s, "error")
  /\ UNCHANGED <<server, expired, browser, renew, commands>>

LoseRenewal(t) ==
  /\ Fail /\ renew[t].pc \in {"sent", "answered"}
  /\ renew' = [renew EXCEPT ![t] = [@ EXCEPT !.pc = "answered", !.answer = None]]
  /\ UNCHANGED <<server, expired, browser, ask, commands>>

(* The tab is loaded again; sessionStorage survives.                       *)
Reload(t) ==
  /\ Fail /\ \A s \in Slots : ask[t][s].pc # "checked"
  /\ renew[t].pc # "checked"
  /\ screen' = [screen EXCEPT ![t] = "auth"]
  /\ ask' = [ask EXCEPT ![t] = [s \in Slots |-> NoAsk]]
  /\ renew' = [renew EXCEPT ![t] = NoRenewal]
  /\ UNCHANGED <<server, expired, local, session, commands>>

-----------------------------------------------------------------------------
(* A form of another tab, or a refresh of another tab or of a form that    *)
(* does not wait for it, is under way at the same time.                    *)
Changing(t) == ask[t]["form"].what # "me" /\ ask[t]["form"].pc \notin {"idle", "waiting"}

Crossing ==
  \E t, u \in Tabs :
    \/ renew[t] # NoRenewal /\ (Changing(u) \/ (t # u /\ renew[u] # NoRenewal))
    \/ (t # u /\ Changing(t) /\ Changing(u))

Client(t) ==
  \/ Open(t) \/ Poll(t) \/ Submit(t) \/ Renewed(t)
  \/ \E s \in Slots : Denied(t, s) \/ Take(t, s)

Handler(t) ==
  \/ RenewCheck(t) \/ RenewCommit(t)
  \/ \E s \in Slots :
       \/ Check(t, s) \/ CommitEntry(t, s) \/ CommitExit(t, s) \/ CommitCode(t, s)
       \/ CommitPassword(t, s) \/ CommitDelete(t, s)

Environment ==
  \/ Minute
  \/ \E pair \in Pairs : Expire(pair)
  \/ \E t \in Tabs : LoseRenewal(t) \/ Reload(t) \/ \E s \in Slots : Lose(t, s)

Next ==
  /\ \/ \E t \in Tabs : Client(t) \/ Handler(t)
     \/ Environment
  /\ crossed' = (crossed \/ Crossing')

Spec == Init /\ [][Next]_vars

-----------------------------------------------------------------------------
(* Properties                                                              *)

Family(f) == {n \in DOMAIN tokens : tokens[n].family = f /\ tokens[n].live}

Quiet(t) == renew[t] = NoRenewal /\ \A s \in Slots : Idle(t, s)

(* When no tab waits for anything, one that shows the application can renew *)
(* its session, however often the access token expires, in whichever tab   *)
(* it is renewed, and after a change of the password in any tab, as long   *)
(* as nobody logs in or out, no request fails and no refresh overlaps      *)
(* another one.                                                            *)
SessionIsKept ==
  \A t \in Tabs :
    /\ screen[t] = "app" /\ \A u \in Tabs : Quiet(u)
    /\ failures = 0 /\ ~crossed
    /\ Range(commands) \subseteq {"patch"}
    => Stored(t) # None /\ tokens[Stored(t)].live

(* A session that was ended by a logout, a new password or the end of the  *)
(* account is not renewed by any tab that still holds one of its tokens,   *)
(* unless a refresh was under way while it was ended.                      *)
EndedIsFinal ==
  [][\A n \in DOMAIN tokens :
       LET f == tokens[n].family
       IN  Family(f) = {} /\ ~crossed' => Family(f)' = {}]_vars

(* Once the server has answered a logout the whole session is over, also   *)
(* when its tokens were renewed many times before.                         *)
LogoutEndsSession ==
  \A t \in Tabs :
    LET a == ask[t]["form"]
    IN  /\ a.what = "logout" /\ a.answer = "ok" /\ a.pair # None
        /\ failures = 0 /\ ~crossed
        => Family(tokens[a.pair].family) = {}

(* "after a password change old refresh tokens must not work": a token     *)
(* that works belongs to a session that was begun with the password in     *)
(* force.                                                                  *)
OldTokensStopWorking ==
  ~crossed => \A n \in DOMAIN tokens : tokens[n].live => tokens[n].under = password

(* "Only the newest code is valid", unless two were requested at once.     *)
OnlyNewestCodeWorks == ~crossed => Valid \subseteq {Len(codes)}

=============================================================================
