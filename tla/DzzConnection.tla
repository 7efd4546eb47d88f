---------------------------- MODULE DzzConnection ----------------------------
(***************************************************************************)
(* The connection of one browser to the imagery of dzz.by: the session     *)
(* table of app/dzz_service/sessions.py and its file, the proxy handlers   *)
(* of app/dzz_service/service.py, and the client that polls them           *)
(* (frontend/src/dzz/panel.js, session.js and the retries of tiles.js).    *)
(*                                                                         *)
(* A request is sent with the cookie of that moment, served, and answered; *)
(* the client goes on with the answer later.  dzz.by itself is online,     *)
(* down, or refuses the stored credentials.                                *)
(***************************************************************************)
EXTENDS Naturals, FiniteSets

CONSTANTS
  Tiles,        \* the tile requests that can be under way
  Attempts,     \* how often dzzFetchResilient asks
  MaxSids,      \* a bound on the sessions
  MaxCommands,  \* a bound on what the user does
  MaxTurns      \* a bound on changes of dzz.by, expiries, restarts and losses

NoSid == 0
Sids == 1..MaxSids

Checks == {"check", "secondCheck"}
Single == {"status", "restore", "connect", "disconnect", "basemap"}
Calls == Single \union Checks \union Tiles

DzzAssumption ==
  /\ {Attempts, MaxSids} \subseteq Nat \ {0}
  /\ {MaxCommands, MaxTurns} \subseteq Nat
  /\ Tiles \intersect (Single \union Checks) = {}

VARIABLES
  sessions,  \* _SESSIONS of the running API process
  file,      \* the sessions in the file
  issued,    \* how many session ids were issued
  upstream,  \* dzz.by: "online", "down" or "denied"
  cookie,    \* dzz_sid of the browser
  client,    \* the variables of panel.js, tiles.js and urls.js; in missed, whether
             \* the panel took a failure for settled that tiles.js still counts
  calls,     \* the requests of the client
  commands,  \* what the user did so far
  turns      \* what else happened so far

server == <<sessions, file, issued, upstream>>
vars == <<server, cookie, client, calls, commands, turns>>

Idle == [pc |-> "idle", sid |-> NoSid, answer |-> "none", left |-> 0]

Init ==
  /\ sessions = {} /\ file = {} /\ issued = 0 /\ upstream = "online"
  /\ cookie = NoSid
  /\ client = [app |-> TRUE, polling |-> TRUE, basemap |-> "satellite", connected |-> FALSE,
               failing |-> FALSE, tilesFailing |-> FALSE, timer |-> FALSE,
               missed |-> FALSE]
  /\ calls = [n \in Calls |-> Idle]
  /\ commands = 0 /\ turns = 0

Free(n) == calls[n] = Idle
Answered(n) == calls[n].pc = "answered"

(* The calls, with n sent anew (left attempts remain) or finished.         *)
Sent(table, n, sid, left) == [table EXCEPT ![n] = [pc |-> "sent", sid |-> sid,
                                                   answer |-> "none", left |-> left]]

Joined(table, n, sid) == IF table[n] = Idle THEN Sent(table, n, sid, 0) ELSE table

Finished(table, n) == [table EXCEPT ![n] = Idle]

Waits(table, n, pc) == [table EXCEPT ![n].pc = pc]

-----------------------------------------------------------------------------
(* The server                                                              *)

(* get_session.                                                            *)
Known(sid) == sid \in sessions

(* put_session: an id that is still known is used again.                   *)
Token(sid) == IF Known(sid) THEN sid ELSE issued + 1

Reply(n, what) == calls' = [calls EXCEPT ![n] = [@ EXCEPT !.pc = "answered", !.answer = what]]

(* status_payload and health_payload.                                      *)
ServeStatus(n) ==
  /\ n \in {"status", "restore"} \union Checks
  /\ Reply(n, IF Known(calls[n].sid) /\ (n \in Checks => upstream = "online") THEN "yes" ELSE "no")
  /\ UNCHANGED <<sessions, file, issued>>

(* proxy_arcgis: no session and refused credentials are both a 401.        *)
ServeTile(t) ==
  /\ t \in Tiles
  /\ Reply(t, IF ~Known(calls[t].sid) \/ upstream = "denied" THEN "denied"
              ELSE IF upstream = "online" THEN "ok" ELSE "error")
  /\ UNCHANGED <<sessions, file, issued>>

(* connect: probe_dzz_service, then put_session.                           *)
ServeConnect(n) ==
  /\ n = "connect"
  /\ IF upstream = "online"
     THEN LET sid == Token(calls[n].sid)
          IN  /\ sid \in Sids
              /\ sessions' = sessions \union {sid} /\ file' = sessions'
              /\ issued' = IF sid > issued THEN sid ELSE issued
              /\ calls' = [calls EXCEPT ![n] = [@ EXCEPT !.pc = "answered", !.answer = "ok", !.sid = sid]]
     ELSE Reply(n, "error") /\ UNCHANGED <<sessions, file, issued>>

(* disconnect: delete_session.                                             *)
ServeDisconnect(n) ==
  /\ n = "disconnect"
  /\ sessions' = sessions \ {calls[n].sid}
  /\ file' = IF Known(calls[n].sid) THEN sessions' ELSE file
  /\ Reply(n, "ok")
  /\ UNCHANGED issued

Serve(n) ==
  /\ calls[n].pc = "sent"
  /\ ServeStatus(n) \/ ServeTile(n) \/ ServeConnect(n) \/ ServeDisconnect(n)
  /\ UNCHANGED <<upstream, cookie, client, commands, turns>>

-----------------------------------------------------------------------------
(* The panel and the tiles                                                 *)

(* scheduleRecoveryCheck and stopRecoveryChecks.                           *)
Scheduled(c) == [c EXCEPT !.timer = TRUE]
Stopped(c) == [c EXCEPT !.timer = FALSE, !.tilesFailing = FALSE,
                        !.missed = @ \/ (c.failing /\ c.tilesFailing)]

(* reportTiles and the listeners of initDzzRecovery: an event is only sent *)
(* when the outcome changes.                                               *)
Reported(c, ok, reason) ==
  IF ok = ~c.failing THEN c
  ELSE IF ok THEN LET d == [c EXCEPT !.failing = FALSE, !.missed = FALSE]
                  IN  IF c.tilesFailing THEN Stopped(d) ELSE d
  ELSE IF c.tilesFailing THEN [c EXCEPT !.failing = TRUE]
  ELSE IF reason = "session"
  THEN [c EXCEPT !.failing = TRUE, !.tilesFailing = TRUE, !.connected = FALSE]
  ELSE Scheduled([c EXCEPT !.failing = TRUE, !.tilesFailing = TRUE])

Connected(c, yes) == [c EXCEPT !.connected = yes,
                               !.missed = @ \/ (yes /\ ~c.connected /\ c.failing)]

Kept == UNCHANGED <<server, commands, turns>>

(* startDzzPolling: refreshDzzStatus, one at a time.                       *)
Poll ==
  /\ client.polling /\ Free("status")
  /\ calls' = Sent(calls, "status", cookie, 0)
  /\ UNCHANGED cookie /\ UNCHANGED client /\ Kept

(* Mutant: a lost connection is not taken over.                            *)
StatusOnlyConnects ==
  /\ Answered("status") /\ UNCHANGED cookie /\ Kept
  /\ calls' = Finished(calls, "status")
  /\ client' = IF calls["status"].answer = "yes" THEN Connected(client, TRUE) ELSE client

(* refreshDzzStatus; a connection that is news is looked up once more.     *)
StatusArrives ==
  /\ Answered("status") /\ UNCHANGED cookie /\ Kept
  /\ IF calls["status"].answer = "yes" /\ ~client.connected
     THEN /\ calls' = Joined(Waits(calls, "status", "confirming"), "restore", cookie)
          /\ UNCHANGED client
     ELSE /\ calls' = Finished(calls, "status")
          /\ client' = IF calls["status"].answer = "lost" THEN client
                       ELSE Connected(client, calls["status"].answer = "yes")

Restoring == {n \in Tiles : calls[n].pc = "restoring"}

(* restoreDzzSession, and everyone who waits for its promise: the tiles,   *)
(* the status and the saved basemap.                                       *)
RestoreArrives ==
  LET yes   == calls["restore"].answer = "yes"
      again == {t \in Restoring : yes /\ calls[t].left > 1}
      told  == IF calls["restore"].answer = "lost" THEN client ELSE Connected(client, yes)
      shown == IF calls["basemap"].pc = "idle" THEN told
               ELSE [told EXCEPT !.basemap = IF yes THEN "dzz" ELSE "satellite"]
      after == IF Restoring = again THEN shown
               ELSE Reported(shown, FALSE, IF yes THEN "network" ELSE "session")
      confirming == calls["status"].pc = "confirming"
  IN  /\ Answered("restore") /\ UNCHANGED cookie /\ Kept
      /\ client' = IF confirming THEN Connected(after, TRUE) ELSE after
      /\ calls' = [n \in Calls |->
           IF n \in again THEN [Idle EXCEPT !.pc = "sent", !.sid = cookie, !.left = calls[n].left - 1]
           ELSE IF n \in Restoring \union {"restore", "basemap"} \/ (n = "status" /\ confirming)
           THEN Idle
           ELSE calls[n]]

(* Tiles on the screen, the list of sites and snapshots.                   *)
Want(t) ==
  /\ client.basemap = "dzz" \/ client.connected
  /\ Free(t)
  /\ calls' = Sent(calls, t, cookie, Attempts)
  /\ UNCHANGED cookie /\ UNCHANGED client /\ Kept

(* dzzFetchResilient.                                                      *)
TileArrives(t) ==
  LET a == calls[t]
  IN  /\ Answered(t) /\ UNCHANGED cookie /\ Kept
      /\ \/ /\ a.answer = "ok"
            /\ calls' = Finished(calls, t)
            /\ client' = Reported(client, TRUE, "none")
         \/ /\ a.answer = "denied"
            /\ calls' = Joined(Waits(calls, t, "restoring"), "restore", cookie)
            /\ UNCHANGED client
         \/ /\ a.answer \in {"error", "lost"} /\ a.left > 1
            /\ calls' = Sent(calls, t, cookie, a.left - 1)
            /\ UNCHANGED client
         \/ /\ a.answer \in {"error", "lost"} /\ a.left = 1
            /\ calls' = Finished(calls, t)
            /\ client' = Reported(client, FALSE, "network")

(* The timer of scheduleRecoveryCheck.                                     *)
RecoveryFires ==
  /\ client.timer
  /\ client' = [client EXCEPT !.timer = FALSE]
  /\ IF client.tilesFailing /\ client.connected
     THEN \E k \in Checks : Free(k) /\ calls' = Sent(calls, k, cookie, 0)
     ELSE UNCHANGED calls
  /\ UNCHANGED cookie /\ Kept

(* Mutant: a check that gets no answer is the last one.                    *)
CheckGivesUp(k) ==
  /\ Answered(k) /\ UNCHANGED cookie /\ Kept
  /\ calls' = Finished(calls, k)
  /\ client' = CASE calls[k].answer = "yes"  -> Stopped(client)
                 [] calls[k].answer = "no"   -> Scheduled(client)
                 [] calls[k].answer = "lost" -> client

(* ... and what follows it: onDzzRecovered or the next check.              *)
CheckArrives(k) ==
  /\ Answered(k) /\ UNCHANGED cookie /\ Kept
  /\ calls' = Finished(calls, k)
  /\ client' = IF calls[k].answer = "yes" THEN Stopped(client) ELSE Scheduled(client)

(* testDzzAccess after the await.                                          *)
ConnectArrives ==
  /\ Answered("connect") /\ Kept
  /\ IF calls["connect"].answer = "ok"
     THEN /\ cookie' = calls["connect"].sid
          /\ client' = [Connected(client, TRUE) EXCEPT !.basemap = "dzz"]
          /\ calls' = Joined(Finished(calls, "connect"), "status", cookie')
     ELSE /\ client' = Connected(client, FALSE)
          /\ calls' = Finished(calls, "connect")
          /\ UNCHANGED cookie

(* disconnectDzz after the await; the satellite is shown once the status   *)
(* is known.                                                               *)
DisconnectArrives ==
  /\ Answered("disconnect") /\ Kept
  /\ IF calls["disconnect"].answer = "ok"
     THEN /\ cookie' = NoSid
          /\ client' = Stopped(Connected(client, FALSE))
          /\ calls' = Joined(Waits(calls, "disconnect", "closing"), "status", NoSid)
     ELSE /\ calls' = Finished(calls, "disconnect")
          /\ UNCHANGED <<cookie, client>>

Close ==
  /\ calls["disconnect"].pc = "closing" /\ Free("status")
  /\ client' = [client EXCEPT !.basemap = "satellite"]
  /\ calls' = Finished(calls, "disconnect")
  /\ UNCHANGED cookie /\ Kept

-----------------------------------------------------------------------------
(* The user, and the rest of the world                                     *)

Command(n) == n \in {"connect", "disconnect"} /\ Free(n) /\ client.app
              /\ calls' = Sent(calls, n, cookie, 0) /\ UNCHANGED client

(* onAppLogout; a status that is under way sets the next timer of the      *)
(* polling after it was stopped.                                           *)
Logout ==
  /\ client.app
  /\ client' = [Stopped(Connected(client, FALSE)) EXCEPT
                  !.app = FALSE, !.polling = ~Free("status")]
  /\ UNCHANGED calls

(* onAppReady; the basemap that was saved is dzz.by.                       *)
Login ==
  /\ ~client.app /\ Free("basemap")
  /\ client' = [client EXCEPT !.app = TRUE, !.polling = TRUE]
  /\ calls' = Joined(Waits(calls, "basemap", "restoring"), "restore", cookie)

User ==
  /\ commands < MaxCommands /\ commands' = commands + 1
  /\ Logout \/ Login \/ \E n \in Calls : Command(n)
  /\ UNCHANGED <<server, cookie, turns>>

(* The API starts again: load_dzz_sessions.  What it was serving is lost;  *)
(* when it was writing the file, so is the file.                           *)
Restart ==
  /\ \E torn \in BOOLEAN :
       /\ file' = IF torn /\ \E n \in {"connect", "disconnect"} : calls[n].pc = "sent" THEN {} ELSE file
       /\ sessions' = file'
  /\ calls' = [n \in Calls |-> IF calls[n].pc = "sent"
                               THEN [calls[n] EXCEPT !.pc = "answered", !.answer = "lost"] ELSE calls[n]]
  /\ UNCHANGED <<issued, upstream>>

(* A session is twelve hours old: neither the table nor the file keep it.  *)
Expire ==
  /\ \E sid \in sessions : sessions' = sessions \ {sid} /\ file' = file \ {sid}
  /\ UNCHANGED <<issued, upstream, calls>>

Turn ==
  /\ \E u \in {"online", "down", "denied"} \ {upstream} : upstream' = u
  /\ UNCHANGED <<sessions, file, issued, calls>>

Lose ==
  /\ \E n \in Calls : calls[n].pc \in {"sent", "answered"} /\ Reply(n, "lost")
  /\ UNCHANGED server

World ==
  /\ turns < MaxTurns /\ turns' = turns + 1
  /\ Restart \/ Expire \/ Turn \/ Lose
  /\ UNCHANGED <<cookie, client, commands>>

-----------------------------------------------------------------------------
Arrives ==
  \/ StatusArrives \/ RestoreArrives \/ ConnectArrives \/ DisconnectArrives \/ Close
  \/ RecoveryFires \/ \E k \in Checks : CheckArrives(k)
  \/ \E t \in Tiles : TileArrives(t)

Next == Poll \/ Arrives \/ (\E n \in Calls : Serve(n)) \/ (\E t \in Tiles : Want(t)) \/ User \/ World

(* Timers fire, the server answers and the event loop goes on.             *)
Fairness ==
  /\ WF_vars(Poll)
  /\ \A n \in Calls : WF_vars(Serve(n))
  /\ WF_vars(StatusArrives)
  /\ WF_vars(RestoreArrives)
  /\ WF_vars((ConnectArrives \/ DisconnectArrives))

Spec == Init /\ [][Next]_vars /\ Fairness

-----------------------------------------------------------------------------
(* Properties                                                              *)

(* "Tiles stopped loading: check dzz.by in the background": while tiles.js *)
(* counts a failure and the panel believes in the connection, a check is   *)
(* scheduled or under way, whatever answers are lost; unless the panel     *)
(* was told that all is well before tiles.js was.                          *)
FailureIsWatched ==
  client.failing /\ ~client.missed =>
    /\ client.tilesFailing \/ ~client.app
    /\ client.connected => client.timer \/ \E k \in Checks : ~Free(k)

(* Once nothing changes any more, the client and the server agree whether  *)
(* there is a connection: no answer that came late, no lost request, no    *)
(* refused login and no restart of the server leaves the panel wrong.      *)
PanelAgrees == <>[](client.app => client.connected = Known(cookie))

=============================================================================
